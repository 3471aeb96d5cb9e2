----------------------------- MODULE VerifiedCache -----------------------------
(***************************************************************************)
(* What a script that fetches a file promises (tools/download_utils.py and *)
(* its callers): whatever happens to the network, to a worker or to the    *)
(* script itself, the file holds what was there before or bytes that were  *)
(* accepted; success is reported only over accepted bytes, and a failure   *)
(* changes nothing.                                                        *)
(***************************************************************************)
VARIABLES cache,    \* what the destination holds
          report,   \* "none" while a run is under way, then "ok" or "failed"
          accepts   \* the contents the caller may accept: never changes

Spec ==
  /\ report = "none"
  /\ [][ /\ accepts' = accepts
         /\ cache' # cache => cache' \in accepts /\ report = "none"
         /\ report' = "ok" => cache' \in accepts
         /\ report' = "failed" => cache' = cache
         /\ report' = "none" => report = "none" \/ cache' = cache
       ]_<<cache, report, accepts>>
=============================================================================
