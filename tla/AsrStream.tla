------------------------------ MODULE AsrStream ------------------------------
(***************************************************************************)
(* What a streaming ASR session promises its caller, whatever the threads  *)
(* do (litert_lm_asr_bridge.h and docs/asr_bridge.md): the caller feeds a  *)
(* recording, receives its confirmed transcription piece by piece, each    *)
(* sample at most once, and a final result that either completes the       *)
(* recording or comes after a failure was reported.                        *)
(***************************************************************************)
EXTENDS Integers

CONSTANT StreamSamples  \* length of the recording

VARIABLES fed,        \* samples accepted so far
          closed,     \* the caller finished the recording
          cancelled,  \* the caller asked for cancellation
          delivered,  \* samples whose confirmed text the caller received
          faulted,    \* the caller was told of a failure
          ended       \* the caller received the final result

vars == <<fed, closed, cancelled, delivered, faulted, ended>>

Init ==
  /\ fed = 0 /\ delivered = {}
  /\ closed = FALSE /\ cancelled = FALSE /\ faulted = FALSE /\ ended = FALSE

\* Audio is accepted only while the stream is open.
Feed(n) ==
  /\ ~closed /\ ~cancelled /\ ~ended
  /\ fed' = fed + n
  /\ UNCHANGED <<closed, cancelled, delivered, faulted, ended>>

Close ==
  /\ ~closed /\ ~cancelled
  /\ closed' = TRUE
  /\ UNCHANGED <<fed, cancelled, delivered, faulted, ended>>

RequestCancel ==
  /\ cancelled' = TRUE
  /\ UNCHANGED <<fed, closed, delivered, faulted, ended>>

\* The text of the samples S reaches the caller, none of it a second time.
Deliver(S) ==
  /\ ~ended
  /\ S \subseteq (1 .. fed) \ delivered
  /\ delivered' = delivered \cup S
  /\ UNCHANGED <<fed, closed, cancelled, faulted, ended>>

ReportFailure ==
  /\ faulted' = TRUE
  /\ UNCHANGED <<fed, closed, cancelled, delivered, ended>>

\* The final result brings the rest of the text.
End(S) ==
  /\ ~ended /\ closed
  /\ S \subseteq (1 .. fed) \ delivered
  /\ delivered' = delivered \cup S
  /\ faulted \/ delivered' = 1 .. fed
  /\ ended' = TRUE
  /\ UNCHANGED <<fed, closed, cancelled, faulted>>

Restart ==
  /\ fed' = 0 /\ delivered' = {}
  /\ closed' = FALSE /\ cancelled' = FALSE /\ faulted' = FALSE /\ ended' = FALSE

Next ==
  \/ \E n \in 1 .. (StreamSamples - fed) : Feed(n)
  \/ Close
  \/ RequestCancel
  \/ \E S \in SUBSET (1 .. fed) : Deliver(S) \/ End(S)
  \/ ReportFailure
  \/ Restart

Spec == Init /\ [][Next]_vars
=============================================================================
