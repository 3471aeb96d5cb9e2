---------------------------- MODULE SourcePatches ----------------------------
(***************************************************************************)
(* The patches the repository carries on the upstream sources              *)
(* (tools/*_patch.py), each with the decision recorded for every upstream  *)
(* release: it applies to the audited ones, earlier releases predate it,   *)
(* upstream fixed it in others, and anything else is refused until someone *)
(* decides.  A release v0.M.P is the number 100 * M + P.                    *)
(***************************************************************************)
EXTENDS Integers

\* audited: the releases it applies to; fixed: those upstream repaired;
\* before: the first release it concerns; files: how many sources it changes.
Overlap   == [audited |-> {1800, 1801, 1900}, fixed |-> {}, before |-> 1800, files |-> 1]

Container == [audited |-> {1800, 1801}, fixed |-> {1900}, before |-> 1800, files |-> 3]

Finish    == [audited |-> {1800, 1801, 1900}, fixed |-> {}, before |-> 1800, files |-> 6]

Token     == [audited |-> {1900}, fixed |-> {}, before |-> 1900, files |-> 6]

Safety    == [audited |-> {1900}, fixed |-> {}, before |-> 1900, files |-> 2]

Workspace == [audited |-> {1801}, fixed |-> {1900}, before |-> 1801, files |-> 2]

Pf32      == [audited |-> {1801, 1900}, fixed |-> {}, before |-> 1801, files |-> 4]

Qc4w      == [audited |-> {1801, 1900}, fixed |-> {}, before |-> 1801, files |-> 1]

Cpu       == [audited |-> {1801}, fixed |-> {1900}, before |-> 1801, files |-> 1]

Patch == [overlap |-> Overlap, container |-> Container, finish |-> Finish,
          token |-> Token, safety |-> Safety, workspace |-> Workspace,
          pf32 |-> Pf32, qc4w |-> Qc4w, cpu |-> Cpu]
Patches == DOMAIN Patch

\* The patches to files of the upstream tree, in the order build_runtime applies
\* them; the others are edits of the WORKSPACE and patches Bazel applies to the
\* archives the WORKSPACE names.
TreePatches == <<"overlap", "container", "finish", "token", "safety">>

Decision(p, tag) ==
  IF tag < Patch[p].before \/ tag \in Patch[p].fixed THEN "skip"
  ELSE IF tag \in Patch[p].audited THEN "apply" ELSE "refuse"

Carries(p, tag) == Decision(p, tag) = "apply"

\* The manifest entries of one patch: one per changed source.
Entries(p, tag) ==
  {<<p, k>> : k \in IF Carries(p, tag) THEN 1..Patch[p].files ELSE {}}

\* The sourcePatches of a release manifest.
Manifest(tag) == UNION {Entries(p, tag) : p \in Patches}
=============================================================================
