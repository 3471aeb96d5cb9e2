--------------------------- MODULE MCReleaseHistory ---------------------------
(***************************************************************************)
(* Instances of ReleaseHistory for TLC: two stable lines and a development *)
(* line, bases and rebuilds, with and without read-only tags.              *)
(***************************************************************************)
EXTENDS ReleaseHistory

Stable(line, rebuild) == [line |-> line, rebuild |-> rebuild, legacy |-> FALSE]
Legacy(line, rebuild) == [line |-> line, rebuild |-> rebuild, legacy |-> TRUE]
MCDevelopmentLine == 100
Development(rebuild) == Stable(MCDevelopmentLine, rebuild)

MCStableLines == {16, 17}
MCDevelopmentLines == {MCDevelopmentLine}

\* Two rebuilds of a line, the base of the next one, a rebuild of a commit.
MCCandidates ==
  {Stable(16, 1), Stable(16, 2), Stable(17, 0), Development(1)}

\* The newer line is another commit or a metadata-only tag of the same one, with
\* its archives or without.
MCCommits == {1, 2}
MCUpstreams ==
  {[l \in MCStableLines |->
      IF l = 16 THEN [commit |-> 1, complete |-> TRUE] ELSE newer] :
     newer \in [commit : MCCommits, complete : BOOLEAN]}

MCHistories ==
  {{Stable(16, 0)},
   {Stable(16, 0), Stable(17, 0), Development(0)},
   {Stable(16, 0), Legacy(16, 1), Development(0)},
   {Stable(16, 0), Stable(16, 1), Development(0)}}
=============================================================================
