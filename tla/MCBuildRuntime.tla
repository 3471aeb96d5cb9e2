---------------------------- MODULE MCBuildRuntime ----------------------------
(***************************************************************************)
(* Instance of BuildRuntime: the releases around every decision, two       *)
(* bundles in which every copy of a library needs the same, and one in     *)
(* which it depends on where the copy came from.                           *)
(***************************************************************************)
EXTENDS BuildRuntime

MCLibs == {"host", "core", "dawn", "topk", "provider", "vcrt"}

\* Every copy of the host needs the core, every copy of the core the library l.
Through(l) == [m \in MCLibs |-> [k \in Kinds |->
  CASE m = "host" -> {"core"} [] m = "core" -> {l} [] OTHER -> {}]]

\* The core of another release needs the provider, Bazel's needs Dawn and the
\* upstream one both; the pinned Dawn needs the provider.
Mixed == [m \in MCLibs |-> [k \in Kinds |->
  CASE m = "host" -> {"core"}
    [] m = "core" /\ k = "stale" -> {"provider"}
    [] m = "core" /\ k = "prebuilt" -> {"dawn", "provider"}
    [] m = "core" -> {"dawn"}
    [] m = "dawn" /\ k = "pinned" -> {"provider"}
    [] OTHER -> {}]]
MCGraphs == {Through("dawn"), Through("vcrt"), Mixed}
MCLeftovers == {{}, {"core", "provider"}}
=============================================================================
