-------------------------- MODULE MCAndroidGpuSafety --------------------------
(***************************************************************************)
(* Devices for AndroidGpuSafety: no GPU, another one, the affected one,    *)
(* one that tells nothing, and the affected one beside another.            *)
(***************************************************************************)
EXTENDS AndroidGpuSafety

Other == [affected |-> FALSE, tells |-> TRUE]
Affected == [affected |-> TRUE, tells |-> TRUE]
Silent == [affected |-> TRUE, tells |-> FALSE]

MCDevices == {<<>>, <<Other>>, <<Affected>>, <<Silent>>, <<Other, Affected>>}
=============================================================================
