--------------------------- MODULE AndroidGpuSafety ---------------------------
(***************************************************************************)
(* litert_lm_engine_create on Android: PrepareAndroidGpuSafety looks at    *)
(* the model and the GPU before the upstream engine is initialised, which  *)
(* can crash the device with one model on one driver.                      *)
(*                                                                         *)
(* The model is hashed through a descriptor while other processes may      *)
(* write the file, or put another one in its place; the engine is given    *)
(* the descriptor, not the path.  A file is its size, right or wrong for   *)
(* the fixture, and its pages, each equal to the fixture's or not.         *)
(***************************************************************************)
EXTENDS Naturals, Sequences

CONSTANTS Files,      \* what the path may name
          NumPages,   \* the fixture is this long, in reads
          Devices,    \* sequences of GPUs, one for each device
          MaxChanges  \* bound: writes to a file by others

\* Whether a GPU has the driver that crashes, and whether it tells what it is.
Gpu == [affected : BOOLEAN, tells : BOOLEAN]

ASSUME GpuSafetyConfig ==
  NumPages \in Nat \ {0} /\ Devices \subseteq Seq(Gpu) /\ MaxChanges \in Nat

VARIABLES
  disk,      \* the files
  named,     \* the file the path names
  gpus,      \* the GPUs of the device
  assets,    \* how the model is given: "path", "mapped" or "stream"
  backend,   \* "GPU" or another one
  at,        \* position in the call
  pinned,    \* the file behind the descriptor or the mapping
  before,    \* what the first fstat said of it
  seen,      \* the pages hashed so far, whether each was the fixture's
  identity,  \* FixtureIdentity
  loaded,    \* what the engine was initialised with
  failed,    \* a call of the operating system or of Vulkan has failed

  \* For the properties only.
  looked     \* the file as the last look at its time or its size found it

gpuVars == <<disk, named, gpus, assets, backend, at, pinned, before, seen,
             identity, loaded, failed, looked>>

Pages == 1 .. NumPages
File == [sized : BOOLEAN, page : [Pages -> BOOLEAN], stamp : 0 .. MaxChanges]

IsFixture(file) == file.sized /\ \A p \in Pages : file.page[p]
NoFile == [sized |-> FALSE, page |-> [p \in Pages |-> FALSE], stamp |-> 0]
NoGpu == [complete |-> FALSE, devices |-> <<>>]

-----------------------------------------------------------------------------
GpuInit ==
  /\ disk \in [Files -> {f \in File : f.stamp = 0}]
  /\ named \in Files
  /\ gpus \in Devices
  /\ assets \in {"path", "mapped", "stream"}
  /\ backend \in {"GPU", "CPU"}
  /\ at = "start"
  /\ pinned = named
  /\ before = NoFile
  /\ seen = <<>>
  /\ identity = "unreadable"
  /\ loaded = NoFile
  /\ failed = FALSE
  /\ looked = NoFile

\* The call returns an error and no engine is initialised.
Refuse ==
  /\ at' = "refused"
  /\ UNCHANGED <<disk, named, gpus, assets, backend, pinned, before, seen,
                 identity, loaded, looked>>

Fails == failed' = TRUE /\ Refuse

\* Only the GPU is guarded; a stream cannot be looked at.
Begin ==
  /\ at = "start"
  /\ \/ /\ backend # "GPU"
        /\ at' = "load"
        /\ UNCHANGED <<disk, named, gpus, assets, backend, pinned, before, seen,
                       identity, loaded, failed, looked>>
     \/ backend = "GPU" /\ assets = "stream" /\ Refuse /\ UNCHANGED failed
     \/ /\ backend = "GPU" /\ assets # "stream"
        /\ at' = "stat"
        /\ pinned' = IF assets = "path" THEN named ELSE pinned
        /\ UNCHANGED <<disk, named, gpus, assets, backend, before, seen,
                       identity, loaded, failed, looked>>
     \/ backend = "GPU" /\ assets # "stream" /\ Fails

Identified(as) ==
  /\ identity' = as
  /\ at' = "decide"
  /\ UNCHANGED <<disk, named, gpus, assets, backend, pinned, seen, loaded>>

\* The first fstat, or the size of the mapping.
StatBefore ==
  /\ at = "stat"
  /\ before' = disk[pinned]
  /\ looked' = disk[pinned]
  /\ \/ /\ disk[pinned].sized
        /\ at' = "hash"
        /\ UNCHANGED <<disk, named, gpus, assets, backend, pinned, seen,
                       identity, loaded, failed>>
     \/ ~disk[pinned].sized /\ Identified("other") /\ UNCHANGED failed
     \/ assets = "path" /\ failed' = TRUE /\ Identified("unreadable")

\* One pread.  A file that has become shorter may have nothing left to read.
HashPage ==
  /\ at = "hash" /\ Len(seen) < NumPages
  /\ \/ /\ seen' = Append(seen, disk[pinned].page[Len(seen) + 1])
        /\ UNCHANGED <<disk, named, gpus, assets, backend, at, pinned, before,
                       identity, loaded, failed, looked>>
     \/ /\ assets = "path"
        /\ failed' = (failed \/ disk[pinned].sized)
        /\ Identified("unreadable") /\ UNCHANGED <<before, looked>>

\* Mutant: a model of the size of the fixture is the fixture.
IdentityOfSize == "qwen3"

IdentityOfDigest == IF \A p \in Pages : seen[p] THEN "qwen3" ELSE "other"

\* Mutant: the second fstat is compared with nothing.
StatAfterOfAnyTime ==
  /\ at = "hash" /\ Len(seen) = NumPages
  /\ looked' = IF assets = "path" THEN disk[pinned] ELSE looked
  /\ UNCHANGED <<before, failed>>
  /\ Identified(IdentityOfDigest)

\* The second fstat: a file that was written meanwhile has no identity.  There is
\* none for a mapping.
StatAfter ==
  /\ at = "hash" /\ Len(seen) = NumPages
  /\ looked' = IF assets = "path" THEN disk[pinned] ELSE looked
  /\ UNCHANGED before
  /\ \/ assets = "path" /\ disk[pinned].stamp # before.stamp
        /\ Identified("unreadable") /\ UNCHANGED failed
     \/ assets = "path" /\ failed' = TRUE /\ Identified("unreadable")
     \/ /\ assets = "mapped" \/ disk[pinned].stamp = before.stamp
        /\ Identified(IdentityOfDigest) /\ UNCHANGED failed

-----------------------------------------------------------------------------
\* Qwen3GpuRestriction: safe is what is not the fixture, or runs on the one GPU
\* there is, which told everything and is not the affected one.
Restricted(probe) ==
  \/ identity = "unreadable"
  \/ /\ identity = "qwen3"
     /\ \/ ~probe.complete
        \/ Len(probe.devices) # 1
        \/ \E d \in 1 .. Len(probe.devices) :
             ~probe.devices[d].tells \/ probe.devices[d].affected

\* ProbeAndroidVulkanFacts, asked for the fixture only.  No library, no instance
\* or no device: nothing is known.
Probes == IF identity # "qwen3" THEN {NoGpu}
          ELSE {NoGpu} \cup {p \in {[complete |-> TRUE, devices |-> gpus]} : gpus # <<>>}

Decide ==
  /\ at = "decide"
  /\ \E probe \in Probes :
       /\ failed' = (failed \/ (identity = "qwen3" /\ ~probe.complete))
       /\ \/ Restricted(probe) /\ Refuse
          \/ /\ ~Restricted(probe)
             /\ at' = "load"
             /\ UNCHANGED <<disk, named, gpus, assets, backend, pinned, before,
                            seen, identity, loaded, looked>>

\* The settings cannot be given the descriptor.
PinFails == at = "decide" /\ assets = "path" /\ Fails

\* EngineFactory::CreateDefault with the guarded copy of the settings.
Load ==
  /\ at = "load"
  /\ loaded' = IF assets = "path" /\ backend # "GPU" THEN disk[named] ELSE disk[pinned]
  /\ at' = "running"
  /\ UNCHANGED <<disk, named, gpus, assets, backend, pinned, before, seen,
                 identity, failed, looked>>

-----------------------------------------------------------------------------
\* Somebody writes a file, in place: each write leaves another time.
Write(f) ==
  /\ at \notin {"running", "refused"}
  /\ disk[f].stamp < MaxChanges
  /\ \E file \in File, p \in Pages :
       /\ file.stamp = disk[f].stamp + 1
       /\ \A q \in Pages \ {p} : file.page[q] = disk[f].page[q]
       /\ disk' = [disk EXCEPT ![f] = file]
  /\ UNCHANGED <<named, gpus, assets, backend, at, pinned, before, seen,
                 identity, loaded, failed, looked>>

\* Somebody renames another file over the path.
Replace(f) ==
  /\ at \notin {"running", "refused"}
  /\ named # f
  /\ named' = f
  /\ UNCHANGED <<disk, gpus, assets, backend, at, pinned, before, seen,
                 identity, loaded, failed, looked>>

GpuNext ==
  \/ Begin \/ StatBefore \/ HashPage \/ StatAfter \/ PinFails \/ Decide
  \/ Load
  \/ \E f \in Files : Write(f) \/ Replace(f)

GpuSpec == GpuInit /\ [][GpuNext]_gpuVars

-----------------------------------------------------------------------------
(***************************************************************************)
(* Properties.                                                             *)
(***************************************************************************)

\* The engine never starts on the GPU with the fixture where the affected driver
\* may be the one selected, whatever is renamed over the path and whatever is
\* written while the file is hashed.  Only what is written in place after the last
\* look is loaded as it was not seen: after the second fstat or, for a file of
\* another size, the only one; a mapping is looked at once, when its size is
\* taken ("a readable immutable model").
UnsafeModelNeverStarts ==
  at = "running" /\ backend = "GPU" /\ IsFixture(loaded)
  /\ (\E g \in DOMAIN gpus : gpus[g].affected) =>
       /\ loaded = disk[pinned]
       /\ loaded.stamp > looked.stamp

\* The restriction is narrow: an engine is refused for the fixture where its GPU
\* is not known to be another one, for a model that cannot be read or that
\* changed under the reader, and for nothing else.
RefusalsHaveAReason ==
  at = "refused" =>
    /\ backend = "GPU"
    /\ \/ assets = "stream" \/ failed
       \/ disk[pinned].stamp > before.stamp
       \/ IsFixture(disk[pinned])
          /\ ~\E g \in Gpu : gpus = <<g>> /\ g.tells /\ ~g.affected
=============================================================================
