------------------------- MODULE FetchAndBuild_proofs -------------------------
(***************************************************************************)
(* Proofs about what the release scripts fetch and what the build driver   *)
(* makes of it: Downloader, for any number of runs, attempts and clocks,   *)
(* and BuildRuntime, for any releases, platforms, libraries and dependency *)
(* graphs.                                                                 *)
(*                                                                         *)
(* Downloader: a supervised worker, even one that outlives its caller,     *)
(* only writes into the temporary directory of its own run; every other    *)
(* caller is the only writer.  So what a caller finds when it promotes is  *)
(* what its own transfer accepted.                                         *)
(*                                                                         *)
(* BuildRuntime: each check is a fact about the tree, the WORKSPACE or the *)
(* host that no later step of the run undoes, and a run that was killed    *)
(* only ever left whole patches, or parts that stop the next run; the      *)
(* dependency walk keeps what it has seen closed under "needs" but for     *)
(* what it has still to see.                                               *)
(***************************************************************************)
EXTENDS Downloader, BuildRuntime, TLAPS

-----------------------------------------------------------------------------
(***************************************************************************)
(* Downloader: the inductive invariant.                                    *)
(***************************************************************************)
TransferPositions ==
  {"off", "spawned", "attempt", "waiting", "reading", "received", "sleeping"} \cup Ended

CallerPositions ==
  {"idle", "dead", "calling", "promote", "verify", "derive", "store"} \cup Finished

Transfers ==
  [pc : TransferPositions, attempt : Nat \ {0}, left : Int, nap : Int]

\* A transfer that can still write.
Writing(r) == xfer[r].pc \notin Ended \cup {"off"}

\* The types; a caller that is not idle has been started.
TypeOK ==
  /\ job \in Jobs /\ caller \in CallerPositions
  /\ run \in 0 .. MaxRuns /\ (caller # "idle" => run # 0)
  /\ xfer \in [Runs -> Transfers]
  /\ file \in [Paths -> Contents] /\ part \in [Paths -> Contents]

\* Nothing of a run that has not begun exists.
FutureIsUntouched ==
  \A r \in Runs : r > run =>
    xfer[r].pc = "off" /\ part[Work(r)] = "none" /\ file[Work(r)] = "none"

\* A supervised call: workers write only into the directory of their own run, what
\* is accepted there is the pinned asset, and a derived file being written comes
\* from a good one.
SupervisedInv ==
  /\ caller # "verify"
  /\ part[Dest] = "none" /\ part[Staged] = "none" /\ file[Staged] = "none"
  /\ \A r \in Runs :
       /\ file[Work(r)] \in {"none", "good"}
       /\ ~Writing(r) => part[Work(r)] = "none"
  /\ caller \in {"promote", "derive", "store"} \cup Finished => ~Writing(run)
  /\ caller = "promote" => file[Work(run)] = "good"
  /\ caller \in {"derive", "store"} \cup Finished => file[Work(run)] = "none"
  /\ caller \in {"derive", "store", "ok"} => file[Dest] = "good"
  /\ part[Derived] # "none" =>
       /\ part[Derived] = "good" /\ file[Dest] = "good" /\ file[Derived] # "good"
       /\ caller \in {"derive", "store", "dead"}

\* A call that transfers itself: one transfer at a time, nothing in the
\* directories of workers, and no partial file once the call is over.
OwnInv ==
  /\ caller \notin {"promote", "derive", "store"}
  /\ part[Derived] = "none"
  /\ \A r \in Runs :
       /\ part[Work(r)] = "none" /\ file[Work(r)] = "none"
       /\ xfer[r].pc # "spawned"
  /\ caller \in {"verify"} \cup Finished => ~Writing(run)
  /\ caller = "calling" /\ xfer[run].pc \in Ended => part[Target(run)] = "none"
  /\ caller \in {"verify"} \cup Finished => part[Staged] = "none" /\ part[Dest] = "none"
  /\ caller \in Finished => file[Staged] = "none"

\* A caller that verifies a staged file: the destination is only written from it,
\* and for an LFS object a good destination ends the matter.
StagingInv ==
  /\ part[Dest] = "none"
  /\ caller = "calling" /\ xfer[run].pc # "ok" => file[Staged] = "none"
  /\ caller = "ok" => file[Dest] = "good"
  /\ job = "lfs" =>
       /\ file[Dest] \in {"old", "good"}
       /\ file[Dest] = "good" =>
            /\ part[Staged] = "none" /\ file[Staged] = "none"
            /\ caller \notin {"calling", "verify"}

\* The archives carry no digest: what is accepted is a complete answer.
ArchiveInv ==
  /\ part[Staged] = "none" /\ file[Staged] = "none" /\ caller # "verify"
  /\ caller = "calling" /\ xfer[run].pc = "received" => part[Dest] \in {"good", "bad"}
  /\ caller = "calling" /\ xfer[run].pc = "ok" => file[Dest] \in {"good", "bad"}
  /\ caller = "ok" => file[Dest] \in {"good", "bad"}

DownloadInv ==
  /\ TypeOK
  /\ FutureIsUntouched
  /\ Supervised => SupervisedInv
  /\ ~Supervised => OwnInv
  /\ Stages => StagingInv
  /\ job = "archive" => ArchiveInv

-----------------------------------------------------------------------------
\* The paths are distinct.
LEMMA PathFacts ==
  /\ Dest \in Paths /\ Staged \in Paths /\ Derived \in Paths
  /\ Dest # Staged /\ Dest # Derived /\ Staged # Derived
  /\ \A r \in Runs : /\ Work(r) \in Paths
                    /\ Work(r) # Dest /\ Work(r) # Staged /\ Work(r) # Derived
                    /\ \A s \in Runs : Work(r) = Work(s) => r = s
BY DEF Paths, Dest, Staged, Derived, Work

\* The transfer r moves to position v, and no other transfer is touched.
Moves(r, v) ==
  /\ xfer' \in [Runs -> Transfers] /\ xfer'[r].pc = v
  /\ \A s \in Runs \ {r} : xfer'[s] = xfer[s]

LEMMA MoveFacts ==
  ASSUME xfer \in [Runs -> Transfers], NEW r \in Runs, NEW v \in TransferPositions,
         xfer' = [xfer EXCEPT ![r].pc = v]
  PROVE  Moves(r, v)
BY DEF Moves, Transfers

LEMMA EndFacts ==
  ASSUME xfer \in [Runs -> Transfers], NEW r \in Runs, NEW v \in Ended, End(r, v)
  PROVE  Moves(r, v) /\ part' = [part EXCEPT ![Target(r)] = "none"]
BY MoveFacts DEF End, TransferPositions

LEMMA RetryFacts ==
  ASSUME xfer \in [Runs -> Transfers], NEW r \in Runs,
         NEW after \in RetryAfters \cup {Absent}, Retry(r, after)
  PROVE  \/ Moves(r, "failed") /\ part' = [part EXCEPT ![Target(r)] = "none"]
         \/ Moves(r, "sleeping") /\ part' = part
<1> DEFINE delay == RetryDelay(after, xfer[r].attempt)
<1>1. CASE End(r, "failed")
  BY <1>1, EndFacts DEF Ended
<1>2. CASE xfer' = [xfer EXCEPT ![r].pc = "sleeping", ![r].nap = delay] /\ UNCHANGED part
  <2>1. delay \in Int
    <3>1. xfer[r].attempt - 1 \in Nat
      BY DEF Transfers
    <3>2. 2^(xfer[r].attempt - 1) \in Int
      BY <3>1
    <3>. QED  BY <3>2, DownloadConfig DEF RetryDelay, Min2, Absent
  <2>. QED  BY <1>2, <2>1 DEF Moves, Transfers, TransferPositions
<1>. QED  BY <1>1, <1>2 DEF Retry

\* What every step of a transfer has in common: it moves itself, writes its own
\* partial file, and replaces its target when it ends well.
TransferMoves(r, v) ==
  /\ Moves(r, v)
  /\ v = "received" => part'[Target(r)] \in {"good", "bad"}
  /\ v \in Ended => part'[Target(r)] = "none"
  /\ v # "ok" => file' = file
  /\ v = "ok" => /\ file' = [file EXCEPT ![Target(r)] = part[Target(r)]]
                 /\ xfer[r].pc = "received"
                 /\ Pinned => part[Target(r)] = "good"
  /\ part' \in [Paths -> Contents]
  /\ \A p \in Paths \ {Target(r)} : part'[p] = part[p]

TransferEffect(r) ==
  \E v \in TransferPositions \ {"off", "spawned"} : TransferMoves(r, v)

LEMMA TransferFacts ==
  ASSUME TypeOK, NEW r \in Runs, TransferStep(r)
  PROVE  /\ TransferEffect(r) /\ Writing(r) /\ UNCHANGED <<job, caller, run>>
         /\ Alive(r) \/ xfer[r].pc = "spawned"
<1>1. /\ xfer \in [Runs -> Transfers] /\ part \in [Paths -> Contents]
      /\ Target(r) \in Paths
  BY PathFacts DEF TypeOK, Target
<1>2. /\ Writing(r) /\ UNCHANGED <<job, caller, run>>
      /\ Alive(r) \/ xfer[r].pc = "spawned"
  BY DEF TransferStep, WorkerStarts, Request, Refused, Responds, BreaksOff, Received,
     Accept, WakesUp, Writing, Ended
<1>3. ASSUME NEW c \in Contents, part' = [part EXCEPT ![Target(r)] = c]
      PROVE  /\ part' \in [Paths -> Contents] /\ part'[Target(r)] = c
             /\ \A p \in Paths \ {Target(r)} : part'[p] = part[p]
  BY <1>1, <1>3
<1>4. ASSUME part' = part
      PROVE  /\ part' \in [Paths -> Contents]
             /\ \A p \in Paths \ {Target(r)} : part'[p] = part[p]
  BY <1>1, <1>4
<1>5. "none" \in Contents /\ "prefix" \in Contents /\ "good" \in Contents /\ "bad" \in Contents
  BY DEF Contents
<1> SUFFICES TransferEffect(r)
  BY <1>2
<1>6. ASSUME End(r, "failed"), file' = file PROVE TransferEffect(r)
  <2>1. Moves(r, "failed") /\ part' = [part EXCEPT ![Target(r)] = "none"]
    BY <1>1, <1>6, EndFacts DEF Ended
  <2>2. TransferMoves(r, "failed")
    BY <1>3, <1>5, <1>6, <2>1 DEF TransferMoves
  <2>. QED  BY <2>2 DEF TransferEffect, TransferPositions, Ended
<1>7. ASSUME NEW after \in RetryAfters \cup {Absent}, Retry(r, after), file' = file
      PROVE  TransferEffect(r)
  <2>1. CASE Moves(r, "failed") /\ part' = [part EXCEPT ![Target(r)] = "none"]
    <3>1. TransferMoves(r, "failed")
      BY <1>3, <1>5, <1>7, <2>1 DEF TransferMoves
    <3>. QED  BY <3>1 DEF TransferEffect, TransferPositions, Ended
  <2>2. CASE Moves(r, "sleeping") /\ part' = part
    <3>1. TransferMoves(r, "sleeping")
      BY <1>4, <1>7, <2>2 DEF TransferMoves, Ended
    <3>. QED  BY <3>1 DEF TransferEffect, TransferPositions
  <2>. QED  BY <1>1, <1>7, <2>1, <2>2, RetryFacts
<1>8. CASE WorkerStarts(r)
  <2>1. Moves(r, "attempt")
    <3>1. xfer' = [xfer EXCEPT ![r].pc = "attempt", ![r].left = Deadline] /\ Deadline \in Int
      BY <1>8, DownloadConfig DEF WorkerStarts
    <3>. QED  BY <1>1, <3>1 DEF Moves, Transfers, TransferPositions
  <2>2. TransferMoves(r, "attempt")
    BY <1>4, <1>8, <2>1 DEF WorkerStarts, TransferMoves, Ended
  <2>. QED  BY <2>2 DEF TransferEffect, TransferPositions
<1>9. CASE Request(r)
  <2>1. CASE End(r, "failed")
    BY <1>6, <1>9, <2>1 DEF Request
  <2>2. CASE xfer' = [xfer EXCEPT ![r].pc = "waiting"] /\ part' = [part EXCEPT ![Target(r)] = "none"]
    <3>1. Moves(r, "waiting")
      BY <1>1, <2>2, MoveFacts DEF TransferPositions
    <3>2. TransferMoves(r, "waiting")
      BY <1>3, <1>5, <1>9, <2>2, <3>1 DEF Request, TransferMoves, Ended
    <3>. QED  BY <3>2 DEF TransferEffect, TransferPositions
  <2>. QED  BY <1>9, <2>1, <2>2 DEF Request
<1>10. CASE Refused(r)
  BY <1>6, <1>7, <1>10 DEF Refused
<1>11. CASE Responds(r)
  <2>1. Moves(r, "reading")
    BY <1>1, <1>11, MoveFacts DEF Responds, TransferPositions
  <2>2. TransferMoves(r, "reading")
    BY <1>3, <1>5, <1>11, <2>1 DEF Responds, TransferMoves, Ended
  <2>. QED  BY <2>2 DEF TransferEffect, TransferPositions
<1>12. CASE BreaksOff(r)
  BY <1>6, <1>7, <1>12 DEF BreaksOff
<1>13. CASE Received(r)
  <2>1. Moves(r, "received")
    BY <1>1, <1>13, MoveFacts DEF Received, TransferPositions
  <2>2. PICK body \in {"good", "bad"} : part' = [part EXCEPT ![Target(r)] = body]
    BY <1>13 DEF Received
  <2>3. body \in Contents
    BY <1>5
  <2>4. TransferMoves(r, "received")
    BY <1>3, <1>13, <2>1, <2>2, <2>3 DEF Received, TransferMoves, Ended
  <2>. QED  BY <2>4 DEF TransferEffect, TransferPositions
<1>14. CASE Accept(r)
  <2>1. CASE Retry(r, Absent) /\ UNCHANGED file
    BY <1>7, <2>1
  <2>2. CASE End(r, "failed") /\ UNCHANGED file
    BY <1>6, <2>2
  <2>3. CASE /\ Pinned => part[Target(r)] = "good"
             /\ file' = [file EXCEPT ![Target(r)] = part[Target(r)]]
             /\ End(r, "ok")
    <3>1. Moves(r, "ok") /\ part' = [part EXCEPT ![Target(r)] = "none"]
      BY <1>1, <2>3, EndFacts DEF Ended
    <3>2. TransferMoves(r, "ok")
      BY <1>3, <1>5, <1>14, <2>3, <3>1 DEF Accept, TransferMoves
    <3>. QED  BY <3>2 DEF TransferEffect, TransferPositions, Ended
  <2>. QED  BY <1>14, <2>1, <2>2, <2>3 DEF Accept
<1>15. CASE WakesUp(r)
  <2>1. Moves(r, "attempt")
    BY <1>1, <1>15 DEF WakesUp, Moves, Transfers, TransferPositions
  <2>2. TransferMoves(r, "attempt")
    BY <1>4, <1>15, <2>1 DEF WakesUp, TransferMoves, Ended
  <2>. QED  BY <2>2 DEF TransferEffect, TransferPositions
<1>. QED
  BY <1>8, <1>9, <1>10, <1>11, <1>12, <1>13, <1>14, <1>15 DEF TransferStep

\* The invariant survives every step of a transfer.
LEMMA TransferInv ==
  ASSUME DownloadInv, NEW r \in Runs, TransferStep(r)
  PROVE  DownloadInv'
<1>0. /\ TypeOK /\ Writing(r) /\ UNCHANGED <<job, caller, run>>
      /\ Alive(r) \/ xfer[r].pc = "spawned"
  BY TransferFacts DEF DownloadInv
<1>1. PICK v \in TransferPositions \ {"off", "spawned"} : TransferMoves(r, v)
  BY <1>0, TransferFacts DEF TransferEffect
<1>2. /\ Dest \in Paths /\ Staged \in Paths /\ Derived \in Paths
      /\ Dest # Staged /\ Dest # Derived /\ Staged # Derived
      /\ \A s \in Runs : /\ Work(s) \in Paths
                         /\ Work(s) # Dest /\ Work(s) # Staged /\ Work(s) # Derived
                         /\ \A t \in Runs : Work(s) = Work(t) => s = t
  BY PathFacts
<1>3. /\ xfer'[r].pc = v /\ \A s \in Runs \ {r} : xfer'[s] = xfer[s]
      /\ \A p \in Paths \ {Target(r)} : part'[p] = part[p]
  BY <1>1 DEF TransferMoves, Moves
<1>4. /\ \A p \in Paths \ {Target(r)} : file'[p] = file[p]
      /\ file'[Target(r)] = IF v = "ok" THEN part[Target(r)] ELSE file[Target(r)]
      /\ file' \in [Paths -> Contents]
  <2>1. Target(r) \in Paths /\ file \in [Paths -> Contents] /\ part \in [Paths -> Contents]
    BY <1>0, <1>2 DEF TypeOK, Target
  <2>. QED  BY <1>1, <2>1 DEF TransferMoves
<1>5. TypeOK'
  BY <1>0, <1>1, <1>4 DEF TypeOK, TransferMoves, Moves
<1>6. run \in Int /\ (caller = "calling" => run \in Runs)
  BY <1>0, DownloadConfig DEF TypeOK, Runs
<1>7. FutureIsUntouched'
  <2>1. r <= run
    BY <1>0, <1>6 DEF DownloadInv, FutureIsUntouched, Writing, Runs
  <2>2. SUFFICES ASSUME NEW s \in Runs, s > run
        PROVE  /\ xfer'[s].pc = "off" /\ part'[Work(s)] = "none" /\ file'[Work(s)] = "none"
    BY <1>0 DEF FutureIsUntouched, Work
  <2>3. s # r
    BY <1>6, <2>1, <2>2 DEF Runs
  <2>4. Work(s) # Target(r)
    BY <1>2, <2>3 DEF Target
  <2>. QED  BY <1>2, <1>3, <1>4, <2>2, <2>3, <2>4 DEF DownloadInv, FutureIsUntouched
<1>8. ASSUME Supervised PROVE SupervisedInv'
  <2>1. Target(r) = Work(r) /\ Pinned /\ SupervisedInv
    BY <1>8 DEF Target, Supervised, Pinned, DownloadInv
  <2>2. /\ \A p \in {Dest, Staged, Derived} : part'[p] = part[p] /\ file'[p] = file[p]
        /\ \A s \in Runs \ {r} : part'[Work(s)] = part[Work(s)] /\ file'[Work(s)] = file[Work(s)]
    BY <1>2, <1>3, <1>4, <2>1
  <2>3. file'[Work(r)] \in {file[Work(r)], "good"}
    BY <1>1, <1>4, <2>1 DEF TransferMoves
  <2>4. v \in Ended \cup {"off"} => part'[Work(r)] = "none"
    BY <1>1, <2>1 DEF TransferMoves
  <2>5. \A s \in Runs : /\ file'[Work(s)] \in {"none", "good"}
                        /\ Writing(s)' \/ part'[Work(s)] = "none"
    BY <1>3, <2>1, <2>2, <2>3, <2>4 DEF SupervisedInv, Writing
  <2>6. ASSUME ~Writing(run), run \in Runs
        PROVE  /\ ~Writing(run)' /\ file'[Work(run)] = file[Work(run)]
    BY <1>0, <1>3, <2>2, <2>6 DEF Writing
  <2>7. caller # "idle" => run \in Runs
    BY <1>0, DownloadConfig DEF TypeOK, Runs
  <2>. QED
    BY <1>0, <1>2, <2>1, <2>2, <2>5, <2>6, <2>7 DEF SupervisedInv, Finished, Work
<1>9. ASSUME ~Supervised PROVE /\ OwnInv'
                               /\ Stages => StagingInv'
                               /\ job = "archive" => ArchiveInv'
  <2>1. /\ OwnInv /\ caller = "calling" /\ r = run /\ run \in Runs
        /\ Target(r) = IF Stages THEN Staged ELSE Dest
    BY <1>0, <1>6, <1>9 DEF Target, DownloadInv, OwnInv, Alive
  <2>2. /\ \A s \in Runs : part'[Work(s)] = part[Work(s)] /\ file'[Work(s)] = file[Work(s)]
        /\ part'[Derived] = part[Derived] /\ file'[Derived] = file[Derived]
    BY <1>2, <1>3, <1>4, <2>1
  <2>3. Target(run)' = Target(r)
    BY <1>0, <2>1 DEF Target, Supervised, Stages
  <2>4. OwnInv'
    BY <1>0, <1>1, <1>3, <2>1, <2>2, <2>3 DEF OwnInv, TransferMoves, Finished, Work
  <2>5. Stages => StagingInv'
    <3>1. SUFFICES ASSUME Stages PROVE StagingInv'
      OBVIOUS
    <3>2. Target(r) = Staged /\ StagingInv
      BY <2>1, <3>1 DEF DownloadInv
    <3>3. part'[Dest] = part[Dest] /\ file'[Dest] = file[Dest]
      BY <1>2, <1>3, <1>4, <3>2
    <3>4. xfer[run].pc # "ok"
      BY <1>0, <2>1 DEF Writing, Ended
    <3>. QED  BY <1>0, <1>1, <1>3, <1>4, <2>1, <3>2, <3>3, <3>4 DEF StagingInv
  <2>6. job = "archive" => ArchiveInv'
    <3>1. SUFFICES ASSUME job = "archive" PROVE ArchiveInv'
      OBVIOUS
    <3>2. Target(r) = Dest /\ ArchiveInv
      BY <2>1, <3>1 DEF DownloadInv, Stages
    <3>3. part'[Staged] = part[Staged] /\ file'[Staged] = file[Staged]
      BY <1>2, <1>3, <1>4, <3>2
    <3>. QED  BY <1>0, <1>1, <1>3, <1>4, <2>1, <3>2, <3>3 DEF ArchiveInv, TransferMoves, Finished
  <2>. QED  BY <2>4, <2>5, <2>6
<1>10. Supervised' = Supervised /\ Stages' = Stages /\ job' = job
  BY <1>0 DEF Supervised, Stages
<1>. QED  BY <1>5, <1>7, <1>8, <1>9, <1>10 DEF DownloadInv, Stages, Supervised

\* What the lemmas about the caller's steps share.
LEMMA CallerFacts ==
  ASSUME TypeOK
  PROVE  /\ Dest \in Paths /\ Staged \in Paths /\ Derived \in Paths
         /\ Dest # Staged /\ Dest # Derived /\ Staged # Derived
         /\ \A r \in Runs : /\ Work(r) \in Paths /\ Work(r)' = Work(r)
                            /\ Work(r) # Dest /\ Work(r) # Staged /\ Work(r) # Derived
                            /\ \A s \in Runs : Work(r) = Work(s) => r = s
         /\ run \in Int /\ (caller # "idle" => run \in Runs)
         /\ job \in Jobs /\ Supervised = (job = "asset") /\ Stages = (job \in {"lfs", "override"})
         /\ "none" \in Contents /\ "good" \in Contents
BY PathFacts, DownloadConfig DEF TypeOK, Runs, Contents, Supervised, Stages, Work

\* The temporary directory of this run goes, and nothing else.
LEMMA CleanupFacts ==
  ASSUME TypeOK, run \in Runs, NEW f \in [Paths -> Contents],
         Cleanup(f, part)
  PROVE  /\ file' \in [Paths -> Contents] /\ part' \in [Paths -> Contents]
         /\ file'[Work(run)] = "none" /\ part'[Work(run)] = "none"
         /\ \A p \in Paths \ {Work(run)} : file'[p] = f[p] /\ part'[p] = part[p]
BY CallerFacts DEF Cleanup, TypeOK

LEMMA StartInv ==
  ASSUME DownloadInv, Start
  PROVE  DownloadInv'
<1>0. TypeOK
  BY DEF DownloadInv
<1>1. /\ run' = run + 1 /\ run' \in Runs /\ run \in Nat /\ job' = job
      /\ caller \in Finished \cup {"idle", "dead"}
  BY <1>0, DownloadConfig DEF Start, TypeOK, Runs
<1>2. /\ xfer[run'].pc = "off" /\ part[Work(run')] = "none" /\ file[Work(run')] = "none"
  BY <1>0, <1>1, CallerFacts DEF DownloadInv, FutureIsUntouched
<1>3. \A r \in Runs : r > run' => r > run /\ r # run'
  BY <1>1 DEF Runs
<1>4. /\ run' \in 0 .. MaxRuns /\ run' # 0
  BY <1>1, DownloadConfig DEF Runs
<1>5. CASE UpToDate
  <2>1. /\ caller' = IF job = "asset" THEN "derive" ELSE "ok"
        /\ UNCHANGED <<xfer, file, part>>
    BY <1>5 DEF Start
  <2>2. TypeOK'
    BY <1>0, <1>1, <1>4, <2>1 DEF TypeOK, CallerPositions, Finished
  <2>3. FutureIsUntouched'
    BY <1>0, <1>3, <2>1, CallerFacts DEF DownloadInv, FutureIsUntouched, Work
  <2>4. Supervised' => SupervisedInv'
    <3>1. SUFFICES ASSUME job = "asset" PROVE SupervisedInv'
      BY <1>1 DEF Supervised
    <3>2. caller' = "derive" /\ file[Dest] = "good" /\ SupervisedInv
      BY <1>5, <2>1, <3>1 DEF UpToDate, DownloadInv, Supervised
    <3>. QED
      BY <1>0, <1>1, <1>2, <2>1, <3>2, CallerFacts DEF SupervisedInv, Writing, Ended,
         Finished, Work
  <2>5. job # "asset" => job = "lfs" /\ file[Dest] = "good" /\ caller' = "ok" /\ StagingInv
    BY <1>5, <2>1 DEF UpToDate, DownloadInv, Stages, StagingInv
  <2>6. ~Supervised' => OwnInv'
    <3>1. SUFFICES ASSUME job # "asset" PROVE OwnInv'
      BY <1>1 DEF Supervised
    <3>2. OwnInv
      BY <3>1 DEF DownloadInv, Supervised
    <3>. QED
      BY <1>0, <1>1, <1>2, <2>1, <2>5, <3>1, <3>2, CallerFacts
         DEF OwnInv, StagingInv, Writing, Ended, Finished, Work
  <2>7. Stages' => StagingInv'
    BY <1>1, <2>1, <2>5 DEF Stages, StagingInv
  <2>8. job' = "archive" => ArchiveInv'
    BY <1>1, <2>5
  <2>. QED  BY <2>2, <2>3, <2>4, <2>6, <2>7, <2>8 DEF DownloadInv
<1>6. CASE ~UpToDate /\ Supervised
  <2>1. /\ caller' = "calling" /\ part' = [part EXCEPT ![Dest] = "none"] /\ file' = file
        /\ xfer' = [xfer EXCEPT ![run'].pc = "spawned"] /\ job = "asset" /\ SupervisedInv
    BY <1>6 DEF Start, DownloadInv, Supervised
  <2>2. part' = part
    BY <1>0, <2>1, CallerFacts DEF TypeOK, SupervisedInv
  <2>3. /\ xfer' \in [Runs -> Transfers] /\ \A r \in Runs \ {run'} : xfer'[r] = xfer[r]
    BY <1>0, <1>1, <2>1 DEF TypeOK, Transfers, TransferPositions
  <2>4. TypeOK'
    BY <1>0, <1>1, <1>4, <2>1, <2>2, <2>3 DEF TypeOK, CallerPositions
  <2>5. FutureIsUntouched'
    BY <1>0, <1>3, <2>1, <2>2, <2>3, CallerFacts DEF DownloadInv, FutureIsUntouched, Work
  <2>6. ~(file[Dest] = "good")
    BY <1>6, <2>1 DEF UpToDate
  <2>7. \A r \in Runs : /\ file'[Work(r)] \in {"none", "good"}
                        /\ Writing(r)' \/ part'[Work(r)] = "none"
    BY <1>1, <1>2, <2>1, <2>2, <2>3 DEF SupervisedInv, Writing
  <2>8. SupervisedInv'
    BY <1>0, <1>1, <2>1, <2>2, <2>6, <2>7, CallerFacts DEF SupervisedInv, Finished, Work
  <2>. QED
    BY <1>1, <2>1, <2>4, <2>5, <2>8 DEF DownloadInv, Supervised, Stages
<1>7. CASE ~UpToDate /\ ~Supervised
  <2>1. /\ caller' = "calling" /\ part' = part /\ file' = [file EXCEPT ![Staged] = "none"]
        /\ xfer' = [xfer EXCEPT ![run'].pc = "attempt"] /\ job # "asset" /\ OwnInv
    BY <1>7 DEF Start, DownloadInv, Supervised
  <2>2. /\ file' \in [Paths -> Contents] /\ file'[Staged] = "none"
        /\ file'[Dest] = file[Dest] /\ \A r \in Runs : file'[Work(r)] = file[Work(r)]
    BY <1>0, <2>1, CallerFacts DEF TypeOK
  <2>3. /\ xfer' \in [Runs -> Transfers] /\ \A r \in Runs \ {run'} : xfer'[r] = xfer[r]
        /\ xfer'[run'].pc = "attempt"
    BY <1>0, <1>1, <2>1 DEF TypeOK, Transfers, TransferPositions
  <2>4. TypeOK'
    BY <1>0, <1>1, <1>4, <2>1, <2>2, <2>3 DEF TypeOK, CallerPositions
  <2>5. FutureIsUntouched'
    BY <1>0, <1>3, <2>1, <2>2, <2>3, CallerFacts DEF DownloadInv, FutureIsUntouched, Work
  <2>6. OwnInv'
    BY <1>0, <1>1, <2>1, <2>2, <2>3, CallerFacts DEF OwnInv, Writing, Ended, Finished, Work
  <2>7. Stages' => StagingInv'
    <3>1. SUFFICES ASSUME Stages PROVE StagingInv'
      BY <1>1 DEF Stages
    <3>2. job = "lfs" => file[Dest] = "old"
      BY <1>7 DEF UpToDate
    <3>. QED  BY <1>1, <2>1, <2>2, <3>1, <3>2 DEF StagingInv, DownloadInv
  <2>8. job' = "archive" => ArchiveInv'
    BY <1>1, <2>1, <2>2, <2>3 DEF ArchiveInv, DownloadInv
  <2>. QED  BY <1>1, <2>1, <2>4, <2>5, <2>6, <2>7, <2>8 DEF DownloadInv, Supervised
<1>. QED  BY <1>5, <1>6, <1>7

\* The supervised caller: the worker's verdict, its kill, the promotion.
LEMMA SupervisorInv ==
  ASSUME DownloadInv, KillOverdue \/ TakeVerdict \/ Promote
  PROVE  DownloadInv'
<1>0. /\ TypeOK /\ UNCHANGED <<job, run>> /\ run \in Runs
      /\ Supervised /\ SupervisedInv /\ job = "asset"
  <2>1. TypeOK /\ UNCHANGED <<job, run>> /\ caller \in {"calling", "promote"}
    BY DEF DownloadInv, KillOverdue, TakeVerdict, Promote
  <2>2. run \in Runs
    BY <2>1, CallerFacts
  <2>3. Supervised
    BY <2>1 DEF KillOverdue, TakeVerdict, Promote, DownloadInv, OwnInv
  <2>. QED  BY <2>1, <2>2, <2>3 DEF DownloadInv, Supervised
<1>1. SUFFICES TypeOK' /\ FutureIsUntouched' /\ SupervisedInv'
  BY <1>0 DEF DownloadInv, Supervised, Stages
<1>2. file \in [Paths -> Contents] /\ part \in [Paths -> Contents]
  BY <1>0 DEF TypeOK
<1>3. Work(run)' = Work(run)
  BY <1>0 DEF Work
<1>4. CASE KillOverdue
  <2>1. /\ caller' = "failed" /\ xfer' = [xfer EXCEPT ![run].pc = "off"]
        /\ Cleanup(file, part) /\ caller = "calling"
    BY <1>4 DEF KillOverdue
  <2>2. /\ file' \in [Paths -> Contents] /\ part' \in [Paths -> Contents]
        /\ file'[Work(run)] = "none" /\ part'[Work(run)] = "none"
        /\ \A p \in Paths \ {Work(run)} : file'[p] = file[p] /\ part'[p] = part[p]
    BY <1>0, <1>2, <2>1, CleanupFacts
  <2>3. Moves(run, "off")
    BY <1>0, <2>1, MoveFacts DEF TypeOK, TransferPositions
  <2>4. TypeOK'
    BY <1>0, <2>1, <2>2, <2>3 DEF TypeOK, Moves, CallerPositions, Finished
  <2>5. FutureIsUntouched'
    BY <1>0, <2>2, <2>3, CallerFacts DEF DownloadInv, FutureIsUntouched, Moves
  <2>6. /\ part'[Dest] = part[Dest] /\ part'[Staged] = part[Staged]
        /\ part'[Derived] = part[Derived] /\ file'[Staged] = file[Staged]
    BY <1>0, <2>2, CallerFacts
  <2>7. \A r \in Runs : /\ file'[Work(r)] \in {"none", "good"}
                        /\ Writing(r)' \/ part'[Work(r)] = "none"
    BY <1>0, <2>2, <2>3, CallerFacts DEF SupervisedInv, Writing, Moves
  <2>8. ~Writing(run)'
    BY <1>0, <2>3 DEF Writing, Moves
  <2>. QED
    BY <1>0, <1>3, <2>1, <2>2, <2>4, <2>5, <2>6, <2>7, <2>8 DEF SupervisedInv, Finished
<1>5. CASE TakeVerdict
  <2>1. /\ UNCHANGED xfer /\ caller = "calling" /\ ~Writing(run) /\ ~Writing(run)'
    BY <1>0, <1>5 DEF TakeVerdict, Writing
  <2>2. CASE caller' = "promote" /\ UNCHANGED <<file, part>> /\ file[Work(run)] # "none"
    <3>1. TypeOK' /\ FutureIsUntouched'
      BY <1>0, <2>1, <2>2, CallerFacts
         DEF TypeOK, CallerPositions, DownloadInv, FutureIsUntouched
    <3>2. \A r \in Runs : /\ file'[Work(r)] \in {"none", "good"}
                          /\ Writing(r)' \/ part'[Work(r)] = "none"
      BY <1>0, <2>1, <2>2, CallerFacts DEF SupervisedInv, Writing
    <3>. QED
      BY <1>0, <1>3, <2>1, <2>2, <3>1, <3>2 DEF SupervisedInv, Finished
  <2>3. CASE caller' = "failed" /\ Cleanup(file, part)
    <3>1. /\ file' \in [Paths -> Contents] /\ part' \in [Paths -> Contents]
          /\ file'[Work(run)] = "none" /\ part'[Work(run)] = "none"
          /\ \A p \in Paths \ {Work(run)} : file'[p] = file[p] /\ part'[p] = part[p]
      BY <1>0, <1>2, <2>3, CleanupFacts
    <3>2. TypeOK'
      BY <1>0, <2>1, <2>3, <3>1 DEF TypeOK, CallerPositions, Finished
    <3>3. FutureIsUntouched'
      BY <1>0, <2>1, <3>1, CallerFacts DEF DownloadInv, FutureIsUntouched
    <3>4. /\ part'[Dest] = part[Dest] /\ part'[Staged] = part[Staged]
          /\ part'[Derived] = part[Derived] /\ file'[Staged] = file[Staged]
      BY <1>0, <3>1, CallerFacts
    <3>5. \A r \in Runs : /\ file'[Work(r)] \in {"none", "good"}
                          /\ Writing(r)' \/ part'[Work(r)] = "none"
      BY <1>0, <2>1, <3>1, CallerFacts DEF SupervisedInv, Writing
    <3>. QED
      BY <1>0, <1>3, <2>1, <2>3, <3>1, <3>2, <3>3, <3>4, <3>5 DEF SupervisedInv, Finished
  <2>. QED  BY <1>5, <2>2, <2>3 DEF TakeVerdict
<1>6. CASE Promote
  <2>1. /\ caller' = "derive" /\ UNCHANGED xfer /\ caller = "promote"
        /\ Cleanup([file EXCEPT ![Dest] = file[Work(run)]], part)
        /\ ~Writing(run) /\ ~Writing(run)' /\ file[Work(run)] = "good"
    BY <1>0, <1>6 DEF Promote, SupervisedInv, Writing
  <2>2. [file EXCEPT ![Dest] = file[Work(run)]] \in [Paths -> Contents]
    BY <1>0, <1>2, CallerFacts
  <2>3. /\ file' \in [Paths -> Contents] /\ part' \in [Paths -> Contents]
        /\ file'[Work(run)] = "none" /\ part'[Work(run)] = "none"
        /\ \A p \in Paths \ {Work(run)} :
             /\ part'[p] = part[p]
             /\ file'[p] = IF p = Dest THEN "good" ELSE file[p]
    BY <1>0, <1>2, <2>1, <2>2, CleanupFacts, CallerFacts
  <2>4. TypeOK'
    BY <1>0, <2>1, <2>3 DEF TypeOK, CallerPositions
  <2>5. FutureIsUntouched'
    BY <1>0, <2>1, <2>3, CallerFacts DEF DownloadInv, FutureIsUntouched
  <2>6. /\ part'[Dest] = part[Dest] /\ part'[Staged] = part[Staged] /\ file'[Dest] = "good"
        /\ part'[Derived] = part[Derived] /\ file'[Staged] = file[Staged]
        /\ file'[Derived] = file[Derived]
    BY <1>0, <2>3, CallerFacts
  <2>7. \A r \in Runs : /\ file'[Work(r)] \in {"none", "good"}
                        /\ Writing(r)' \/ part'[Work(r)] = "none"
    BY <1>0, <2>1, <2>3, CallerFacts DEF SupervisedInv, Writing
  <2>. QED
    BY <1>0, <1>3, <2>1, <2>3, <2>4, <2>5, <2>6, <2>7 DEF SupervisedInv, Finished
<1>. QED  BY <1>4, <1>5, <1>6

\* The caller that transfers itself.
LEMMA OwnCallerInv ==
  ASSUME DownloadInv, Return \/ VerifyStaged
  PROVE  DownloadInv'
<1>0. /\ TypeOK /\ UNCHANGED <<job, run, part, xfer>> /\ run \in Runs
      /\ ~Supervised /\ OwnInv /\ job \in {"lfs", "override", "archive"}
  <2>1. TypeOK /\ UNCHANGED <<job, run, part, xfer>> /\ caller \in {"calling", "verify"}
    BY DEF DownloadInv, Return, VerifyStaged
  <2>2. ~Supervised
    BY DEF Return, VerifyStaged, DownloadInv, SupervisedInv
  <2>. QED  BY <2>1, <2>2, CallerFacts DEF DownloadInv, Jobs
<1>1. Target(run)' = Target(run) /\ Work(run)' = Work(run)
  BY <1>0 DEF Target, Supervised, Stages, Work
<1>2. /\ file \in [Paths -> Contents] /\ file' \in [Paths -> Contents]
      /\ \A r \in Runs : file'[Work(r)] = file[Work(r)]
  BY <1>0, CallerFacts DEF TypeOK, Return, VerifyStaged
<1>3. caller' \in {"verify", "ok", "failed"} /\ ~Writing(run)
  BY <1>0 DEF Return, VerifyStaged, OwnInv, Writing, Ended
<1>4. TypeOK'
  BY <1>0, <1>2, <1>3 DEF TypeOK, Runs, CallerPositions, Finished
<1>5. FutureIsUntouched'
  BY <1>0, <1>2, CallerFacts DEF DownloadInv, FutureIsUntouched
<1>6. CASE Return
  <2>1. /\ file' = file /\ caller = "calling" /\ xfer[run].pc \in Ended
        /\ caller' = IF xfer[run].pc = "ok" /\ Stages THEN "verify" ELSE xfer[run].pc
    BY <1>6 DEF Return
  <2>2. part[Target(run)] = "none" /\ Target(run) = IF Stages THEN Staged ELSE Dest
    BY <1>0, <2>1 DEF OwnInv, Target
  <2>3. CASE Stages
    <3>1. StagingInv /\ job \in {"lfs", "override"} /\ part[Dest] = "none" /\ part[Staged] = "none"
      BY <2>2, <2>3 DEF DownloadInv, StagingInv, Stages
    <3>2. caller' # "verify" => file[Staged] = "none" /\ caller' = "failed"
      BY <2>1, <2>3, <3>1 DEF StagingInv, Ended
    <3>3. OwnInv'
      BY <1>0, <1>1, <1>2, <1>3, <2>1, <3>1, <3>2 DEF OwnInv, Finished, Writing
    <3>4. StagingInv'
      BY <1>0, <1>3, <2>1, <3>1, <3>2 DEF StagingInv
    <3>. QED  BY <1>0, <1>4, <1>5, <3>1, <3>3, <3>4 DEF DownloadInv, Supervised, Stages
  <2>4. CASE ~Stages
    <3>1. ArchiveInv /\ job = "archive" /\ part[Dest] = "none" /\ caller' = xfer[run].pc
      BY <1>0, <2>1, <2>2, <2>4 DEF DownloadInv, Stages
    <3>2. OwnInv'
      BY <1>0, <1>1, <1>2, <1>3, <2>1, <3>1 DEF OwnInv, ArchiveInv, Finished, Ended, Writing
    <3>3. ArchiveInv'
      BY <1>0, <2>1, <3>1 DEF ArchiveInv, Ended
    <3>. QED  BY <1>0, <1>4, <1>5, <3>1, <3>2, <3>3 DEF DownloadInv, Supervised, Stages
  <2>. QED  BY <2>3, <2>4
<1>7. CASE VerifyStaged
  <2>1. /\ caller = "verify" /\ file'[Staged] = "none"
        /\ caller' = IF file[Staged] = "good" THEN "ok" ELSE "failed"
        /\ file'[Dest] = IF file[Staged] = "good" THEN "good" ELSE file[Dest]
    BY <1>0, <1>2, <1>7, CallerFacts DEF VerifyStaged
  <2>2. Stages /\ StagingInv /\ job \in {"lfs", "override"}
    BY <1>0, <2>1 DEF DownloadInv, ArchiveInv, Stages
  <2>3. part[Staged] = "none" /\ part[Dest] = "none"
    BY <1>0, <2>1 DEF OwnInv
  <2>4. OwnInv'
    BY <1>0, <1>1, <1>2, <1>3, <2>1, <2>3 DEF OwnInv, Finished, Writing
  <2>5. StagingInv'
    BY <1>0, <2>1, <2>2, <2>3 DEF StagingInv
  <2>. QED  BY <1>0, <1>4, <1>5, <2>2, <2>4, <2>5 DEF DownloadInv, Supervised, Stages
<1>. QED  BY <1>6, <1>7

\* derive_asset.
LEMMA DeriveInv ==
  ASSUME DownloadInv, Derive \/ StoreDerived
  PROVE  DownloadInv'
<1>0. /\ TypeOK /\ UNCHANGED <<job, run, xfer>> /\ run \in Runs
      /\ Supervised /\ SupervisedInv /\ job = "asset" /\ caller \in {"derive", "store"}
  <2>1. TypeOK /\ UNCHANGED <<job, run, xfer>> /\ caller \in {"derive", "store"}
    BY DEF DownloadInv, Derive, StoreDerived
  <2>2. Supervised
    BY <2>1 DEF DownloadInv, OwnInv
  <2>. QED  BY <2>1, <2>2, CallerFacts DEF DownloadInv, Supervised
<1>1. SUFFICES TypeOK' /\ FutureIsUntouched' /\ SupervisedInv'
  BY <1>0 DEF DownloadInv, Supervised, Stages
<1>2. /\ file \in [Paths -> Contents] /\ part \in [Paths -> Contents]
      /\ file[Dest] = "good" /\ Work(run)' = Work(run)
  BY <1>0 DEF TypeOK, SupervisedInv, Work
<1>3. /\ file' \in [Paths -> Contents] /\ part' \in [Paths -> Contents]
      /\ \A p \in Paths \ {Derived} : file'[p] = file[p] /\ part'[p] = part[p]
  BY <1>0, <1>2, CallerFacts DEF Derive, StoreDerived
<1>4. TypeOK'
  BY <1>0, <1>3 DEF TypeOK, Derive, StoreDerived, CallerPositions, Finished
<1>5. FutureIsUntouched'
  BY <1>0, <1>3, CallerFacts DEF DownloadInv, FutureIsUntouched
<1>6. /\ part'[Dest] = part[Dest] /\ part'[Staged] = part[Staged]
      /\ file'[Staged] = file[Staged] /\ file'[Dest] = file[Dest]
      /\ \A r \in Runs : file'[Work(r)] = file[Work(r)] /\ part'[Work(r)] = part[Work(r)]
  BY <1>0, <1>3, CallerFacts
<1>7. /\ caller' \in {"ok", "store", "failed"}
      /\ part'[Derived] # "none" => /\ part'[Derived] = "good" /\ file'[Derived] # "good"
                                   /\ caller' = "store"
  <2>1. CASE Derive
    <3>1. CASE file[Derived] = "good"
      BY <1>0, <2>1, <3>1 DEF Derive, SupervisedInv
    <3>2. CASE file[Derived] # "good"
      BY <1>0, <1>2, <2>1, <3>2, CallerFacts DEF Derive, SupervisedInv
    <3>. QED  BY <3>1, <3>2
  <2>2. CASE StoreDerived
    BY <1>0, <1>2, <2>2, CallerFacts DEF StoreDerived
  <2>. QED  BY <1>0, <2>1, <2>2
<1>. QED
  BY <1>0, <1>2, <1>4, <1>5, <1>6, <1>7 DEF SupervisedInv, Writing, Finished

\* A crash keeps everything but the caller; a tick only moves the clocks.
LEMMA CrashInv == DownloadInv /\ Crash => DownloadInv'
<1> SUFFICES ASSUME DownloadInv, Crash PROVE DownloadInv'
  OBVIOUS
<1>1. /\ UNCHANGED <<job, run, xfer, file, part>> /\ caller' = "dead"
      /\ caller \notin Finished \cup {"idle"}
  BY DEF Crash
<1>2. TypeOK' /\ FutureIsUntouched'
  BY <1>1 DEF DownloadInv, TypeOK, FutureIsUntouched, CallerPositions, Work
<1>3. Supervised => SupervisedInv'
  BY <1>1 DEF DownloadInv, SupervisedInv, Finished, Writing, Work
<1>4. ~Supervised => OwnInv'
  BY <1>1 DEF DownloadInv, OwnInv, Finished, Work
<1>5. (Stages => StagingInv') /\ (job = "archive" => ArchiveInv')
  BY <1>1 DEF DownloadInv, StagingInv, ArchiveInv
<1>. QED  BY <1>1, <1>2, <1>3, <1>4, <1>5 DEF DownloadInv, Supervised, Stages

\* The same for a step that moves clocks only, or nothing.
LEMMA ClockInv ==
  ASSUME DownloadInv, UNCHANGED <<job, caller, run, file, part>>,
         xfer' \in [Runs -> Transfers], \A r \in Runs : xfer'[r].pc = xfer[r].pc
  PROVE  DownloadInv'
<1>1. TypeOK /\ (caller # "idle" => run \in Runs)
  BY CallerFacts DEF DownloadInv
<1>2. TypeOK' /\ FutureIsUntouched'
  BY <1>1 DEF DownloadInv, TypeOK, FutureIsUntouched, Work
<1>3. \A r \in Runs : Writing(r)' = Writing(r) /\ Work(r)' = Work(r)
  BY DEF Writing, Work
<1>4. Supervised => SupervisedInv'
  BY <1>1, <1>3 DEF DownloadInv, SupervisedInv, Finished, Work
<1>5. ~Supervised => OwnInv'
  BY <1>1, <1>3 DEF DownloadInv, OwnInv, Finished, Work, Target, Supervised, Stages
<1>6. (Stages => StagingInv') /\ (job = "archive" => ArchiveInv')
  BY <1>1 DEF DownloadInv, StagingInv, ArchiveInv
<1>. QED  BY <1>2, <1>4, <1>5, <1>6 DEF DownloadInv, Supervised, Stages

LEMMA InitDownloadInv == Init => DownloadInv
<1> SUFFICES ASSUME Init PROVE DownloadInv
  OBVIOUS
<1>1. PICK d \in {"none", "old", "good"}, v \in {"none", "good"} :
        /\ job = "lfs" => d # "none"
        /\ file = [p \in Paths |-> IF p = Dest THEN d ELSE IF p = Derived THEN v ELSE "none"]
  BY DEF Init
<1>2. /\ Dest \in Paths /\ Staged \in Paths /\ Derived \in Paths
      /\ Dest # Staged /\ Dest # Derived /\ Staged # Derived
      /\ \A r \in Runs : /\ Work(r) \in Paths
                         /\ Work(r) # Dest /\ Work(r) # Staged /\ Work(r) # Derived
  BY PathFacts
<1>3. /\ file[Dest] = d /\ file[Staged] = "none"
      /\ \A r \in Runs : file[Work(r)] = "none" /\ xfer[r].pc = "off"
      /\ \A p \in Paths : part[p] = "none"
      /\ caller = "idle" /\ run = 0 /\ job \in Jobs
  BY <1>1, <1>2 DEF Init, NoTransfer
<1>4. TypeOK
  <2>1. NoTransfer \in Transfers
    BY DEF NoTransfer, Transfers, TransferPositions, Unbounded
  <2>2. file \in [Paths -> Contents] /\ part \in [Paths -> Contents]
    BY <1>1 DEF Init, Contents
  <2>. QED  BY <1>3, <2>1, <2>2, DownloadConfig DEF Init, TypeOK, CallerPositions
<1>5. FutureIsUntouched /\ SupervisedInv /\ OwnInv /\ ArchiveInv
  BY <1>2, <1>3 DEF FutureIsUntouched, SupervisedInv, OwnInv, ArchiveInv, Finished, Writing
<1>6. Stages => StagingInv
  BY <1>1, <1>2, <1>3 DEF StagingInv
<1>. QED  BY <1>4, <1>5, <1>6 DEF DownloadInv

LEMMA DownloadInvIsInductive == DownloadInv /\ [Next]_vars => DownloadInv'
<1> SUFFICES ASSUME DownloadInv, [Next]_vars PROVE DownloadInv'
  OBVIOUS
<1>1. CASE CallerStep
  BY <1>1, StartInv, SupervisorInv, OwnCallerInv, DeriveInv DEF CallerStep
<1>2. CASE Crash
  BY <1>2, CrashInv
<1>3. CASE Tick
  <2>1. /\ xfer \in [Runs -> Transfers] /\ UNCHANGED <<job, caller, run, file, part>>
        /\ xfer' = [r \in Runs |-> [xfer[r] EXCEPT !.left = Down(@), !.nap = Down(@)]]
    BY <1>3 DEF Tick, DownloadInv, TypeOK
  <2>2. \A r \in Runs : xfer[r] \in Transfers
                        /\ Down(xfer[r].left) \in Int /\ Down(xfer[r].nap) \in Int
    <3>1. \A t \in Int : Down(t) \in Int
      BY DEF Down
    <3>. QED  BY <2>1, <3>1 DEF Transfers
  <2>3. xfer' \in [Runs -> Transfers] /\ \A r \in Runs : xfer'[r].pc = xfer[r].pc
    BY <2>1, <2>2 DEF Transfers
  <2>. QED  BY <2>1, <2>3, ClockInv
<1>4. CASE \E r \in Runs : TransferStep(r)
  BY <1>4, TransferInv
<1>5. CASE UNCHANGED vars
  BY <1>5, ClockInv DEF vars, DownloadInv, TypeOK
<1>. QED  BY <1>1, <1>2, <1>3, <1>4, <1>5 DEF Next

LEMMA DownloadInvHolds == Spec => []DownloadInv
BY InitDownloadInv, DownloadInvIsInductive, PTL DEF Spec

-----------------------------------------------------------------------------
\* A run that reports leaves nothing of its own behind, whatever earlier runs
\* were killed at and whichever of their workers still write.
THEOREM RunsCleanUp == Spec => []NothingLeftBehind
<1>1. DownloadInv => NothingLeftBehind
  <2> SUFFICES ASSUME DownloadInv, caller \in Finished
      PROVE  /\ \A p \in {Dest, Staged, Derived, Work(run)} : part[p] = "none"
             /\ file[Staged] = "none" /\ file[Work(run)] = "none"
             /\ xfer[run].pc \in Ended \cup {"off"}
    BY DEF NothingLeftBehind
  <2>1. run \in Runs /\ TypeOK
    BY CallerFacts DEF DownloadInv, Finished
  <2>2. CASE Supervised
    BY <2>1, <2>2 DEF DownloadInv, SupervisedInv, Finished, Writing
  <2>3. CASE ~Supervised
    BY <2>1, <2>3 DEF DownloadInv, OwnInv, Finished, Writing
  <2>. QED  BY <2>2, <2>3
<1>. QED  BY <1>1, DownloadInvHolds, PTL

\* Whatever the server answers and whoever is killed when, the destination of a
\* verifying caller only changes to the expected bytes, success is reported over
\* them alone, and a failure leaves the destination as it was (the comment "Only
\* this parent can promote verified bytes" of download_to_path).
THEOREM DownloaderIsAVerifiedCache == Spec => ImplementsCache
<1> DEFINE cache == file[Dest]
           report == IF caller \in Finished THEN caller ELSE "none"
           accepts == IF job = "archive" THEN {"good", "bad"} ELSE {"good"}
           A == /\ accepts' = accepts
                /\ cache' # cache => cache' \in accepts /\ report = "none"
                /\ report' = "ok" => cache' \in accepts
                /\ report' = "failed" => cache' = cache
                /\ report' = "none" => report = "none" \/ cache' = cache
<1>1. Init => report = "none"
  BY DEF Init, Finished
<1>2. DownloadInv /\ DownloadInv' /\ [Next]_vars => [A]_<<cache, report, accepts>>
  <2> SUFFICES ASSUME DownloadInv, DownloadInv', Next PROVE A
    BY SMTT(30) DEF vars
  <2>1. job' = job /\ accepts' = accepts
    BY DEF Next, CallerStep, Start, KillOverdue, TakeVerdict, Promote, Return, VerifyStaged,
       Derive, StoreDerived, Crash, Tick, TransferStep, WorkerStarts, Request, Refused,
       Responds, BreaksOff, Received, Accept, WakesUp
  <2>2. caller' = "ok" => cache' \in accepts
    <3>1. SUFFICES ASSUME caller' = "ok" PROVE file'[Dest] \in accepts
      OBVIOUS
    <3>2. job' \in Jobs
      BY DEF DownloadInv, TypeOK
    <3>3. CASE job' = "asset"
      BY <2>1, <3>1, <3>3 DEF DownloadInv, SupervisedInv, Supervised
    <3>4. CASE job' \in {"lfs", "override"}
      BY <2>1, <3>1, <3>4 DEF DownloadInv, StagingInv, Stages
    <3>5. CASE job' = "archive"
      BY <2>1, <3>1, <3>5 DEF DownloadInv, ArchiveInv
    <3>. QED  BY <3>2, <3>3, <3>4, <3>5 DEF Jobs
  <2>3. /\ cache' # cache => cache' \in accepts /\ caller \notin Finished
        /\ cache' # cache => caller' # "failed"
    <3>1. TypeOK
      BY DEF DownloadInv
    <3>2. CASE Start \/ KillOverdue \/ TakeVerdict
      <4>1. file'[Dest] = file[Dest]
        BY <3>1, <3>2, CallerFacts DEF Start, KillOverdue, TakeVerdict, Cleanup, TypeOK
      <4>. QED  BY <4>1
    <3>3. CASE Promote
      <4>1. job = "asset" /\ file[Work(run)] = "good" /\ run \in Runs /\ caller' = "derive"
        <5>1. caller = "promote" /\ caller' = "derive"
          BY <3>3 DEF Promote
        <5>. QED  BY <3>1, <5>1, CallerFacts DEF DownloadInv, OwnInv, SupervisedInv, Supervised
      <4>2. file'[Dest] = "good"
        BY <3>1, <3>3, <4>1, CallerFacts DEF Promote, Cleanup, TypeOK
      <4>. QED  BY <3>3, <4>1, <4>2 DEF Promote, Finished
    <3>4. CASE VerifyStaged
      <4>1. /\ caller = "verify"
            /\ file'[Dest] = IF file[Staged] = "good" THEN "good" ELSE file[Dest]
            /\ caller' = IF file[Staged] = "good" THEN "ok" ELSE "failed"
        BY <3>1, <3>4, CallerFacts DEF VerifyStaged, TypeOK
      <4>. QED  BY <4>1 DEF Finished
    <3>5. CASE Derive \/ StoreDerived \/ Return \/ Crash \/ Tick
      <4>1. file'[Dest] = file[Dest]
        BY <3>1, <3>5, CallerFacts DEF Derive, StoreDerived, Return, Crash, Tick, TypeOK
      <4>. QED  BY <4>1
    <3>6. ASSUME NEW r \in Runs, TransferStep(r)
          PROVE  /\ cache' # cache => cache' \in accepts /\ caller \notin Finished
                 /\ cache' # cache => caller' # "failed"
      <4>1. /\ TransferEffect(r) /\ caller' = caller
            /\ Alive(r) \/ xfer[r].pc = "spawned"
        BY <3>1, <3>6, TransferFacts
      <4>2. PICK v \in TransferPositions : TransferMoves(r, v)
        BY <4>1 DEF TransferEffect
      <4>3. CASE v # "ok" \/ Target(r) # Dest
        <5>1. file'[Dest] = file[Dest]
          BY <3>1, <4>2, <4>3, CallerFacts DEF TransferMoves, TypeOK
        <5>. QED  BY <5>1
      <4>4. CASE v = "ok" /\ Target(r) = Dest
        <5>1. job = "archive" /\ ~Supervised
          BY <3>1, <4>4, PathFacts DEF Target, TypeOK, Jobs, Stages, Supervised
        <5>2. caller = "calling" /\ r = run
          BY <4>1, <5>1 DEF Alive, DownloadInv, OwnInv
        <5>3. part[Dest] \in {"good", "bad"} /\ file'[Dest] = part[Dest]
          BY <3>1, <4>2, <4>4, <5>1, <5>2, PathFacts
             DEF TransferMoves, DownloadInv, ArchiveInv, TypeOK
        <5>. QED  BY <4>1, <5>1, <5>2, <5>3 DEF Finished
      <4>. QED  BY <4>3, <4>4
    <3>. QED  BY <3>2, <3>3, <3>4, <3>5, <3>6 DEF Next, CallerStep
  <2>. QED  BY <2>1, <2>2, <2>3 DEF Finished
<1>. QED  BY <1>1, <1>2, DownloadInvHolds, PTL DEF Spec, ImplementsCache, Cache!Spec


-----------------------------------------------------------------------------
(***************************************************************************)
(* BuildRuntime: the inductive invariant.                                  *)
(***************************************************************************)
\* The positions after the sources are patched, after Bazel, and after the walk.
Staging == {"stage", "prebuilt", "walk", "override", "vcruntime", "policy", "normalize", "done"}
Qualified == {"validate"} \cup Staging
Compiling == {"verify"} \cup Qualified
Patched == {"sampler", "prebuilts", "bazel"} \cup Compiling
Positions == Resting \cup {"workspace", "edit"} \cup {"overlap", "container", "finish",
                "token", "safety"} \cup Patched

\* Where the patch p to the tree lies behind the run.
Behind(p) ==
  CASE p = "overlap" -> {"container", "finish", "token", "safety"} \cup Patched
    [] p = "container" -> {"finish", "token", "safety"} \cup Patched
    [] p = "finish" -> {"token", "safety"} \cup Patched
    [] p = "token" -> {"safety"} \cup Patched
    [] OTHER -> Patched
InTree == {"overlap", "container", "finish", "token", "safety"}

BuildTypeOK ==
  /\ platform \in Platforms /\ tag \in Tags /\ mode \in {"archive", "root"}
  /\ oddity \in Oddities /\ needs \in [Libs -> [Kinds -> SUBSET Libs]]
  /\ pc \in Positions
  /\ tree \in [Patches -> Nat]
  /\ edits \in {{}, Edits}
  /\ staged \in [Libs -> Kinds]
  /\ todo \subseteq Libs /\ seen \subseteq Libs

\* Only what the release calls for is ever changed in the tree.
TreeInv ==
  /\ \A p \in Patches :
       /\ tree[p] <= Patch[p].files
       /\ tree[p] # 0 => p \in InTree \cup {"workspace"} /\ Carries(p, tag)
  /\ tree["workspace"] # 0 => tree["workspace"] = Workspace.files /\ oddity # "workspace"

\* A patch is done with: the tree holds all of it or none, and the decision and
\* the sources are what was audited.
Treated(p) ==
  /\ Decision(p, tag) # "refuse"
  /\ Carries(p, tag) => tree[p] = Patch[p].files /\ oddity # p
PatchInv == \A p \in InTree : pc \in Behind(p) => Treated(p)

\* What a step that checks found holds until the run ends: the core is audited
\* before Bazel runs, the host is what the sources at hand compile to, and the
\* sources outside the tree were patched as the WORKSPACE asked.
CompileInv ==
  /\ pc \in Compiling \cup {"bazel"} =>
       /\ Decision("cpu", tag) # "refuse"
       /\ Carries("cpu", tag) /\ Flat => oddity \notin {"prebuilt", "no_core"}
  /\ pc \in Compiling =>
       /\ Carries("workspace", tag) => tree["workspace"] = Workspace.files
       /\ built = [carried |-> Compiled, defects |-> HostDefects, cpu_options |-> WritesOptions]
  /\ pc \in Qualified =>
       /\ Decision("pf32", tag) # "refuse"
       /\ Carries("pf32", tag) =>
            oddity \notin {"pf32", "qc4w"} /\ "xnnpack" \in edits
       /\ Carries("cpu", tag) => oddity # "cpu" /\ "cpu" \in edits

\* Only a host that passed the checks of its platform is staged.
QualifiedInv ==
  pc \in Staging =>
    /\ "symbols" \notin built.defects
    /\ platform = "android" => built.defects \cap {"global", "teardown"} = {}
    /\ platform = "android" /\ tag >= 1900 => "protobuf" \notin built.defects

\* No library of C, but for a pinned override, lists one that is not in C.
ClosedSet(C) ==
  /\ C \subseteq Bundle /\ "host" \in C
  /\ \A l \in C : staged[l] # "pinned" => Needs(l) \subseteq C

AfterWalk == {"override", "vcruntime", "policy", "normalize", "done"}
\* The libraries the walk has seen need only what it has seen or has still to see;
\* afterwards they are closed.  Windows is closed once nothing is missing.
WalkInv ==
  /\ pc \notin {"walk"} \cup AfterWalk \cup Resting => seen = {}
  /\ pc \in {"prebuilt", "walk"} \cup AfterWalk => staged["host"] = "bazel"
  /\ pc = "walk" =>
       /\ platform # "windows"
       /\ seen \cup todo \subseteq Bundle /\ "host" \in seen \cup todo
       /\ \A l \in seen : Needs(l) \subseteq seen \cup todo
  /\ pc \in {"override", "vcruntime", "policy"} /\ platform # "windows" => ClosedSet(seen)
  /\ pc = "normalize" => \E C \in SUBSET Bundle : ClosedSet(C)
  /\ pc = "policy" /\ platform = "windows" => ClosedSet(Bundle)

\* The Linux core, once met, is the prebuilt one.
LinuxInv ==
  platform = "linux" =>
    /\ pc = "walk" /\ "core" \in seen \cup todo => staged["core"] = "prebuilt"
    /\ pc \in AfterWalk /\ "core" \in Needs("host") => staged["core"] = "prebuilt"

\* What a finished run left, and the provider once it is gone.
DoneInv ==
  /\ BundleIsClosed
  /\ pc \in {"normalize", "done"} /\ platform = "ios" /\ tag >= 1700 =>
       "provider" \notin built.defects /\ staged["provider"] = "absent"

BuildInv ==
  /\ BuildTypeOK /\ TreeInv /\ PatchInv /\ CompileInv /\ QualifiedInv
  /\ WalkInv /\ LinuxInv /\ DoneInv

-----------------------------------------------------------------------------
\* The table of patches, and the decisions that go together.
LEMMA PatchTable ==
  /\ Patches = InTree \cup {"workspace", "pf32", "qc4w", "cpu"}
  /\ Patch["overlap"] = Overlap /\ Patch["container"] = Container
  /\ Patch["finish"] = Finish /\ Patch["token"] = Token /\ Patch["safety"] = Safety
  /\ Patch["workspace"] = Workspace /\ Patch["pf32"] = Pf32 /\ Patch["qc4w"] = Qc4w
  /\ Patch["cpu"] = Cpu
BY DEF Patches, Patch, InTree

LEMMA FilesAreCounted == \A p \in Patches : Patch[p].files \in Nat \ {0}
BY PatchTable DEF InTree, Overlap, Container, Finish, Token,
   Safety, Workspace, Pf32, Qc4w, Cpu

LEMMA Decisions ==
  ASSUME NEW t \in Nat
  PROVE  /\ \A p \in Patches : Decision(p, t) \in {"skip", "apply", "refuse"}
         /\ Decision("qc4w", t) = Decision("pf32", t)
         /\ Decision("workspace", t) = Decision("cpu", t)
         /\ Carries("cpu", t) <=> t = 1801
         /\ Decision("cpu", t) = "skip" <=> t < 1801 \/ t = 1900
BY PatchTable DEF Decision, Carries, Workspace, Pf32, Qc4w,
   Cpu

\* The order of the patches to the tree.
LEMMA TreeOrder ==
  /\ DOMAIN TreePatches = 1 .. 5
  /\ \A i \in 1 .. 5 : TreePatches[i] \in InTree
  /\ After("overlap") = "container" /\ After("container") = "finish"
  /\ After("finish") = "token" /\ After("token") = "safety" /\ After("safety") = "sampler"
<1>1. /\ DOMAIN TreePatches = 1 .. 5 /\ Len(TreePatches) = 5
      /\ TreePatches[1] = "overlap" /\ TreePatches[2] = "container"
      /\ TreePatches[3] = "finish" /\ TreePatches[4] = "token" /\ TreePatches[5] = "safety"
  BY DEF TreePatches
<1>2. \A i \in 1 .. 5 : i = 1 \/ i = 2 \/ i = 3 \/ i = 4 \/ i = 5
  OBVIOUS
<1>3. ASSUME NEW i \in 1 .. 5
      PROVE  /\ After(TreePatches[i]) = IF i = 5 THEN "sampler" ELSE TreePatches[i + 1]
             /\ TreePatches[i] \in InTree
  <2>1. \A j \in 1 .. 5 : TreePatches[j] = TreePatches[i] => j = i
    BY <1>1, <1>2
  <2>2. (CHOOSE j \in DOMAIN TreePatches : TreePatches[j] = TreePatches[i]) = i
    BY <1>1, <2>1
  <2>. QED  BY <1>1, <1>2, <2>2 DEF After, InTree
<1>. QED  BY <1>1, <1>3

-----------------------------------------------------------------------------
(***************************************************************************)
(* What steps that leave the sources, or the bundle, alone preserve.       *)
(***************************************************************************)
LEMMA WorldStays ==
  ASSUME UNCHANGED world
  PROVE  /\ Edits' = Edits
         /\ WritesOptions' =
              IF tag >= 1801 /\ "cpu" \notin edits' THEN "cpu_options" ELSE "xnnpack"
         /\ Flat' = Flat /\ MachO' = MachO
BY DEF world, Edits, NeedsTeardownPatch, WritesOptions, Flat,
   MachO

LEMMA BuildStays ==
  ASSUME UNCHANGED <<world, tree, edits>>
  PROVE  /\ Compiled' = Compiled /\ HostDefects' = HostDefects
         /\ WritesOptions' = WritesOptions
BY DEF world, Compiled, CompiledFiles, HostDefects,
   WritesOptions

LEMMA SourcesStay ==
  ASSUME BuildInv, UNCHANGED <<world, tree, edits, built>>,
         pc' \in {"dead", "failed"} \/ (pc \in Staging /\ pc' \in Staging)
  PROVE  TreeInv' /\ PatchInv' /\ CompileInv' /\ QualifiedInv'
<1>. USE DEF BuildInv, world
<1>1. pc' \in {"dead", "failed"} =>
        /\ pc' \notin Compiling \cup {"bazel"} /\ pc' \notin Qualified /\ pc' \notin Staging
        /\ \A p \in InTree : pc' \notin Behind(p)
  BY DEF Compiling, Qualified, Staging, Behind, Patched, InTree
<1>2. pc \in Staging => /\ pc \in Compiling /\ pc \in Qualified
                        /\ \A p \in InTree : pc \in Behind(p)
  BY DEF Compiling, Qualified, Staging, Behind, Patched, InTree
<1>3. TreeInv'
  BY DEF TreeInv
<1>4. PatchInv'
  BY <1>1, <1>2 DEF PatchInv, Treated
<1>5. CompileInv'
  BY <1>1, <1>2, WorldStays, BuildStays DEF CompileInv
<1>6. QualifiedInv'
  BY <1>1, <1>2 DEF QualifiedInv
<1>. QED  BY <1>3, <1>4, <1>5, <1>6

\* Until a library is staged nothing is claimed of the bundle.
LEMMA BeforeStaging ==
  ASSUME pc' \notin {"prebuilt", "walk"} \cup AfterWalk, seen' = {} \/ pc' \in Resting
  PROVE  WalkInv' /\ LinuxInv' /\ DoneInv'
BY DEF WalkInv, LinuxInv, DoneInv, AfterWalk, BundleIsClosed

LEMMA BuildInvInit == BuildInit => BuildInv
<1>. SUFFICES ASSUME BuildInit PROVE BuildInv
  OBVIOUS
<1>1. pc = "idle" /\ "idle" \notin Compiling \cup {"bazel"} \cup Qualified \cup Staging
                    \cup {"prebuilt", "walk"} \cup AfterWalk \cup {"done"}
      /\ \A p \in InTree : "idle" \notin Behind(p)
  BY DEF BuildInit, Compiling, Qualified, Staging, AfterWalk, Behind, InTree, Patched
<1>2. BuildTypeOK
  <2>1. needs \in Graphs /\ needs \in [Libs -> [Kinds -> SUBSET Libs]]
    BY BuildConfig DEF BuildInit
  <2>2. tree \in [Patches -> Nat]
    BY FilesAreCounted, PatchTable DEF BuildInit
  <2>3. staged \in [Libs -> Kinds]
    BY DEF BuildInit, Kinds
  <2>. QED  BY <2>1, <2>2, <2>3 DEF BuildInit, BuildTypeOK, Positions, Resting
<1>3. TreeInv
  BY FilesAreCounted, PatchTable DEF BuildInit, TreeInv
<1>. QED  BY <1>1, <1>2, <1>3 DEF BuildInv, PatchInv, CompileInv, QualifiedInv, WalkInv,
             LinuxInv, DoneInv, BundleIsClosed, BuildInit

-----------------------------------------------------------------------------
(***************************************************************************)
(* Sources: every step up to Bazel.                                        *)
(***************************************************************************)
\* Before Bazel only the tree and the patches done with are spoken of.
LEMMA SourceStep ==
  ASSUME BuildInv, UNCHANGED <<world, staged>>, todo' \in {{}, todo}, seen' \in {{}, seen},
         tree' \in [Patches -> Nat], edits' \in {{}, Edits}, TreeInv',
         pc' \in Positions \ ({"bazel", "done"} \cup Compiling),
         seen' = {} \/ pc' \in Resting,
         \A p \in InTree : pc' \in Behind(p) => Treated(p)'
  PROVE  BuildInv'
<1>1. BuildTypeOK'
  BY WorldStays DEF BuildInv, BuildTypeOK, world
<1>2. CompileInv' /\ QualifiedInv'
  BY DEF CompileInv, QualifiedInv, Compiling, Qualified
<1>3. WalkInv' /\ LinuxInv' /\ DoneInv'
  BY BeforeStaging DEF AfterWalk, Compiling, Qualified, Staging
<1>. QED  BY <1>1, <1>2, <1>3 DEF BuildInv, PatchInv

LEMMA EarlyPositions ==
  ASSUME pc \in {"workspace", "edit"} \cup InTree \cup {"sampler", "prebuilts", "bazel"}, WalkInv
  PROVE  seen = {}
BY DEF WalkInv, AfterWalk, Resting, InTree

LEMMA StartKeeps == BuildInv /\ StartBuild => BuildInv'
<1>. SUFFICES ASSUME BuildInv, StartBuild PROVE BuildInv'
  OBVIOUS
<1>1. /\ pc' \in {"workspace", "overlap"} /\ seen' = {} /\ todo' = {}
      /\ UNCHANGED <<world, staged>>
  BY DEF StartBuild, Goto
<1>2. /\ pc' \in Positions \ ({"bazel", "done"} \cup Compiling)
      /\ \A p \in InTree : pc' \notin Behind(p)
  BY <1>1 DEF Positions, Compiling, Qualified, Staging, Behind, InTree, Patched
<1>3. tree' \in [Patches -> Nat] /\ edits' \in {{}, Edits} /\ TreeInv'
  <2>1. CASE mode = "archive"
    BY <2>1, FilesAreCounted, PatchTable DEF StartBuild, TreeInv
  <2>2. CASE mode # "archive"
    BY <2>2 DEF StartBuild, TreeInv, BuildInv, BuildTypeOK, world
  <2>. QED  BY <2>1, <2>2
<1>. QED  BY <1>1, <1>2, <1>3, SourceStep

LEMMA PatchWorkspaceKeeps == BuildInv /\ PatchWorkspace => BuildInv'
<1>. SUFFICES ASSUME BuildInv, PatchWorkspace PROVE BuildInv'
  OBVIOUS
<1>1. /\ pc' \in {"edit", "failed"} /\ pc = "workspace" /\ seen = {}
      /\ UNCHANGED <<world, staged, todo, seen, edits>>
  BY EarlyPositions DEF PatchWorkspace, Step, BuildInv
<1>2. /\ pc' \in Positions \ ({"bazel", "done"} \cup Compiling)
      /\ \A p \in InTree : pc' \notin Behind(p)
  BY <1>1 DEF Positions, Resting, Compiling, Qualified, Staging, Behind, InTree,
     Patched
<1>3. tree' \in [Patches -> Nat] /\ edits' \in {{}, Edits}
  BY <1>1, FilesAreCounted, PatchTable DEF PatchWorkspace, BuildInv, BuildTypeOK
<1>4. TreeInv'
  BY <1>1, FilesAreCounted, PatchTable DEF PatchWorkspace, TreeInv, BuildInv,
     BuildTypeOK, world
<1>. QED  BY <1>1, <1>2, <1>3, <1>4, SourceStep

LEMMA EditWorkspaceKeeps == BuildInv /\ EditWorkspace => BuildInv'
<1>. SUFFICES ASSUME BuildInv, EditWorkspace PROVE BuildInv'
  OBVIOUS
<1>1. /\ pc' \in {"overlap", "failed"} /\ pc = "edit" /\ seen = {}
      /\ UNCHANGED <<world, staged, todo, seen, tree>>
  BY EarlyPositions DEF EditWorkspace, Step, BuildInv
<1>2. /\ pc' \in Positions \ ({"bazel", "done"} \cup Compiling)
      /\ \A p \in InTree : pc' \notin Behind(p)
  BY <1>1 DEF Positions, Resting, Compiling, Qualified, Staging, Behind, InTree,
     Patched
<1>3. tree' \in [Patches -> Nat] /\ edits' \in {{}, Edits} /\ TreeInv'
  BY <1>1 DEF EditWorkspace, BuildInv, BuildTypeOK, TreeInv, world
<1>. QED  BY <1>1, <1>2, <1>3, SourceStep

\* A patch to the tree: whatever the run finds, it goes on only from a tree that
\* holds all of it or, where the release does not call for it, none.
LEMMA PatchTreeKeeps ==
  ASSUME BuildInv, NEW i \in DOMAIN TreePatches, PatchTree(TreePatches[i])
  PROVE  BuildInv'
<1>. DEFINE p == TreePatches[i]
<1>1. p \in InTree /\ p \in Patches /\ Patch[p].files \in Nat \ {0}
  BY TreeOrder, PatchTable, FilesAreCounted
<1>2. pc = p /\ seen = {} /\ UNCHANGED <<world, edits, staged, todo, seen>>
  BY <1>1, EarlyPositions DEF PatchTree, BuildInv
<1>3. tree' \in [Patches -> Nat] /\ edits' \in {{}, Edits}
  BY <1>1, <1>2 DEF PatchTree, BuildInv, BuildTypeOK
<1>4. Decision(p, tag) \in {"skip", "apply", "refuse"} /\ tag \in Nat
  BY <1>1, Decisions, BuildConfig DEF BuildInv, BuildTypeOK
<1>5. TreeInv' /\ (pc' # "failed" => Treated(p)')
  <2>1. \/ tree' = tree /\ (pc' = "failed" \/ Treated(p))
        \/ /\ tree' = [tree EXCEPT ![p] = Patch[p].files]
           /\ Decision(p, tag) = "apply" /\ oddity # p
    <3>1. CASE Decision(p, tag) = "skip"
      BY <3>1 DEF PatchTree, Treated, Carries
    <3>2. CASE Decision(p, tag) = "refuse"
      BY <3>2 DEF PatchTree, Fail, Carries
    <3>3. CASE Decision(p, tag) = "apply"
      BY <3>3 DEF PatchTree, Fail, Carries, Treated
    <3>. QED  BY <1>4, <3>1, <3>2, <3>3
  <2>2. CASE tree' = tree /\ (pc' = "failed" \/ Treated(p))
    BY <1>2, <2>2 DEF BuildInv, TreeInv, Treated, world
  <2>3. CASE /\ tree' = [tree EXCEPT ![p] = Patch[p].files]
             /\ Decision(p, tag) = "apply" /\ oddity # p
    BY <1>1, <1>2, <2>3, PatchTable DEF BuildInv, BuildTypeOK, TreeInv, Treated,
       Carries, InTree, world
  <2>. QED  BY <2>1, <2>2, <2>3
<1>6. \A q \in InTree \ {p} : tree'[q] = tree[q]
  BY <1>1, PatchTable DEF PatchTree, BuildInv, BuildTypeOK
<1>7. pc' = "failed" \/ pc' = After(p)
  BY DEF PatchTree, Goto, Fail
<1>8. /\ pc' \in Positions \ ({"bazel", "done"} \cup Compiling)
      /\ \A q \in InTree : pc' \in Behind(q) => pc' # "failed" /\ (pc \in Behind(q) \/ q = p)
  BY <1>1, <1>2, <1>7, TreeOrder DEF Positions, Resting, Compiling, Qualified,
     Staging, Behind, InTree, Patched
<1>9. \A q \in InTree : pc' \in Behind(q) => Treated(q)'
  BY <1>2, <1>5, <1>6, <1>8 DEF BuildInv, PatchInv, Treated, world
<1>. QED  BY <1>2, <1>3, <1>5, <1>8, <1>9, SourceStep

LEMMA CutPatchKeeps ==
  ASSUME BuildInv, NEW i \in DOMAIN TreePatches, CutPatch(TreePatches[i])
  PROVE  BuildInv'
<1>. DEFINE p == TreePatches[i]
<1>1. p \in InTree /\ p \in Patches /\ Patch[p].files \in Nat \ {0}
  BY TreeOrder, PatchTable, FilesAreCounted
<1>2. /\ pc = p /\ pc' = "dead" /\ Carries(p, tag)
      /\ UNCHANGED <<world, edits, staged, todo, seen>>
  BY DEF CutPatch, Goto
<1>3. PICK k \in 1 .. Patch[p].files : tree' = [tree EXCEPT ![p] = k]
  BY DEF CutPatch
<1>4. tree' \in [Patches -> Nat] /\ edits' \in {{}, Edits}
  BY <1>1, <1>2, <1>3 DEF BuildInv, BuildTypeOK
<1>5. TreeInv'
  BY <1>1, <1>2, <1>3, PatchTable DEF BuildInv, BuildTypeOK, TreeInv, InTree, world
<1>6. /\ pc' \in Positions \ ({"bazel", "done"} \cup Compiling) /\ pc' \in Resting
      /\ \A q \in InTree : pc' \notin Behind(q)
  BY <1>2 DEF Positions, Resting, Compiling, Qualified, Staging, Behind, InTree,
     Patched
<1>. QED  BY <1>2, <1>4, <1>5, <1>6, SourceStep

LEMMA PatchSamplerPathKeeps == BuildInv /\ PatchSamplerPath => BuildInv'
<1>. SUFFICES ASSUME BuildInv, PatchSamplerPath PROVE BuildInv'
  OBVIOUS
<1>1. /\ pc' \in {"prebuilts", "failed"} /\ pc = "sampler" /\ seen = {}
      /\ UNCHANGED <<world, staged, todo, seen, tree, edits>>
  BY EarlyPositions DEF PatchSamplerPath, Step, BuildInv
<1>2. /\ pc' \in Positions \ ({"bazel", "done"} \cup Compiling)
      /\ \A p \in InTree : pc' \in Behind(p) => pc \in Behind(p)
  BY <1>1 DEF Positions, Resting, Compiling, Qualified, Staging, Behind, InTree,
     Patched
<1>3. tree' \in [Patches -> Nat] /\ edits' \in {{}, Edits} /\ TreeInv'
  BY <1>1 DEF BuildInv, BuildTypeOK, TreeInv, world
<1>4. \A p \in InTree : pc' \in Behind(p) => Treated(p)'
  BY <1>1, <1>2 DEF BuildInv, PatchInv, Treated, world
<1>. QED  BY <1>1, <1>2, <1>3, <1>4, SourceStep
LEMMA MaterializeKeeps == BuildInv /\ Materialize => BuildInv'
<1>. SUFFICES ASSUME BuildInv, Materialize PROVE BuildInv'
  OBVIOUS
<1>1. /\ pc' \in {"bazel", "failed"} /\ pc = "prebuilts" /\ seen = {}
      /\ UNCHANGED <<world, staged, todo, seen, tree, edits, built>>
  BY EarlyPositions DEF Materialize, BuildInv, Goto, Fail
<1>2. CASE pc' = "failed"
  <2>1. /\ pc' \in Positions \ ({"bazel", "done"} \cup Compiling) /\ pc' \in Resting
        /\ \A p \in InTree : pc' \notin Behind(p)
    BY <1>2 DEF Positions, Resting, Compiling, Qualified, Staging, Behind, InTree,
       Patched
  <2>2. tree' \in [Patches -> Nat] /\ edits' \in {{}, Edits} /\ TreeInv'
    BY <1>1 DEF BuildInv, BuildTypeOK, TreeInv, world
  <2>. QED  BY <1>1, <2>1, <2>2, SourceStep
<1>3. CASE pc' = "bazel"
  <2>1. /\ pc' \in Positions /\ pc' \notin Compiling \cup Qualified \cup Staging
        /\ pc' \notin {"prebuilt", "walk"} \cup AfterWalk
        /\ \A p \in InTree : pc \in Behind(p)
    BY <1>1, <1>3 DEF Positions, Compiling, Qualified, Staging, Behind, InTree, Patched,
       AfterWalk
  <2>2. /\ Decision("cpu", tag) # "refuse"
        /\ Carries("cpu", tag) /\ Flat => oddity \notin {"prebuilt", "no_core"}
    BY <1>3 DEF Materialize, Fail
  <2>3. BuildTypeOK' /\ TreeInv'
    BY <1>1, <2>1, WorldStays DEF BuildInv, BuildTypeOK, TreeInv, world
  <2>4. PatchInv'
    BY <1>1, <2>1 DEF BuildInv, PatchInv, Treated, world
  <2>5. CompileInv' /\ QualifiedInv'
    BY <1>1, <2>1, <2>2, WorldStays DEF CompileInv, QualifiedInv, world
  <2>6. WalkInv' /\ LinuxInv' /\ DoneInv'
    BY <1>1, <2>1, BeforeStaging
  <2>. QED  BY <2>3, <2>4, <2>5, <2>6 DEF BuildInv
<1>. QED  BY <1>1, <1>2, <1>3

-----------------------------------------------------------------------------
(***************************************************************************)
(* Bazel and the checks of what it made.                                   *)
(***************************************************************************)
LEMMA FailureKeeps ==
  ASSUME BuildInv, UNCHANGED <<world, tree, edits>>, pc' \in {"dead", "failed"},
         staged' \in [Libs -> Kinds], todo' \subseteq Libs, seen' \subseteq Libs
  PROVE  BuildInv'
<1>1. /\ pc' \in Positions /\ pc' \in Resting /\ pc' # "done"
      /\ pc' \notin Compiling \cup {"bazel"} \cup Qualified \cup Staging
      /\ pc' \notin {"prebuilt", "walk"} \cup AfterWalk
      /\ \A p \in InTree : pc' \notin Behind(p)
  BY DEF Positions, Resting, Compiling, Qualified, Staging, Behind, InTree, Patched,
     AfterWalk
<1>2. BuildTypeOK' /\ TreeInv'
  BY <1>1, WorldStays DEF BuildInv, BuildTypeOK, TreeInv, world
<1>3. PatchInv' /\ CompileInv' /\ QualifiedInv'
  BY <1>1 DEF PatchInv, CompileInv, QualifiedInv
<1>4. WalkInv' /\ LinuxInv' /\ DoneInv'
  BY <1>1, BeforeStaging
<1>. QED  BY <1>2, <1>3, <1>4 DEF BuildInv

LEMMA BazelKeeps == BuildInv /\ Bazel => BuildInv'
<1>. SUFFICES ASSUME BuildInv, Bazel PROVE BuildInv'
  OBVIOUS
<1>1. /\ pc' \in {"verify", "failed"} /\ pc = "bazel" /\ seen = {}
      /\ UNCHANGED <<world, staged, todo, seen, tree, edits>>
  BY EarlyPositions DEF Bazel, BuildInv, Goto, Fail
<1>2. CASE pc' = "failed"
  BY <1>1, <1>2, FailureKeeps DEF BuildInv, BuildTypeOK
<1>3. CASE pc' = "verify"
  <2>1. /\ pc' \in Positions /\ pc' \in Compiling /\ pc' \notin Qualified \cup Staging
        /\ pc' \notin {"prebuilt", "walk"} \cup AfterWalk
        /\ \A p \in InTree : pc \in Behind(p)
    BY <1>1, <1>3 DEF Positions, Compiling, Qualified, Staging, Behind, InTree, Patched,
       AfterWalk
  <2>2. built' = [carried |-> Compiled, defects |-> HostDefects, cpu_options |-> WritesOptions]
    BY <1>3 DEF Bazel, Fail
  <2>3. Carries("workspace", tag) => tree["workspace"] = Workspace.files
    <3>1. Carries("workspace", tag) => ~(tree["workspace"] < Workspace.files)
      BY <1>3 DEF Bazel, Fail
    <3>2. /\ tree["workspace"] \in Nat /\ tree["workspace"] <= Workspace.files
          /\ Workspace.files \in Nat
      BY PatchTable, FilesAreCounted DEF BuildInv, BuildTypeOK, TreeInv
    <3>. QED  BY <3>1, <3>2
  <2>4. BuildTypeOK' /\ TreeInv'
    BY <1>1, <2>1, WorldStays DEF BuildInv, BuildTypeOK, TreeInv, world
  <2>5. PatchInv'
    BY <1>1, <2>1 DEF BuildInv, PatchInv, Treated, world
  <2>6. CompileInv' /\ QualifiedInv'
    BY <1>1, <2>1, <2>2, <2>3, WorldStays, BuildStays DEF BuildInv, CompileInv,
       QualifiedInv, world
  <2>7. WalkInv' /\ LinuxInv' /\ DoneInv'
    BY <1>1, <2>1, BeforeStaging
  <2>. QED  BY <2>4, <2>5, <2>6, <2>7 DEF BuildInv
<1>. QED  BY <1>1, <1>2, <1>3
\* A compiled source, and a manifest entry, is of one patch.
LEMMA CompiledOnce ==
  ASSUME NEW p \in Patches, NEW k
  PROVE  /\ <<p, k>> \in Compiled <=> k \in CompiledFiles(p)
         /\ <<p, k>> \in Manifest(tag) <=> k \in 1 .. Patch[p].files /\ Carries(p, tag)
         /\ <<p, k>> \in Entries(p, tag) <=> k \in 1 .. Patch[p].files /\ Carries(p, tag)
<1>1. <<p, k>> \in Compiled <=> k \in CompiledFiles(p)
  BY DEF Compiled
<1>2. <<p, k>> \in Entries(p, tag) <=> k \in 1 .. Patch[p].files /\ Carries(p, tag)
  BY DEF Entries
<1>3. \A q \in Patches : <<p, k>> \in Entries(q, tag) => q = p
  BY DEF Entries
<1>4. <<p, k>> \in Manifest(tag) <=> <<p, k>> \in Entries(p, tag)
  BY <1>3 DEF Manifest
<1>. QED  BY <1>1, <1>2, <1>4

\* Nothing in the tree is one of the sources Bazel patches outside it: that they
\* were compiled patched says the WORKSPACE asked for it.
LEMMA PatchedOutside ==
  ASSUME BuildTypeOK, TreeInv, NEW p \in {"pf32", "qc4w", "cpu"}, Carries(p, tag),
         Entries(p, tag) \subseteq Compiled
  PROVE  IF p = "cpu" THEN "cpu" \in edits ELSE "xnnpack" \in edits
<1>1. p \in Patches /\ Patch[p].files \in Nat \ {0} /\ tree[p] = 0
  BY PatchTable, FilesAreCounted DEF TreeInv, InTree
<1>2. 1 \in CompiledFiles(p)
  <2>1. 1 \in 1 .. Patch[p].files
    BY <1>1
  <2>. QED  BY <1>1, <2>1, CompiledOnce
<1>3. 1 .. tree[p] = {}
  BY <1>1
<1>. QED  BY <1>2, <1>3 DEF CompiledFiles

LEMMA VerifyPostimagesKeeps == BuildInv /\ VerifyPostimages => BuildInv'
<1>. SUFFICES ASSUME BuildInv, VerifyPostimages PROVE BuildInv'
  OBVIOUS
<1>1. /\ pc' \in {"validate", "failed"} /\ pc = "verify"
      /\ UNCHANGED <<world, staged, todo, seen, tree, edits, built>>
  BY DEF VerifyPostimages, Step
<1>2. CASE pc' = "failed"
  BY <1>1, <1>2, FailureKeeps DEF BuildInv, BuildTypeOK
<1>3. CASE pc' = "validate"
  <2>1. /\ pc' \in Positions /\ pc' \in Compiling /\ pc' \in Qualified /\ pc' \notin Staging
        /\ pc \in Compiling /\ pc \notin {"walk"} \cup AfterWalk \cup Resting
        /\ pc' \notin {"prebuilt", "walk"} \cup AfterWalk
        /\ \A p \in InTree : pc \in Behind(p)
    BY <1>1, <1>3 DEF Positions, Resting, Compiling, Qualified, Staging, Behind,
       InTree, Patched, AfterWalk
  <2>2. /\ Decision("pf32", tag) # "refuse"
        /\ \A p \in {"pf32", "qc4w"} :
               Carries("pf32", tag) => oddity # p /\ Entries(p, tag) \subseteq Compiled
        /\ Carries("cpu", tag) => oddity # "cpu" /\ Entries("cpu", tag) \subseteq Compiled
    BY <1>3, <2>1 DEF VerifyPostimages, Step, BuildInv, CompileInv
  <2>3. /\ Carries("pf32", tag) => oddity \notin {"pf32", "qc4w"} /\ "xnnpack" \in edits
        /\ Carries("cpu", tag) => oddity # "cpu" /\ "cpu" \in edits
    BY <2>2, PatchedOutside DEF BuildInv
  <2>4. BuildTypeOK' /\ TreeInv'
    BY <1>1, <2>1, WorldStays DEF BuildInv, BuildTypeOK, TreeInv, world
  <2>5. PatchInv'
    BY <1>1, <2>1 DEF BuildInv, PatchInv, Treated, world
  <2>6. CompileInv' /\ QualifiedInv'
    BY <1>1, <2>1, <2>2, <2>3, WorldStays, BuildStays DEF BuildInv, CompileInv,
       QualifiedInv, world
  <2>7. WalkInv' /\ LinuxInv' /\ DoneInv'
    BY <1>1, <2>1, BeforeStaging DEF BuildInv, WalkInv
  <2>. QED  BY <2>4, <2>5, <2>6, <2>7 DEF BuildInv
<1>. QED  BY <1>1, <1>2, <1>3

LEMMA ValidateKeeps == BuildInv /\ Validate => BuildInv'
<1>. SUFFICES ASSUME BuildInv, Validate PROVE BuildInv'
  OBVIOUS
<1>1. /\ pc' \in {"stage", "failed"} /\ pc = "validate"
      /\ UNCHANGED <<world, staged, todo, seen, tree, edits, built>>
  BY DEF Validate, Step
<1>2. CASE pc' = "failed"
  BY <1>1, <1>2, FailureKeeps DEF BuildInv, BuildTypeOK
<1>3. CASE pc' = "stage"
  <2>1. /\ pc' \in Positions /\ pc' \in Compiling /\ pc' \in Qualified /\ pc' \in Staging
        /\ pc \in Compiling /\ pc \in Qualified
        /\ pc \notin {"walk"} \cup AfterWalk \cup Resting
        /\ pc' \notin {"prebuilt", "walk"} \cup AfterWalk
        /\ \A p \in InTree : pc \in Behind(p)
    BY <1>1, <1>3 DEF Positions, Resting, Compiling, Qualified, Staging, Behind,
       InTree, Patched, AfterWalk
  <2>2. /\ "symbols" \notin built.defects
        /\ platform = "android" =>
               /\ built.defects \cap {"global", "teardown"} = {}
               /\ tag >= 1900 => "protobuf" \notin built.defects
    BY <1>3 DEF Validate, Step
  <2>4. BuildTypeOK' /\ TreeInv'
    BY <1>1, <2>1, WorldStays DEF BuildInv, BuildTypeOK, TreeInv, world
  <2>5. PatchInv'
    BY <1>1, <2>1 DEF BuildInv, PatchInv, Treated, world
  <2>6. CompileInv' /\ QualifiedInv'
    BY <1>1, <2>1, <2>2, WorldStays, BuildStays DEF BuildInv, CompileInv, QualifiedInv,
       world
  <2>7. WalkInv' /\ LinuxInv' /\ DoneInv'
    BY <1>1, <2>1, BeforeStaging DEF BuildInv, WalkInv
  <2>. QED  BY <2>4, <2>5, <2>6, <2>7 DEF BuildInv
<1>. QED  BY <1>1, <1>2, <1>3
-----------------------------------------------------------------------------
(***************************************************************************)
(* Staging.                                                                *)
(***************************************************************************)
LEMMA StagingStep ==
  ASSUME BuildInv, UNCHANGED <<world, tree, edits, built>>, pc \in Staging, pc' \in Staging,
         staged' \in [Libs -> Kinds], todo' \subseteq Libs, seen' \subseteq Libs,
         WalkInv', LinuxInv', DoneInv'
  PROVE  BuildInv'
<1>1. pc' \in Positions
  BY DEF Positions, Resting, Compiling, Qualified, Staging, Patched
<1>2. BuildTypeOK'
  BY <1>1, WorldStays DEF BuildInv, BuildTypeOK, world
<1>. QED  BY <1>2, SourcesStay DEF BuildInv

\* Every kind of copy has an entry in the graph, so that a list is a set of libraries.
LEMMA NeedsAreLibraries ==
  ASSUME BuildTypeOK, NEW l \in Libs
  PROVE  Needs(l) \in SUBSET Libs /\ Found(l) \in SUBSET Libs
BY DEF BuildTypeOK, Needs, Found

\* A copy that stays lists what it listed.
LEMMA NeedsStay ==
  ASSUME UNCHANGED world, NEW l, staged'[l] = staged[l]
  PROVE  Needs(l)' = Needs(l)
BY DEF Needs, world

LEMMA StageHostKeeps == BuildInv /\ StageHost => BuildInv'
<1>. SUFFICES ASSUME BuildInv, StageHost PROVE BuildInv'
  OBVIOUS
<1>1. /\ pc = "stage" /\ pc' \in {"prebuilt", "failed"}
      /\ staged' = [staged EXCEPT !["host"] = "bazel"]
      /\ UNCHANGED <<world, tree, edits, built, todo, seen>>
  BY DEF StageHost, Goto, Fail
<1>2. staged' \in [Libs -> Kinds] /\ staged'["host"] = "bazel" /\ seen = {}
  BY <1>1, BuildConfig DEF BuildInv, BuildTypeOK, Kinds, WalkInv, AfterWalk, Resting
<1>3. CASE pc' = "failed"
  BY <1>1, <1>2, <1>3, FailureKeeps DEF BuildInv, BuildTypeOK
<1>4. CASE pc' = "prebuilt"
  <2>1. WalkInv' /\ LinuxInv' /\ DoneInv'
    BY <1>1, <1>2, <1>4 DEF WalkInv, LinuxInv, DoneInv, BundleIsClosed, AfterWalk,
       Resting
  <2>. QED  BY <1>1, <1>2, <1>4, <2>1, StagingStep DEF Staging, BuildInv, BuildTypeOK
<1>. QED  BY <1>1, <1>3, <1>4

LEMMA CopyPrebuiltsKeeps == BuildInv /\ CopyPrebuilts => BuildInv'
<1>. SUFFICES ASSUME BuildInv, CopyPrebuilts PROVE BuildInv'
  OBVIOUS
<1>1. /\ pc = "prebuilt" /\ todo' = {"host"} /\ "host" \in Libs
      /\ UNCHANGED <<world, tree, edits, built, seen>>
      /\ pc' \in {"failed", IF platform = "windows" THEN "override" ELSE "walk"}
      /\ seen \subseteq Libs /\ seen = {} /\ staged["host"] = "bazel"
  BY BuildConfig DEF CopyPrebuilts, Goto, Fail, BuildInv, BuildTypeOK, WalkInv, AfterWalk,
     Resting
<1>2. PICK S \in SUBSET Prebuilts :
        staged' = [l \in Libs |-> IF l \in S THEN "prebuilt" ELSE staged[l]]
  BY DEF CopyPrebuilts
<1>3. staged' \in [Libs -> Kinds] /\ staged'["host"] = "bazel"
  <2>1. "host" \notin S
    BY <1>2 DEF Prebuilts, HasPrebuilt, Prebuilt
  <2>. QED  BY <1>1, <1>2, <2>1 DEF BuildInv, BuildTypeOK, Kinds
<1>4. CASE pc' = "failed"
  BY <1>1, <1>3, <1>4, FailureKeeps
<1>5. CASE pc' # "failed"
  <2>1. WalkInv'
    BY <1>1, <1>3, <1>5 DEF WalkInv, AfterWalk, Resting, Bundle, world
  <2>2. LinuxInv' /\ DoneInv'
    BY <1>1, <1>5 DEF LinuxInv, DoneInv, BundleIsClosed, AfterWalk, world
  <2>. QED  BY <1>1, <1>3, <1>5, <2>1, <2>2, StagingStep DEF Staging
<1>. QED  BY <1>4, <1>5

\* What the walk stages is there, and what is met already stays as it was: the
\* one library copied again, the Linux core, was the prebuilt one before.
LEMMA WalkStages ==
  ASSUME BuildInv, pc = "walk", NEW l \in todo, Stage(Found(l)), ~WalkFails(l)
  PROVE  /\ staged' \in [Libs -> Kinds]
         /\ \A d \in seen \cup todo : staged'[d] = staged[d]
         /\ \A d \in Found(l) : staged'[d] # "absent"
         /\ platform = "linux" /\ "core" \in Found(l) => staged'["core"] = "prebuilt"
<1>1. staged' = [d \in Libs |-> IF d \in Found(l) THEN StagedAs(d) ELSE staged[d]]
  BY DEF Stage
<1>2. staged \in [Libs -> Kinds] /\ seen \cup todo \subseteq Libs /\ Found(l) \subseteq Libs
  BY NeedsAreLibraries DEF BuildInv, BuildTypeOK
<1>3. \A d \in Libs : StagedAs(d) \in Kinds \ {"absent"}
  BY <1>2 DEF StagedAs, Kinds
<1>4. \A d \in seen \cup todo :
        /\ staged[d] # "absent"
        /\ platform = "linux" /\ d = "core" => staged[d] = "prebuilt"
  BY DEF BuildInv, WalkInv, LinuxInv, Bundle
<1>. QED  BY <1>1, <1>2, <1>3, <1>4 DEF StagedAs

LEMMA WalkKeeps ==
  ASSUME BuildInv, NEW l \in Libs, Walk(l)
  PROVE  BuildInv'
<1>1. /\ pc = "walk" /\ l \in todo /\ UNCHANGED <<world, tree, edits, built>>
      /\ todo \subseteq Libs /\ seen \subseteq Libs /\ Found(l) \subseteq Libs
      /\ staged \in [Libs -> Kinds]
  BY NeedsAreLibraries DEF Walk, BuildInv, BuildTypeOK
<1>2. CASE Fail /\ UNCHANGED <<todo, seen>> /\ \E S \in SUBSET Found(l) : Stage(S)
  <2>1. staged' \in [Libs -> Kinds]
    BY <1>1, <1>2 DEF Stage, StagedAs, Kinds
  <2>. QED  BY <1>1, <1>2, <2>1, FailureKeeps DEF Fail
<1>3. CASE /\ ~WalkFails(l) /\ Stage(Found(l)) /\ pc' = pc
           /\ seen' = seen \cup {l} /\ todo' = (todo \cup Found(l)) \ seen'
  <2>1. /\ staged' \in [Libs -> Kinds]
        /\ \A d \in seen \cup todo : staged'[d] = staged[d]
        /\ \A d \in Found(l) : staged'[d] # "absent"
        /\ platform = "linux" /\ "core" \in Found(l) => staged'["core"] = "prebuilt"
    BY <1>1, <1>3, WalkStages
  <2>2. seen' \cup todo' = seen \cup todo \cup Found(l)
    BY <1>1, <1>3
  <2>3. /\ platform # "windows" /\ "host" \in seen \cup todo /\ staged["host"] = "bazel"
        /\ seen \cup todo \subseteq Bundle
        /\ \A c \in seen : Needs(c) \subseteq seen \cup todo
    BY <1>1 DEF BuildInv, WalkInv
  <2>4. \A c \in seen \cup {l} : Needs(c)' = Needs(c)
    BY <1>1, <2>1, NeedsStay
  <2>5. \A c \in seen' : Needs(c)' \subseteq seen' \cup todo'
    BY <1>3, <2>2, <2>3, <2>4 DEF Found
  <2>6. seen' \cup todo' \subseteq Bundle'
    BY <1>1, <2>1, <2>2, <2>3 DEF Bundle
  <2>7. WalkInv'
    BY <1>1, <1>3, <2>1, <2>2, <2>3, <2>5, <2>6 DEF WalkInv, AfterWalk, Resting,
       world
  <2>8. LinuxInv' /\ DoneInv'
    BY <1>1, <1>3, <2>1, <2>2 DEF BuildInv, LinuxInv, DoneInv, BundleIsClosed,
       AfterWalk, world
  <2>. QED  BY <1>1, <1>3, <2>1, <2>2, <2>7, <2>8, StagingStep DEF Staging
<1>. QED  BY <1>2, <1>3 DEF Walk

LEMMA WalkedKeeps == BuildInv /\ Walked => BuildInv'
<1>. SUFFICES ASSUME BuildInv, Walked PROVE BuildInv'
  OBVIOUS
<1>1. /\ pc = "walk" /\ pc' = "override" /\ todo = {}
      /\ UNCHANGED <<world, tree, edits, built, staged, todo, seen>>
  BY DEF Walked, Goto
<1>2. /\ platform # "windows" /\ seen \subseteq Bundle /\ "host" \in seen /\ staged["host"] = "bazel"
      /\ \A l \in seen : Needs(l) \subseteq seen
  BY <1>1 DEF BuildInv, WalkInv
<1>3. \A l : Needs(l)' = Needs(l)
  BY <1>1, NeedsStay
<1>4. WalkInv'
  BY <1>1, <1>2, <1>3 DEF WalkInv, AfterWalk, Resting, ClosedSet, Bundle, world
<1>5. LinuxInv' /\ DoneInv'
  BY <1>1, <1>2, <1>3 DEF BuildInv, LinuxInv, DoneInv, BundleIsClosed, AfterWalk,
     world
<1>. QED  BY <1>1, <1>4, <1>5, StagingStep DEF Staging, BuildInv, BuildTypeOK

\* A closed set stays closed when all that happens to it is that overrides land in it.
LEMMA ClosedStays ==
  ASSUME NEW C, ClosedSet(C), C \subseteq Libs, UNCHANGED world,
         \A l \in C : staged'[l] = staged[l] \/ staged'[l] = "pinned"
  PROVE  ClosedSet(C)'
<1>1. C \subseteq Bundle'
  BY DEF ClosedSet, Bundle
<1>2. ASSUME NEW l \in C, staged'[l] # "pinned"
      PROVE  Needs(l)' \subseteq C
  BY <1>2, NeedsStay DEF ClosedSet
<1>. QED  BY <1>1, <1>2 DEF ClosedSet

LEMMA OverrideKeeps == BuildInv /\ Override => BuildInv'
<1>. SUFFICES ASSUME BuildInv, Override PROVE BuildInv'
  OBVIOUS
<1>1. /\ pc = "override" /\ pc' \in {"vcruntime", "failed"}
      /\ UNCHANGED <<world, tree, edits, built, todo, seen>>
      /\ todo' \subseteq Libs /\ seen' \subseteq Libs /\ seen \subseteq Libs
      /\ staged \in [Libs -> Kinds] /\ {"host", "core"} \subseteq Libs
      /\ staged["host"] = "bazel" /\ (platform # "windows" => ClosedSet(seen))
  BY BuildConfig DEF Override, Goto, Fail, BuildInv, BuildTypeOK, WalkInv, AfterWalk
<1>2. PICK S \in SUBSET Overrides :
        staged' = [l \in Libs |-> IF l \in S THEN "pinned" ELSE staged[l]]
  BY DEF Override
<1>3. /\ staged' \in [Libs -> Kinds] /\ staged'["host"] = "bazel"
      /\ \A l \in Libs : staged'[l] = staged[l] \/ staged'[l] = "pinned"
      /\ staged'["core"] = staged["core"]
  BY <1>1, <1>2 DEF Kinds, Overrides
<1>4. CASE pc' = "failed"
  BY <1>1, <1>3, <1>4, FailureKeeps
<1>5. CASE pc' = "vcruntime"
  <2>1. platform # "windows" => ClosedSet(seen)'
    BY <1>1, <1>3, ClosedStays
  <2>2. WalkInv'
    BY <1>1, <1>3, <1>5, <2>1 DEF WalkInv, AfterWalk, Resting, world
  <2>3. Needs("host")' = Needs("host")
    BY <1>1, <1>3, NeedsStay
  <2>4. LinuxInv' /\ DoneInv'
    BY <1>1, <1>3, <1>5, <2>3 DEF BuildInv, LinuxInv, DoneInv, BundleIsClosed, AfterWalk,
       world
  <2>. QED  BY <1>1, <1>3, <1>5, <2>2, <2>4, StagingStep DEF Staging
<1>. QED  BY <1>1, <1>4, <1>5

LEMMA NeedsOfTheBundle ==
  \A d : d \in BundleNeeds <=> d \notin Bundle /\ \E l \in Bundle : d \in Needs(l)
BY DEF BundleNeeds

LEMMA StageVcRuntimeKeeps == BuildInv /\ StageVcRuntime => BuildInv'
<1>. SUFFICES ASSUME BuildInv, StageVcRuntime PROVE BuildInv'
  OBVIOUS
<1>1. /\ pc = "vcruntime" /\ UNCHANGED <<world, tree, edits, built, todo, seen>>
      /\ staged \in [Libs -> Kinds] /\ todo' \subseteq Libs /\ seen' \subseteq Libs
      /\ seen \subseteq Libs /\ "host" \in Libs /\ staged["host"] = "bazel"
  BY BuildConfig DEF StageVcRuntime, BuildInv, BuildTypeOK, WalkInv, AfterWalk
<1>2. CASE platform # "windows" /\ pc' = "policy" /\ staged' = staged
  <2>1. ClosedSet(seen)'
    BY <1>1, <1>2, ClosedStays DEF BuildInv, WalkInv, AfterWalk
  <2>2. WalkInv'
    BY <1>1, <1>2, <2>1 DEF WalkInv, AfterWalk, Resting, world
  <2>3. Needs("host")' = Needs("host")
    BY <1>1, <1>2, NeedsStay
  <2>4. LinuxInv' /\ DoneInv'
    BY <1>1, <1>2, <2>3 DEF BuildInv, LinuxInv, DoneInv, BundleIsClosed, AfterWalk,
       world
  <2>. QED  BY <1>1, <1>2, <2>2, <2>4, StagingStep DEF Staging
<1>3. CASE /\ pc' = "failed"
           /\ \E S : staged' = [l \in Libs |-> IF l \in S THEN "bazel" ELSE staged[l]]
  <2>1. staged' \in [Libs -> Kinds]
    BY <1>1, <1>3 DEF Kinds
  <2>. QED  BY <1>1, <1>3, <2>1, FailureKeeps
<1>4. CASE /\ platform = "windows"
           /\ staged' = [l \in Libs |-> IF l \in BundleNeeds THEN "bazel" ELSE staged[l]]
           /\ IF BundleNeeds = {} THEN pc' = "policy" ELSE pc' = "vcruntime"
  <2>2. "host" \in Bundle /\ "host" \notin BundleNeeds
    BY <1>1, NeedsOfTheBundle DEF Bundle
  <2>3. staged' \in [Libs -> Kinds] /\ staged'["host"] = "bazel"
    BY <1>1, <1>4, <2>2 DEF Kinds
  <2>4. pc' = "policy" => ClosedSet(Bundle)'
    <3>. SUFFICES ASSUME pc' = "policy" PROVE ClosedSet(Bundle)'
      OBVIOUS
    <3>1. staged' = staged /\ BundleNeeds = {}
      BY <1>1, <1>4
    <3>2. \A l \in Bundle : Needs(l) \subseteq Bundle
      BY <3>1, NeedsOfTheBundle
    <3>3. ClosedSet(Bundle) /\ Bundle \subseteq Libs
      BY <2>2, <3>2 DEF ClosedSet, Bundle
    <3>4. Bundle' = Bundle /\ \A l : Needs(l)' = Needs(l)
      BY <1>1, <3>1, NeedsStay DEF Bundle
    <3>. QED  BY <3>1, <3>3, <3>4 DEF ClosedSet
  <2>5. WalkInv'
    BY <1>1, <1>4, <2>3, <2>4 DEF WalkInv, AfterWalk, Resting, world
  <2>6. LinuxInv' /\ DoneInv'
    BY <1>1, <1>4 DEF LinuxInv, DoneInv, BundleIsClosed, world
  <2>. QED  BY <1>1, <1>4, <2>3, <2>5, <2>6, StagingStep DEF Staging
<1>. QED  BY <1>2, <1>3, <1>4 DEF StageVcRuntime, Goto, Fail

\* The provider goes only when nothing that stays lists it.
LEMMA ProviderFreeKeeps == BuildInv /\ ProviderFree => BuildInv'
<1>. SUFFICES ASSUME BuildInv, ProviderFree PROVE BuildInv'
  OBVIOUS
<1>1. /\ pc = "policy" /\ UNCHANGED <<world, tree, edits, built, todo, seen>>
      /\ staged \in [Libs -> Kinds] /\ todo' \subseteq Libs /\ seen' \subseteq Libs
      /\ staged["host"] = "bazel"
      /\ "host" \in Libs /\ "provider" \in Libs /\ "host" # "provider"
  BY BuildConfig DEF ProviderFree, BuildInv, BuildTypeOK, WalkInv, AfterWalk
<1>2. PICK C \in SUBSET Libs : ClosedSet(C)
  BY <1>1 DEF BuildInv, BuildTypeOK, WalkInv, AfterWalk, Bundle
<1>3. CASE ~(platform = "ios" /\ tag >= 1700)
  <2>1. pc' = "normalize" /\ staged' = staged
    BY <1>3 DEF ProviderFree, Goto
  <2>2. ClosedSet(C)' /\ C \in SUBSET Bundle'
    BY <1>1, <1>2, <2>1, ClosedStays DEF ClosedSet
  <2>3. WalkInv'
    BY <1>1, <2>1, <2>2 DEF WalkInv, AfterWalk, Resting
  <2>4. Needs("host")' = Needs("host")
    BY <1>1, <2>1, NeedsStay
  <2>5. LinuxInv' /\ DoneInv'
    BY <1>1, <1>3, <2>1, <2>4 DEF BuildInv, LinuxInv, DoneInv, BundleIsClosed, AfterWalk, world
  <2>. QED  BY <1>1, <2>1, <2>3, <2>5, StagingStep DEF Staging
<1>4. CASE pc' = "failed" /\ staged' = staged
  BY <1>1, <1>4, FailureKeeps
<1>5. CASE /\ platform = "ios" /\ tag >= 1700 /\ pc' = "normalize"
           /\ "provider" \notin built.defects
           /\ \A l \in Bundle \ {"provider"} : Readable(l) /\ "provider" \notin Needs(l)
           /\ staged' = [staged EXCEPT !["provider"] = "absent"]
  <2>1. /\ staged' \in [Libs -> Kinds] /\ staged'["provider"] = "absent"
        /\ \A l \in Libs \ {"provider"} : staged'[l] = staged[l]
    BY <1>1, <1>5 DEF Kinds
  <2>2. C \ {"provider"} \in SUBSET Bundle' /\ "host" \in C \ {"provider"}
    BY <1>1, <1>2, <2>1 DEF ClosedSet, Bundle
  <2>3. ASSUME NEW l \in C \ {"provider"}, staged'[l] # "pinned"
        PROVE  Needs(l)' \subseteq C \ {"provider"}
    BY <1>1, <1>2, <1>5, <2>1, <2>3, NeedsStay DEF ClosedSet, Bundle
  <2>4. ClosedSet(C \ {"provider"})'
    BY <2>2, <2>3 DEF ClosedSet
  <2>5. WalkInv' /\ LinuxInv' /\ DoneInv'
    BY <1>1, <1>5, <2>1, <2>2, <2>4 DEF WalkInv, LinuxInv, DoneInv, BundleIsClosed,
       AfterWalk, Resting, world
  <2>. QED  BY <1>1, <1>5, <2>1, <2>5, StagingStep DEF Staging
<1>. QED  BY <1>3, <1>4, <1>5 DEF ProviderFree, Fail, Goto

\* Rewriting a search path changes nothing of what a library lists.
LEMMA NormalizeLinuxKeeps == BuildInv /\ NormalizeLinux => BuildInv'
<1>. SUFFICES ASSUME BuildInv, NormalizeLinux PROVE BuildInv'
  OBVIOUS
<1>1. /\ pc = "normalize" /\ pc' \in {"done", "failed"}
      /\ UNCHANGED <<world, tree, edits, built, staged, todo, seen>>
      /\ staged' \in [Libs -> Kinds] /\ todo' \subseteq Libs /\ seen' \subseteq Libs
  BY DEF NormalizeLinux, Goto, Fail, BuildInv, BuildTypeOK
<1>2. CASE pc' = "failed"
  BY <1>1, <1>2, FailureKeeps
<1>3. CASE pc' = "done"
  <2>1. PICK C \in SUBSET Bundle : ClosedSet(C)
    BY <1>1 DEF BuildInv, WalkInv
  <2>2. C \in SUBSET Libs /\ ClosedSet(C)'
    <3>1. C \in SUBSET Libs
      BY DEF Bundle
    <3>. QED  BY <1>1, <2>1, <3>1, ClosedStays
  <2>3. BundleIsClosed'
    BY <2>2 DEF BundleIsClosed, ClosedSet
  <2>4. Needs("host")' = Needs("host")
    BY <1>1, NeedsStay
  <2>5. WalkInv' /\ LinuxInv' /\ DoneInv'
    BY <1>1, <1>3, <2>3, <2>4 DEF BuildInv, WalkInv, LinuxInv, DoneInv, AfterWalk, Resting,
       world
  <2>. QED  BY <1>1, <1>3, <2>5, StagingStep DEF Staging
<1>. QED  BY <1>1, <1>2, <1>3

LEMMA CrashKeeps == BuildInv /\ KillBuild => BuildInv'
<1>. SUFFICES ASSUME BuildInv, KillBuild PROVE BuildInv'
  OBVIOUS
<1>1. /\ pc' = "dead" /\ UNCHANGED <<world, tree, edits, built, todo, seen>>
      /\ todo' \subseteq Libs /\ seen' \subseteq Libs /\ staged \in [Libs -> Kinds]
  BY DEF KillBuild, Goto, BuildInv, BuildTypeOK
<1>2. \A d \in Libs : CopyOf(d) \in Kinds
  BY <1>1 DEF CopyOf, StagedAs, Kinds
<1>3. staged' \in [Libs -> Kinds]
  BY <1>1, <1>2 DEF KillBuild, Kinds
<1>. QED  BY <1>1, <1>3, FailureKeeps

LEMMA BuildStep == BuildInv /\ [BuildNext]_buildVars => BuildInv'
<1>. SUFFICES ASSUME BuildInv, [BuildNext]_buildVars PROVE BuildInv'
  OBVIOUS
<1>1. CASE UNCHANGED buildVars
  BY <1>1 DEF buildVars, world, BuildInv, BuildTypeOK, TreeInv, PatchInv, Treated,
     CompileInv, QualifiedInv,
       WalkInv, LinuxInv, DoneInv, BundleIsClosed, ClosedSet, Bundle,
       Needs, Edits,
       NeedsTeardownPatch, Compiled, CompiledFiles, HostDefects,
       WritesOptions, Flat
<1>2. CASE BuildNext
  BY <1>2, StartKeeps, PatchWorkspaceKeeps, EditWorkspaceKeeps, PatchTreeKeeps,
     CutPatchKeeps,
     PatchSamplerPathKeeps, MaterializeKeeps, BazelKeeps, VerifyPostimagesKeeps,
     ValidateKeeps,
     StageHostKeeps, CopyPrebuiltsKeeps, WalkKeeps, WalkedKeeps, OverrideKeeps,
     StageVcRuntimeKeeps, ProviderFreeKeeps, NormalizeLinuxKeeps, CrashKeeps DEF BuildNext
<1>. QED  BY <1>1, <1>2

LEMMA BuildInvariant == BuildSpec => []BuildInv
BY BuildInvInit, BuildStep, PTL DEF BuildSpec

LEMMA DoneIsLast ==
  "done" \in Compiling /\ "done" \in Qualified /\ "done" \in Staging
  /\ "done" \in AfterWalk /\ \A p \in InTree : "done" \in Behind(p)
BY DEF Compiling, Qualified, Staging, AfterWalk, Behind, InTree, Patched

LEMMA ManifestFollows == BuildInv => ManifestIsTrue
<1>. SUFFICES ASSUME BuildInv, pc = "done"
              PROVE  /\ built.carried = Manifest(tag)
                     /\ \A p \in Patches : Decision(p, tag) # "refuse"
                     /\ oddity \in Patches => ~Carries(oddity, tag)
  BY DEF ManifestIsTrue
<1>1. tag \in Nat /\ tree \in [Patches -> Nat] /\ edits \in {{}, Edits}
  BY BuildConfig DEF BuildInv, BuildTypeOK
<1>2. /\ Decision("cpu", tag) # "refuse" /\ Decision("pf32", tag) # "refuse"
      /\ Carries("workspace", tag) => tree["workspace"] = Workspace.files
      /\ Carries("pf32", tag) => oddity \notin {"pf32", "qc4w"} /\ "xnnpack" \in edits
      /\ Carries("cpu", tag) => oddity # "cpu" /\ "cpu" \in edits
      /\ built.carried = Compiled
  BY DoneIsLast DEF BuildInv, CompileInv
<1>3. \A p \in InTree : Treated(p)
  BY DoneIsLast DEF BuildInv, PatchInv
<1>4. /\ Decision("qc4w", tag) = Decision("pf32", tag)
      /\ Decision("workspace", tag) = Decision("cpu", tag)
  BY <1>1, Decisions
<1>5. \A p \in Patches : Decision(p, tag) # "refuse"
  BY <1>2, <1>3, <1>4, PatchTable DEF Treated
<1>6. Workspace.files # 0
  BY FilesAreCounted, PatchTable
<1>7. oddity \in Patches => ~Carries(oddity, tag)
  BY <1>2, <1>3, <1>4, <1>6, PatchTable DEF Treated, Carries, BuildInv, TreeInv
<1>8. \A p \in Patches : CompiledFiles(p) = IF Carries(p, tag) THEN 1 .. Patch[p].files ELSE {}
  <2>1. \A n \in Nat : n = 0 => 1 .. n = {}
    OBVIOUS
  <2>2. /\ "xnnpack" \in edits => Carries("pf32", tag)
        /\ "cpu" \in edits => Carries("cpu", tag)
    BY <1>1 DEF Edits
  <2>3. ASSUME NEW p \in InTree \cup {"workspace"}
        PROVE  CompiledFiles(p) = IF Carries(p, tag) THEN 1 .. Patch[p].files ELSE {}
    <3>1. tree[p] = IF Carries(p, tag) THEN Patch[p].files ELSE 0
      BY <1>2, <1>3, PatchTable DEF BuildInv, TreeInv, Treated
    <3>2. CompiledFiles(p) = 1 .. tree[p]
      BY DEF CompiledFiles, InTree
    <3>. QED  BY <2>1, <3>1, <3>2
  <2>4. ASSUME NEW p \in {"pf32", "qc4w", "cpu"}
        PROVE  CompiledFiles(p) = IF Carries(p, tag) THEN 1 .. Patch[p].files ELSE {}
    <3>1. p \in Patches /\ tree[p] = 0
      BY PatchTable DEF BuildInv, TreeInv, InTree
    <3>2. 1 .. tree[p] = {}
      BY <2>1, <3>1
    <3>3. Carries(p, tag) <=> IF p = "cpu" THEN "cpu" \in edits ELSE "xnnpack" \in edits
      BY <1>2, <1>4, <2>2 DEF Carries
    <3>. QED  BY <3>2, <3>3 DEF CompiledFiles
  <2>. QED  BY <2>3, <2>4, PatchTable
<1>9. Compiled = Manifest(tag)
  <2>1. \A p \in Patches : {<<p, k>> : k \in CompiledFiles(p)} = Entries(p, tag)
    BY <1>8 DEF Entries
  <2>. QED  BY <2>1 DEF Compiled, Manifest
<1>. QED  BY <1>2, <1>5, <1>7, <1>9

LEMMA QualifiedFollows == BuildInv => StagedIsQualified
BY DoneIsLast DEF BuildInv, QualifiedInv, DoneInv, StagedIsQualified

LEMMA CoreFollows == BuildInv => CoreReadsTheOptions
<1>. SUFFICES ASSUME BuildInv, pc = "done", Flat, "core" \in Needs("host")
              PROVE  /\ platform = "linux" => staged["core"] = "prebuilt"
                     /\ built.cpu_options = CoreReads
  BY DEF CoreReadsTheOptions
<1>1. platform = "linux" => staged["core"] = "prebuilt"
  BY DoneIsLast DEF BuildInv, LinuxInv
<1>2. /\ tag \in Nat /\ edits \in {{}, Edits}
      /\ Carries("cpu", tag) => oddity # "prebuilt" /\ "cpu" \in edits
      /\ built.cpu_options = WritesOptions
  BY DoneIsLast, BuildConfig DEF BuildInv, BuildTypeOK, CompileInv
<1>3. Carries("cpu", tag) <=> tag = 1801
  BY <1>2, Decisions
<1>4. "cpu" \in edits => Carries("cpu", tag)
  BY <1>2 DEF Edits
<1>5. WritesOptions = CoreReads
  BY <1>2, <1>3, <1>4 DEF WritesOptions, CoreReads
<1>. QED  BY <1>1, <1>2, <1>5

\* A finished run compiled its host with the sourcePatches its release manifest
\* names, neither more nor fewer, from audited sources, whatever an earlier run that
\* was killed left in the tree (build_runtime).
THEOREM HostMatchesItsManifest ==
  BuildSpec => []ManifestIsTrue
BY BuildInvariant, ManifestFollows, PTL

\* A finished run's host has none of the defects the checks of its platform exist
\* for (verify_exported_symbols and the checks after it).
THEOREM StagedHostIsQualified ==
  BuildSpec => []StagedIsQualified
BY BuildInvariant, QualifiedFollows, PTL

\* A finished run left everything the host loads, whatever each copy of a library
\* lists, also over what a killed run or a build of another release left; nothing is
\* said of what a stub or a pinned override needs (stage_runtime_dependencies,
\* stage_windows_vc_runtime).
THEOREM StagedBundleIsClosed ==
  BuildSpec => []BundleIsClosed
<1>1. BuildInv => BundleIsClosed
  BY DEF BuildInv, DoneInv
<1>. QED  BY <1>1, BuildInvariant, PTL

\* The host names its CPU options as the prebuilt core beside it reads them, and the
\* Linux core is that prebuilt (stage_upstream_prebuilts).
THEOREM CoreMatchesTheHost ==
  BuildSpec => []CoreReadsTheOptions
BY BuildInvariant, CoreFollows, PTL
=============================================================================
