------------------------------ MODULE Downloader ------------------------------
(***************************************************************************)
(* Fetching a file (tools/download_utils.py) and the scripts that call it: *)
(* the ASR smoke assets, Git LFS objects of the upstream tree, the pinned  *)
(* prebuilt overrides, and source archives.                                *)
(*                                                                         *)
(* With a deadline the transfer runs in a worker process that writes into  *)
(* a temporary directory; the caller kills it when the time is over and    *)
(* alone moves the verified file to the destination.  Without one the      *)
(* caller transfers itself, through "<path>.part".  The caller may be      *)
(* killed at any point and run again; the worker of a killed caller lives  *)
(* on.  Time is counted down: a tick takes one from every running clock.   *)
(*                                                                         *)
(* File contents: "none", "old" (what an earlier release left, or a Git    *)
(* LFS pointer), "prefix" (a transfer that stopped), "good" (the expected  *)
(* bytes), "bad" (any other complete answer, a truncated one included when *)
(* the server gave no Content-Length).                                     *)
(***************************************************************************)
EXTENDS Integers

CONSTANTS MaxRuns,        \* bound: times the script is started
          Attempts,       \* attempts per transfer
          Deadline,       \* deadline_seconds of the supervised calls, in ticks
          MaxFallback,    \* cap of the exponential delay between attempts
          MaxRetryDelay,  \* MAX_RETRY_DELAY_SECONDS
          RetryAfters     \* Retry-After values the server may send

Absent == -1      \* no usable Retry-After header
Unbounded == -1   \* no deadline

ASSUME DownloadConfig ==
  /\ MaxRuns \in Nat /\ Attempts \in 1..10 /\ Deadline \in Nat \ {0}
  /\ MaxFallback \in Nat /\ MaxRetryDelay \in Nat
  /\ RetryAfters \subseteq Nat

VARIABLES
  job,     \* which script runs
  caller,  \* where it is
  run,     \* how often it was started
  budget,  \* time the caller still gives the worker
  xfer,    \* xfer[r]: the transfer of run r
  file,    \* file[p]: contents of path p
  part     \* part[p]: contents of "<p>.part"

vars == <<job, caller, run, budget, xfer, file, part>>

Runs == 1..MaxRuns
Jobs == {"asset", "lfs", "override", "archive"}
Contents == {"none", "old", "prefix", "good", "bad"}

\* The destination, the staging file beside it, the asset derived from it, and
\* the file in the temporary directory of run r.
Dest == <<"dest", 0>>
Staged == <<"staged", 0>>
Derived == <<"derived", 0>>
Work(r) == <<"work", r>>
Paths == {Dest, Staged, Derived} \cup {Work(r) : r \in Runs}

Supervised == job = "asset"           \* deadline_seconds is given
Pinned == job = "asset"               \* expected_sha256 is given
Stages == job \in {"lfs", "override"} \* the caller verifies a staged file itself

Min2(a, b) == IF a <= b THEN a ELSE b

\* Where transfer r writes.
Target(r) == IF Supervised THEN Work(r) ELSE IF Stages THEN Staged ELSE Dest

-----------------------------------------------------------------------------
(***************************************************************************)
(* One transfer: _download_to_path in a worker or in the caller.           *)
(***************************************************************************)
NoTransfer == [pc |-> "off", attempt |-> 1, left |-> Unbounded, nap |-> 0]
Ended == {"ok", "failed"}

\* The transfer runs in a worker, or in a caller that still lives.
Alive(r) == Supervised \/ (r = run /\ caller = "calling")

Expired(r) == xfer[r].left = 0

\* Mutant: only an attempt removes the partial file.
EndKeepsPartial(r, verdict) ==
  /\ xfer' = [xfer EXCEPT ![r].pc = verdict]
  /\ UNCHANGED part

\* finally: the partial file is removed on every way out.
End(r, verdict) ==
  /\ xfer' = [xfer EXCEPT ![r].pc = verdict]
  /\ part' = [part EXCEPT ![Target(r)] = "none"]

RetryDelay(after, n) ==
  IF after = Absent THEN Min2(2^(n - 1), MaxFallback)
                    ELSE Min2(after, MaxRetryDelay)

\* An attempt failed in a way that may pass: sleep and try again, unless the
\* attempts are used up or the sleep would outlast the deadline.
Retry(r, after) ==
  LET delay == RetryDelay(after, xfer[r].attempt)
  IN  IF \/ xfer[r].attempt = Attempts
         \/ xfer[r].left # Unbounded /\ xfer[r].left <= delay
        THEN End(r, "failed")
        ELSE /\ xfer' = [xfer EXCEPT ![r].pc = "sleeping", ![r].nap = delay]
             /\ UNCHANGED part

\* The worker process comes up and starts its own clock.
WorkerStarts(r) ==
  /\ xfer[r].pc = "spawned"
  /\ xfer' = [xfer EXCEPT ![r].pc = "attempt", ![r].left = Deadline]
  /\ UNCHANGED <<job, caller, run, budget, file, part>>

\* The partial file of the last attempt goes, the request is sent.
Request(r) ==
  /\ Alive(r) /\ xfer[r].pc = "attempt"
  /\ IF Expired(r)
       THEN End(r, "failed")
       ELSE /\ xfer' = [xfer EXCEPT ![r].pc = "waiting"]
            /\ part' = [part EXCEPT ![Target(r)] = "none"]
  /\ UNCHANGED <<job, caller, run, budget, file>>

\* No response: HTTP 429 or 5xx with or without Retry-After, a network error,
\* or an answer that no later attempt would improve.
Refused(r) ==
  /\ Alive(r) /\ xfer[r].pc = "waiting"
  /\ \/ \E after \in RetryAfters \cup {Absent} : Retry(r, after)
     \/ End(r, "failed")
  /\ UNCHANGED <<job, caller, run, budget, file>>

Responds(r) ==
  /\ Alive(r) /\ xfer[r].pc = "waiting"
  /\ xfer' = [xfer EXCEPT ![r].pc = "reading"]
  /\ part' = [part EXCEPT ![Target(r)] = "prefix"]
  /\ UNCHANGED <<job, caller, run, budget, file>>

\* A read that times out or breaks, a body shorter than its Content-Length, a
\* deadline noticed before the next chunk; or a local error such as a full disk.
BreaksOff(r) ==
  /\ Alive(r) /\ xfer[r].pc = "reading"
  /\ Retry(r, Absent) \/ End(r, "failed")
  /\ UNCHANGED <<job, caller, run, budget, file>>

\* The body ends as the server wants it to end.
Received(r) ==
  /\ Alive(r) /\ xfer[r].pc = "reading" /\ ~Expired(r)
  /\ xfer' = [xfer EXCEPT ![r].pc = "received"]
  /\ \E body \in {"good", "bad"} : part' = [part EXCEPT ![Target(r)] = body]
  /\ UNCHANGED <<job, caller, run, budget, file>>

\* Mutant: the checksum is left to the callers.
AcceptUnchecked(r) ==
  /\ Alive(r) /\ xfer[r].pc = "received"
  /\ IF Expired(r)
       THEN Retry(r, Absent) /\ UNCHANGED file
       ELSE /\ file' = [file EXCEPT ![Target(r)] = part[Target(r)]]
            /\ End(r, "ok")
  /\ UNCHANGED <<job, caller, run, budget>>

\* After the last byte: the deadline, the checksum, the replacement.  A
\* mismatch is final.
Accept(r) ==
  /\ Alive(r) /\ xfer[r].pc = "received"
  /\ IF Expired(r)
       THEN Retry(r, Absent) /\ UNCHANGED file
       ELSE IF Pinned /\ part[Target(r)] # "good"
              THEN End(r, "failed") /\ UNCHANGED file
              ELSE /\ file' = [file EXCEPT ![Target(r)] = part[Target(r)]]
                   /\ End(r, "ok")
  /\ UNCHANGED <<job, caller, run, budget>>

WakesUp(r) ==
  /\ Alive(r) /\ xfer[r].pc = "sleeping" /\ xfer[r].nap = 0
  /\ xfer' = [xfer EXCEPT ![r].pc = "attempt", ![r].attempt = @ + 1]
  /\ UNCHANGED <<job, caller, run, budget, file, part>>

TransferStep(r) ==
  \/ WorkerStarts(r) \/ Request(r) \/ Refused(r) \/ Responds(r)
  \/ BreaksOff(r) \/ Received(r) \/ Accept(r) \/ WakesUp(r)

-----------------------------------------------------------------------------
(***************************************************************************)
(* The caller.                                                             *)
(***************************************************************************)
Finished == {"ok", "failed"}

\* fetch_asset keeps a verified file, materialize_git_lfs_file anything that is
\* not a pointer; the others fetch anew.
UpToDate ==
  \/ job = "asset" /\ file[Dest] = "good"
  \/ job = "lfs" /\ file[Dest] # "old"

\* The script is started, for the first time or again.  What an earlier run
\* left in its way is removed: the staging file, or the partial file.
Start ==
  /\ caller \in Finished \cup {"idle", "dead"} /\ run < MaxRuns
  /\ run' = run + 1
  /\ UNCHANGED job
  /\ IF UpToDate
       THEN /\ caller' = IF job = "asset" THEN "derive" ELSE "ok"
            /\ UNCHANGED <<budget, xfer, file, part>>
       ELSE /\ caller' = "calling"
            /\ IF Supervised
                 THEN /\ budget' = Deadline
                      /\ part' = [part EXCEPT ![Dest] = "none"]
                      /\ xfer' = [xfer EXCEPT ![run'].pc = "spawned"]
                      /\ UNCHANGED file
                 ELSE /\ xfer' = [xfer EXCEPT ![run'].pc = "attempt"]
                      /\ file' = [file EXCEPT ![Staged] = "none"]
                      /\ UNCHANGED <<budget, part>>

\* The temporary directory goes with everything in it.
Cleanup(f, p) ==
  /\ file' = [f EXCEPT ![Work(run)] = "none"]
  /\ part' = [p EXCEPT ![Work(run)] = "none"]

\* Mutant: the deadline is left to the socket timeouts of the worker.
KillSilent ==
  /\ caller = "calling" /\ Supervised /\ budget = 0
  /\ xfer[run].pc \notin Ended \cup {"reading"}
  /\ xfer' = [xfer EXCEPT ![run].pc = "off"]
  /\ caller' = "failed"
  /\ Cleanup(file, part)
  /\ UNCHANGED <<job, run, budget>>

\* subprocess.run gives up: the worker is killed and waited for.
KillOverdue ==
  /\ caller = "calling" /\ Supervised /\ budget = 0
  /\ xfer[run].pc \notin Ended
  /\ xfer' = [xfer EXCEPT ![run].pc = "off"]
  /\ caller' = "failed"
  /\ Cleanup(file, part)
  /\ UNCHANGED <<job, run, budget>>

\* The worker has ended; success counts only before the deadline.
TakeVerdict ==
  /\ caller = "calling" /\ Supervised
  /\ xfer[run].pc \in Ended
  /\ IF budget > 0 /\ xfer[run].pc = "ok" /\ file[Work(run)] # "none"
       THEN caller' = "promote" /\ UNCHANGED <<file, part>>
       ELSE caller' = "failed" /\ Cleanup(file, part)
  /\ UNCHANGED <<job, run, budget, xfer>>

Promote ==
  /\ caller = "promote"
  /\ Cleanup([file EXCEPT ![Dest] = file[Work(run)]], part)
  /\ caller' = "derive"
  /\ UNCHANGED <<job, run, budget, xfer>>

\* The caller's own transfer returned or raised.
Return ==
  /\ caller = "calling" /\ ~Supervised
  /\ xfer[run].pc \in Ended
  /\ caller' = IF xfer[run].pc = "ok" /\ Stages THEN "verify" ELSE xfer[run].pc
  /\ UNCHANGED <<job, run, budget, xfer, file, part>>

\* Size and digest of the staged file, then its replacement; the staging file
\* is removed in any case.
VerifyStaged ==
  /\ caller = "verify"
  /\ LET whole == file[Staged] = "good"
     IN  /\ caller' = IF whole THEN "ok" ELSE "failed"
         /\ file' = [file EXCEPT ![Staged] = "none",
                                 ![Dest] = IF whole THEN file[Staged] ELSE @]
  /\ UNCHANGED <<job, run, budget, xfer, part>>

\* derive_asset: the malformed variant of the asset, written beside its place.
Derive ==
  /\ caller = "derive"
  /\ IF file[Derived] = "good"
       THEN caller' = "ok" /\ UNCHANGED part
       ELSE /\ caller' = "store"
            /\ part' = [part EXCEPT ![Derived] = file[Dest]]
  /\ UNCHANGED <<job, run, budget, xfer, file>>

StoreDerived ==
  /\ caller = "store"
  /\ LET whole == part[Derived] = "good"
     IN  /\ caller' = IF whole THEN "ok" ELSE "failed"
         /\ file' = [file EXCEPT ![Derived] = IF whole THEN "good" ELSE @]
  /\ part' = [part EXCEPT ![Derived] = "none"]
  /\ UNCHANGED <<job, run, budget, xfer>>

\* The caller is killed; nothing of its clean-up runs.
Crash ==
  /\ caller \notin Finished \cup {"idle", "dead"}
  /\ caller' = "dead"
  /\ UNCHANGED <<job, run, budget, xfer, file, part>>

\* A second passes.
Down(t) == IF t > 0 THEN t - 1 ELSE t
Tick ==
  /\ budget > 0 \/ \E r \in Runs : xfer[r].left > 0 \/ xfer[r].nap > 0
  /\ budget' = Down(budget)
  /\ xfer' = [r \in Runs |-> [xfer[r] EXCEPT !.left = Down(@), !.nap = Down(@)]]
  /\ UNCHANGED <<job, caller, run, file, part>>

-----------------------------------------------------------------------------
Init ==
  /\ job \in Jobs
  /\ caller = "idle" /\ run = 0 /\ budget = 0
  /\ xfer = [r \in Runs |-> NoTransfer]
  /\ \E d \in {"none", "old", "good"}, v \in {"none", "good"} :
       /\ job = "lfs" => d # "none"
       /\ file = [p \in Paths |-> IF p = Dest THEN d
                                  ELSE IF p = Derived THEN v ELSE "none"]
  /\ part = [p \in Paths |-> "none"]

CallerStep ==
  \/ Start \/ KillOverdue \/ TakeVerdict \/ Promote \/ Return
  \/ VerifyStaged \/ Derive \/ StoreDerived

Next ==
  \/ CallerStep \/ Crash \/ Tick
  \/ \E r \in Runs : TransferStep(r)

\* The caller is scheduled and time passes; the network promises nothing.
Fairness == WF_vars(CallerStep) /\ WF_vars(Tick)

Spec == Init /\ [][Next]_vars /\ Fairness

-----------------------------------------------------------------------------
\* Whatever the server answers and whoever is killed when, the destination of a
\* verifying caller only ever changes to the expected bytes, success is reported
\* over them alone and a failure leaves the destination as it was: the comment
\* "Only this parent can promote verified bytes" of download_to_path.  The
\* archive downloads verify nothing and accept any complete answer.
Cache == INSTANCE VerifiedCache WITH
           cache <- file[Dest],
           report <- IF caller \in Finished THEN caller ELSE "none",
           accepts <- IF job = "archive" THEN {"good", "bad"} ELSE {"good"}
ImplementsCache == Cache!Spec

\* A run that reports leaves nothing of its own behind: no partial file, no
\* staging file, no temporary directory, and no worker that still writes one.
NothingLeftBehind ==
  caller \in Finished =>
    /\ \A p \in {Dest, Staged, Derived, Work(run)} : part[p] = "none"
    /\ file[Staged] = "none" /\ file[Work(run)] = "none"
    /\ xfer[run].pc \in Ended \cup {"off"}

\* A call with a deadline returns, however the server stalls (the test
\* test_actual_asr_configured_deadline_kills_slow_headers for every stall).
SupervisedCallReturns ==
  caller = "calling" /\ Supervised ~> caller # "calling"
=============================================================================
