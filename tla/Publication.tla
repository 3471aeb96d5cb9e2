------------------------------ MODULE Publication ------------------------------
(***************************************************************************)
(* The publish job of .github/workflows/native_release.yml for one release *)
(* tag, with tools/publication_state.py and tools/reconcile_release_tag.py.*)
(*                                                                         *)
(* The concurrency group runs one publish job at a time.  A job may stop   *)
(* between any two requests (a lost response, a failed request, a lost     *)
(* runner) and a failed job can be run again as the next attempt of its    *)
(* run; re-running all jobs of the run packages new candidate bytes.  All  *)
(* runs were dispatched with the same inputs: they differ in the run ID    *)
(* only, the case in which every other identity check passes.              *)
(*                                                                         *)
(* The validation of the candidate and its manifest reads nothing the      *)
(* service holds and is left out, as are reads that fail: they stop the    *)
(* job, as Interrupted does.                                               *)
(***************************************************************************)
EXTENDS ReleaseService

CONSTANTS MaxAttempts,       \* bound: attempts of a run
          MaxBuilds,         \* bound: candidates a run packages
          MaxInterruptions,  \* bound: jobs stopped between two requests
          SlowListing        \* may the listing lag behind a whole job?

ASSUME JobConfig ==
  /\ "none" \notin Runs  \* job when there is none
  /\ MaxAttempts \in Nat /\ MaxBuilds \in Nat \ {0} /\ MaxInterruptions \in Nat
  /\ SlowListing \in BOOLEAN

VARIABLES
  job,            \* the run whose publish job is running, or "none"
  pc,             \* position of that job
  releaseId,      \* the ID in draft-release.json
  seen,           \* the release in draft-release.json
  target,         \* the release the current gh command found by tag
  attempt,        \* github.run_attempt of every run
  build,          \* which candidate of the run the job downloads
  outcome,        \* how the last job of every run ended
  interruptions   \* jobs interrupted so far

jobVars == <<job, pc, releaseId, seen, target>>
runVars == <<attempt, build, outcome, interruptions>>
vars == <<serviceVars, jobVars, runVars>>

NoRun == "none"
NoRelease == [run |-> NoRun, draft |-> TRUE, assets |-> NoAssets]

Positions ==
  {"idle", "recheck", "prepare", "readback", "tagCheck", "tagCreate",
   "tagReadback", "delete", "upload", "uploading", "verify", "clobber",
   "receipt", "final", "promote", "handoff"}

\* The bytes of a run's candidate, and of the two receipts.
CandidateBytes(run) == <<"candidate", run, build[run]>>
PreparedReceipt(run) == <<"prepared", run, build[run]>>
FinalReceipt(run, id, n) == <<"final", run, build[run], id, n>>

Init ==
  /\ ServiceInit
  /\ job = NoRun /\ pc = "idle" /\ releaseId = 0 /\ seen = NoRelease /\ target = 0
  /\ attempt = [r \in Runs |-> 0] /\ build = [r \in Runs |-> 1]
  /\ outcome = [r \in Runs |-> "none"] /\ interruptions = 0

-----------------------------------------------------------------------------
(***************************************************************************)
(* Decisions of the tools.                                                 *)
(***************************************************************************)

\* plan_publication over the listing.
Plan(run) ==
  CASE listed = {} -> "create"
    [] Cardinality(listed) > 1 -> "collision"
    [] OTHER -> LET release == releases[CHOOSE id \in listed : TRUE]
                IN CASE release.run # run -> "collision"
                     [] release.run = run /\ release.draft -> "resume"
                     [] OTHER -> "verify-published"

\* exact_release: the listing may still omit the ID, never contradict it.
ExactListing ==
  \/ Plan(job) = "create"
  \/ Plan(job) # "collision" /\ releaseId \in listed

\* validate_candidate_assets with the given receipt.
PayloadComplete(id) ==
  \A n \in Payload : releases[id].assets[n] = CandidateBytes(job)

AssetsExact(id, receipt) ==
  PayloadComplete(id) /\ releases[id].assets[Receipt] = receipt

\* The receipts an attempt of the run may have left for this release.
FinalReceipts(run, id) ==
  {FinalReceipt(run, id, n) : n \in 1 .. attempt[run]}

\* Mutant: whatever the draft holds is taken for a partial upload.
ResumeAcceptsAll(run, id) == TRUE

\* validate_resume_assets.
ResumeAccepts(run, id) ==
  LET assets == releases[id].assets
  IN /\ \A n \in Payload : assets[n] \in {Missing, CandidateBytes(run)}
     /\ \/ assets[Receipt] \in {Missing, PreparedReceipt(run)}
        \/ /\ assets[Receipt] \in FinalReceipts(run, id)
           /\ \A n \in Payload : assets[n] = CandidateBytes(run)

-----------------------------------------------------------------------------
(***************************************************************************)
(* One step of the job.                                                    *)
(***************************************************************************)
EndJob(result) ==
  /\ job' = NoRun /\ pc' = "idle"
  /\ releaseId' = 0 /\ seen' = NoRelease /\ target' = 0
  /\ outcome' = [outcome EXCEPT ![job] = result]
  /\ UNCHANGED <<attempt, build, interruptions>>

FailClosed == EndJob("failed") /\ UNCHANGED serviceVars

Goto(position) ==
  /\ pc' = position
  /\ UNCHANGED <<job, releaseId, seen, target, runVars>>

\* A step without a write: go on if the check holds, else stop the job.
Check(condition, position) ==
  IF condition THEN Goto(position) /\ UNCHANGED serviceVars ELSE FailClosed

StartJob(run, rebuild) ==
  /\ job = NoRun
  /\ attempt[run] < MaxAttempts
  /\ SlowListing \/ listed = Ids
  /\ rebuild => attempt[run] > 0 /\ build[run] < MaxBuilds
  /\ build' = [build EXCEPT ![run] = IF rebuild THEN @ + 1 ELSE @]
  /\ attempt' = [attempt EXCEPT ![run] = @ + 1]
  /\ job' = run /\ pc' = "recheck"
  /\ UNCHANGED <<serviceVars, releaseId, seen, target, outcome, interruptions>>

\* Mutant: a draft always has its tag.
RecheckRequiresTag ==
  /\ pc = "recheck"
  /\ Check(\/ Plan(job) = "create" /\ tag = "none"
           \/ Plan(job) \in {"resume", "verify-published"} /\ tag = "exact",
           "prepare")

\* Recheck of identity and history: a new transaction needs a free tag, a
\* published one its exact tag.
Recheck ==
  /\ pc = "recheck"
  /\ Check(\/ Plan(job) = "create" /\ tag = "none"
           \/ Plan(job) = "resume" /\ tag # "wrong"
           \/ Plan(job) = "verify-published" /\ tag = "exact", "prepare")

\* Mutant: the listing is not consulted before the creation.
PrepareDraftAlways ==
  /\ pc = "prepare"
  /\ CreateDraft(job)
  /\ releaseId' = Len(releases) + 1
  /\ pc' = "readback"
  /\ UNCHANGED <<job, seen, target, runVars>>

\* prepare_release: create the draft, or take the listed one.
PrepareDraft ==
  /\ pc = "prepare"
  /\ Plan(job) = "create"
  /\ CreateDraft(job)
  /\ releaseId' = Len(releases) + 1
  /\ pc' = "readback"
  /\ UNCHANGED <<job, seen, target, runVars>>

PrepareExisting ==
  /\ pc = "prepare"
  /\ Plan(job) # "create"
  /\ IF Plan(job) = "collision"
     THEN FailClosed
     ELSE /\ releaseId' = CHOOSE id \in listed : TRUE
          /\ pc' = "readback"
          /\ UNCHANGED <<serviceVars, job, seen, target, runVars>>

Readback ==
  /\ pc = "readback"
  /\ IF ExactListing
     THEN /\ seen' = releases[releaseId]
          /\ pc' = "tagCheck"
          /\ UNCHANGED <<serviceVars, job, releaseId, target, runVars>>
     ELSE FailClosed

\* Mutant: a published release is reconciled like a draft.
TagCheckForgetsPublished ==
  /\ pc = "tagCheck"
  /\ Check(/\ ExactListing /\ tag # "wrong"
           /\ ResumeAccepts(job, releaseId),
           IF tag = "none" THEN "tagCreate" ELSE "tagReadback")

\* reconcile --mode create, up to the request that creates the ref.  A
\* published release is left alone.
TagCheck ==
  /\ pc = "tagCheck"
  /\ \/ /\ ~releases[releaseId].draft
        /\ Check(ExactListing /\ tag = "exact", "verify")
     \/ /\ releases[releaseId].draft
        /\ Check(/\ ExactListing /\ tag # "wrong"
                 /\ ResumeAccepts(job, releaseId),
                 IF tag = "none" THEN "tagCreate" ELSE "tagReadback")

\* An uncertain answer is settled by the readback, like a good one.
TagCreate ==
  /\ pc = "tagCreate"
  /\ CreateRef
  /\ Goto("tagReadback")

\* The ref is exact and nothing changed since draft-release.json: what the
\* asset check of TagCheck let pass had not changed by then.
TagReadback ==
  /\ pc = "tagReadback"
  /\ Check(tag = "exact" /\ ExactListing /\ releases[releaseId] = seen, "delete")

\* DELETE the assets of draft-release.json one by one; an asset that was
\* replaced has another ID.
DeletableNames ==
  {n \in Names : /\ seen.assets[n] # Missing
                 /\ releases[releaseId].assets[n] = seen.assets[n]}

DeleteAsset ==
  /\ pc = "delete"
  /\ IF DeletableNames = {}
     THEN Goto("upload") /\ UNCHANGED serviceVars
     ELSE /\ \E n \in DeletableNames : SetAsset(releaseId, n, Missing)
          /\ Goto("delete")

\* gh release upload: finds the release by tag, refuses existing names ...
LookUpDraft ==
  /\ pc = "upload"
  /\ \E id \in listed :
       IF releases[id].assets # NoAssets
       THEN FailClosed
       ELSE /\ target' = id /\ pc' = "uploading"
            /\ UNCHANGED <<serviceVars, job, releaseId, seen, runVars>>

CandidateAsset(n) ==
  IF n = Receipt THEN PreparedReceipt(job) ELSE CandidateBytes(job)

\* ... and uploads file by file.
UploadAsset ==
  /\ pc = "uploading"
  /\ LET missing == {n \in Names : releases[target].assets[n] = Missing}
     IN IF missing = {}
        THEN Goto("verify") /\ UNCHANGED serviceVars
        ELSE /\ \E n \in missing : SetAsset(target, n, CandidateAsset(n))
             /\ Goto("uploading")

\* Mutant: the draft is promoted before its final receipt is uploaded.
VerifyPromotesFirst ==
  /\ pc = "verify"
  /\ Check(/\ ExactListing /\ tag = "exact"
           /\ AssetsExact(releaseId, PreparedReceipt(job)), "promote")

\* Validate the draft, or the exact published release without a write.
Verify ==
  /\ pc = "verify"
  /\ \/ /\ releases[releaseId].draft
        /\ Check(/\ ExactListing /\ tag = "exact"
                 /\ AssetsExact(releaseId, PreparedReceipt(job)), "clobber")
     \/ /\ ~releases[releaseId].draft
        /\ Check(/\ ExactListing /\ tag = "exact"
                 /\ \E receipt \in FinalReceipts(job, releaseId) :
                      AssetsExact(releaseId, receipt), "handoff")

\* gh release upload --clobber: delete the prepared receipt, then upload the
\* one that binds the release ID, the run, its attempt and the digests.
ClobberReceipt ==
  /\ pc = "clobber"
  /\ \E id \in listed :
       /\ SetAsset(id, Receipt, Missing)
       /\ target' = id /\ pc' = "receipt"
  /\ UNCHANGED <<job, releaseId, seen, runVars>>

MyReceipt == FinalReceipt(job, releaseId, attempt[job])

UploadReceipt ==
  /\ pc = "receipt"
  /\ SetAsset(target, Receipt, MyReceipt)
  /\ Goto("final")

FinalCheck ==
  /\ pc = "final"
  /\ Check(/\ ExactListing /\ tag = "exact"
           /\ AssetsExact(releaseId, MyReceipt), "promote")

\* gh release edit --draft=false finds the release by tag.
Promote ==
  /\ pc = "promote"
  /\ \E id \in listed : Undraft(id)
  /\ Goto("handoff")

\* The published release is read back and checked against the receipt.
Handoff ==
  /\ pc = "handoff"
  /\ EndJob(IF ~releases[releaseId].draft /\ PayloadComplete(releaseId)
            THEN "succeeded" ELSE "failed")
  /\ UNCHANGED serviceVars

JobStep ==
  \/ Recheck \/ PrepareDraft \/ PrepareExisting
  \/ Readback \/ TagCheck \/ TagCreate \/ TagReadback
  \/ DeleteAsset \/ LookUpDraft \/ UploadAsset \/ Verify
  \/ ClobberReceipt \/ UploadReceipt \/ FinalCheck \/ Promote \/ Handoff

\* The job stops between two requests ...
Interrupted ==
  /\ job # NoRun
  /\ interruptions < MaxInterruptions
  /\ job' = NoRun /\ pc' = "idle" /\ releaseId' = 0 /\ seen' = NoRelease
  /\ target' = 0
  /\ outcome' = [outcome EXCEPT ![job] = "failed"]
  /\ interruptions' = interruptions + 1
  /\ UNCHANGED <<serviceVars, attempt, build>>

\* ... or in the middle of an upload.
UploadBroken ==
  /\ pc \in {"uploading", "receipt"}
  /\ interruptions < MaxInterruptions
  /\ \E n \in Names :
       /\ pc = "receipt" => n = Receipt
       /\ releases[target].assets[n] = Missing
       /\ SetAsset(target, n, Starter)
  /\ job' = NoRun /\ pc' = "idle" /\ releaseId' = 0 /\ seen' = NoRelease
  /\ target' = 0
  /\ outcome' = [outcome EXCEPT ![job] = "failed"]
  /\ interruptions' = interruptions + 1
  /\ UNCHANGED <<attempt, build>>

\* Somebody else's changes reach the draft while it is not being verified:
\* nothing can guard the moment between the last check and the promotion.
BeforeUpload ==
  pc \in {"idle", "recheck", "prepare", "readback", "tagCheck", "tagCreate",
          "tagReadback", "delete", "upload"}

Others ==
  /\ ListRelease \/ PushForeignTag \/ (BeforeUpload /\ AddForeignAsset)
  /\ UNCHANGED <<jobVars, runVars>>

Next ==
  \/ \E run \in Runs, rebuild \in BOOLEAN : StartJob(run, rebuild)
  \/ JobStep
  \/ Interrupted \/ UploadBroken
  \/ Others

\* A started job runs on, the listing catches up, and the failed job of a
\* run is run again while attempts are left.
Fairness ==
  /\ WF_vars(JobStep)
  /\ WF_vars(ListRelease /\ UNCHANGED <<jobVars, runVars>>)
  /\ \A run \in Runs :
       SF_vars(outcome[run] # "succeeded" /\ StartJob(run, FALSE))

Spec == Init /\ [][Next]_vars /\ Fairness

-----------------------------------------------------------------------------
(***************************************************************************)
(* Properties.                                                             *)
(***************************************************************************)

Contents(r) ==
  LET builds == 1 .. MaxBuilds
  IN {Missing, Starter, Foreign}
     \cup {<<"candidate", r, b>> : b \in builds}
     \cup {<<"prepared", r, b>> : b \in builds}
     \cup {<<"final", r, b, id, n>> :
             b \in builds, id \in 1 .. MaxReleases, n \in 1 .. MaxAttempts}

\* Types, and whose release a job holds: the one its own run's notes name.
PublicationTypeOK ==
  /\ releases \in Seq([run : Runs, draft : BOOLEAN,
                       assets : [Names -> UNION {Contents(r) : r \in Runs}]])
  /\ Len(releases) <= MaxReleases
  /\ \A id \in Ids : releases[id].assets \in [Names -> Contents(releases[id].run)]
  /\ listed \subseteq Ids /\ tag \in {"none", "exact", "wrong"}
  /\ job \in Runs \cup {NoRun}
  /\ pc \in Positions /\ (pc = "idle" <=> job = NoRun)
  /\ releaseId \in {0} \cup Ids /\ target \in {0} \cup Ids
  /\ releaseId # 0 => releases[releaseId].run = job
  /\ attempt \in [Runs -> 0 .. MaxAttempts] /\ build \in [Runs -> 1 .. MaxBuilds]
  /\ outcome \in [Runs -> {"none", "failed", "succeeded"}]
  /\ interruptions \in 0 .. MaxInterruptions

\* What is published was verified: the complete payload of one candidate of
\* the run that the notes name, the receipt of an attempt of that run for
\* this release and candidate, and the exact tag, whatever interruptions,
\* retries, rebuilds, other runs and foreign tags or assets came before
\* (the steps "Validate draft and promote it").
PublishedIsVerified ==
  \A id \in Ids : ~releases[id].draft =>
    /\ tag = "exact"
    /\ LET run == releases[id].run
       IN \E b \in 1 .. build[run], n \in 1 .. attempt[run] :
            /\ releases[id].assets[Receipt] = <<"final", run, b, id, n>>
            /\ \A p \in Payload :
                 releases[id].assets[p] = <<"candidate", run, b>>

\* One release per tag, although a creation whose answer was lost is found
\* again only through the listing (prepare_release).
OneRelease == Len(releases) <= 1

\* A published release never changes, and neither does its tag: not by a
\* retry of the same run, a rebuilt candidate or another run's job.
PublishedIsImmutable ==
  [][\A id \in Ids : ~releases[id].draft =>
       releases'[id] = releases[id] /\ tag' = tag]_vars

\* A job deletes or replaces only bytes of its own run's current candidate
\* or receipts, in its own run's draft: never a foreign asset, another run's
\* draft or the leavings of another build (validate_resume_assets).
OnlyOwnBytesAreReplaced ==
  [][\A id \in Ids, n \in Names :
       LET old == releases[id].assets[n]
       IN old # Missing /\ releases'[id].assets[n] # old =>
            /\ job # NoRun /\ releases[id].run = job
            /\ old \in {CandidateBytes(job), PreparedReceipt(job)}
                        \cup FinalReceipts(job, id)]_vars

\* Why a run may never publish although it is retried: another run or
\* another build owns the release, a foreign tag or asset is in the way, or
\* an interruption left the draft in a state no retry accepts.
Blocked(run) ==
  \/ tag = "wrong"
  \/ \E id \in Ids :
       \/ releases[id].run # run
       \/ job = NoRun /\ releases[id].draft /\ ~ResumeAccepts(run, id)
       \/ /\ ~releases[id].draft
          /\ \E p \in Payload : releases[id].assets[p] # CandidateBytes(run)

\* A run that is retried publishes and confirms its release, wherever its
\* earlier attempts were interrupted, unless one of those reasons holds.
RetriedRunPublishes ==
  \A run \in Runs : attempt[run] = 1 ~> outcome[run] = "succeeded" \/ Blocked(run)

(***************************************************************************)
(* What docs/release_protocol.md says of retries and promotion.            *)
(***************************************************************************)

\* "A matching retry removes partial draft assets and uploads the candidate
\* again": a draft that holds nothing but complete uploads of its own run's
\* candidate and receipts can be resumed.
PartialDraftIsResumable ==
  job = NoRun => \A id \in Ids :
    LET run == releases[id].run
    IN /\ releases[id].draft
       /\ \A n \in Names :
            releases[id].assets[n] \in
              {Missing, CandidateBytes(run), PreparedReceipt(run)}
                \cup FinalReceipts(run, id)
       => ResumeAccepts(run, id)

=============================================================================
