------------------------------- MODULE Promotion -------------------------------
(***************************************************************************)
(* From packaged bytes to a public release.  A run of native_release.yml   *)
(* packages (module Packaging) and uploads a candidate.  With publish      *)
(* approval the same run publishes it; otherwise a second run names the    *)
(* candidate in candidate_source, authenticates it (candidate_promotion),  *)
(* keeps a copy of its own and publishes that.                             *)
(*                                                                         *)
(* Runs of a release tag exclude each other, jobs fail and are re-run,     *)
(* artifacts expire, main moves on, and the packaging run may be re-run    *)
(* between any two looks at it.  What the release service does with draft  *)
(* and assets is in module Publication; here they carry the candidate.     *)
(***************************************************************************)
EXTENDS Packaging

CONSTANTS MaxAttempts,  \* attempts of the packaging run
          MaxCrashes    \* failures of the publish job that no check causes

ASSUME PromotionConfig == MaxAttempts \in Nat \ {0} /\ MaxCrashes \in Nat

VARIABLES
  attempt,    \* the packaging run's attempt ...
  status,     \* ... and what the service says of it
  group,      \* the run that holds the concurrency group of the tag
  artifacts,  \* candidates it uploaded, at most one per attempt
  expired,    \* attempts whose candidate retention removed
  moved,      \* main has moved past the native commit
  source,     \* candidate_source of the promoting run
  copy,       \* the candidate that run uploaded as its own, with its evidence
  job,        \* job[r]: where the publishing part of run r is
  workspace,  \* the candidate in the publish job's workspace
  live,       \* the draft or release of the tag
  crashes

remote == <<attempt, status, group, artifacts, expired, moved>>
local == <<source, copy, job, workspace, live, crashes>>
promotionVars == <<vars, remote, local>>

Runs == {"packaging", "promotion"}
Attempts == 1..MaxAttempts
Nothing == [attempt |-> 0]

Uploads == {a \in Attempts : artifacts[a] # Nothing}
Latest == CHOOSE a \in Uploads : \A b \in Uploads : b <= a

PublishStages == {"verify", "draft", "upload", "promote"}
Active(r) ==
  IF r = "packaging" THEN status = "running"
  ELSE job[r] \in {"reuse", "download"} \cup PublishStages

\* Runs of a release tag exclude each other; the other one waits.
MayRun(r) == Active(r) /\ group \in {r, "free"}

\* A job of run r ends.  The conclusion of the packaging run is its publish job's;
\* a run that ends leaves the group.
Becomes(r, stage) ==
  /\ job' = [job EXCEPT ![r] = stage]
  /\ status' = IF r = "promotion" THEN status
               ELSE IF stage = "failed" THEN "failure"
               ELSE IF stage = "done" THEN "success" ELSE status
  /\ group' = IF stage \in {"failed", "done"} THEN "free" ELSE r

-----------------------------------------------------------------------------
(***************************************************************************)
(* The packaging run.                                                      *)
(***************************************************************************)
Package ==
  /\ MayRun("packaging")
  /\ PackageStep
  /\ group' = "packaging"
  /\ UNCHANGED <<attempt, status, artifacts, expired, moved, local>>

\* The hosted runner starts on a new checkout; what the same commands package by hand
\* is uploaded nowhere.
Hosted == left = {}

\* Receipt, payload and manifest in one artifact.  Only publish approval goes on
\* to the publish job; a run may also fail after the upload.
Upload ==
  /\ MayRun("packaging") /\ Hosted /\ pc = "done"
  /\ pc' = "uploaded"
  /\ artifacts' = [artifacts EXCEPT ![attempt] =
       [attempt |-> attempt, manifest |-> manifest, payload |-> release,
        approval |-> IF publish THEN "publish" ELSE "prepare-only"]]
  /\ IF publish THEN Becomes("packaging", "verify")
     ELSE status' \in {"success", "failure"} /\ group' = "free" /\ UNCHANGED job
  /\ UNCHANGED <<inputs, bin, fw, dist, spm, manifest, release,
                 attempt, expired, moved, source, copy, workspace, live, crashes>>

PackagingFailed ==
  /\ MayRun("packaging") /\ pc = "failed"
  /\ status' = "failure" /\ group' = "free"
  /\ UNCHANGED <<vars, attempt, artifacts, expired, moved, local>>

\* All jobs, from a new checkout.
Rerun ==
  /\ Hosted /\ status # "running" /\ attempt < MaxAttempts
  /\ attempt' = attempt + 1 /\ status' = "running"
  /\ pc' = "prebuilts" /\ bin' = Checkout.bin /\ fw' = Checkout.fw
  /\ dist' = Checkout.dist /\ spm' = Checkout.spm
  /\ manifest' = Checkout.manifest /\ release' = Checkout.manifest
  /\ job' = [job EXCEPT !["packaging"] = "none"]
  /\ UNCHANGED <<inputs, group, artifacts, expired, moved,
                 source, copy, workspace, live, crashes>>

\* The failed publish job only: the candidate stays that of an earlier attempt.
RerunPublish ==
  /\ status = "failure" /\ job["packaging"] = "failed"
  /\ attempt' = IF attempt < MaxAttempts THEN attempt + 1 ELSE attempt
  /\ status' = "running"
  /\ job' = [job EXCEPT !["packaging"] = "verify"]
  /\ UNCHANGED <<vars, group, artifacts, expired, moved, source, copy, workspace, live, crashes>>

Expire(a) ==
  /\ a \in Uploads \ expired
  /\ expired' = expired \cup {a}
  /\ UNCHANGED <<vars, attempt, status, group, artifacts, moved, local>>

\* Only a dispatch looks at the head of main.
MainMoves ==
  /\ job["promotion"] = "none" /\ ~moved /\ moved' = TRUE
  /\ UNCHANGED <<vars, attempt, status, group, artifacts, expired, local>>

-----------------------------------------------------------------------------
(***************************************************************************)
(* The promoting run.                                                      *)
(***************************************************************************)

\* Dispatched on main, whose head must be the native commit; the run, attempt,
\* artifact and digest named need not fit together.  An artifact is known by the
\* attempt that uploaded it, and so is a digest.
Dispatch ==
  /\ job["promotion"] = "none" /\ ~moved /\ Uploads # {}
  /\ source' \in [attempt : 1..attempt, artifact : Uploads, digest : Uploads]
  /\ job' = [job EXCEPT !["promotion"] = "reuse"]
  /\ UNCHANGED <<vars, remote, copy, workspace, live, crashes>>

\* validate_metadata: the run's present attempt is the one named, and succeeded;
\* the artifact has the digest named and is still there.
RemoteMatches ==
  /\ status = "success" /\ attempt = source.attempt
  /\ source.digest = source.artifact
  /\ source.artifact \notin expired

VerifyRemote ==
  /\ MayRun("promotion") /\ job["promotion"] = "reuse"
  /\ Becomes("promotion", IF RemoteMatches THEN "download" ELSE "failed")
  /\ UNCHANGED <<vars, attempt, artifacts, expired, moved, source, copy, workspace, live, crashes>>

\* Mutant: the attempt was checked with the run's metadata already.
PreparedSometime(c) == c.approval = "prepare-only"

\* validate_preparation: the receipt of a prepare-only run in the attempt named.
Prepared(c) == c.approval = "prepare-only" /\ c.attempt = source.attempt

\* The archive is fetched and hashed after its metadata was looked at; the copy
\* carries the source and the digests of every file.
ReuseCandidate ==
  LET c == artifacts[source.artifact]
      ok == /\ source.artifact \notin expired /\ source.digest = c.attempt
            /\ Prepared(c)
            /\ ManifestValid(c.manifest, SmokeHosts)
  IN  /\ MayRun("promotion") /\ job["promotion"] = "download"
      /\ copy' = IF ok THEN [attempt |-> c.attempt, candidate |-> c, source |-> source]
                 ELSE copy
      /\ Becomes("promotion", IF ok THEN "verify" ELSE "failed")
      /\ UNCHANGED <<vars, attempt, artifacts, expired, moved, source, workspace, live, crashes>>

\* Failed jobs of the promoting run again; the copy is kept once it was made.
RetryPromotion ==
  /\ job["promotion"] = "failed"
  /\ job' = [job EXCEPT !["promotion"] = IF copy = Nothing THEN "reuse" ELSE "verify"]
  /\ UNCHANGED <<vars, remote, source, copy, workspace, live, crashes>>

-----------------------------------------------------------------------------
(***************************************************************************)
(* The publish job, of either run.                                         *)
(***************************************************************************)

\* Mutant: the candidate of this attempt only.
ThisAttempt(c) == c.attempt = attempt

\* A failed-job rerun may use the package of an earlier attempt.
OwnAttempt(c) == c.attempt \in 1..attempt

\* The candidate the job downloads by name from its own run.
Downloaded(r) ==
  IF r = "promotion" THEN copy.candidate ELSE artifacts[Latest]

\* load_promotion after another look at the source run, or
\* validate_publication_intent; the manifest in either case.
MayPublish(r) ==
  /\ IF r = "promotion"
       THEN RemoteMatches /\ copy.source = source /\ Prepared(copy.candidate)
       ELSE Latest \notin expired /\ artifacts[Latest].approval = "publish"
              /\ OwnAttempt(artifacts[Latest])
  /\ ManifestValid(Downloaded(r).manifest, SmokeHosts)

\* The notes of a draft bind the run that made it.
OwnTransaction(r) == live.state = "none" \/ live.run = r

\* An exact published release is only verified.
VerifyIntent(r) ==
  LET ok == MayPublish(r) /\ OwnTransaction(r)
  IN  /\ MayRun(r) /\ job[r] = "verify"
      /\ workspace' = IF ok THEN Downloaded(r) ELSE workspace
      /\ Becomes(r, IF ~ok THEN "failed"
                    ELSE IF live.state # "published" THEN "draft"
                    ELSE IF live.assets = Downloaded(r) THEN "done" ELSE "failed")
      /\ UNCHANGED <<vars, attempt, artifacts, expired, moved, source, copy, live, crashes>>

\* The draft is made, or found, and emptied.
PrepareDraft(r) ==
  /\ MayRun(r) /\ job[r] = "draft"
  /\ live' = [state |-> "draft", run |-> r, assets |-> Nothing]
  /\ Becomes(r, "upload")
  /\ UNCHANGED <<vars, attempt, artifacts, expired, moved, source, copy, workspace, crashes>>

UploadAssets(r) ==
  /\ MayRun(r) /\ job[r] = "upload"
  /\ live' = [live EXCEPT !.assets = workspace]
  /\ Becomes(r, "promote")
  /\ UNCHANGED <<vars, attempt, artifacts, expired, moved, source, copy, workspace, crashes>>

\* The release read back has the candidate's assets, and those are what its manifest
\* accounts for, all and no others.
InventoryExact(r) ==
  /\ live.state = "draft" /\ live.run = r /\ live.assets = workspace
  /\ ~workspace.payload.others

\* The receipt of a promotion accounts for every payload digest that was prepared.
ReceiptBinds(r) ==
  r = "promotion" => Prepared(copy.candidate) /\ live.assets = copy.candidate

Promote(r) ==
  LET ok == InventoryExact(r) /\ ReceiptBinds(r)
  IN  /\ MayRun(r) /\ job[r] = "promote"
      /\ live' = IF ok THEN [live EXCEPT !.state = "published"] ELSE live
      /\ Becomes(r, IF ok THEN "done" ELSE "failed")
      /\ UNCHANGED <<vars, attempt, artifacts, expired, moved, source, copy, workspace, crashes>>

\* A lost runner, an API error: the job fails where it stands.
Crash(r) ==
  /\ MayRun(r) /\ job[r] \in PublishStages /\ crashes < MaxCrashes
  /\ crashes' = crashes + 1
  /\ Becomes(r, "failed")
  /\ UNCHANGED <<vars, attempt, artifacts, expired, moved, source, copy, workspace, live>>

-----------------------------------------------------------------------------
PromotionInit ==
  /\ Init
  /\ attempt = 1 /\ status = "running" /\ group = "packaging"
  /\ artifacts = [a \in Attempts |-> Nothing]
  /\ expired = {} /\ moved = FALSE
  /\ source = Nothing /\ copy = Nothing
  /\ job = [r \in Runs |-> "none"]
  /\ workspace = Nothing
  /\ live = [state |-> "none", run |-> "none", assets |-> Nothing]
  /\ crashes = 0

PublishStep(r) == VerifyIntent(r) \/ PrepareDraft(r) \/ UploadAssets(r) \/ Promote(r)

PromotionNext ==
  \/ Package \/ Upload \/ PackagingFailed \/ Rerun \/ RerunPublish
  \/ \E a \in Attempts : Expire(a)
  \/ MainMoves
  \/ Dispatch \/ VerifyRemote \/ ReuseCandidate \/ RetryPromotion
  \/ \E r \in Runs : PublishStep(r) \/ Crash(r)

\* Jobs that may run do; failed publish jobs are re-run.  Nothing makes anyone
\* dispatch a promotion or build again.
Fairness ==
  /\ WF_promotionVars(Package \/ Upload \/ PackagingFailed)
  /\ WF_promotionVars(VerifyRemote \/ ReuseCandidate)
  /\ \A r \in Runs : WF_promotionVars(PublishStep(r))
  /\ WF_promotionVars(RerunPublish)
  /\ WF_promotionVars(RetryPromotion)

PromotionSpec == PromotionInit /\ [][PromotionNext]_promotionVars /\ Fairness

-----------------------------------------------------------------------------
\* What is public is, byte for byte, a candidate that some attempt of the
\* packaging run uploaded after every gate, with the three model smokes; and when
\* another run promoted it, it was prepared only, in the attempt named, and is the
\* artifact named: however the packaging run was re-run meanwhile, whichever
\* candidate the dispatcher mixed up, and whenever jobs failed.
PublishedIsAPreparedCandidate ==
  live.state = "published" =>
    LET c == live.assets
    IN  /\ c.attempt \in Uploads /\ c = artifacts[c.attempt]
        /\ SmokeHosts \subseteq DOMAIN c.manifest.smokes
        /\ \A p \in SmokeHosts : c.payload.bin[p]["host"] = c.manifest.smokes[p]
        /\ IF live.run = "packaging" THEN c.approval = "publish"
           ELSE /\ c.approval = "prepare-only"
                /\ source = [attempt |-> c.attempt, artifact |-> c.attempt,
                             digest |-> c.attempt]

\* What the draft's retry needs is gone: its candidate expired, or the run that
\* prepared it was built again.
CandidateGone ==
  IF live.run = "promotion" THEN source.artifact \in expired \/ attempt # source.attempt
  ELSE Uploads \cap expired # {}

\* A draft that a publish job left behind is finished by re-running failed jobs,
\* as long as its candidate can still be had: nothing an earlier attempt did
\* makes a later one refuse.
DraftIsFinished ==
  live.state = "draft" ~> live.state = "published" \/ CandidateGone
=============================================================================
