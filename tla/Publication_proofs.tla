-------------------------- MODULE Publication_proofs --------------------------
(***************************************************************************)
(* Proofs about Publication, for any runs, payload and bounds, when the    *)
(* listing shows a draft before the next job starts (~SlowListing).        *)
(*                                                                         *)
(* The argument: a job that creates a draft has looked at a listing that   *)
(* was complete when it started, so there is one release and all requests, *)
(* by ID or by tag, reach it.  What a check finds of a draft that is being *)
(* verified holds at the next request, because only the job writes it.     *)
(***************************************************************************)
EXTENDS Publication, FiniteSetTheorems, TLAPS

AllContents == UNION {Contents(r) : r \in Runs}
Releases == [run : Runs, draft : BOOLEAN, assets : [Names -> AllContents]]

\* What a job may delete or replace.
Own(r, id) == {CandidateBytes(r), PreparedReceipt(r)} \cup FinalReceipts(r, id)

\* The positions at which the job has its release, and has it as a draft.
WithRelease == Positions \ {"idle", "recheck", "prepare"}
WithDraft == {"tagCreate", "tagReadback", "delete", "upload", "uploading",
              "clobber", "receipt", "final", "promote"}

\* The listing was complete when the job started and nothing was created since.
ListingIsComplete == pc \in {"recheck", "prepare"} => listed = Ids

\* There is one release; the job has its ID and finds it by tag.
JobHasTheRelease ==
  /\ pc \in WithRelease => Ids = {1} /\ releaseId = 1
  /\ pc \in {"uploading", "receipt"} => target = 1
  /\ pc \in WithDraft => releases[1].draft
  /\ job # NoRun => attempt[job] > 0

\* What draft-release.json shows is still there, and may be deleted.
SeenIsOwn ==
  /\ pc \in {"tagCheck", "tagCreate", "tagReadback"} =>
       \A n \in Names : seen.assets[n] # Missing =>
         releases[1].assets[n] = seen.assets[n]
  /\ pc \in {"tagCreate", "tagReadback", "delete"} =>
       \A n \in Names : seen.assets[n] # Missing => seen.assets[n] \in Own(job, 1)

\* What the last check found.
CheckHolds ==
  /\ pc = "clobber" => releases[1].assets[Receipt] = PreparedReceipt(job)
  /\ pc = "receipt" => releases[1].assets[Receipt] = Missing
  /\ pc = "promote" => AssetsExact(1, MyReceipt) /\ tag = "exact"

PublicationInv ==
  /\ PublicationTypeOK
  /\ OneRelease
  /\ ListingIsComplete
  /\ JobHasTheRelease
  /\ SeenIsOwn
  /\ CheckHolds
  /\ PublishedIsVerified

-----------------------------------------------------------------------------
(***************************************************************************)
(* The contents of assets, and one write to them.                          *)
(***************************************************************************)
LEMMA ContentsOfTheRun ==
  ASSUME PublicationTypeOK, NEW r \in Runs
  PROVE  /\ Missing \in Contents(r) /\ Starter \in Contents(r)
         /\ Foreign \in Contents(r)
         /\ CandidateBytes(r) \in Contents(r)
         /\ PreparedReceipt(r) \in Contents(r)
         /\ \A id \in 1 .. MaxReleases, n \in 1 .. MaxAttempts :
              FinalReceipt(r, id, n) \in Contents(r)
         /\ \A c : c \in Contents(r) => c \in AllContents
<1>1. build[r] \in 1 .. MaxBuilds
  BY DEF PublicationTypeOK
<1>2. Missing \in Contents(r) /\ Starter \in Contents(r) /\ Foreign \in Contents(r)
  BY DEF Contents
<1>3. CandidateBytes(r) \in Contents(r)
  BY <1>1 DEF Contents, CandidateBytes
<1>4. PreparedReceipt(r) \in Contents(r)
  BY <1>1 DEF Contents, PreparedReceipt
<1>5. ASSUME NEW id \in 1 .. MaxReleases, NEW n \in 1 .. MaxAttempts
      PROVE  FinalReceipt(r, id, n) \in Contents(r)
  BY <1>1 DEF Contents, FinalReceipt
<1>6. ASSUME NEW c, c \in Contents(r) PROVE c \in AllContents
  BY <1>6 DEF AllContents
<1> QED
  BY <1>2, <1>3, <1>4, <1>5, <1>6

\* A write replaces one asset of one release.
LEMMA SetAssetWrites ==
  ASSUME PublicationTypeOK, NEW id \in Ids, NEW name \in Names,
         NEW content \in Contents(releases[id].run), SetAsset(id, name, content)
  PROVE  /\ releases' \in Seq(Releases) /\ Len(releases') = Len(releases)
         /\ Ids' = Ids /\ UNCHANGED <<listed, tag>>
         /\ \A j \in Ids : /\ releases'[j].run = releases[j].run
                           /\ releases'[j].draft = releases[j].draft
                           /\ releases'[j].assets \in [Names -> Contents(releases[j].run)]
                           /\ j # id => releases'[j] = releases[j]
         /\ \A n \in Names : releases'[id].assets[n] =
              IF n = name THEN content ELSE releases[id].assets[n]
<1> DEFINE assets == [releases[id].assets EXCEPT ![name] = content]
           release == [releases[id] EXCEPT !.assets = assets]
<1>1. releases \in Seq(Releases)
  BY DEF PublicationTypeOK, Releases, AllContents
<1>2. releases[id] \in Releases /\ releases[id].run \in Runs
  <2>1. releases[id] \in Releases
    BY <1>1 DEF Ids
  <2> QED
    BY <2>1 DEF Releases
<1>3. releases[id].assets \in [Names -> Contents(releases[id].run)]
  BY DEF PublicationTypeOK
<1>4. assets \in [Names -> Contents(releases[id].run)]
  BY <1>3
<1>5. assets \in [Names -> AllContents]
  BY <1>2, <1>4, ContentsOfTheRun
<1>6. release \in Releases /\ release.run = releases[id].run
      /\ release.draft = releases[id].draft /\ release.assets = assets
  BY <1>2, <1>5 DEF Releases
<1>7. releases' = [releases EXCEPT ![id] = release] /\ UNCHANGED <<listed, tag>>
  BY DEF SetAsset
<1>8. /\ releases' \in Seq(Releases) /\ Len(releases') = Len(releases)
      /\ Ids' = Ids
      /\ releases'[id] = release
      /\ \A j \in Ids \ {id} : releases'[j] = releases[j]
  <2> HIDE DEF release
  <2> QED
    BY <1>1, <1>6, <1>7 DEF Ids
<1>9. \A j \in Ids : releases[j].assets \in [Names -> Contents(releases[j].run)]
  BY DEF PublicationTypeOK
<1>10. \A n \in Names : assets[n] = IF n = name THEN content
                                    ELSE releases[id].assets[n]
  BY <1>3
<1>11. releases'[id].run = releases[id].run
       /\ releases'[id].draft = releases[id].draft /\ releases'[id].assets = assets
  BY <1>6, <1>8
<1> HIDE DEF release, assets
<1>12. ASSUME NEW j \in Ids
       PROVE  /\ releases'[j].run = releases[j].run
              /\ releases'[j].draft = releases[j].draft
              /\ releases'[j].assets \in [Names -> Contents(releases[j].run)]
              /\ j # id => releases'[j] = releases[j]
  BY <1>4, <1>8, <1>9, <1>11
<1> QED
  BY <1>7, <1>8, <1>10, <1>11, <1>12
-----------------------------------------------------------------------------
(***************************************************************************)
(* The types in two parts, and what keeps published releases verified.     *)
(***************************************************************************)
ServiceTypeOK ==
  /\ releases \in Seq(Releases)
  /\ Len(releases) <= MaxReleases
  /\ \A id \in Ids : releases[id].assets \in [Names -> Contents(releases[id].run)]
  /\ listed \subseteq Ids /\ tag \in {"none", "exact", "wrong"}

JobTypeOK ==
  /\ job \in Runs \cup {NoRun}
  /\ pc \in Positions /\ (pc = "idle" <=> job = NoRun)
  /\ releaseId \in {0} \cup Ids /\ target \in {0} \cup Ids
  /\ releaseId # 0 => releases[releaseId].run = job
  /\ attempt \in [Runs -> 0 .. MaxAttempts] /\ build \in [Runs -> 1 .. MaxBuilds]
  /\ outcome \in [Runs -> {"none", "failed", "succeeded"}]
  /\ interruptions \in 0 .. MaxInterruptions

LEMMA TypesInParts ==
  /\ PublicationTypeOK <=> ServiceTypeOK /\ JobTypeOK
  /\ PublicationTypeOK' <=> ServiceTypeOK' /\ JobTypeOK'
  BY DEF PublicationTypeOK, ServiceTypeOK, JobTypeOK, Releases, AllContents

\* IDs are the positions of the releases.
LEMMA IdsAreNumbers ==
  ASSUME ServiceTypeOK
  PROVE  /\ Ids = 1 .. Len(releases) /\ Len(releases) \in Nat
         /\ \A id \in Ids : releases[id] \in Releases /\ releases[id].run \in Runs
<1>1. Ids = 1 .. Len(releases) /\ Len(releases) \in Nat
  BY DEF ServiceTypeOK, Ids
<1>2. ASSUME NEW id \in Ids PROVE releases[id] \in Releases
  BY DEF ServiceTypeOK, Ids
<1>3. \A id \in Ids : releases[id].run \in Runs
  BY <1>2 DEF Releases
<1> QED
  BY <1>1, <1>2, <1>3

\* What plan_publication says when there is at most one release.
LEMMA PlanOfOne ==
  ASSUME ServiceTypeOK, OneRelease, NEW r \in Runs
  PROVE  /\ listed = {} => Plan(r) = "create"
         /\ listed # {} =>
              /\ listed = {1} /\ Ids = {1} /\ (CHOOSE id \in listed : TRUE) = 1
              /\ Plan(r) = IF releases[1].run # r THEN "collision"
                           ELSE IF releases[1].draft THEN "resume"
                           ELSE "verify-published"
<1>1. ASSUME listed = {} PROVE Plan(r) = "create"
  <2>1. ~(Cardinality(listed) > 1)
    BY <1>1, FS_EmptySet
  <2> QED
    BY <1>1, <2>1 DEF Plan
<1>2. ASSUME listed # {}
      PROVE  /\ listed = {1} /\ Ids = {1} /\ (CHOOSE id \in listed : TRUE) = 1
             /\ Plan(r) = IF releases[1].run # r THEN "collision"
                          ELSE IF releases[1].draft THEN "resume"
                          ELSE "verify-published"
  <2>1. listed = {1} /\ Ids = {1}
    BY <1>2, IdsAreNumbers DEF ServiceTypeOK, OneRelease
  <2>2. Cardinality(listed) = 1
    BY <2>1, FS_Singleton
  <2>3. (CHOOSE id \in listed : TRUE) = 1
    BY <2>1
  <2> QED
    BY <1>2, <2>1, <2>2, <2>3 DEF Plan
<1> QED
  BY <1>1, <1>2

\* What is published stays verified by steps that leave it and its tag alone.
LEMMA StaysVerified ==
  ASSUME PublicationTypeOK, PublishedIsVerified, JobTypeOK',
         \A id \in Ids' : ~releases'[id].draft =>
           id \in Ids /\ releases'[id] = releases[id],
         tag = "exact" => tag' = "exact",
         \A r \in Runs : build[r] <= build'[r] /\ attempt[r] <= attempt'[r]
  PROVE  PublishedIsVerified'
<1> SUFFICES ASSUME NEW id \in Ids', ~releases'[id].draft
             PROVE  /\ tag' = "exact"
                    /\ \E b \in 1 .. build'[releases'[id].run],
                          n \in 1 .. attempt'[releases'[id].run] :
                         /\ releases'[id].assets[Receipt] =
                              <<"final", releases'[id].run, b, id, n>>
                         /\ \A p \in Payload : releases'[id].assets[p] =
                              <<"candidate", releases'[id].run, b>>
  BY DEF PublishedIsVerified
<1> DEFINE r == releases[id].run
<1>1. id \in Ids /\ releases'[id] = releases[id] /\ r \in Runs
  BY IdsAreNumbers, TypesInParts
<1>2. PICK b \in 1 .. build[r], n \in 1 .. attempt[r] :
        /\ releases[id].assets[Receipt] = <<"final", r, b, id, n>>
        /\ \A p \in Payload : releases[id].assets[p] = <<"candidate", r, b>>
  BY <1>1 DEF PublishedIsVerified
<1>3. tag' = "exact"
  BY <1>1 DEF PublishedIsVerified
<1>4. /\ build[r] \in Nat /\ build'[r] \in Nat /\ attempt[r] \in Nat
      /\ attempt'[r] \in Nat
  <2>1. build \in [Runs -> 1 .. MaxBuilds] /\ attempt \in [Runs -> 0 .. MaxAttempts]
    BY DEF PublicationTypeOK
  <2>2. build' \in [Runs -> 1 .. MaxBuilds] /\ attempt' \in [Runs -> 0 .. MaxAttempts]
    BY DEF JobTypeOK
  <2> QED
    BY <1>1, <2>1, <2>2, JobConfig
<1>5. b \in 1 .. build'[r] /\ n \in 1 .. attempt'[r]
  BY <1>1, <1>2, <1>4
<1> QED
  BY <1>1, <1>2, <1>3, <1>5

-----------------------------------------------------------------------------
(***************************************************************************)
(* Kinds of steps.                                                         *)
(***************************************************************************)
LEMMA InitPublicationInv == Init => PublicationInv
<1> SUFFICES ASSUME Init PROVE PublicationInv
  OBVIOUS
<1> USE DEF Init, ServiceInit
<1>1. Ids = {} /\ Len(releases) = 0
  BY DEF Ids
<1>2. ServiceTypeOK
  BY <1>1, ServiceConfig DEF ServiceTypeOK
<1>3. JobTypeOK
  BY <1>1, JobConfig DEF JobTypeOK, Positions, NoRun
<1>4. PublicationTypeOK
  BY <1>2, <1>3, TypesInParts
<1>5. OneRelease /\ ListingIsComplete /\ JobHasTheRelease /\ SeenIsOwn
      /\ CheckHolds /\ PublishedIsVerified
  BY <1>1 DEF OneRelease, ListingIsComplete, JobHasTheRelease, SeenIsOwn,
     CheckHolds, PublishedIsVerified, WithRelease, WithDraft, Positions
<1> QED
  BY <1>4, <1>5 DEF PublicationInv

\* The end of a job, well or not.
Stops ==
  /\ job # NoRun
  /\ job' = NoRun /\ pc' = "idle"
  /\ releaseId' = 0 /\ target' = 0
  /\ \E result \in {"failed", "succeeded"} :
       outcome' = [outcome EXCEPT ![job] = result]
  /\ UNCHANGED <<attempt, build>>
  /\ interruptions' \in 0 .. MaxInterruptions

\* A job that stops leaves what the service has.
LEMMA StoppedJobs ==
  ASSUME PublicationInv, Stops, ServiceTypeOK', OneRelease',
         \A id \in Ids' : ~releases'[id].draft =>
           id \in Ids /\ releases'[id] = releases[id],
         tag = "exact" => tag' = "exact"
  PROVE  PublicationInv'
<1>1. JobTypeOK'
  BY DEF Stops, PublicationInv, PublicationTypeOK, JobTypeOK, Positions
<1>2. PublicationTypeOK'
  BY <1>1, TypesInParts
<1>3. PublishedIsVerified'
  <2>1. \A r \in Runs : build[r] <= build'[r] /\ attempt[r] <= attempt'[r]
    BY JobConfig DEF Stops, PublicationInv, PublicationTypeOK
  <2> QED
    BY <1>1, <2>1, StaysVerified DEF PublicationInv
<1>4. ListingIsComplete' /\ JobHasTheRelease' /\ SeenIsOwn' /\ CheckHolds'
  BY DEF Stops, ListingIsComplete, JobHasTheRelease, SeenIsOwn, CheckHolds,
     WithRelease, WithDraft, Positions
<1> QED
  BY <1>2, <1>3, <1>4 DEF PublicationInv

\* The service unchanged.
LEMMA ServiceUnchanged ==
  ASSUME PublicationInv, UNCHANGED serviceVars
  PROVE  /\ ServiceTypeOK' /\ OneRelease' /\ Ids' = Ids
         /\ \A id \in Ids' : ~releases'[id].draft =>
              id \in Ids /\ releases'[id] = releases[id]
         /\ tag = "exact" => tag' = "exact"
<1>1. ServiceTypeOK
  BY TypesInParts DEF PublicationInv
<1> QED
  BY <1>1 DEF PublicationInv, OneRelease, ServiceTypeOK, serviceVars, Ids

LEMMA FailedJobs ==
  ASSUME PublicationInv, job # NoRun, FailClosed PROVE PublicationInv'
<1>1. Stops
  BY DEF FailClosed, EndJob, Stops, PublicationInv, PublicationTypeOK
<1> QED
  BY <1>1, ServiceUnchanged, StoppedJobs DEF FailClosed

\* A job that goes on keeps its types.
LEMMA ContinuedJobs ==
  ASSUME PublicationInv, job # NoRun, pc' \in Positions \ {"idle"},
         UNCHANGED <<job, runVars>>,
         Ids \subseteq Ids', \A id \in Ids : releases'[id].run = releases[id].run,
         \/ releaseId' = releaseId
         \/ releaseId' \in Ids' /\ releases'[releaseId'].run = job,
         target' \in {target} \cup Ids'
  PROVE  JobTypeOK'
  BY DEF PublicationInv, PublicationTypeOK, JobTypeOK, runVars

\* What is left to show of a step with no effect on published releases.
LEMMA JobGoesOn ==
  ASSUME PublicationInv, ServiceTypeOK', OneRelease', JobTypeOK',
         UNCHANGED runVars, tag = "exact" => tag' = "exact",
         \A id \in Ids' : ~releases'[id].draft =>
           id \in Ids /\ releases'[id] = releases[id],
         ListingIsComplete', JobHasTheRelease', SeenIsOwn', CheckHolds'
  PROVE  PublicationInv'
<1>1. \A r \in Runs : build[r] <= build'[r] /\ attempt[r] <= attempt'[r]
  BY JobConfig DEF runVars, PublicationInv, PublicationTypeOK
<1> QED
  BY <1>1, TypesInParts, StaysVerified DEF PublicationInv

\* A step of the job without a write.
LEMMA QuietSteps ==
  ASSUME PublicationInv, job # NoRun, pc' \in Positions \ {"idle"},
         UNCHANGED serviceVars, UNCHANGED <<job, runVars>>,
         \/ releaseId' = releaseId
         \/ releaseId' \in Ids /\ releases[releaseId'].run = job,
         target' \in {target} \cup Ids,
         ListingIsComplete', JobHasTheRelease', SeenIsOwn', CheckHolds'
  PROVE  PublicationInv'
<1>1. ServiceTypeOK' /\ OneRelease' /\ Ids' = Ids
      /\ (\A id \in Ids' : ~releases'[id].draft =>
            id \in Ids /\ releases'[id] = releases[id])
      /\ (tag = "exact" => tag' = "exact")
  BY ServiceUnchanged
<1>2. JobTypeOK'
  BY <1>1, ContinuedJobs DEF serviceVars
<1> QED
  BY <1>1, <1>2, JobGoesOn

\* The one release while the job has it.
LEMMA TheRelease ==
  ASSUME PublicationInv, pc \in WithRelease
  PROVE  /\ job \in Runs /\ job # NoRun /\ Ids = {1} /\ 1 \in Ids /\ releaseId = 1
         /\ Len(releases) = 1
         /\ releases[1].run = job /\ releases[1] \in Releases
         /\ releases[1].assets \in [Names -> Contents(job)]
         /\ attempt[job] \in 1 .. MaxAttempts /\ 1 \in 1 .. MaxReleases
<1>1. Ids = {1} /\ releaseId = 1 /\ job # NoRun /\ job \in Runs
  BY DEF PublicationInv, JobHasTheRelease, PublicationTypeOK, WithRelease
<1>2. releases[1].run = job /\ attempt[job] > 0
  BY <1>1 DEF PublicationInv, JobHasTheRelease, PublicationTypeOK
<1>3. ServiceTypeOK
  BY TypesInParts DEF PublicationInv
<1>4. Len(releases) = 1 /\ releases[1] \in Releases
  BY <1>1, <1>3, IdsAreNumbers
<1>5. releases[1].assets \in [Names -> Contents(job)]
  BY <1>1, <1>2, <1>3 DEF ServiceTypeOK
<1>6. attempt[job] \in 1 .. MaxAttempts
  BY <1>1, <1>2, JobConfig DEF PublicationInv, PublicationTypeOK
<1>7. 1 \in 1 .. MaxReleases
  BY ServiceConfig
<1> QED
  BY <1>1, <1>2, <1>4, <1>5, <1>6, <1>7

\* The same before it looks: its identity and the plan.
LEMMA BeforeTheRelease ==
  ASSUME PublicationInv, pc \in {"recheck", "prepare"}
  PROVE  /\ job \in Runs /\ job # NoRun /\ listed = Ids
         /\ attempt[job] > 0
  BY DEF PublicationInv, PublicationTypeOK, ListingIsComplete, JobHasTheRelease

\* One write to the draft.
LEMMA DraftWrite ==
  ASSUME PublicationInv, Ids = {1}, releases[1].draft, NEW name \in Names,
         NEW content \in Contents(releases[1].run), SetAsset(1, name, content)
  PROVE  /\ ServiceTypeOK' /\ OneRelease' /\ Ids' = Ids
         /\ UNCHANGED <<listed, tag>>
         /\ releases'[1].run = releases[1].run /\ releases'[1].draft
         /\ \A n \in Names : releases'[1].assets[n] =
              IF n = name THEN content ELSE releases[1].assets[n]
<1>1. /\ releases' \in Seq(Releases) /\ Len(releases') = Len(releases)
      /\ Ids' = Ids /\ UNCHANGED <<listed, tag>>
      /\ releases'[1].run = releases[1].run /\ releases'[1].draft = releases[1].draft
      /\ releases'[1].assets \in [Names -> Contents(releases[1].run)]
      /\ \A n \in Names : releases'[1].assets[n] =
           IF n = name THEN content ELSE releases[1].assets[n]
  <2>1. PublicationTypeOK /\ 1 \in Ids
    BY DEF PublicationInv
  <2>2. /\ releases' \in Seq(Releases) /\ Len(releases') = Len(releases)
        /\ Ids' = Ids /\ UNCHANGED <<listed, tag>>
        /\ \A j \in Ids :
             /\ releases'[j].run = releases[j].run
             /\ releases'[j].draft = releases[j].draft
             /\ releases'[j].assets \in [Names -> Contents(releases[j].run)]
        /\ \A n \in Names : releases'[1].assets[n] =
             IF n = name THEN content ELSE releases[1].assets[n]
    BY <2>1, SetAssetWrites
  <2> QED
    BY <2>1, <2>2
<1>2. ServiceTypeOK
  BY TypesInParts DEF PublicationInv
<1>3. ServiceTypeOK'
  BY <1>1, <1>2 DEF ServiceTypeOK
<1> QED
  BY <1>1, <1>3 DEF OneRelease, PublicationInv

-----------------------------------------------------------------------------
(***************************************************************************)
(* The steps of the job up to the release it works on.                     *)
(***************************************************************************)
LEMMA RecheckKeepsInv == PublicationInv /\ Recheck => PublicationInv'
<1> SUFFICES ASSUME PublicationInv, Recheck PROVE PublicationInv'
  OBVIOUS
<1>1. pc = "recheck" /\ job # NoRun
  BY BeforeTheRelease DEF Recheck
<1>2. CASE FailClosed
  BY <1>1, <1>2, FailedJobs
<1>3. CASE Goto("prepare") /\ UNCHANGED serviceVars
  <2>1. /\ pc' = "prepare" /\ Ids' = Ids /\ listed' = listed
        /\ UNCHANGED <<job, releaseId, target, runVars, attempt>>
    BY <1>3 DEF Goto, serviceVars, Ids, runVars
  <2>2. ListingIsComplete' /\ JobHasTheRelease' /\ SeenIsOwn' /\ CheckHolds'
    BY <1>1, <2>1, BeforeTheRelease DEF ListingIsComplete, JobHasTheRelease,
       SeenIsOwn, CheckHolds, WithRelease, WithDraft
  <2>3. /\ UNCHANGED <<job, runVars>> /\ pc' \in Positions \ {"idle"}
        /\ releaseId' = releaseId /\ target' \in {target} \cup Ids
        /\ UNCHANGED serviceVars
    BY <1>3, <2>1 DEF Positions, Goto
  <2> QED
    BY <1>1, <2>2, <2>3, QuietSteps
<1> QED
  BY <1>1, <1>2, <1>3 DEF Recheck, Check

LEMMA PrepareDraftKeepsInv == PublicationInv /\ PrepareDraft => PublicationInv'
<1> SUFFICES ASSUME PublicationInv, PrepareDraft PROVE PublicationInv'
  OBVIOUS
<1> DEFINE draft == [run |-> job, draft |-> TRUE, assets |-> NoAssets]
<1>0. ServiceTypeOK /\ OneRelease
  BY TypesInParts DEF PublicationInv
<1>1. pc = "prepare" /\ job \in Runs /\ job # NoRun /\ listed = Ids
      /\ attempt[job] > 0
  BY BeforeTheRelease DEF PrepareDraft
<1>2. Len(releases) = 0 /\ Ids = {}
  <2>1. listed = {}
    BY <1>0, <1>1, PlanOfOne DEF PrepareDraft
  <2> QED
    BY <1>0, <1>1, <2>1, IdsAreNumbers
<1>3. /\ releases' = Append(releases, draft) /\ UNCHANGED <<listed, tag>>
      /\ releaseId' = 1 /\ pc' = "readback"
      /\ UNCHANGED <<job, seen, target, runVars, attempt>>
  BY <1>2 DEF PrepareDraft, CreateDraft, runVars
<1>4. draft.assets \in [Names -> Contents(job)] /\ draft \in Releases
      /\ draft.run = job /\ draft.draft
  BY <1>1, ContentsOfTheRun DEF NoAssets, Releases, PublicationInv
<1>5. releases' \in Seq(Releases) /\ Len(releases') = 1 /\ Ids' = {1}
      /\ releases'[1] = draft
  <2> HIDE DEF draft
  <2> QED
    BY <1>0, <1>2, <1>3, <1>4 DEF ServiceTypeOK, Ids
<1> HIDE DEF draft
<1>6. ServiceTypeOK' /\ OneRelease'
  BY <1>0, <1>1, <1>2, <1>3, <1>4, <1>5, ServiceConfig DEF ServiceTypeOK, OneRelease
<1>7. JobTypeOK'
  BY <1>1, <1>2, <1>3, <1>4, <1>5, ContinuedJobs DEF Positions
<1>8. ListingIsComplete' /\ JobHasTheRelease' /\ SeenIsOwn' /\ CheckHolds'
  BY <1>1, <1>3, <1>5 DEF ListingIsComplete, JobHasTheRelease, SeenIsOwn,
     CheckHolds, WithRelease, WithDraft
<1>9. \A id \in Ids' : releases'[id].draft
  BY <1>4, <1>5
<1> QED
  BY <1>3, <1>6, <1>7, <1>8, <1>9, JobGoesOn

LEMMA PrepareExistingKeepsInv ==
  PublicationInv /\ PrepareExisting => PublicationInv'
<1> SUFFICES ASSUME PublicationInv, PrepareExisting PROVE PublicationInv'
  OBVIOUS
<1>0. ServiceTypeOK /\ OneRelease
  BY TypesInParts DEF PublicationInv
<1>1. pc = "prepare" /\ job \in Runs /\ job # NoRun /\ attempt[job] > 0
  BY BeforeTheRelease DEF PrepareExisting
<1>2. CASE FailClosed
  BY <1>1, <1>2, FailedJobs
<1>3. CASE /\ Plan(job) # "collision"
           /\ releaseId' = CHOOSE id \in listed : TRUE
           /\ pc' = "readback"
           /\ UNCHANGED <<serviceVars, job, seen, target, runVars>>
  <2>1. Ids = {1} /\ releaseId' = 1 /\ releases[1].run = job
    BY <1>0, <1>1, <1>3, PlanOfOne DEF PrepareExisting
  <2>2. UNCHANGED <<job, attempt>> /\ Ids' = Ids
    BY <1>3 DEF serviceVars, runVars, Ids
  <2>3. ListingIsComplete' /\ JobHasTheRelease' /\ SeenIsOwn' /\ CheckHolds'
    BY <1>1, <1>3, <2>1, <2>2 DEF ListingIsComplete, JobHasTheRelease,
       SeenIsOwn, CheckHolds, WithRelease, WithDraft
  <2> QED
    BY <1>1, <1>3, <2>1, <2>3, QuietSteps DEF Positions
<1> QED
  BY <1>2, <1>3 DEF PrepareExisting

LEMMA ReadbackKeepsInv == PublicationInv /\ Readback => PublicationInv'
<1> SUFFICES ASSUME PublicationInv, Readback PROVE PublicationInv'
  OBVIOUS
<1>1. pc = "readback" /\ pc \in WithRelease
  BY DEF Readback, WithRelease, Positions
<1>2. job # NoRun /\ Ids = {1} /\ releaseId = 1 /\ attempt[job] > 0
  BY <1>1, TheRelease
<1>3. CASE FailClosed
  BY <1>2, <1>3, FailedJobs
<1>4. CASE /\ seen' = releases[releaseId] /\ pc' = "tagCheck"
           /\ UNCHANGED <<serviceVars, job, releaseId, target, runVars>>
  <2>1. /\ UNCHANGED serviceVars /\ UNCHANGED <<job, runVars>> /\ UNCHANGED releases
        /\ releaseId' = releaseId /\ target' \in {target} \cup Ids
        /\ Ids' = Ids /\ attempt' = attempt /\ pc' \in Positions \ {"idle"}
    BY <1>4 DEF serviceVars, runVars, Ids, Positions
  <2>2. ListingIsComplete' /\ JobHasTheRelease' /\ SeenIsOwn' /\ CheckHolds'
    BY <1>2, <1>4, <2>1 DEF ListingIsComplete, JobHasTheRelease, SeenIsOwn,
       CheckHolds, WithDraft
  <2> QED
    BY <1>2, <2>1, <2>2, QuietSteps
<1> QED
  BY <1>3, <1>4 DEF Readback

-----------------------------------------------------------------------------
(***************************************************************************)
(* The checks of the job: Goto or FailClosed.                              *)
(***************************************************************************)
LEMMA ChecksKeepInv ==
  ASSUME PublicationInv, pc \in WithRelease, NEW position \in WithRelease,
         Goto(position), UNCHANGED serviceVars,
         position \notin {"uploading", "receipt", "tagCheck"},
         position \in WithDraft => releases[1].draft,
         position \in {"tagCreate", "tagReadback", "delete"} =>
           \A n \in Names : seen.assets[n] # Missing =>
             /\ seen.assets[n] \in Own(job, 1)
             /\ position # "delete" => releases[1].assets[n] = seen.assets[n],
         position = "clobber" => releases[1].assets[Receipt] = PreparedReceipt(job),
         position = "promote" => AssetsExact(1, MyReceipt) /\ tag = "exact"
  PROVE  PublicationInv'
<1>1. job # NoRun /\ Ids = {1} /\ releaseId = 1 /\ attempt[job] > 0
  BY TheRelease
<1>2. /\ pc' = position /\ UNCHANGED <<job, runVars>>
      /\ releases' = releases /\ listed' = listed /\ tag' = tag
      /\ releaseId' = releaseId /\ target' = target /\ seen' = seen /\ Ids' = Ids
      /\ attempt' = attempt /\ build' = build /\ job' = job
  BY DEF Goto, serviceVars, runVars, Ids
<1>3. pc' \in Positions \ {"idle"} /\ pc' \notin {"recheck", "prepare"}
  BY <1>2 DEF WithRelease, Positions
<1>4. ListingIsComplete' /\ JobHasTheRelease'
  BY <1>1, <1>2, <1>3 DEF ListingIsComplete, JobHasTheRelease
<1>5. Own(job, 1)' = Own(job, 1)
  BY <1>2 DEF Own, CandidateBytes, PreparedReceipt, FinalReceipts, FinalReceipt
<1>6. SeenIsOwn'
  BY <1>2, <1>5 DEF SeenIsOwn
<1>7. CheckHolds'
  <2>1. AssetsExact(1, MyReceipt)' = AssetsExact(1, MyReceipt)
    BY <1>2 DEF AssetsExact, MyReceipt, PayloadComplete, FinalReceipt, CandidateBytes
  <2>2. PreparedReceipt(job)' = PreparedReceipt(job)
    BY <1>2 DEF PreparedReceipt
  <2> QED
    BY <1>2, <2>1, <2>2 DEF CheckHolds
<1> QED
  BY <1>1, <1>2, <1>3, <1>4, <1>6, <1>7, QuietSteps

\* What validate_resume_assets accepts may be deleted.
LEMMA AcceptedIsOwn ==
  ASSUME NEW r, NEW id, ResumeAccepts(r, id), NEW n \in Names,
         releases[id].assets[n] # Missing
  PROVE  releases[id].assets[n] \in Own(r, id)
  BY DEF ResumeAccepts, Own, Names

LEMMA TagCheckKeepsInv == PublicationInv /\ TagCheck => PublicationInv'
<1> SUFFICES ASSUME PublicationInv, TagCheck PROVE PublicationInv'
  OBVIOUS
<1>1. pc = "tagCheck" /\ pc \in WithRelease
  BY DEF TagCheck, WithRelease, Positions
<1>2. job # NoRun /\ releaseId = 1
  BY <1>1, TheRelease
<1>3. CASE FailClosed
  BY <1>2, <1>3, FailedJobs
<1>4. CASE Goto("verify") /\ UNCHANGED serviceVars
  <2>1. /\ "verify" \in WithRelease
        /\ "verify" \notin WithDraft \cup {"uploading", "receipt", "tagCheck",
             "tagCreate", "tagReadback", "delete", "clobber", "promote"}
    BY DEF WithRelease, WithDraft, Positions
  <2> QED
    BY <1>1, <1>4, <2>1, ChecksKeepInv
<1>5. ASSUME NEW position \in {"tagCreate", "tagReadback"}, releases[1].draft,
             ResumeAccepts(job, 1), Goto(position), UNCHANGED serviceVars
      PROVE  PublicationInv'
  <2>1. \A n \in Names : seen.assets[n] # Missing =>
          seen.assets[n] \in Own(job, 1) /\ releases[1].assets[n] = seen.assets[n]
    BY <1>1, <1>5, AcceptedIsOwn DEF PublicationInv, SeenIsOwn
  <2>2. /\ position \in WithRelease
        /\ position \notin {"uploading", "receipt", "tagCheck", "clobber", "promote"}
    BY DEF WithRelease, Positions
  <2> QED
    BY <1>1, <1>5, <2>1, <2>2, ChecksKeepInv
<1>6. CASE ~releases[1].draft
  BY <1>1, <1>2, <1>3, <1>4, <1>6 DEF TagCheck, Check
<1>7. CASE releases[1].draft
  <2>1. \/ FailClosed
        \/ /\ ResumeAccepts(job, 1) /\ UNCHANGED serviceVars
           /\ \E position \in {"tagCreate", "tagReadback"} : Goto(position)
    BY <1>1, <1>2, <1>7 DEF TagCheck, Check
  <2> QED
    BY <1>3, <1>5, <1>7, <2>1
<1> QED
  BY <1>6, <1>7

LEMMA TagCreateKeepsInv == PublicationInv /\ TagCreate => PublicationInv'
<1> SUFFICES ASSUME PublicationInv, TagCreate PROVE PublicationInv'
  OBVIOUS
<1>1. pc = "tagCreate" /\ pc \in WithRelease /\ pc \in WithDraft
  BY DEF TagCreate, WithRelease, Positions, WithDraft
<1>2. job # NoRun /\ Ids = {1} /\ releaseId = 1 /\ attempt[job] > 0
  BY <1>1, TheRelease
<1>3. /\ pc' = "tagReadback" /\ UNCHANGED <<job, runVars>>
      /\ releases' = releases /\ listed' = listed
      /\ (tag = "exact" => tag' = "exact") /\ tag' \in {tag, "exact"}
      /\ releaseId' = releaseId /\ target' = target /\ seen' = seen /\ Ids' = Ids
      /\ attempt' = attempt /\ build' = build /\ job' = job
  BY DEF TagCreate, CreateRef, Goto, runVars, Ids
<1>4. ServiceTypeOK /\ OneRelease
  BY TypesInParts DEF PublicationInv
<1>5. ServiceTypeOK' /\ OneRelease'
  BY <1>3, <1>4 DEF ServiceTypeOK, OneRelease
<1>6. JobTypeOK'
  BY <1>2, <1>3, ContinuedJobs DEF Positions
<1>7. Own(job, 1)' = Own(job, 1)
  BY <1>3 DEF Own, CandidateBytes, PreparedReceipt, FinalReceipts, FinalReceipt
<1>8. ListingIsComplete' /\ JobHasTheRelease' /\ SeenIsOwn' /\ CheckHolds'
  BY <1>1, <1>2, <1>3, <1>7 DEF ListingIsComplete, JobHasTheRelease,
     SeenIsOwn, CheckHolds, PublicationInv, WithRelease, Positions
<1> QED
  BY <1>3, <1>5, <1>6, <1>8, JobGoesOn

LEMMA TagReadbackKeepsInv == PublicationInv /\ TagReadback => PublicationInv'
<1> SUFFICES ASSUME PublicationInv, TagReadback PROVE PublicationInv'
  OBVIOUS
<1>1. pc = "tagReadback" /\ pc \in WithRelease /\ releases[1].draft
  BY DEF TagReadback, WithRelease, Positions, WithDraft, PublicationInv,
     JobHasTheRelease
<1>2. job # NoRun
  BY <1>1, TheRelease
<1>3. CASE FailClosed
  BY <1>2, <1>3, FailedJobs
<1>4. CASE Goto("delete") /\ UNCHANGED serviceVars
  <2>1. \A n \in Names : seen.assets[n] # Missing => seen.assets[n] \in Own(job, 1)
    BY <1>1 DEF PublicationInv, SeenIsOwn
  <2> QED
    BY <1>1, <1>4, <2>1, ChecksKeepInv DEF WithRelease, Positions
<1> QED
  BY <1>1, <1>3, <1>4 DEF TagReadback, Check

-----------------------------------------------------------------------------
(***************************************************************************)
(* The writes of the job to its draft.                                     *)
(***************************************************************************)
LEMMA WritesKeepInv ==
  ASSUME PublicationInv, pc \in WithDraft, NEW name \in Names,
         NEW content \in Contents(job), SetAsset(1, name, content),
         pc' \in {"delete", "uploading", "receipt", "final"},
         UNCHANGED <<job, releaseId, seen, runVars>>,
         pc' = "delete" => pc = "delete",
         target' = target \/ target' = 1,
         pc' \in {"uploading", "receipt"} => target' = 1,
         pc' = "receipt" => name = Receipt /\ content = Missing
  PROVE  PublicationInv'
<1>1. pc \in WithRelease
  BY DEF WithRelease, WithDraft, Positions
<1>2. /\ job # NoRun /\ Ids = {1} /\ releaseId = 1 /\ attempt[job] > 0
      /\ releases[1].run = job
  BY <1>1, TheRelease
<1>3. releases[1].draft
  BY DEF PublicationInv, JobHasTheRelease
<1>4. /\ ServiceTypeOK' /\ OneRelease' /\ Ids' = Ids /\ listed' = listed /\ tag' = tag
      /\ releases'[1].run = releases[1].run /\ releases'[1].draft
      /\ \A n \in Names : releases'[1].assets[n] =
           IF n = name THEN content ELSE releases[1].assets[n]
  BY <1>2, <1>3, DraftWrite
<1>5. /\ UNCHANGED <<job, runVars>> /\ job' = job /\ releaseId' = releaseId
      /\ seen' = seen /\ attempt' = attempt /\ build' = build
      /\ target' \in {target} \cup Ids'
  BY <1>2, <1>4 DEF runVars
<1>6. JobTypeOK'
  <2>1. pc' \in Positions \ {"idle"}
    BY DEF Positions
  <2>2. Ids \subseteq Ids' /\ \A id \in Ids : releases'[id].run = releases[id].run
    BY <1>2, <1>4
  <2> QED
    BY <1>2, <1>5, <2>1, <2>2, ContinuedJobs
<1>7. Own(job, 1)' = Own(job, 1)
  BY <1>5 DEF Own, CandidateBytes, PreparedReceipt, FinalReceipts, FinalReceipt
<1>8. ListingIsComplete' /\ JobHasTheRelease'
  BY <1>2, <1>4, <1>5 DEF ListingIsComplete, JobHasTheRelease
<1>9. SeenIsOwn'
  BY <1>5, <1>7 DEF SeenIsOwn, PublicationInv
<1>10. CheckHolds'
  BY <1>4 DEF CheckHolds, Names
<1>11. \A id \in Ids' : releases'[id].draft
  BY <1>2, <1>4
<1> QED
  BY <1>4, <1>5, <1>6, <1>8, <1>9, <1>10, <1>11, JobGoesOn

LEMMA DeleteAssetKeepsInv == PublicationInv /\ DeleteAsset => PublicationInv'
<1> SUFFICES ASSUME PublicationInv, DeleteAsset PROVE PublicationInv'
  OBVIOUS
<1>1. pc = "delete" /\ pc \in WithDraft /\ pc \in WithRelease /\ releases[1].draft
  BY DEF DeleteAsset, WithRelease, Positions, WithDraft, PublicationInv,
     JobHasTheRelease
<1>2. job \in Runs /\ releaseId = 1
  BY <1>1, TheRelease
<1>3. CASE DeletableNames = {}
  BY <1>1, <1>3, ChecksKeepInv DEF DeleteAsset, WithRelease, Positions
<1>4. CASE DeletableNames # {}
  <2>1. PICK n \in Names : SetAsset(1, n, Missing)
    BY <1>2, <1>4 DEF DeleteAsset, DeletableNames
  <2>2. Missing \in Contents(job)
    BY <1>2, ContentsOfTheRun DEF PublicationInv
  <2>3. pc' = "delete" /\ UNCHANGED <<job, releaseId, seen, target, runVars>>
    BY <1>4 DEF DeleteAsset, Goto
  <2> QED
    BY <1>1, <2>1, <2>2, <2>3, WritesKeepInv
<1> QED
  BY <1>3, <1>4

LEMMA LookUpDraftKeepsInv == PublicationInv /\ LookUpDraft => PublicationInv'
<1> SUFFICES ASSUME PublicationInv, LookUpDraft PROVE PublicationInv'
  OBVIOUS
<1>1. pc = "upload" /\ pc \in WithRelease /\ releases[1].draft
  BY DEF LookUpDraft, WithRelease, Positions, WithDraft, PublicationInv,
     JobHasTheRelease
<1>2. job # NoRun /\ Ids = {1} /\ releaseId = 1 /\ attempt[job] > 0
  BY <1>1, TheRelease
<1>3. listed \subseteq {1}
  BY <1>2 DEF PublicationInv, PublicationTypeOK
<1>4. CASE FailClosed
  BY <1>2, <1>4, FailedJobs
<1>5. CASE /\ target' = 1 /\ pc' = "uploading"
           /\ UNCHANGED <<serviceVars, job, releaseId, seen, runVars>>
  <2>1. /\ UNCHANGED serviceVars /\ UNCHANGED <<job, runVars>> /\ releases' = releases
        /\ releaseId' = releaseId /\ target' \in {target} \cup Ids
        /\ Ids' = Ids /\ attempt' = attempt /\ pc' \in Positions \ {"idle"}
    BY <1>2, <1>5 DEF serviceVars, runVars, Ids, Positions
  <2>2. ListingIsComplete' /\ JobHasTheRelease' /\ SeenIsOwn' /\ CheckHolds'
    BY <1>1, <1>2, <1>5, <2>1 DEF ListingIsComplete, JobHasTheRelease, SeenIsOwn,
       CheckHolds
  <2> QED
    BY <1>2, <2>1, <2>2, QuietSteps
<1> QED
  BY <1>3, <1>4, <1>5 DEF LookUpDraft

LEMMA UploadAssetKeepsInv == PublicationInv /\ UploadAsset => PublicationInv'
<1> SUFFICES ASSUME PublicationInv, UploadAsset PROVE PublicationInv'
  OBVIOUS
<1>1. pc = "uploading" /\ pc \in WithDraft /\ pc \in WithRelease /\ target = 1
  BY DEF UploadAsset, WithRelease, Positions, WithDraft, PublicationInv,
     JobHasTheRelease
<1>2. job \in Runs
  BY <1>1, TheRelease
<1> DEFINE missing == {n \in Names : releases[target].assets[n] = Missing}
<1>3. CASE missing = {}
  <2>1. /\ "verify" \in WithRelease
        /\ "verify" \notin WithDraft \cup {"uploading", "receipt", "tagCheck",
             "tagCreate", "tagReadback", "delete", "clobber", "promote"}
    BY DEF WithRelease, WithDraft, Positions
  <2> QED
    BY <1>1, <1>3, <2>1, ChecksKeepInv DEF UploadAsset
<1>4. CASE missing # {}
  <2>1. PICK n \in Names : SetAsset(1, n, CandidateAsset(n))
    BY <1>1, <1>4 DEF UploadAsset
  <2>2. CandidateAsset(n) \in Contents(job)
    BY <1>2, ContentsOfTheRun DEF PublicationInv, CandidateAsset
  <2>3. pc' = "uploading" /\ UNCHANGED <<job, releaseId, seen, target, runVars>>
    BY <1>4 DEF UploadAsset, Goto
  <2> QED
    BY <1>1, <2>1, <2>2, <2>3, WritesKeepInv
<1> QED
  BY <1>3, <1>4

LEMMA VerifyKeepsInv == PublicationInv /\ Verify => PublicationInv'
<1> SUFFICES ASSUME PublicationInv, Verify PROVE PublicationInv'
  OBVIOUS
<1>1. pc = "verify" /\ pc \in WithRelease
  BY DEF Verify, WithRelease, Positions
<1>2. job # NoRun /\ releaseId = 1
  BY <1>1, TheRelease
<1>3. CASE FailClosed
  BY <1>2, <1>3, FailedJobs
<1>4. CASE Goto("handoff") /\ UNCHANGED serviceVars
  <2>1. /\ "handoff" \in WithRelease
        /\ "handoff" \notin WithDraft \cup {"uploading", "receipt", "tagCheck",
             "tagCreate", "tagReadback", "delete", "clobber", "promote"}
    BY DEF WithRelease, WithDraft, Positions
  <2> QED
    BY <1>1, <1>4, <2>1, ChecksKeepInv
<1>5. CASE /\ releases[1].draft /\ AssetsExact(1, PreparedReceipt(job))
           /\ Goto("clobber") /\ UNCHANGED serviceVars
  <2>1. releases[1].assets[Receipt] = PreparedReceipt(job)
    BY <1>5 DEF AssetsExact
  <2> QED
    BY <1>1, <1>5, <2>1, ChecksKeepInv DEF WithRelease, Positions
<1> QED
  BY <1>1, <1>2, <1>3, <1>4, <1>5 DEF Verify, Check

LEMMA ClobberReceiptKeepsInv == PublicationInv /\ ClobberReceipt => PublicationInv'
<1> SUFFICES ASSUME PublicationInv, ClobberReceipt PROVE PublicationInv'
  OBVIOUS
<1>1. pc = "clobber" /\ pc \in WithDraft /\ pc \in WithRelease
  BY DEF ClobberReceipt, WithRelease, Positions, WithDraft
<1>2. job \in Runs /\ listed \subseteq {1}
  BY <1>1, TheRelease DEF PublicationInv, PublicationTypeOK
<1>3. SetAsset(1, Receipt, Missing) /\ target' = 1 /\ pc' = "receipt"
      /\ UNCHANGED <<job, releaseId, seen, runVars>>
  BY <1>2 DEF ClobberReceipt
<1>4. Missing \in Contents(job) /\ Receipt \in Names
  BY <1>2, ContentsOfTheRun DEF PublicationInv, Names
<1> QED
  BY <1>1, <1>3, <1>4, WritesKeepInv

LEMMA UploadReceiptKeepsInv == PublicationInv /\ UploadReceipt => PublicationInv'
<1> SUFFICES ASSUME PublicationInv, UploadReceipt PROVE PublicationInv'
  OBVIOUS
<1>1. pc = "receipt" /\ pc \in WithDraft /\ pc \in WithRelease /\ target = 1
  BY DEF UploadReceipt, WithRelease, Positions, WithDraft, PublicationInv,
     JobHasTheRelease
<1>2. job \in Runs /\ releaseId = 1 /\ attempt[job] \in 1 .. MaxAttempts
      /\ 1 \in 1 .. MaxReleases
  BY <1>1, TheRelease
<1>3. MyReceipt \in Contents(job) /\ Receipt \in Names
  BY <1>2, ContentsOfTheRun DEF PublicationInv, MyReceipt, Names
<1>4. SetAsset(1, Receipt, MyReceipt) /\ pc' = "final"
      /\ UNCHANGED <<job, releaseId, seen, target, runVars>>
  BY <1>1 DEF UploadReceipt, Goto
<1> QED
  BY <1>1, <1>3, <1>4, WritesKeepInv

LEMMA FinalCheckKeepsInv == PublicationInv /\ FinalCheck => PublicationInv'
<1> SUFFICES ASSUME PublicationInv, FinalCheck PROVE PublicationInv'
  OBVIOUS
<1>1. pc = "final" /\ pc \in WithRelease /\ releases[1].draft
  BY DEF FinalCheck, WithRelease, Positions, WithDraft, PublicationInv,
     JobHasTheRelease
<1>2. job # NoRun /\ releaseId = 1
  BY <1>1, TheRelease
<1>3. CASE FailClosed
  BY <1>2, <1>3, FailedJobs
<1>4. CASE /\ AssetsExact(1, MyReceipt) /\ tag = "exact"
           /\ Goto("promote") /\ UNCHANGED serviceVars
  BY <1>1, <1>4, ChecksKeepInv DEF WithRelease, Positions
<1> QED
  BY <1>1, <1>2, <1>3, <1>4 DEF FinalCheck, Check

-----------------------------------------------------------------------------
(***************************************************************************)
(* The promotion, and the end of a job.                                    *)
(***************************************************************************)
LEMMA PromoteKeepsInv == PublicationInv /\ Promote => PublicationInv'
<1> SUFFICES ASSUME PublicationInv, Promote PROVE PublicationInv'
  OBVIOUS
<1> DEFINE release == [releases[1] EXCEPT !.draft = FALSE]
<1>1. pc = "promote" /\ pc \in WithRelease
  BY DEF Promote, WithRelease, Positions
<1>2. /\ job \in Runs /\ job # NoRun /\ Ids = {1} /\ 1 \in Ids /\ releaseId = 1
      /\ Len(releases) = 1 /\ releases[1].run = job /\ releases[1] \in Releases
      /\ releases[1].assets \in [Names -> Contents(job)]
      /\ attempt[job] \in 1 .. MaxAttempts
  BY <1>1, TheRelease
<1>3. ServiceTypeOK /\ OneRelease /\ listed \subseteq {1}
  BY <1>2, TypesInParts DEF PublicationInv, ServiceTypeOK
<1>4. Undraft(1)
  BY <1>3 DEF Promote
<1>5. release \in Releases /\ release.run = job /\ ~release.draft
      /\ release.assets = releases[1].assets
  BY <1>2 DEF Releases
<1>6. /\ releases' = [releases EXCEPT ![1] = release]
      /\ listed' = listed /\ tag' = tag
  BY <1>4 DEF Undraft
<1>7. releases' \in Seq(Releases) /\ Len(releases') = 1 /\ Ids' = {1}
      /\ releases'[1] = release
  <2>1. releases \in Seq(Releases) /\ Len(releases) = 1 /\ release \in Releases
    BY <1>2, <1>3, <1>5 DEF ServiceTypeOK
  <2> HIDE DEF release
  <2>2. releases' \in Seq(Releases) /\ Len(releases') = 1 /\ releases'[1] = release
    BY <1>6, <2>1
  <2> QED
    BY <2>2 DEF Ids
<1> HIDE DEF release
<1>8. ServiceTypeOK' /\ OneRelease'
  BY <1>2, <1>3, <1>5, <1>6, <1>7, ServiceConfig DEF ServiceTypeOK, OneRelease
<1>9. /\ pc' = "handoff" /\ UNCHANGED <<job, runVars>> /\ job' = job
      /\ releaseId' = releaseId /\ target' = target
      /\ attempt' = attempt /\ build' = build
  BY DEF Promote, Goto, runVars
<1>10. JobTypeOK'
  BY <1>2, <1>5, <1>7, <1>9, ContinuedJobs DEF Positions
<1>11. ListingIsComplete' /\ JobHasTheRelease' /\ SeenIsOwn' /\ CheckHolds'
  BY <1>2, <1>7, <1>9 DEF ListingIsComplete, JobHasTheRelease, SeenIsOwn,
     CheckHolds, WithDraft
<1>12. PublishedIsVerified'
  <2>1. AssetsExact(1, MyReceipt) /\ tag = "exact"
    BY <1>1 DEF PublicationInv, CheckHolds
  <2>2. release.assets[Receipt] = <<"final", job, build[job], 1, attempt[job]>>
    BY <1>2, <1>5, <2>1 DEF AssetsExact, MyReceipt, FinalReceipt
  <2>3. \A p \in Payload : release.assets[p] = <<"candidate", job, build[job]>>
    BY <1>5, <2>1 DEF AssetsExact, PayloadComplete, CandidateBytes
  <2>4. build[job] \in 1 .. build'[job] /\ attempt[job] \in 1 .. attempt'[job]
    BY <1>2, <1>9, JobConfig DEF PublicationInv, PublicationTypeOK
  <2> QED
    BY <1>5, <1>6, <1>7, <2>1, <2>2, <2>3, <2>4 DEF PublishedIsVerified
<1> QED
  BY <1>8, <1>10, <1>11, <1>12, TypesInParts DEF PublicationInv

LEMMA HandoffKeepsInv == PublicationInv /\ Handoff => PublicationInv'
<1> SUFFICES ASSUME PublicationInv, Handoff PROVE PublicationInv'
  OBVIOUS
<1>1. job # NoRun
  BY TheRelease DEF Handoff, WithRelease, Positions
<1>2. Stops
  BY <1>1 DEF Handoff, EndJob, Stops, PublicationInv, PublicationTypeOK
<1> QED
  BY <1>2, ServiceUnchanged, StoppedJobs DEF Handoff

LEMMA InterruptedKeepsInv == PublicationInv /\ Interrupted => PublicationInv'
<1> SUFFICES ASSUME PublicationInv, Interrupted PROVE PublicationInv'
  OBVIOUS
<1>1. Stops
  BY JobConfig DEF Interrupted, Stops, PublicationInv, PublicationTypeOK
<1> QED
  BY <1>1, ServiceUnchanged, StoppedJobs DEF Interrupted

LEMMA UploadBrokenKeepsInv == PublicationInv /\ UploadBroken => PublicationInv'
<1> SUFFICES ASSUME PublicationInv, UploadBroken PROVE PublicationInv'
  OBVIOUS
<1>1. pc \in WithRelease /\ target = 1 /\ releases[1].draft
  BY DEF UploadBroken, WithRelease, WithDraft, Positions, PublicationInv,
     JobHasTheRelease
<1>2. job # NoRun /\ job \in Runs /\ Ids = {1} /\ releases[1].run = job
  BY <1>1, TheRelease
<1>3. PICK n \in Names : SetAsset(1, n, Starter)
  BY <1>1 DEF UploadBroken
<1>4. Starter \in Contents(job)
  BY <1>2, ContentsOfTheRun DEF PublicationInv
<1>5. /\ ServiceTypeOK' /\ OneRelease' /\ Ids' = Ids /\ tag' = tag
      /\ releases'[1].draft
  BY <1>1, <1>2, <1>3, <1>4, DraftWrite
<1>6. Stops
  <2>1. interruptions \in 0 .. MaxInterruptions /\ interruptions < MaxInterruptions
    BY DEF UploadBroken, PublicationInv, PublicationTypeOK
  <2>2. interruptions' \in 0 .. MaxInterruptions
    BY <2>1, JobConfig DEF UploadBroken
  <2> QED
    BY <1>2, <2>2 DEF UploadBroken, Stops
<1> QED
  BY <1>2, <1>5, <1>6, StoppedJobs

LEMMA StartJobKeepsInv ==
  ASSUME PublicationInv, ~SlowListing, NEW r \in Runs, NEW rebuild \in BOOLEAN,
         StartJob(r, rebuild)
  PROVE  PublicationInv'
<1>1. PublicationTypeOK /\ ServiceTypeOK
  BY TypesInParts DEF PublicationInv
<1>2. /\ job = NoRun /\ job' = r /\ pc' = "recheck" /\ listed = Ids
      /\ releases' = releases /\ listed' = listed /\ tag' = tag /\ Ids' = Ids
      /\ UNCHANGED serviceVars
      /\ releaseId' = releaseId /\ target' = target /\ outcome' = outcome
      /\ interruptions' = interruptions /\ r # NoRun
  BY JobConfig DEF StartJob, serviceVars, Ids, NoRun
<1>3. /\ attempt' = [attempt EXCEPT ![r] = @ + 1] /\ attempt[r] < MaxAttempts
      /\ build' = [build EXCEPT ![r] = IF rebuild THEN @ + 1 ELSE @]
      /\ rebuild => build[r] < MaxBuilds
  BY DEF StartJob
<1>4. attempt \in [Runs -> 0 .. MaxAttempts] /\ build \in [Runs -> 1 .. MaxBuilds]
  BY <1>1 DEF PublicationTypeOK
<1>5. attempt' \in [Runs -> 0 .. MaxAttempts] /\ attempt'[r] > 0
      /\ \A q \in Runs : attempt[q] <= attempt'[q]
  BY <1>3, <1>4, JobConfig
<1>6. build' \in [Runs -> 1 .. MaxBuilds] /\ \A q \in Runs : build[q] <= build'[q]
  <2>1. CASE rebuild
    BY <1>3, <1>4, <2>1, JobConfig
  <2>2. CASE ~rebuild
    BY <1>3, <1>4, <2>2, JobConfig
  <2> QED
    BY <2>1, <2>2
<1>7. releaseId = 0
  BY <1>1, <1>2, IdsAreNumbers, JobConfig DEF PublicationTypeOK, NoRun
<1>8. JobTypeOK'
  BY <1>1, <1>2, <1>5, <1>6, <1>7 DEF JobTypeOK, PublicationTypeOK, Positions
<1>9. ServiceTypeOK' /\ OneRelease'
  BY <1>2, ServiceUnchanged
<1>10. PublishedIsVerified'
  BY <1>1, <1>2, <1>5, <1>6, <1>8, StaysVerified DEF PublicationInv
<1>11. ListingIsComplete' /\ JobHasTheRelease' /\ SeenIsOwn' /\ CheckHolds'
  BY <1>2, <1>5 DEF ListingIsComplete, JobHasTheRelease, SeenIsOwn,
     CheckHolds, WithRelease, WithDraft
<1> QED
  BY <1>8, <1>9, <1>10, <1>11, TypesInParts DEF PublicationInv

-----------------------------------------------------------------------------
(***************************************************************************)
(* What others do: nothing that a check of the job relies on.              *)
(***************************************************************************)
LEMMA OthersKeepInv == PublicationInv /\ Others => PublicationInv'
<1> SUFFICES ASSUME PublicationInv, Others PROVE PublicationInv'
  OBVIOUS
<1>1. /\ UNCHANGED runVars /\ job' = job /\ pc' = pc /\ releaseId' = releaseId
      /\ seen' = seen /\ target' = target /\ attempt' = attempt /\ build' = build
      /\ outcome' = outcome /\ interruptions' = interruptions
  BY DEF Others, jobVars, runVars
<1>2. PublicationTypeOK /\ ServiceTypeOK /\ OneRelease
  BY TypesInParts DEF PublicationInv
<1>3. Own(job, 1)' = Own(job, 1)
  BY <1>1 DEF Own, CandidateBytes, PreparedReceipt, FinalReceipts, FinalReceipt
<1>4. AssetsExact(1, MyReceipt)' = AssetsExact(1, MyReceipt) \/ releases' # releases
  BY <1>1 DEF AssetsExact, MyReceipt, PayloadComplete, FinalReceipt, CandidateBytes
<1>5. JobTypeOK' \/ Ids' # Ids \/ \E id \in Ids : releases'[id].run # releases[id].run
  BY <1>1, <1>2 DEF JobTypeOK, PublicationTypeOK
<1>6. CASE ListRelease
  <2>1. /\ releases' = releases /\ tag' = tag /\ Ids' = Ids
        /\ listed' \subseteq Ids /\ listed # Ids
    BY <1>2, <1>6 DEF ListRelease, ServiceTypeOK, Ids
  <2>2. ServiceTypeOK' /\ OneRelease'
    BY <1>2, <2>1 DEF ServiceTypeOK, OneRelease
  <2>3. ListingIsComplete' /\ JobHasTheRelease' /\ SeenIsOwn' /\ CheckHolds'
    BY <1>1, <1>3, <1>4, <2>1 DEF ListingIsComplete, JobHasTheRelease, SeenIsOwn,
       CheckHolds, PublicationInv, PreparedReceipt
  <2> QED
    BY <1>1, <1>5, <2>1, <2>2, <2>3, JobGoesOn
<1>7. CASE PushForeignTag
  <2>1. /\ releases' = releases /\ listed' = listed /\ Ids' = Ids
        /\ tag = "none" /\ tag' = "wrong"
    BY <1>7 DEF PushForeignTag, Ids
  <2>2. ServiceTypeOK' /\ OneRelease'
    BY <1>2, <2>1 DEF ServiceTypeOK, OneRelease
  <2>3. ListingIsComplete' /\ JobHasTheRelease' /\ SeenIsOwn' /\ CheckHolds'
    BY <1>1, <1>3, <1>4, <2>1 DEF ListingIsComplete, JobHasTheRelease, SeenIsOwn,
       CheckHolds, PublicationInv, PreparedReceipt
  <2> QED
    BY <1>1, <1>5, <2>1, <2>2, <2>3, JobGoesOn
<1>8. CASE BeforeUpload /\ AddForeignAsset
  <2>1. PICK id \in Ids, name \in Names :
          /\ releases[id].draft /\ releases[id].assets[name] = Missing
          /\ SetAsset(id, name, Foreign)
    BY <1>8 DEF AddForeignAsset
  <2>2. Ids = {1} /\ id = 1 /\ releases[1].run \in Runs
    BY <1>2, <2>1, IdsAreNumbers DEF OneRelease
  <2>3. Foreign \in Contents(releases[1].run)
    BY <1>2, <2>2, ContentsOfTheRun
  <2>4. /\ ServiceTypeOK' /\ OneRelease' /\ Ids' = Ids /\ listed' = listed
        /\ tag' = tag /\ releases'[1].run = releases[1].run /\ releases'[1].draft
        /\ \A n \in Names : releases'[1].assets[n] =
             IF n = name THEN Foreign ELSE releases[1].assets[n]
    BY <2>1, <2>2, <2>3, DraftWrite
  <2>5. SeenIsOwn'
    <3>1. \A n \in Names : releases[1].assets[n] # Missing =>
            releases'[1].assets[n] = releases[1].assets[n]
      BY <2>1, <2>2, <2>4
    <3>2. SeenIsOwn
      BY DEF PublicationInv
    <3> QED
      BY <1>1, <1>3, <3>1, <3>2 DEF SeenIsOwn
  <2>6. ListingIsComplete' /\ JobHasTheRelease' /\ CheckHolds'
    BY <1>1, <1>8, <2>2, <2>4 DEF BeforeUpload, ListingIsComplete,
       JobHasTheRelease, CheckHolds, PublicationInv
  <2>7. \A j \in Ids' : releases'[j].draft
    BY <2>2, <2>4
  <2> QED
    BY <1>1, <1>5, <2>2, <2>4, <2>5, <2>6, <2>7, JobGoesOn
<1> QED
  BY <1>6, <1>7, <1>8 DEF Others

-----------------------------------------------------------------------------
LEMMA StepPublicationInv ==
  ASSUME ~SlowListing, PublicationInv, [Next]_vars
  PROVE  PublicationInv'
<1>1. CASE \E run \in Runs, rebuild \in BOOLEAN : StartJob(run, rebuild)
  BY <1>1, StartJobKeepsInv
<1>2. CASE JobStep
  BY <1>2, RecheckKeepsInv, PrepareDraftKeepsInv, PrepareExistingKeepsInv,
     ReadbackKeepsInv, TagCheckKeepsInv, TagCreateKeepsInv, TagReadbackKeepsInv,
     DeleteAssetKeepsInv, LookUpDraftKeepsInv, UploadAssetKeepsInv,
     VerifyKeepsInv, ClobberReceiptKeepsInv, UploadReceiptKeepsInv,
     FinalCheckKeepsInv, PromoteKeepsInv, HandoffKeepsInv DEF JobStep
<1>3. CASE Interrupted \/ UploadBroken
  BY <1>3, InterruptedKeepsInv, UploadBrokenKeepsInv
<1>4. CASE Others
  BY <1>4, OthersKeepInv
<1>5. CASE UNCHANGED vars
  <2>1. /\ releases' = releases /\ listed' = listed /\ tag' = tag /\ job' = job
        /\ pc' = pc /\ releaseId' = releaseId /\ seen' = seen /\ target' = target
        /\ attempt' = attempt /\ build' = build /\ outcome' = outcome
        /\ interruptions' = interruptions /\ Ids' = Ids
    BY <1>5 DEF vars, serviceVars, jobVars, runVars, Ids
  <2>2. PublicationTypeOK' /\ OneRelease' /\ ListingIsComplete' /\ JobHasTheRelease'
    BY <2>1 DEF PublicationInv, PublicationTypeOK, OneRelease, ListingIsComplete,
       JobHasTheRelease
  <2>3. SeenIsOwn'
    BY <2>1 DEF PublicationInv, SeenIsOwn, Own, CandidateBytes, PreparedReceipt,
       FinalReceipts, FinalReceipt
  <2>4. CheckHolds'
    BY <2>1 DEF PublicationInv, CheckHolds, AssetsExact, PayloadComplete,
       MyReceipt, CandidateBytes, PreparedReceipt, FinalReceipt
  <2>5. PublishedIsVerified'
    BY <2>1 DEF PublicationInv, PublishedIsVerified
  <2> QED
    BY <2>2, <2>3, <2>4, <2>5 DEF PublicationInv
<1> QED
  BY <1>1, <1>2, <1>3, <1>4, <1>5 DEF Next

LEMMA PublicationInvariant ==
  ASSUME ~SlowListing PROVE Spec => []PublicationInv
<1>1. PublicationInv /\ [Next]_vars => PublicationInv'
  BY StepPublicationInv
<1> QED
  BY <1>1, InitPublicationInv, PTL DEF Spec
-----------------------------------------------------------------------------
(***************************************************************************)
(* What a step writes.                                                     *)
(***************************************************************************)

\* A write to one asset of the one release, a draft: of a missing asset, or
\* of bytes that the job's own run put there.
AssetWrite ==
  /\ Ids = {1} /\ releases[1].draft
  /\ \E n \in Names :
       /\ \E content : SetAsset(1, n, content)
       /\ \/ releases[1].assets[n] = Missing
          \/ /\ job # NoRun /\ releases[1].run = job
             /\ releases[1].assets[n] \in Own(job, 1)

Writes ==
  \/ releases' = releases /\ (tag' = tag \/ tag = "none")
  \/ Ids = {} /\ tag' = tag
  \/ AssetWrite
  \/ Ids = {1} /\ releases[1].draft /\ Undraft(1)

LEMMA JobStepWrites == PublicationInv /\ JobStep => Writes
<1> SUFFICES ASSUME PublicationInv, JobStep PROVE Writes
  OBVIOUS
<1>1. ASSUME UNCHANGED serviceVars PROVE Writes
  BY <1>1 DEF serviceVars, Writes
<1>2. ASSUME FailClosed PROVE Writes
  BY <1>1, <1>2 DEF FailClosed
<1>3. pc \in WithRelease =>
        /\ job # NoRun /\ Ids = {1} /\ releaseId = 1 /\ releases[1].run = job
        /\ attempt[job] \in 1 .. MaxAttempts /\ listed \subseteq {1}
  BY TheRelease DEF PublicationInv, PublicationTypeOK
<1>4. pc \in WithDraft => pc \in WithRelease /\ releases[1].draft
  BY DEF PublicationInv, JobHasTheRelease, WithDraft, WithRelease, Positions
<1>5. CASE Recheck \/ PrepareExisting \/ Readback \/ TagCheck \/ TagReadback
           \/ LookUpDraft \/ Verify \/ FinalCheck \/ Handoff
  BY <1>1, <1>2, <1>5 DEF Recheck, PrepareExisting, Readback, TagCheck,
     TagReadback, LookUpDraft, Verify, FinalCheck, Handoff, Check
<1>6. CASE PrepareDraft
  <2>1. ServiceTypeOK /\ OneRelease /\ job \in Runs /\ listed = Ids
    BY <1>6, TypesInParts, BeforeTheRelease DEF PrepareDraft, PublicationInv
  <2>2. Ids = {}
    BY <1>6, <2>1, PlanOfOne DEF PrepareDraft
  <2> QED
    BY <1>6, <2>2 DEF PrepareDraft, CreateDraft, Writes
<1>7. CASE TagCreate
  BY <1>7 DEF TagCreate, CreateRef, Writes
<1>8. CASE DeleteAsset
  <2>1. pc \in WithDraft /\ pc = "delete"
    BY <1>8 DEF DeleteAsset, WithDraft
  <2>2. ASSUME NEW n \in DeletableNames, SetAsset(releaseId, n, Missing)
        PROVE  AssetWrite
    <3>1. /\ n \in Names /\ seen.assets[n] # Missing
          /\ releases[1].assets[n] = seen.assets[n]
      BY <1>3, <1>4, <2>1 DEF DeletableNames
    <3>2. releases[1].assets[n] \in Own(job, 1)
      BY <2>1, <3>1 DEF PublicationInv, SeenIsOwn
    <3> QED
      BY <1>3, <1>4, <2>1, <2>2, <3>1, <3>2 DEF AssetWrite
  <2> QED
    BY <1>1, <1>8, <2>2 DEF DeleteAsset, Writes
<1>9. CASE UploadAsset
  <2>1. pc \in WithDraft /\ target = 1
    BY <1>9 DEF UploadAsset, WithDraft, PublicationInv, JobHasTheRelease
  <2>2. ASSUME NEW n \in Names, releases[target].assets[n] = Missing,
               SetAsset(target, n, CandidateAsset(n))
        PROVE  AssetWrite
    BY <1>3, <1>4, <2>1, <2>2 DEF AssetWrite
  <2> QED
    BY <1>1, <1>9, <2>2 DEF UploadAsset, Writes
<1>10. CASE ClobberReceipt
  <2>1. pc \in WithDraft /\ releases[1].assets[Receipt] = PreparedReceipt(job)
    BY <1>10 DEF ClobberReceipt, WithDraft, PublicationInv, CheckHolds
  <2>2. SetAsset(1, Receipt, Missing)
    BY <1>3, <1>4, <1>10, <2>1 DEF ClobberReceipt
  <2>3. Receipt \in Names /\ PreparedReceipt(job) \in Own(job, 1)
    BY DEF Names, Own
  <2> QED
    BY <1>3, <1>4, <2>1, <2>2, <2>3 DEF AssetWrite, Writes
<1>11. CASE UploadReceipt
  <2>1. /\ pc \in WithDraft /\ target = 1
        /\ releases[1].assets[Receipt] = Missing /\ Receipt \in Names
    BY <1>11 DEF UploadReceipt, WithDraft, PublicationInv, CheckHolds,
       JobHasTheRelease, Names
  <2> QED
    BY <1>3, <1>4, <1>11, <2>1 DEF UploadReceipt, AssetWrite, Writes
<1>12. CASE Promote
  BY <1>3, <1>4, <1>12 DEF Promote, WithDraft, Writes
<1> QED
  BY <1>5, <1>6, <1>7, <1>8, <1>9, <1>10, <1>11, <1>12 DEF JobStep

LEMMA StepWrites == PublicationInv /\ [Next]_vars => Writes
<1> SUFFICES ASSUME PublicationInv, [Next]_vars PROVE Writes
  OBVIOUS
<1>1. ASSUME UNCHANGED serviceVars PROVE Writes
  BY <1>1 DEF serviceVars, Writes
<1>2. CASE \E run \in Runs, rebuild \in BOOLEAN : StartJob(run, rebuild)
  BY <1>1, <1>2 DEF StartJob
<1>3. CASE Interrupted \/ UNCHANGED vars
  BY <1>1, <1>3 DEF Interrupted, vars
<1>4. CASE UploadBroken
  <2>1. pc \in WithRelease /\ target = 1 /\ releases[1].draft
    BY <1>4 DEF UploadBroken, WithRelease, WithDraft, Positions, PublicationInv,
       JobHasTheRelease
  <2>2. Ids = {1}
    BY <2>1, TheRelease
  <2> QED
    BY <1>4, <2>1, <2>2 DEF UploadBroken, AssetWrite, Writes
<1>5. CASE Others
  <2>1. CASE ListRelease \/ PushForeignTag
    BY <2>1 DEF ListRelease, PushForeignTag, Writes
  <2>2. CASE AddForeignAsset
    <3>1. PICK id \in Ids, name \in Names :
            /\ releases[id].draft /\ releases[id].assets[name] = Missing
            /\ SetAsset(id, name, Foreign)
      BY <2>2 DEF AddForeignAsset
    <3>2. Ids = {1} /\ id = 1
      BY <3>1, TypesInParts, IdsAreNumbers DEF OneRelease, PublicationInv
    <3> QED
      BY <3>1, <3>2 DEF AssetWrite, Writes
  <2> QED
    BY <1>5, <2>1, <2>2 DEF Others
<1> QED
  BY <1>2, <1>3, <1>4, <1>5, JobStepWrites DEF Next

-----------------------------------------------------------------------------
(***************************************************************************)
(* The theorems.                                                           *)
(***************************************************************************)

\* The types hold for all runs, payloads and bounds: in particular a job
\* only ever has the release that its own run's notes name, and an asset of
\* a draft comes from its own run or from somebody else, never from another
\* run's job.
THEOREM PublicationIsTypeCorrect ==
  ASSUME ~SlowListing PROVE Spec => []PublicationTypeOK
<1>1. PublicationInv => PublicationTypeOK
  BY DEF PublicationInv
<1> QED
  BY <1>1, PublicationInvariant, PTL

\* A tag never gets a second release, however many creations lose their
\* answer (prepare_release).
THEOREM OneReleasePerTag ==
  ASSUME ~SlowListing PROVE Spec => []OneRelease
<1>1. PublicationInv => OneRelease
  BY DEF PublicationInv
<1> QED
  BY <1>1, PublicationInvariant, PTL

\* What is published is one verified candidate with its own receipt at the
\* exact tag, after any number of interruptions, retries and rebuilds
\* (validate_candidate_assets and the promotion).
THEOREM PublishedStaysVerified ==
  ASSUME ~SlowListing PROVE Spec => []PublishedIsVerified
<1>1. PublicationInv => PublishedIsVerified
  BY DEF PublicationInv
<1> QED
  BY <1>1, PublicationInvariant, PTL

\* No step changes a published release or its tag.
THEOREM PublishedNeverChanges ==
  ASSUME ~SlowListing PROVE Spec => PublishedIsImmutable
<1>1. ASSUME PublicationInv, [Next]_vars
      PROVE  \A id \in Ids : ~releases[id].draft =>
               releases'[id] = releases[id] /\ tag' = tag
  <2> SUFFICES ASSUME NEW id \in Ids, ~releases[id].draft
               PROVE  releases'[id] = releases[id] /\ tag' = tag
    OBVIOUS
  <2>1. tag = "exact"
    BY <1>1 DEF PublicationInv, PublishedIsVerified
  <2>2. Writes
    BY <1>1, StepWrites
  <2> QED
    BY <2>1, <2>2 DEF Writes, AssetWrite
<1> QED
  BY <1>1, PublicationInvariant, PTL DEF Spec, PublishedIsImmutable

\* A job deletes or replaces only what its own run put there.
THEOREM OnlyOwnBytes ==
  ASSUME ~SlowListing PROVE Spec => OnlyOwnBytesAreReplaced
<1> DEFINE MayReplace(id, old) ==
             /\ job # NoRun /\ releases[id].run = job
             /\ old \in {CandidateBytes(job), PreparedReceipt(job)}
                         \cup FinalReceipts(job, id)
           Kept == \A id \in Ids, n \in Names :
                     LET old == releases[id].assets[n]
                     IN old # Missing /\ releases'[id].assets[n] # old => MayReplace(id, old)
<1>1. ASSUME PublicationInv, [Next]_vars PROVE Kept
  <2> SUFFICES ASSUME NEW id \in Ids, NEW n \in Names,
                      releases[id].assets[n] # Missing,
                      releases'[id].assets[n] # releases[id].assets[n]
               PROVE  MayReplace(id, releases[id].assets[n])
    OBVIOUS
  <2>1. Writes
    BY <1>1, StepWrites
  <2>2. CASE AssetWrite
    <3>1. PICK name \in Names :
            /\ \E content : SetAsset(1, name, content)
            /\ \/ releases[1].assets[name] = Missing
               \/ /\ job # NoRun /\ releases[1].run = job
                  /\ releases[1].assets[name] \in Own(job, 1)
      BY <2>2 DEF AssetWrite
    <3>2. id = 1
      BY <2>2 DEF AssetWrite
    <3>3. n # name => releases'[1].assets[n] = releases[1].assets[n]
      <4>1. ServiceTypeOK /\ 1 \in Ids /\ releases[1] \in Releases
        BY <1>1, <3>2, TypesInParts, IdsAreNumbers DEF PublicationInv
      <4>2. releases[1].assets \in [Names -> AllContents]
        BY <4>1 DEF Releases
      <4> PICK content : SetAsset(1, name, content)
        BY <3>1
      <4>3. releases'[1] = [releases[1] EXCEPT !.assets[name] = content]
        BY <4>1 DEF SetAsset, Ids
      <4>4. releases'[1].assets = [releases[1].assets EXCEPT ![name] = content]
        BY <4>1, <4>3 DEF Releases
      <4> QED
        BY <4>2, <4>4
    <3> QED
      BY <3>1, <3>2, <3>3 DEF Own
  <2>3. CASE Ids = {1} /\ Undraft(1)
    BY <2>3 DEF Undraft, Ids
  <2> QED
    BY <2>1, <2>2, <2>3 DEF Writes
<1> QED
  BY <1>1, PublicationInvariant, PTL DEF Spec, OnlyOwnBytesAreReplaced
=============================================================================
