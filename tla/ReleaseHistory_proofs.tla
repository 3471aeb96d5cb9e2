------------------------ MODULE ReleaseHistory_proofs ------------------------
(***************************************************************************)
(* Proofs about ReleaseHistory, for any lines, candidates and histories.   *)
(*                                                                         *)
(* The argument: one job publishes at a time, and from its recheck on the  *)
(* tags change only by that job's own hand.  What validate_history found   *)
(* of the tags is therefore still so when the tag is created and when the  *)
(* draft is promoted.                                                      *)
(***************************************************************************)
EXTENDS ReleaseHistory, TLAPS

\* What validate_history has found for the job that is past its recheck.
RecheckHolds ==
  \A i \in Candidates :
    run[i] = "publishing" /\ pc \in {"draft", "tag", "promote", "handoff"} =>
      \A j \in tags \ {i} : ~Overtakes(j, i)

Numbers(i) == {j.rebuild : j \in SameLine(i, tags \ {i})}

\* A rebuild that got its draft keeps its base and its predecessor.
DraftsHavePredecessors ==
  \A i \in Candidates :
    (\/ release[i] = "draft"
     \/ run[i] = "publishing" /\ pc \in {"draft", "tag", "promote", "handoff"})
    /\ i.rebuild > 0 => {0, i.rebuild - 1} \subseteq Numbers(i)

\* The base of every tag's line is tagged.
TagsHaveBases == \A j \in tags : Base(j.line) \in tags

HistoryInv ==
  /\ HistoryTypeOK
  /\ RecheckHolds
  /\ DraftsHavePredecessors
  /\ TagsHaveBases
  /\ NumbersAreUsedOnce

\* A job past its recheck is the only one that publishes.
LEMMA OnePublisher ==
  ASSUME HistoryTypeOK, NEW i \in Candidates, NEW j \in Candidates,
         run[i] = "publishing", run[j] = "publishing"
  PROVE  i = j
  BY DEF HistoryTypeOK

\* The candidates are identities, with numbers.
LEMMA CandidatesAreIdentities ==
  \A i \in Candidates : i \in Identities /\ i.rebuild \in Nat
  BY HistoryConfig DEF Identities

\* The identity with number 0 of a line is its base: no read-only tag has 0.
LEMMA BaseIsUnique ==
  \A b \in Identities : b.rebuild = 0 => b = Base(b.line)
  BY DEF Identities, Base

\* Every history the repository may start from satisfies the invariant.
LEMMA InitHistoryInv == Init => HistoryInv
<1> SUFFICES ASSUME Init PROVE HistoryInv
  OBVIOUS
<1>1. HistoryTypeOK
  BY HistoryConfig DEF Init, HistoryTypeOK
<1>2. RecheckHolds /\ DraftsHavePredecessors
  BY DEF Init, RecheckHolds, DraftsHavePredecessors
<1>3. NumbersAreUsedOnce
  BY HistoryConfig DEF Init, NumbersAreUsedOnce
<1>4. TagsHaveBases
  <2> SUFFICES ASSUME NEW j \in tags PROVE Base(j.line) \in tags
    BY DEF TagsHaveBases
  <2>1. PICK b \in tags : b.line = j.line /\ b.rebuild = 0
    BY HistoryConfig DEF Init
  <2> QED
    BY <2>1, <1>1, BaseIsUnique DEF HistoryTypeOK
<1> QED
  BY <1>1, <1>2, <1>3, <1>4 DEF HistoryInv

\* Types, one job waiting, one publishing.
LEMMA StepKeepsTypes == HistoryTypeOK /\ [Next]_vars => HistoryTypeOK'
<1> SUFFICES ASSUME HistoryTypeOK, [Next]_vars PROVE HistoryTypeOK'
  OBVIOUS
<1> USE DEF HistoryTypeOK
<1>0. upstream' \in [StableLines -> UpstreamReleases]
  BY DEF Next, RunStep, ArchivesAppear, UpstreamReleases, vars
<1> USE <1>0
<1>1. CASE UNCHANGED vars
  BY <1>1 DEF vars
<1>12. ASSUME NEW line \in StableLines, ArchivesAppear(line)
       PROVE  HistoryTypeOK'
  BY <1>12 DEF ArchivesAppear
<1>2. ASSUME NEW i \in Candidates, Preflight(i) PROVE HistoryTypeOK'
  BY <1>2 DEF Preflight
<1>3. ASSUME NEW i \in Candidates, EnterGroup(i) PROVE HistoryTypeOK'
  BY <1>3 DEF EnterGroup
<1>4. ASSUME NEW i \in Candidates, StartPublish(i) PROVE HistoryTypeOK'
  BY <1>4, HistoryConfig DEF StartPublish
<1>5. ASSUME NEW i \in Candidates, Rerun(i) PROVE HistoryTypeOK'
  BY <1>5 DEF Rerun
<1>6. ASSUME NEW i \in Candidates, NEW result \in {"failed", "succeeded"},
             run[i] = "publishing", EndJob(i, result)
      PROVE  HistoryTypeOK'
  BY <1>6 DEF EndJob
<1>7. ASSUME NEW i \in Candidates, Recheck(i) PROVE HistoryTypeOK'
  BY <1>6, <1>7 DEF Recheck
<1>8. ASSUME NEW i \in Candidates,
             VerifyPublished(i) \/ Handoff(i) \/ Interrupted(i)
      PROVE  HistoryTypeOK'
  BY <1>6, <1>8 DEF VerifyPublished, Handoff, Interrupted
<1>9. ASSUME NEW i \in Candidates, PrepareDraft(i) PROVE HistoryTypeOK'
  BY <1>9 DEF PrepareDraft
<1>10. ASSUME NEW i \in Candidates, CreateTag(i) PROVE HistoryTypeOK'
  BY <1>10, CandidatesAreIdentities DEF CreateTag
<1>11. ASSUME NEW i \in Candidates, Promote(i) PROVE HistoryTypeOK'
  BY <1>11 DEF Promote
<1> QED
  BY <1>1, <1>2, <1>3, <1>4, <1>5, <1>7, <1>8, <1>9, <1>10, <1>11, <1>12
  DEF Next, RunStep, PublishStep

\* Only the job that publishes adds a tag, and only its own.
LEMMA TagsGrowByPublisher ==
  ASSUME HistoryTypeOK, [Next]_vars
  PROVE  \/ tags' = tags
         \/ \E i \in Candidates :
              /\ run[i] = "publishing" /\ pc = "tag"
              /\ tags' = tags \cup {i}
              /\ pc' = "promote" /\ UNCHANGED <<release, run>>
<1>1. CASE UNCHANGED vars
  BY <1>1 DEF vars
<1>2. ASSUME NEW i \in Candidates, CreateTag(i)
      PROVE  /\ run[i] = "publishing" /\ pc = "tag"
             /\ tags' = tags \cup {i}
             /\ pc' = "promote" /\ UNCHANGED <<release, run>>
  BY <1>2 DEF CreateTag
<1>3. ASSUME NEW i \in Candidates,
             \/ Preflight(i) \/ EnterGroup(i) \/ StartPublish(i) \/ Rerun(i)
             \/ Recheck(i) \/ VerifyPublished(i) \/ PrepareDraft(i)
             \/ Promote(i) \/ Handoff(i) \/ Interrupted(i)
      PROVE  tags' = tags
  BY <1>3 DEF Preflight, EnterGroup, StartPublish, Rerun, Recheck,
     VerifyPublished, PrepareDraft, Promote, Handoff, Interrupted, EndJob
<1>4. ASSUME NEW line \in StableLines, ArchivesAppear(line) PROVE tags' = tags
  BY <1>4 DEF ArchivesAppear
<1> QED
  BY <1>1, <1>2, <1>3, <1>4 DEF Next, RunStep, PublishStep

\* Who is past the recheck after a step was so before, or has just passed it.
LEMMA PastRecheck ==
  ASSUME HistoryTypeOK, [Next]_vars, NEW i \in Candidates,
         run'[i] = "publishing", pc' \in {"draft", "tag", "promote", "handoff"}
  PROVE  \/ /\ run[i] = "publishing"
            /\ pc \in {"draft", "tag", "promote", "handoff"}
         \/ MayContinue(i) /\ tags' = tags /\ release' = release
<1> USE DEF HistoryTypeOK
<1>1. CASE UNCHANGED vars
  BY <1>1 DEF vars
<1>2. ASSUME NEW k \in Candidates,
             Preflight(k) \/ EnterGroup(k) \/ StartPublish(k) \/ Rerun(k)
      PROVE  /\ run[i] = "publishing"
             /\ pc \in {"draft", "tag", "promote", "handoff"}
  BY <1>2 DEF Preflight, EnterGroup, StartPublish, Rerun
<1>3. ASSUME NEW k \in Candidates, run[k] = "publishing", pc' = "idle"
      PROVE  FALSE
  BY <1>3
<1>4. ASSUME NEW k \in Candidates, Recheck(k)
      PROVE  MayContinue(i) /\ tags' = tags /\ release' = release
  <2>1. MayContinue(k) /\ UNCHANGED <<tags, release, run>>
    BY <1>4 DEF Recheck, EndJob
  <2>2. i = k
    BY <1>4, <2>1, OnePublisher DEF Recheck
  <2> QED
    BY <2>1, <2>2
<1>5. ASSUME NEW k \in Candidates, VerifyPublished(k) \/ Handoff(k) \/ Interrupted(k)
      PROVE  FALSE
  BY <1>5, <1>3 DEF VerifyPublished, Handoff, Interrupted, EndJob
<1>6. ASSUME NEW k \in Candidates, PrepareDraft(k) \/ CreateTag(k) \/ Promote(k)
      PROVE  /\ run[i] = "publishing"
             /\ pc \in {"draft", "tag", "promote", "handoff"}
  BY <1>6 DEF PrepareDraft, CreateTag, Promote
<1>7. ASSUME NEW line \in StableLines, ArchivesAppear(line)
      PROVE  /\ run[i] = "publishing"
             /\ pc \in {"draft", "tag", "promote", "handoff"}
  BY <1>7 DEF ArchivesAppear
<1> QED
  BY <1>1, <1>2, <1>4, <1>5, <1>6, <1>7 DEF Next, RunStep, PublishStep

\* What the recheck found of the other tags stays so.
LEMMA StepKeepsRecheck ==
  HistoryInv /\ [Next]_vars => RecheckHolds'
<1> SUFFICES ASSUME HistoryInv, [Next]_vars, NEW i \in Candidates,
                    run'[i] = "publishing",
                    pc' \in {"draft", "tag", "promote", "handoff"},
                    NEW j \in tags' \ {i}
             PROVE  ~Overtakes(j, i)
  BY DEF RecheckHolds, Overtakes
<1> USE DEF HistoryInv
<1>1. CASE /\ run[i] = "publishing"
           /\ pc \in {"draft", "tag", "promote", "handoff"}
  <2>1. j \in tags \ {i}
    BY <1>1, TagsGrowByPublisher, OnePublisher
  <2> QED
    BY <1>1, <2>1 DEF RecheckHolds
<1>2. CASE MayContinue(i) /\ tags' = tags
  BY <1>2 DEF MayContinue, Admits
<1> QED
  BY <1>1, <1>2, PastRecheck

\* Base and predecessor stay.
LEMMA StepKeepsPredecessors ==
  HistoryInv /\ [Next]_vars => DraftsHavePredecessors'
<1> SUFFICES ASSUME HistoryInv, [Next]_vars, NEW i \in Candidates,
                    \/ release'[i] = "draft"
                    \/ /\ run'[i] = "publishing"
                       /\ pc' \in {"draft", "tag", "promote", "handoff"},
                    i.rebuild > 0
             PROVE  {0, i.rebuild - 1} \subseteq Numbers(i)'
  BY DEF DraftsHavePredecessors
<1> USE DEF HistoryInv
<1>1. tags \subseteq tags'
  BY TagsGrowByPublisher
<1>2. Numbers(i) \subseteq Numbers(i)'
  BY <1>1 DEF Numbers, SameLine
<1>3. \/ release[i] = "draft"
      \/ run[i] = "publishing" /\ pc \in {"draft", "tag", "promote", "handoff"}
      \/ MayContinue(i)
  <2>1. CASE /\ run'[i] = "publishing"
             /\ pc' \in {"draft", "tag", "promote", "handoff"}
    BY <2>1, PastRecheck
  <2>2. CASE release'[i] = "draft" /\ release[i] # "draft"
    <3>1. ASSUME NEW k \in Candidates, PrepareDraft(k)
          PROVE  run[i] = "publishing" /\ pc = "draft"
      BY <2>2, <3>1 DEF PrepareDraft, HistoryTypeOK
    <3>2. ASSUME NEW k \in Candidates, Promote(k) PROVE FALSE
      BY <2>2, <3>2 DEF Promote, HistoryTypeOK
    <3>3. ASSUME NEW k \in Candidates,
                 \/ Preflight(k) \/ EnterGroup(k) \/ StartPublish(k) \/ Rerun(k)
                 \/ Recheck(k) \/ VerifyPublished(k) \/ CreateTag(k)
                 \/ Handoff(k) \/ Interrupted(k)
          PROVE  FALSE
      BY <2>2, <3>3 DEF Preflight, EnterGroup, StartPublish, Rerun, Recheck,
         VerifyPublished, CreateTag, Handoff, Interrupted, EndJob
    <3>4. UNCHANGED vars => FALSE
      BY <2>2 DEF vars
    <3>5. ASSUME NEW line \in StableLines, ArchivesAppear(line) PROVE FALSE
      BY <2>2, <3>5 DEF ArchivesAppear
    <3> QED
      BY <3>1, <3>2, <3>3, <3>4, <3>5 DEF Next, RunStep, PublishStep
  <2> QED
    BY <2>1, <2>2
<1>4. {0, i.rebuild - 1} \subseteq Numbers(i)
  BY <1>3 DEF DraftsHavePredecessors, MayContinue, Admits, Numbers
<1> QED
  BY <1>2, <1>4

\* The base of a tag that is created was there when the tag was admitted.
LEMMA StepKeepsBases == HistoryInv /\ [Next]_vars => TagsHaveBases'
<1> SUFFICES ASSUME HistoryInv, [Next]_vars, NEW j \in tags'
             PROVE  Base(j.line) \in tags'
  BY DEF TagsHaveBases, Base
<1> USE DEF HistoryInv
<1>1. tags \subseteq tags'
  BY TagsGrowByPublisher
<1>2. CASE j \in tags
  BY <1>1, <1>2 DEF TagsHaveBases
<1>3. CASE j \notin tags
  <2>1. j \in Candidates /\ run[j] = "publishing" /\ pc = "tag"
    BY <1>3, TagsGrowByPublisher
  <2>2. j \in Identities /\ j.rebuild \in Nat
    BY <2>1, CandidatesAreIdentities
  <2>3. CASE j.rebuild = 0
    BY <2>2, <2>3, BaseIsUnique
  <2>4. CASE j.rebuild > 0
    <3>1. 0 \in Numbers(j)
      BY <2>1, <2>4 DEF DraftsHavePredecessors
    <3>2. PICK b \in tags : b.line = j.line /\ b.rebuild = 0
      BY <3>1 DEF Numbers, SameLine
    <3> QED
      BY <1>1, <3>2, BaseIsUnique DEF HistoryTypeOK
  <2> QED
    BY <2>2, <2>3, <2>4
<1> QED
  BY <1>2, <1>3

\* A tag that is created has a number of its own.
LEMMA StepKeepsNumbers ==
  HistoryInv /\ [Next]_vars => NumbersAreUsedOnce'
<1> SUFFICES ASSUME HistoryInv, [Next]_vars, NEW i \in tags', NEW j \in tags',
                    i.line = j.line, i.rebuild = j.rebuild
             PROVE  i = j
  BY DEF NumbersAreUsedOnce
<1> USE DEF HistoryInv
<1>1. CASE tags' = tags
  BY <1>1 DEF NumbersAreUsedOnce
<1>2. ASSUME NEW k \in Candidates, run[k] = "publishing", pc = "tag",
             tags' = tags \cup {k}
      PROVE  i = j
  <2>1. \A m \in tags \ {k} : ~Overtakes(m, k)
    BY <1>2 DEF RecheckHolds
  <2>2. \A m \in tags \ {k} : ~(m.line = k.line /\ m.rebuild = k.rebuild)
    BY <2>1, CandidatesAreIdentities DEF Overtakes
  <2> QED
    BY <1>2, <2>2 DEF NumbersAreUsedOnce
<1> QED
  BY <1>1, <1>2, TagsGrowByPublisher

\* The invariant is inductive.
LEMMA StepHistoryInv == HistoryInv /\ [Next]_vars => HistoryInv'
  BY StepKeepsTypes, StepKeepsRecheck, StepKeepsPredecessors, StepKeepsBases,
     StepKeepsNumbers
  DEF HistoryInv

\* The invariant holds throughout.
THEOREM HistoryInvHolds == Spec => []HistoryInv
  BY InitHistoryInv, StepHistoryInv, PTL DEF Spec

\* The tags of a line carry each number once, whatever runs and jobs there
\* are and wherever they are interrupted (validate_history).
THEOREM NumbersStayUnique == Spec => []NumbersAreUsedOnce
<1>1. HistoryInv => NumbersAreUsedOnce
  BY DEF HistoryInv
<1> QED
  BY <1>1, HistoryInvHolds, PTL

\* A step that publishes a release finds no tag that overtakes it.
LEMMA PromotionIsInOrder ==
  ASSUME HistoryInv, [Next]_vars, NEW i \in Candidates,
         release[i] # "published", release'[i] = "published",
         NEW j \in tags \ {i}
  PROVE  ~Overtakes(j, i)
<1>1. ASSUME NEW k \in Candidates, Promote(k)
      PROVE  run[i] = "publishing" /\ pc = "promote"
  BY <1>1 DEF Promote, HistoryInv, HistoryTypeOK
<1>2. ASSUME NEW k \in Candidates, PrepareDraft(k) PROVE FALSE
  BY <1>2 DEF PrepareDraft, HistoryInv, HistoryTypeOK
<1>3. ASSUME NEW k \in Candidates,
             \/ Preflight(k) \/ EnterGroup(k) \/ StartPublish(k) \/ Rerun(k)
             \/ Recheck(k) \/ VerifyPublished(k) \/ CreateTag(k)
             \/ Handoff(k) \/ Interrupted(k)
      PROVE  FALSE
  BY <1>3 DEF Preflight, EnterGroup, StartPublish, Rerun, Recheck,
     VerifyPublished, CreateTag, Handoff, Interrupted, EndJob
<1>4. ASSUME UNCHANGED vars PROVE FALSE
  BY <1>4 DEF vars
<1>6. ASSUME NEW line \in StableLines, ArchivesAppear(line) PROVE FALSE
  BY <1>6 DEF ArchivesAppear
<1>5. run[i] = "publishing" /\ pc = "promote"
  BY <1>1, <1>2, <1>3, <1>4, <1>6 DEF Next, RunStep, PublishStep
<1> QED
  BY <1>5 DEF HistoryInv, RecheckHolds

\* Releases are published in the order of the policy (the step "Recheck exact
\* identity and immutable history", inside the group all tags share).
THEOREM ReleasesComeInOrder == Spec => PublishedInOrder
<1>1. HistoryInv /\ [Next]_vars =>
        [\A i \in Candidates :
           release[i] # "published" /\ release'[i] = "published" =>
             \A j \in tags \ {i} : ~Overtakes(j, i)]_vars
  BY PromotionIsInOrder
<1> QED
  BY <1>1, HistoryInvHolds, PTL DEF Spec, PublishedInOrder

\* An interrupted draft is accepted again until it is overtaken.
THEOREM DraftsWaitForTheirRuns == Spec => []DraftWaitsForItsRun
<1>1. HistoryInv => DraftWaitsForItsRun
  <2> SUFFICES ASSUME HistoryInv, NEW i \in Candidates, release[i] = "draft",
                      \A j \in tags \ {i} : ~Overtakes(j, i)
               PROVE  Admits(i, tags, TRUE)
    BY DEF DraftWaitsForItsRun, MayContinue
  <2>1. i.rebuild > 0 => {0, i.rebuild - 1} \subseteq Numbers(i)
    BY DEF HistoryInv, DraftsHavePredecessors
  <2> QED
    BY <2>1 DEF Admits, Numbers
<1> QED
  BY <1>1, HistoryInvHolds, PTL

\* What the schedule prepares is no baseline: a line has the commit it has.
LEMMA PreparedIsNewer ==
  ASSUME NEW version \in StableLines, Prepares(version)
  PROVE  \A l \in Baselines : version > l
<1>1. \A l \in StableLines : l \in Int
  BY HistoryConfig
<1>2. version \notin Baselines
  BY DEF Prepares, NotBefore, SameCommit, Latest
<1> QED
  BY <1>1, <1>2 DEF Prepares, NotBefore, Baselines

\* What the schedule prepares is admitted or meets an interrupted publication.
LEMMA PreparedIsAdmitted ==
  ASSUME HistoryInv, NEW version \in StableLines, Prepares(version),
         \A j \in tags : Overtakes(j, Base(version)) => Released(j)
  PROVE  Admits(Base(version), tags, FALSE)
<1>1. ASSUME NEW j \in tags, Overtakes(j, Base(version)) PROVE FALSE
  <2>0. \A l \in StableLines : l \in Int
    BY HistoryConfig
  <2>1. j.line \in StableLines /\ (j.line = version \/ j.line > version)
    BY <1>1 DEF Overtakes, Base
  <2>2. Base(j.line) \in tags /\ Overtakes(Base(j.line), Base(version))
    BY <2>1 DEF HistoryInv, TagsHaveBases, Overtakes, Base
  <2>3. j.line \in Baselines
    BY <2>1, <2>2 DEF Baselines
  <2>4. version > j.line
    BY <2>3, PreparedIsNewer
  <2> QED
    BY <2>0, <2>1, <2>4
<1>2. Base(version) \notin tags
  BY <1>1 DEF Overtakes, Base
<1>3. ~(Base(version).rebuild > 0)
  BY DEF Base
<1> QED
  BY <1>1, <1>2, <1>3 DEF Admits

\* What the history admits comes before no baseline, and as a base it is none.
LEMMA AdmittedIsNotBefore ==
  ASSUME NEW i \in Candidates, MayContinue(i), i.line \in StableLines,
         release[i] # "published"
  PROVE  /\ NotBefore(i.line)
         /\ i.rebuild = 0 => i.line \notin Baselines
<1>1. ASSUME NEW l \in Baselines
      PROVE  i.line >= l /\ (i.rebuild = 0 => i.line > l)
  <2>1. l \in StableLines /\ l \in Int /\ i.line \in Int
    BY HistoryConfig DEF Baselines
  <2>2. Base(l) \in tags \ {i}
    BY DEF Baselines, Released
  <2>3. ~Overtakes(Base(l), i)
    BY <2>2 DEF MayContinue, Admits
  <2> QED
    BY <2>1, <2>3, CandidatesAreIdentities DEF Overtakes, Base
<1>2. i.line \in Int
  BY HistoryConfig
<1>3. ASSUME i.rebuild = 0, i.line \in Baselines PROVE FALSE
  BY <1>1, <1>2, <1>3
<1> QED
  BY <1>1, <1>3 DEF NotBefore

\* Where upstream has its archives, only a base at a released commit is stopped.
LEMMA StoppedForUpstream ==
  ASSUME NEW i \in Candidates, Baselines # {}, MayContinue(i), ~Consumable(i)
  PROVE  /\ release[i] # "published"
         /\ \/ ~upstream[i.line].complete
            \/ /\ i.rebuild = 0
               /\ \E l \in Baselines \ {i.line} :
                    upstream[l].commit = upstream[i.line].commit
<1>1. i.line \in StableLines /\ release[i] # "published"
  BY DEF Consumable
<1>2. NotBefore(i.line) /\ (i.rebuild = 0 => i.line \notin Baselines)
  BY <1>1, AdmittedIsNotBefore
<1>3. ~upstream[i.line].complete \/ (i.rebuild = 0 /\ SameCommit(i.line))
  BY <1>1, <1>2 DEF Consumable
<1> QED
  BY <1>1, <1>2, <1>3 DEF SameCommit, Latest

\* The detection, which knows the latest release only, and the history agree
\* but for what upstream lacks (evaluate_release and validate_history).
THEOREM DetectionAgrees == Spec => []DetectionAgreesWithHistory
<1>1. HistoryInv => DetectionAgreesWithHistory
  <2> SUFFICES ASSUME HistoryInv PROVE DetectionAgreesWithHistory
    OBVIOUS
  <2>1. ASSUME NEW version \in StableLines, Prepares(version)
        PROVE  \/ Admits(Base(version), tags, FALSE)
               \/ \E j \in tags : ~Released(j) /\ Overtakes(j, Base(version))
    BY <2>1, PreparedIsAdmitted
  <2> QED
    BY <2>1, StoppedForUpstream DEF DetectionAgreesWithHistory
<1> QED
  BY <1>1, HistoryInvHolds, PTL
=============================================================================
