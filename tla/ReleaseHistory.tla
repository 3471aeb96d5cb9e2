---------------------------- MODULE ReleaseHistory ----------------------------
(***************************************************************************)
(* The releases of the repository: many tags, each with a workflow run of  *)
(* its own.  tools/release_version_policy.py decides from the tags that    *)
(* exist whether a release may come next; the preflight of a run asks it   *)
(* before the builds, its publish job asks again, hours later, inside a    *)
(* concurrency group that all tags share (native_release.yml).             *)
(*                                                                         *)
(* Publication models one publish job request by request; here it is cut   *)
(* to the writes the other tags see: the draft, the tag, the promotion.    *)
(* An identity stands for a tag of the grammar parse_release_tag accepts;  *)
(* other tags take no part in the order.                                   *)
(***************************************************************************)
EXTENDS Integers, FiniteSets

CONSTANTS StableLines,       \* MAJOR.MINOR.PATCH, in order
          DevelopmentLines,  \* g<12-hex>, without an order
          Candidates,        \* the identities somebody asks to release
          Histories,         \* sets of identities released earlier
          Commits,           \* upstream commits
          Upstreams,         \* what upstream released of each stable line
          MaxRuns            \* bound: publish jobs started for a tag

Lines == StableLines \cup DevelopmentLines

\* vMAJOR.MINOR.PATCH[-N], g<12-hex>[-N], or, if legacy, the read-only form
\* vMAJOR.MINOR.PATCH-native.N; a base release is rebuild 0.
Identities ==
  {i \in [line : Lines, rebuild : Nat, legacy : BOOLEAN] :
     i.legacy => i.line \in StableLines /\ i.rebuild > 0}

\* An upstream release: its commit and whether the archives upstream has to
\* publish for iOS and macOS are there.  Upstream tags that move are left out:
\* evaluate_release and the publish job refuse them.
UpstreamReleases == [commit : Commits, complete : BOOLEAN]

ASSUME HistoryConfig ==
  /\ StableLines \subseteq Int
  /\ StableLines \cap DevelopmentLines = {}
  /\ Candidates \subseteq {i \in Identities : ~i.legacy}
  /\ \A h \in Histories :
       /\ h \subseteq Identities
       /\ \A i, j \in h : i.line = j.line /\ i.rebuild = j.rebuild => i = j
       /\ \A i \in h : \E b \in h : b.line = i.line /\ b.rebuild = 0
  /\ Upstreams \subseteq [StableLines -> UpstreamReleases]
  /\ MaxRuns \in Nat

VARIABLES
  upstream, \* the upstream release of each stable line
  tags,     \* the release tags that exist
  release,  \* what the release of a candidate is: "none", "draft", "published"
  run,      \* where the workflow run of a candidate is
  pc,       \* position of the publish job that is running
  started   \* publish jobs started for a candidate

vars == <<upstream, tags, release, run, pc, started>>

-----------------------------------------------------------------------------
(***************************************************************************)
(* The policy.                                                             *)
(***************************************************************************)
SameLine(i, known) == {j \in known : j.line = i.line}

\* Two numbers in the order of the line; a tag the other form already has.
Overtakes(j, i) ==
  \/ j.line = i.line /\ j.rebuild >= i.rebuild
  \/ j.line \in StableLines /\ i.line \in StableLines /\ j.line > i.line

\* Mutant: the read-only tags take no part in the order.
AdmitsWithoutLegacy(i, existing, resumes) ==
  LET known == {j \in existing : j # i /\ ~j.legacy}
      numbers == {j.rebuild : j \in SameLine(i, existing \ {i})}
  IN /\ i \in existing => resumes
     /\ i.rebuild > 0 => {0, i.rebuild - 1} \subseteq numbers
     /\ \A j \in known : ~Overtakes(j, i)

\* validate_history: no collision, a rebuild only after its base and its
\* predecessor, nothing newer in the line, no rollback to an older stable
\* line.  The tag of the candidate itself is ignored if it resumes.
Admits(i, existing, resumes) ==
  LET known == existing \ {i}
      numbers == {j.rebuild : j \in SameLine(i, known)}
  IN /\ i \in existing => resumes
     /\ i.rebuild > 0 => {0, i.rebuild - 1} \subseteq numbers
     /\ \A j \in known : ~Overtakes(j, i)

\* Mutant: the tag of a draft that is resumed is a collision.
MayContinueUnlessTagged(i) == Admits(i, tags, release[i] = "published")

\* plan_publication and the history: the run resumes a draft or verifies a
\* published release, else it creates one.
MayContinue(i) == Admits(i, tags, release[i] # "none")

-----------------------------------------------------------------------------
(***************************************************************************)
(* Upstream detection (tools/check_upstream_release.py).  It looks at the  *)
(* latest published release and at no tag: once a day, to name the base    *)
(* release of a new upstream version, and in every preflight, as a gate.   *)
(***************************************************************************)
Base(line) == [line |-> line, rebuild |-> 0, legacy |-> FALSE]

Released(i) == i \in tags /\ (i \in Candidates => release[i] = "published")

\* Rebuilds and development releases are prereleases, so the latest release is
\* the base of the newest of these lines.
Baselines == {l \in StableLines : Released(Base(l))}

Latest == {l \in Baselines : \A m \in Baselines : m <= l}

NotBefore(line) == \A l \in Baselines : line >= l

SameCommit(line) ==
  \E l \in Latest : upstream[l].commit = upstream[line].commit

\* evaluate_release is "ready" for a base: no rollback, another commit than the
\* latest release's, all archives there.
Prepares(version) ==
  /\ Baselines # {}
  /\ NotBefore(version)
  /\ ~SameCommit(version)
  /\ upstream[version].complete

\* Mutant: discovery's same-commit no-op also stops a rebuild.
ConsumableByDiscovery(i) ==
  i.line \in StableLines =>
    \/ Baselines # {} /\ release[i] = "published"
    \/ Prepares(i.line)

\* The gate of the preflight: --require-ready unless the release is published
\* already, --allow-same-commit for a rebuild, nothing for a development line.
Consumable(i) ==
  i.line \in StableLines =>
    /\ Baselines # {}
    /\ \/ release[i] = "published"
       \/ /\ NotBefore(i.line)
          /\ i.rebuild = 0 => ~SameCommit(i.line)
          /\ upstream[i.line].complete

-----------------------------------------------------------------------------
Init ==
  /\ upstream \in Upstreams
  /\ tags \in Histories
  /\ release = [i \in Candidates |-> IF i \in tags THEN "published" ELSE "none"]
  /\ run = [i \in Candidates |-> IF i \in tags THEN "succeeded" ELSE "none"]
  /\ pc = "idle"
  /\ started = [i \in Candidates |-> 0]

-----------------------------------------------------------------------------
(***************************************************************************)
(* Upstream: a release gets its archives after its tag.                    *)
(***************************************************************************)
ArchivesAppear(line) ==
  /\ ~upstream[line].complete
  /\ upstream' = [upstream EXCEPT ![line].complete = TRUE]
  /\ UNCHANGED <<tags, release, run, pc, started>>

-----------------------------------------------------------------------------
(***************************************************************************)
(* A workflow run.                                                         *)
(***************************************************************************)

\* The preflight passes and the builds begin.
Preflight(i) ==
  /\ run[i] = "none"
  /\ MayContinue(i)
  /\ Consumable(i)
  /\ run' = [run EXCEPT ![i] = "building"]
  /\ UNCHANGED <<tags, release, pc, started>>

\* The publish job waits for the group.  The group keeps one waiting job:
\* an earlier one is cancelled.
EnterGroup(i) ==
  /\ run[i] = "building"
  /\ run' = [j \in Candidates |->
               IF j = i THEN "waiting"
               ELSE IF run[j] = "waiting" THEN "failed" ELSE run[j]]
  /\ UNCHANGED <<tags, release, pc, started>>

StartPublish(i) ==
  /\ run[i] = "waiting"
  /\ \A j \in Candidates : run[j] # "publishing"
  /\ started[i] < MaxRuns
  /\ run' = [run EXCEPT ![i] = "publishing"]
  /\ pc' = "recheck"
  /\ started' = [started EXCEPT ![i] = @ + 1]
  /\ UNCHANGED <<tags, release>>

\* Failed jobs are run again; the preflight, which passed, is not.
Rerun(i) ==
  /\ run[i] = "failed"
  /\ run' = [run EXCEPT ![i] = "building"]
  /\ UNCHANGED <<tags, release, pc, started>>

EndJob(i, result) ==
  /\ run' = [run EXCEPT ![i] = result]
  /\ pc' = "idle"
  /\ UNCHANGED <<tags, release, started>>

\* Mutant: the publish job trusts the preflight.
RecheckNothing(i) ==
  /\ run[i] = "publishing" /\ pc = "recheck"
  /\ pc' = "draft"
  /\ UNCHANGED <<tags, release, run, started>>

\* "Recheck exact identity and immutable history".
Recheck(i) ==
  /\ run[i] = "publishing" /\ pc = "recheck"
  /\ IF MayContinue(i)
     THEN pc' = "draft" /\ UNCHANGED <<tags, release, run, started>>
     ELSE EndJob(i, "failed")

\* A published release is verified without a write.
VerifyPublished(i) ==
  /\ run[i] = "publishing" /\ pc = "draft" /\ release[i] = "published"
  /\ EndJob(i, "succeeded")

PrepareDraft(i) ==
  /\ run[i] = "publishing" /\ pc = "draft" /\ release[i] # "published"
  /\ release' = [release EXCEPT ![i] = "draft"]
  /\ pc' = "tag"
  /\ UNCHANGED <<tags, run, started>>

CreateTag(i) ==
  /\ run[i] = "publishing" /\ pc = "tag"
  /\ tags' = tags \cup {i}
  /\ pc' = "promote"
  /\ UNCHANGED <<release, run, started>>

\* The response of the promotion may be lost: the job stays to be stopped.
Promote(i) ==
  /\ run[i] = "publishing" /\ pc = "promote"
  /\ release' = [release EXCEPT ![i] = "published"]
  /\ pc' = "handoff"
  /\ UNCHANGED <<tags, run, started>>

Handoff(i) ==
  /\ run[i] = "publishing" /\ pc = "handoff"
  /\ EndJob(i, "succeeded")

\* A failed request or check, or a lost runner, at any point.
Interrupted(i) ==
  /\ run[i] = "publishing"
  /\ EndJob(i, "failed")

PublishStep(i) ==
  \/ Recheck(i) \/ VerifyPublished(i) \/ PrepareDraft(i) \/ CreateTag(i)
  \/ Promote(i) \/ Handoff(i) \/ Interrupted(i)

RunStep(i) ==
  /\ Preflight(i) \/ EnterGroup(i) \/ StartPublish(i) \/ Rerun(i) \/ PublishStep(i)
  /\ UNCHANGED upstream

Next ==
  \/ \E i \in Candidates : RunStep(i)
  \/ \E line \in StableLines : ArchivesAppear(line)

Spec == Init /\ [][Next]_vars

-----------------------------------------------------------------------------
(***************************************************************************)
(* Properties.                                                             *)
(***************************************************************************)

\* Types, what waits and what runs: one job publishes, one job waits.
HistoryTypeOK ==
  /\ upstream \in [StableLines -> UpstreamReleases]
  /\ tags \subseteq Identities
  /\ release \in [Candidates -> {"none", "draft", "published"}]
  /\ run \in [Candidates -> {"none", "building", "waiting", "publishing",
                             "failed", "succeeded"}]
  /\ pc \in {"idle", "recheck", "draft", "tag", "promote", "handoff"}
  /\ started \in [Candidates -> 0 .. MaxRuns]
  /\ \A i, j \in Candidates :
       run[i] = run[j] /\ run[i] \in {"waiting", "publishing"} => i = j
  /\ pc = "idle" <=> \A i \in Candidates : run[i] # "publishing"

\* Releases appear in order: when one is published, no tag, and so no
\* release, of its line has its number or a higher one and none is of a
\* newer stable line, although the history was read before the draft and
\* the tag were written and other runs passed their preflight meanwhile
\* (validate_history: "stable rollback", "rebuild order").
PublishedInOrder ==
  [][\A i \in Candidates :
       release[i] # "published" /\ release'[i] = "published" =>
         \A j \in tags \ {i} : ~Overtakes(j, i)]_vars

\* No number of a line is used twice: not by two runs and not by a rebuild
\* whose number a read-only -native.N tag has ("legacy -native.N releases
\* count in this sequence").
NumbersAreUsedOnce ==
  \A i, j \in tags : i.line = j.line /\ i.rebuild = j.rebuild => i = j

\* A draft whose job was interrupted is accepted again, whether its tag was
\* created or not, as long as nothing that comes after it in the order was
\* tagged (--allow-existing-candidate-tag).
DraftWaitsForItsRun ==
  \A i \in Candidates :
    release[i] = "draft" /\ (\A j \in tags \ {i} : ~Overtakes(j, i)) =>
      MayContinue(i)

\* The detection, which knows the latest release only, and the policy, which
\* knows all tags, agree.  What the schedule prepares is admitted, unless an
\* interrupted publication left a tag without its release.  What the policy
\* admits is stopped in the preflight for upstream's sake alone: its archives
\* are missing, or a base would package the commit of another line again (a
\* metadata-only tag); never a release that is published already, never a
\* rebuild for the commit it shares with its base.
DetectionAgreesWithHistory ==
  /\ \A version \in StableLines : Prepares(version) =>
       \/ Admits(Base(version), tags, FALSE)
       \/ \E j \in tags : ~Released(j) /\ Overtakes(j, Base(version))
  /\ \A i \in Candidates : Baselines # {} /\ MayContinue(i) /\ ~Consumable(i) =>
       /\ release[i] # "published"
       /\ \/ ~upstream[i.line].complete
          \/ /\ i.rebuild = 0
             /\ \E l \in Baselines \ {i.line} :
                  upstream[l].commit = upstream[i.line].commit

=============================================================================
