----------------------------- MODULE BuildRuntime -----------------------------
(***************************************************************************)
(* The build driver, tools/build_upstream_runtime.py: it patches an        *)
(* upstream source tree, lets Bazel compile the host library, checks it    *)
(* and stages it with its dependencies in bin/<platform>.  Sources come    *)
(* from a release archive (a fresh tree per run, WORKSPACE edited) or from *)
(* --source-root (the same tree every run, WORKSPACE as it is).  A run may *)
(* be killed anywhere and started again on what it left.                   *)
(*                                                                         *)
(* What can be wrong with the sources is one "oddity" the driver does not  *)
(* know of: a patched file or a pin that changed, a prebuilt that is       *)
(* missing, a library Bazel did not make, a host with a defect.            *)
(***************************************************************************)
EXTENDS SourcePatches, FiniteSets, Sequences

CONSTANTS Tags,      \* upstream releases
          Platforms, \* the platforms built for
          Libs,      \* libraries of the bundle, "host" among them
          Graphs,    \* what a copy of a library needs, by where it came from
          Leftovers, \* what an earlier build of another release may have staged
          MaxBuilds  \* bound: times the driver is started

\* What bin/<platform> may hold of a library: "stub" is a copy killed before it had
\* a header, "cut" one killed later, "stale" one of another release, "pinned" a
\* checksum-pinned override.
Kinds == {"absent", "stub", "cut", "stale", "bazel", "prebuilt", "pinned"}

ASSUME BuildConfig ==
  /\ Tags \subseteq Nat /\ MaxBuilds \in Nat
  /\ Platforms \subseteq {"android", "ios", "linux", "macos", "windows"}
  /\ {"host", "core", "dawn", "topk", "provider", "vcrt"} \subseteq Libs
  /\ Graphs \subseteq [Libs -> [Kinds -> SUBSET Libs]]
  /\ Leftovers \subseteq SUBSET Libs

VARIABLES
  platform, tag, mode,  \* the arguments; mode is "archive" or "root"
  oddity,               \* what is wrong with the sources
  needs,                \* needs[l][k]: the libraries a copy k of l lists
  pc, builds,           \* where the run is; how many were started
  tree,                 \* tree[p]: files of the source tree p has changed
  edits,                \* edits made to the WORKSPACE
  built,                \* the host Bazel made
  staged,               \* staged[l]: what bin/<platform> holds of l
  todo, seen            \* dependency walk

buildVars == <<platform, tag, mode, oddity, needs, pc, builds, tree, edits, built,
               staged, todo, seen>>
world == <<platform, tag, mode, oddity, needs>>

Drifts == Patches \cup {"zlib", "litert", "sentencepiece", "tensorflow", "sampler",
                        "prebuilt", "fst"}
Defects == {"symbols", "global", "protobuf", "provider"}
\* The pinned LiteRT: "affected" is listed as needing the teardown patch,
\* "unlisted" needs it and is not; "unpinned": no LITERT_REF in the WORKSPACE.
Pins == {"affected", "unlisted", "unpinned"}
Missing == {"no_core", "no_dawn"}
Oddities == {"none"} \cup Drifts \cup Defects \cup Pins \cup Missing

Flat == platform \in {"linux", "windows"}   \* ships the upstream prebuilts too
NoHost == [carried |-> {}, defects |-> {}, cpu_options |-> "none"]

Goto(l) == pc' = l
Fail == pc' = "failed"
Step(from, ok, to) == pc = from /\ pc' = IF ok THEN to ELSE "failed"

-----------------------------------------------------------------------------
(***************************************************************************)
(* Sources.                                                                *)
(***************************************************************************)
Resting == {"idle", "dead", "failed", "done"}

\* A run begins; an archive is downloaded and extracted into a new directory.
StartBuild ==
  /\ pc \in Resting /\ builds < MaxBuilds
  /\ builds' = builds + 1
  /\ IF mode = "archive"
       THEN /\ Goto("workspace")
            /\ tree' = [p \in Patches |-> 0] /\ edits' = {}
       ELSE Goto("overlap") /\ UNCHANGED <<tree, edits>>
  /\ built' = NoHost /\ todo' = {} /\ seen' = {}
  /\ UNCHANGED <<world, staged>>

\* download_upstream, first half: the repair of WORKSPACE and .bazelrc.
PatchWorkspace ==
  /\ Step("workspace", /\ Decision("workspace", tag) # "refuse"
                       /\ ~Carries("workspace", tag) \/ oddity # "workspace", "edit")
  /\ tree' = [tree EXCEPT !["workspace"] =
                IF Carries("workspace", tag) /\ oddity # "workspace" THEN Workspace.files ELSE @]
  /\ UNCHANGED <<world, builds, edits, built, staged, todo, seen>>

\* The pinned LiteRT is known to lose the WebGPU destroy callback.
NeedsTeardownPatch == oddity = "affected"

\* Every WORKSPACE edit the release calls for.
Edits ==
  {"zlib"}
    \cup (IF tag >= 1600 THEN {"ios_frameworks"} ELSE {})
    \cup (IF NeedsTeardownPatch THEN {"teardown"} ELSE {})
    \cup (IF Carries("cpu", tag) THEN {"cpu"} ELSE {})
    \cup (IF tag >= 1700 /\ tag < 1900 THEN {"bpe_null"} ELSE {})
    \cup (IF Carries("pf32", tag) THEN {"xnnpack"} ELSE {})

\* An edit without a decision, or whose place in the WORKSPACE is not as audited,
\* stops the run.
Drifted ==
  \/ \E p \in {"pf32", "cpu"} : Decision(p, tag) = "refuse"
  \/ oddity = "zlib"
  \/ oddity = "litert" /\ Edits \cap {"ios_frameworks", "teardown", "cpu"} # {}
  \/ oddity = "sentencepiece" /\ "bpe_null" \in Edits
  \/ oddity = "tensorflow" /\ "xnnpack" \in Edits
  \/ oddity = "unpinned" /\ tag >= 1700

\* download_upstream, second half; the WORKSPACE is written once, at the end.
EditWorkspace ==
  /\ Step("edit", ~Drifted, "overlap")
  /\ edits' = IF Drifted THEN edits ELSE Edits
  /\ UNCHANGED <<world, builds, tree, built, staged, todo, seen>>

After(p) ==
  LET i == CHOOSE i \in DOMAIN TreePatches : TreePatches[i] = p
  IN  IF i = Len(TreePatches) THEN "sampler" ELSE TreePatches[i + 1]

\* Mutant: one patched file is taken for a patched tree.
PatchTreeIfAny(p) ==
  /\ pc = p
  /\ IF Decision(p, tag) = "skip" \/ (tree[p] > 0 /\ oddity # p)
       THEN Goto(After(p)) /\ UNCHANGED tree
       ELSE IF Decision(p, tag) = "refuse" \/ oddity = p THEN Fail /\ UNCHANGED tree
       ELSE tree' = [tree EXCEPT ![p] = Patch[p].files] /\ Goto(After(p))
  /\ UNCHANGED <<world, builds, edits, built, staged, todo, seen>>

\* All files patched: nothing to do.  Any file neither as released nor all
\* patched: requalify.  Otherwise git apply, and the postimages are compared.
PatchTree(p) ==
  /\ pc = p
  /\ IF \/ Decision(p, tag) = "skip"
        \/ Carries(p, tag) /\ tree[p] = Patch[p].files /\ oddity # p
       THEN Goto(After(p)) /\ UNCHANGED tree
       ELSE IF Decision(p, tag) = "refuse" \/ tree[p] # 0 \/ oddity = p
              THEN Fail /\ UNCHANGED tree
              ELSE tree' = [tree EXCEPT ![p] = Patch[p].files] /\ Goto(After(p))
  /\ UNCHANGED <<world, builds, edits, built, staged, todo, seen>>

\* The run is killed while git apply writes.
CutPatch(p) ==
  /\ pc = p /\ Carries(p, tag) /\ tree[p] = 0 /\ oddity # p
  /\ \E k \in 1..Patch[p].files : tree' = [tree EXCEPT ![p] = k]
  /\ Goto("dead")
  /\ UNCHANGED <<world, builds, edits, built, staged, todo, seen>>

\* The iOS path of the Metal sampler, an edit no manifest names.
PatchSamplerPath ==
  /\ Step("sampler", ~(platform = "ios" /\ tag >= 1600 /\ tag < 1900
                       /\ oddity = "sampler"), "prebuilts")
  /\ UNCHANGED <<world, builds, tree, edits, built, staged, todo, seen>>

\* Mutant: the prebuilt core is not compared with the audited one.
MaterializeUnaudited ==
  /\ pc = "prebuilts"
  /\ Fail \/ Goto("bazel")
  /\ UNCHANGED <<world, builds, tree, edits, built, staged, todo, seen>>

\* Git LFS pointers are materialized; a carried CPU options rollback requires
\* the audited prebuilt core on the platforms whose host links it.
Materialize ==
  /\ pc = "prebuilts"
  /\ \/ Fail   \* an object cannot be fetched
     \/ IF \/ Decision("cpu", tag) = "refuse"
           \/ Carries("cpu", tag) /\ Flat /\ oddity \in {"prebuilt", "no_core"}
          THEN Fail
          ELSE Goto("bazel")
  /\ UNCHANGED <<world, builds, tree, edits, built, staged, todo, seen>>

-----------------------------------------------------------------------------
(***************************************************************************)
(* Build and checks.                                                       *)
(***************************************************************************)
\* What the compiler sees of a patch: files of the tree, or an archive Bazel
\* patched because the WORKSPACE says so.
CompiledFiles(p) ==
  1..tree[p]
    \cup (IF \/ p \in {"pf32", "qc4w"} /\ "xnnpack" \in edits
             \/ p = "cpu" /\ "cpu" \in edits
            THEN 1..Patch[p].files ELSE {})

Compiled == UNION {{<<p, k>> : k \in CompiledFiles(p)} : p \in Patches}

\* LiteRT took the name "cpu_options" between v0.18.0 and v0.18.1, the prebuilt
\* core after v0.18.1 (or before, had its audited files changed).
WritesOptions == IF tag >= 1801 /\ "cpu" \notin edits THEN "cpu_options" ELSE "xnnpack"
CoreReads == IF tag <= 1800 \/ (tag = 1801 /\ oddity # "prebuilt") THEN "xnnpack" ELSE "cpu_options"

HostDefects ==
  {d \in Defects : d = oddity}
    \cup (IF oddity = "unlisted" \/ (oddity = "affected" /\ "teardown" \notin edits)
            THEN {"teardown"} ELSE {})

\* An iOS build needs the FST gate; without the v0.18.1 repair the WORKSPACE
\* does not load.
Bazel ==
  /\ pc = "bazel"
  /\ \/ Fail /\ UNCHANGED built
     \/ IF \/ platform = "ios" /\ tag >= 1700 /\ oddity = "fst"
           \/ Carries("workspace", tag) /\ tree["workspace"] < Workspace.files
          THEN Fail /\ UNCHANGED built
          ELSE /\ Goto("verify")
               /\ built' = [carried |-> Compiled, defects |-> HostDefects,
                            cpu_options |-> WritesOptions]
  /\ UNCHANGED <<world, builds, tree, edits, staged, todo, seen>>

\* The sources Bazel compiled outside the tree, against their postimages.
VerifyPostimages ==
  /\ Step("verify",
          /\ Decision("pf32", tag) # "refuse"
          /\ \A p \in {"pf32", "qc4w"} :
               Carries("pf32", tag) => oddity # p /\ Entries(p, tag) \subseteq built.carried
          /\ Carries("cpu", tag) =>
               oddity # "cpu" /\ Entries("cpu", tag) \subseteq built.carried,
          "validate")
  /\ UNCHANGED <<world, builds, tree, edits, built, staged, todo, seen>>

\* Mutant: the teardown order is left to the patch decision.
ValidateSymbolsOnly ==
  /\ Step("validate", built.defects \cap {"symbols", "global", "protobuf"} = {}, "stage")
  /\ UNCHANGED <<world, builds, tree, edits, built, staged, todo, seen>>

\* Exported symbols; on Android the DF_1_GLOBAL flag, from v0.19 private
\* protobuf, and the WebGPU teardown order.
Validate ==
  /\ Step("validate",
          /\ "symbols" \notin built.defects
          /\ platform = "android" =>
               /\ built.defects \cap {"global", "teardown"} = {}
               /\ tag >= 1900 => "protobuf" \notin built.defects,
          "stage")
  /\ UNCHANGED <<world, builds, tree, edits, built, staged, todo, seen>>

-----------------------------------------------------------------------------
(***************************************************************************)
(* Staging.                                                                *)
(***************************************************************************)
\* On macOS the install name is set on the staged copy, which may fail.
StageHost ==
  /\ pc = "stage"
  /\ staged' = [staged EXCEPT !["host"] = "bazel"]
  /\ \/ Goto("prebuilt")
     \/ platform = "macos" /\ Fail
  /\ UNCHANGED <<world, builds, tree, edits, built, todo, seen>>

\* The upstream prebuilts of the platform; Windows has no C++ runtime there.
Prebuilt == IF platform = "windows" THEN {"core", "dawn"}
            ELSE IF platform = "linux" THEN {"core", "dawn", "provider"} ELSE {}
HasPrebuilt(l) == l \in Prebuilt /\ oddity # "no_" \o l
Prebuilts == {l \in Libs : HasPrebuilt(l)}

\* One after the other; a Linux prebuilt that is no ELF file, or the DirectX
\* compiler that cannot be had on Windows, fails the run among them.
CopyPrebuilts ==
  /\ pc = "prebuilt"
  /\ \E S \in SUBSET Prebuilts :
       /\ staged' = [l \in Libs |-> IF l \in S THEN "prebuilt" ELSE staged[l]]
       /\ \/ S = Prebuilts /\ Goto(IF platform = "windows" THEN "override" ELSE "walk")
          \/ Flat /\ Fail
  /\ todo' = {"host"}
  /\ UNCHANGED <<world, builds, tree, edits, built, seen>>

MachO == platform \in {"ios", "macos"}
Readable(l) == staged[l] \notin {"stub", "cut"}

\* What the copy at hand lists, read from that copy.
Needs(l) == IF staged[l] \in {"absent", "stub"} THEN {} ELSE needs[l][staged[l]]

\* Find one dependency: on Linux the core is always the prebuilt one; what is
\* already staged is kept; the rest is searched in Bazel's output.
CanStage(l) ==
  IF platform = "linux" /\ l = "core" THEN HasPrebuilt(l)
  ELSE staged[l] # "absent" \/ (l # "vcrt" /\ oddity # "no_" \o l)

\* The copy of the Linux core is renewed each time.
Copied(l) == CanStage(l) /\ (staged[l] = "absent" \/ (platform = "linux" /\ l = "core"))

StagedAs(l) ==
  IF platform = "linux" /\ l = "core" THEN "prebuilt"
  ELSE IF staged[l] # "absent" THEN staged[l] ELSE "bazel"

Stage(S) == staged' = [d \in Libs |-> IF d \in S THEN StagedAs(d) ELSE staged[d]]

\* A file without the ELF magic is passed over; otool fails on whatever is cut.
Found(l) == Needs(l) \ {l}
WalkFails(l) == (MachO /\ ~Readable(l)) \/ \E d \in Found(l) : ~CanStage(d)

\* Mutant: dependencies of dependencies are not walked.
WalkFlat(l) ==
  /\ pc = "walk" /\ l \in todo /\ ~WalkFails(l)
  /\ Stage(Found(l))
  /\ seen' = seen \cup {l} /\ todo' = todo \ {l}
  /\ UNCHANGED <<world, builds, tree, edits, built, pc>>

\* One library of the walk.  A cut ELF file usually fails it, but may still list
\* what it needs.  What was staged before a failure stays.
Walk(l) ==
  /\ pc = "walk" /\ l \in todo
  /\ \/ /\ WalkFails(l) \/ staged[l] = "cut"
        /\ \E S \in SUBSET {d \in Found(l) : CanStage(d)} : Stage(S)
        /\ Fail /\ UNCHANGED <<todo, seen>>
     \/ /\ ~WalkFails(l)
        /\ Stage(Found(l))
        /\ seen' = seen \cup {l} /\ todo' = (todo \cup Found(l)) \ seen'
        /\ UNCHANGED pc
  /\ UNCHANGED <<world, builds, tree, edits, built>>

Walked ==
  /\ pc = "walk" /\ todo = {}
  /\ Goto("override")
  /\ UNCHANGED <<world, builds, tree, edits, built, staged, todo, seen>>

\* The checksum-pinned Android libraries: Dawn, and for v0.15 the TopK sampler.
Overrides ==
  IF platform # "android" \/ tag < 1500 \/ tag > 1900 THEN {}
  ELSE IF tag = 1500 THEN {"dawn", "topk"} ELSE {"dawn"}

\* They replace whatever is there, and nobody looks at what they need; a download
\* or a checksum fails the run among them.
Override ==
  /\ pc = "override"
  /\ \E S \in SUBSET Overrides :
       /\ staged' = [l \in Libs |-> IF l \in S THEN "pinned" ELSE staged[l]]
       /\ IF S = Overrides THEN Goto("vcruntime") ELSE Fail
  /\ UNCHANGED <<world, builds, tree, edits, built, todo, seen>>

Bundle == {l \in Libs : staged[l] # "absent"}
BundleNeeds == (UNION {Needs(l) : l \in Bundle}) \ Bundle

\* Windows: what the bundle imports and lacks comes from the redistributable,
\* again until nothing is missing, and then the whole bundle is checked.  The run
\* fails without a redistributable, on a DLL that cannot be parsed, on an import
\* that is not redistributable, and on an image the check finds wrong.
StageVcRuntime ==
  /\ pc = "vcruntime"
  /\ \/ platform # "windows" /\ Goto("policy") /\ UNCHANGED staged
     \/ platform = "windows" /\ Fail
        /\ \E S \in SUBSET (BundleNeeds \cap {"vcrt"}) :
             staged' = [l \in Libs |-> IF l \in S THEN "bazel" ELSE staged[l]]
     \/ /\ platform = "windows" /\ BundleNeeds \subseteq {"vcrt"}
        /\ \A l \in Bundle : staged[l] # "stub"
        /\ staged' = [l \in Libs |-> IF l \in BundleNeeds THEN "bazel" ELSE staged[l]]
        /\ IF BundleNeeds = {} THEN Goto("policy") ELSE UNCHANGED pc
  /\ UNCHANGED <<world, builds, tree, edits, built, todo, seen>>

\* iOS from v0.17: no binary but the provider may require the provider, or an iOS
\* above the floor; then the provider goes.
ProviderFree ==
  /\ pc = "policy"
  /\ IF platform = "ios" /\ tag >= 1700
       THEN \/ Fail /\ UNCHANGED staged
            \/ /\ "provider" \notin built.defects
               /\ \A l \in Bundle \ {"provider"} : Readable(l) /\ "provider" \notin Needs(l)
               /\ staged' = [staged EXCEPT !["provider"] = "absent"] /\ Goto("normalize")
       ELSE Goto("normalize") /\ UNCHANGED staged
  /\ UNCHANGED <<world, builds, tree, edits, built, todo, seen>>

\* Linux: patchelf rewrites the search path of every ELF file, in place; it may be
\* missing or fail.
NormalizeLinux ==
  /\ pc = "normalize"
  /\ Goto("done") \/ (platform = "linux" /\ Fail)
  /\ UNCHANGED <<world, builds, tree, edits, built, staged, todo, seen>>

\* What is being copied, or rewritten, at a position of the run, and as what.
Copying ==
  CASE pc = "stage" -> {"host"}
    [] pc = "prebuilt" -> Prebuilts
    [] pc = "walk" -> {d \in UNION {Found(c) : c \in todo} : Copied(d)}
    [] pc = "vcruntime" /\ platform = "windows" -> BundleNeeds \cap {"vcrt"}
    [] pc = "normalize" /\ platform = "linux" -> {l \in Bundle : staged[l] # "stub"}
    [] OTHER -> {}
CopyOf(l) ==
  CASE pc = "normalize" -> staged[l] [] pc = "walk" -> StagedAs(l)
    [] pc = "prebuilt" -> "prebuilt" [] OTHER -> "bazel"

\* The run is killed: some libraries are copied, one may be cut short, or be gone
\* because copy_artifact unlinks before it copies.
KillBuild ==
  /\ pc \notin Resting
  /\ Goto("dead")
  /\ \E S \in SUBSET Copying, l \in Copying \cup {"none"}, k \in {"absent", "stub", "cut"} :
       /\ pc = "normalize" => k # "absent"
       /\ staged' = [d \in Libs |-> IF d = l THEN k
                                    ELSE IF d \in S THEN CopyOf(d) ELSE staged[d]]
  /\ UNCHANGED <<world, builds, tree, edits, built, todo, seen>>

-----------------------------------------------------------------------------
BuildInit ==
  /\ platform \in Platforms /\ tag \in Tags /\ mode \in {"archive", "root"}
  /\ oddity \in Oddities /\ needs \in Graphs
  /\ pc = "idle" /\ builds = 0
  /\ built = NoHost /\ todo = {} /\ seen = {}
  \* A --source-root is as released, or an archive run's WORKSPACE was kept.
  /\ \E prepared \in BOOLEAN :
       /\ prepared => mode = "root" /\ ~Drifted /\ oddity # "workspace"
       /\ tree = [p \in Patches |-> IF prepared /\ p = "workspace" /\ Carries(p, tag)
                                      THEN Workspace.files ELSE 0]
       /\ edits = IF prepared THEN Edits ELSE {}
  /\ \E left \in Leftovers : staged = [l \in Libs |-> IF l \in left THEN "stale" ELSE "absent"]

BuildNext ==
  \/ StartBuild \/ PatchWorkspace \/ EditWorkspace
  \/ \E i \in DOMAIN TreePatches : PatchTree(TreePatches[i]) \/ CutPatch(TreePatches[i])
  \/ PatchSamplerPath \/ Materialize \/ Bazel \/ VerifyPostimages \/ Validate
  \/ StageHost \/ CopyPrebuilts \/ (\E l \in Libs : Walk(l)) \/ Walked
  \/ Override \/ StageVcRuntime \/ ProviderFree \/ NormalizeLinux \/ KillBuild

BuildSpec == BuildInit /\ [][BuildNext]_buildVars

-----------------------------------------------------------------------------
\* Whatever happened to the tree before, a host that is staged was compiled with
\* the sourcePatches its release manifest names, neither more nor fewer, from
\* audited sources, in archive builds and with --source-root alike
\* (docs/asr_untimed_overlap.md: "It applies before Bazel for archive builds and
\* --source-root").
ManifestIsTrue ==
  pc = "done" =>
    /\ built.carried = Manifest(tag)
    /\ \A p \in Patches : Decision(p, tag) # "refuse"
    /\ oddity \in Patches => ~Carries(oddity, tag)

\* A finished run's host has none of the defects its platform's checks exist
\* for, although every check reads what an earlier decision only predicted.
StagedIsQualified ==
  pc = "done" =>
    /\ "symbols" \notin built.defects
    /\ platform = "android" => built.defects \cap {"global", "teardown"} = {}
    /\ platform = "android" /\ tag >= 1900 => "protobuf" \notin built.defects
    /\ platform = "ios" /\ tag >= 1700 =>
         "provider" \notin built.defects /\ staged["provider"] = "absent"

\* A finished run left everything the host loads: each library from the host on
\* finds what its staged copy lists, whatever an earlier run that was killed left of
\* it and whatever another release built.  Two copies are kept unread: a stub, which
\* lists nothing, and a pinned override, staged after the walk.
BundleIsClosed ==
  pc = "done" =>
    \E closed \in SUBSET Bundle :
      /\ "host" \in closed
      /\ \A l \in closed : staged[l] # "pinned" => Needs(l) \subseteq closed

\* The Linux and Windows host names its CPU options as the prebuilt core beside
\* it reads them, and the Linux core is that prebuilt even over a stale copy
\* (test_linux_stages_matching_prebuilt_core_even_over_stale_copy).  On Windows
\* a core of another release survives when upstream ships none.
CoreReadsTheOptions ==
  pc = "done" /\ Flat /\ "core" \in Needs("host") =>
    /\ platform = "linux" => staged["core"] = "prebuilt"
    /\ staged["core"] = "prebuilt" => built.cpu_options = CoreReads
=============================================================================
