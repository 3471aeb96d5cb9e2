# Verification of litert-lm-native

TLA+ specifications of the parts of litert-lm-native that carry its own logic,
the TLC runs that check them on small instances, and TLAPS proofs of what
matters most for instances of any size. Every definition is read off the code;
`PROJECT.json` maps each one to the lines it stands for.

The repository packages LiteRT-LM, a C++ runtime, for other languages. Three
things in it are programs of their own, with concurrency or failures that tests
hardly reach:

* the **bridges** in `native/bridge`, C functions around the upstream C++
  classes, called from several threads of the host application;
* the **build and fetch tooling** in `tools/`, long sequential jobs on a file system
  that an earlier, perhaps killed, run has already written to;
* the **release workflow** in `.github/workflows` with its tools, which publishes an
  immutable release on GitHub through jobs that may be interrupted anywhere and
  are then run again.

## Inventory

| Component | State it keeps | Operations | What is hard about it | What makes it correct |
|---|---|---|---|---|
| Windowed push source (`litert_lm_asr_audio_source.cc`) | sample queue, overlap buffer, started / finished / cancelled | Push, Finish, Cancel, CanProcess, IsFinishedAndDrained, Schedule, Reset | called from three threads; window, overlap and capacity arithmetic | every accepted sample reaches exactly one window's fresh part, in order; silence only at the end; never wedged by a full queue |
| Omni push source (`litert_lm_asr_omni_input_source.cc`) | sample queue, end-of-input flag | the same, chunks instead of windows | one marker, last; bounded chunks | everything is handed over once and in order, then the marker |
| ASR session bridge (`litert_lm_asr_bridge.cc`) | process mutex, final_result_returned, the source, the upstream session | process_next, push, finish, cancel, reset; config, create, delete | push, finish and cancel do not take the process mutex: process_next sees the source through several separate locks | the final result is complete and unique; cancellation sticks; the caller always makes progress |
| Omni engine selection (`litert_lm_asr_omni_engine.cc`) | engine, session geometry | validation, routing of a container to a model | the check divides where the source rounds; callers pass any label | an accepted config gives a source that moves on; a container is decoded by its own family |
| Stream proxy (`litert_lm_bridge.c`) and finish-reason patch (`stream_finish_reason_v019.patch`) | per proxy: sticky failure flag, reason of the last final chunk; per conversation: one reason for all turns | create, forward, getters, delete; send, decode, stop, final callback | one reason shared by all turns, wiped by the next send; callbacks are posted and drained later; proxies are used again | a reason read at a turn's final callback is that turn's; a lost copy is never silent |
| Android GPU safety (`android_gpu_safety.cc`, `litert_lm_android_gpu_preflight.cc`) | one descriptor | pin, identify, probe, decide, load | the file is hashed, then loaded, while others may write or rename it; every call may fail | one model never starts on one driver; nothing else is refused |
| Downloader (`download_utils.py`) and its callers | partial file, staged file, worker process | download, retry, supervise, verify, replace | timeouts against late workers, retry budget, killed callers | the destination only ever changes to verified bytes; a call with a deadline returns |
| Build driver and source patches (`build_upstream_runtime.py`, `*_patch.py`) | source tree, WORKSPACE, `bin/<platform>` | patch, build, check, stage, from an archive or a source root | half-patched trees and half-copied libraries of killed runs; decisions per release kept by hand | what is staged was compiled with the patches the manifest names, and is complete |
| Packaging (`package_*.py`, `validate_*.py`) | `bin/`, `dist/` | merge prebuilts and artifacts, override, frameworks, XCFrameworks, manifest, archives | each tool edits what the ones before left | what is archived is what was qualified; sound inputs pass |
| Candidate promotion (`candidate_promotion.py`) | none, reads artifacts of another run | verify, extract, reuse, publish | the candidate expires or is built again between reuse and publication | only the exact source attempt's bytes are published |
| Publication (`native_release.yml`, `publication_state.py`, `reconcile_release_tag.py`, ...) | on GitHub: releases, assets, the tag; in the job: draft metadata | recheck, prepare, reconcile tag, replace assets, validate, final receipt, promote, handoff | lost responses, interrupted jobs, retries, rebuilt candidates, other runs, lagging listing, foreign changes | what is published is complete, verified and never changes; a retry finishes the work |
| Version policy (`release_version_policy.py`) with the workflow's concurrency group | none, reads the tags | validate history, in the preflight and again in the publish job | the answer is hours old when it is used; several tags in flight; drafts whose job died; two forms of rebuild tags | no rollback, no skipped or reused number; a draft is accepted again |
| Upstream detection (`check_upstream_release.py`) | none, reads releases | decide whether to prepare, gate the preflight | knows releases only, where the policy knows tags | what it prepares the policy admits; what the policy admits is stopped only for what upstream lacks: archives, or a commit of its own |
| Token bytes, overlap merger, GPU teardown (source patches) | none | conversions, heuristics, disassembly | boundaries | only the decision to patch and the patching are modelled |
| Smokes and qualification | none | drive the libraries | I/O | – |

The bridge composes with one of the two sources, depending on the upstream
generation; the upstream session pulls from the source inside process_next. The
build driver fetches through the downloader and applies the patches; packaging
merges what the builds uploaded; promotion takes what packaging archived; the
publication job composes the tools of the release rows with the GitHub service; the
version policy orders the publications of all tags. `PROJECT.json` lists the
hazards of each part at the line where they bite, with the properties that would
notice.

## Modules

```
PushQueue ── PushAudioSource ──┐                    ReleaseService ── Publication
    │    └── OmniInputSource ──┼─┐                  ReleaseHistory ── MCReleaseHistory
    └─────── AsrProcess ───────┴─┼── AsrSession     Packaging ── Promotion ── MCPromotion
                 │               └── OmniSession    SourcePatches ── BuildRuntime ── MCBuildRuntime
             AsrStream (abstract)                   Downloader ── VerifiedCache (abstract)
AsrEngine     StreamProxy                           AndroidGpuSafety ── MCAndroidGpuSafety

PushQueue_proofs ── AsrSession_proofs (with the windowed source)
            └────── OmniSession_proofs (with the chunked source)
Bridge_proofs: StreamProxy, AndroidGpuSafety, AsrEngine
FetchAndBuild_proofs: Downloader with VerifiedCache, BuildRuntime
Promotion_proofs: Packaging, Promotion
Publication_proofs   ReleaseHistory_proofs
```

* `PushQueue`: `pending_samples_`, `finished_`, `cancelled_` and the methods Push,
  Finish, Cancel, which are the same code in both sources. Each holds
  `input_mutex_` throughout, so each is one action. A sample is its position in
  the caller's recording; the caller re-offers the suffix that was not accepted.
* `PushAudioSource`: `overlap_`, `started_`, the windows handed on.
  `EmitWindow` is ScheduleInternal on its successful path, `ScheduleStatus` its
  early returns, `CanProcess` and `Reset` the methods of that name.
* `OmniInputSource`: the chunked variant with `end_of_input_sent_`.
* `AsrProcess`: the bridge. `pc` is the position of the call that holds
  `process_mutex`; one action is the code between two acquisitions of the inner
  lock, so pushes, finishes and cancels fall between any two of them. A text is
  the set of samples it transcribes, hence "no text is lost or delivered twice" is
  a statement about sets. `pushPc` is the position inside push_audio_f32, which
  asks IsCancelled, then IsFinished, then calls Push.
* `AsrSession` and `OmniSession`: the bridge with each source and with the upstream
  session, which is external: any prefix of the unconfirmed text may be
  confirmed by a window, a window may produce no output, inference may fail.
* `AsrStream`: what a session promises its caller, as a state machine of its own.
  Both sessions are shown to implement it (`ImplementsStream`).
* `ReleaseService`: the GitHub release service as the job uses it: releases by
  numeric ID, the lagging listing, the tag, assets one request at a time.
* `Publication`: the publish job, one action per request or per validation between
  two requests, and what may happen to a job between any two of them.
* `ReleaseHistory`: the releases of all tags. `Admits` is validate_history, on
  identities (a line and a rebuild number); a tag's workflow run asks it in the
  preflight (`Preflight`) and in the publish job (`Recheck`), which the tags share one
  at a time. Where `Publication` follows one job request by request, here a job is
  cut to the writes that other tags see. `MCReleaseHistory` gives it lines and
  histories.
* `StreamProxy`: streamed turns. The reason of a turn travels from the decode loop
  (`CheckStop`) through `last_decode_stop_reason_` (`StoreReason`, `LoadReason`) into the
  final chunk, the proxy (`CopyChunk`), the posted callback and what the consumer
  reads (`Drain`). The sender wipes the shared reason (`ResetReason`) at any moment in
  between. How a turn really ended is kept beside it, as seen from outside.

* `AsrEngine`: what comes before a session. `LeavesAStep` is the division of
  ValidateConfig, `Geometry` the rounding of the PushAudioSource constructor on the same
  numbers, with a ratio in whole parts of `Unit`; `Resolved` and `OmniEngine` are the
  choice of the registry name for a container and what the registry then makes of it.
* `AndroidGpuSafety`: litert_lm_engine_create, one action per system call that can see
  another state of the file: the first fstat, each pread, the second fstat, the
  probe, the load. `Write` and `Replace` are other processes. A file is its pages,
  each equal to the fixture's or not, so that its digest is exact. `looked` is the file
  as the last look at its time and size found it.
* `VerifiedCache`: what a script that fetches a file promises, and `Downloader`, which is
  shown to implement it: a transfer (`Request` ... `Accept`) in a worker process or
  in the caller, its `Retry` with delays and clocks, the caller that starts, kills,
  verifies and replaces, and a `Crash` that leaves files and a living worker behind.
  The caller is one of the four kinds the repository has (`job`).
* `SourcePatches`: the decision table of the carried patches; `BuildRuntime`: one action per
  step of build_runtime. What the driver cannot know beforehand about a release is one
  `oddity`: a changed file, a pin, a missing library, a defect of the host. The tree
  and `bin/` survive a run that dies; `CutPatch` and `KillBuild` leave them half
  written. A staged library is known by its kind of copy: Bazel's, upstream's, a pinned
  override (Dawn and, for v0.15, the TopK sampler), one of another release, one that
  was cut short, or a `stub` that was cut within its header. What it lists as needed
  depends on the copy (`needs`). A copy that cannot be read stops the walk (on Linux,
  `NormalizeLinux` after it); a stub is taken for no library and passes.
* `Packaging`: the package job as changes of `bin/`, the frameworks, `dist/` and the zips; a
  file is known by where its bytes come from. `left` is what an earlier packaging
  left in the working tree. The hosted runner starts on a new checkout; the commands
  run by hand need not, and each `--clean` clears only what its own tool is about to
  write: not a runtime directory upstream has no prebuilts for, not `dist/official` in
  a development release, not the upstream archives or zips of another tag, not
  `release/`. Leftovers in `staged-runtime/`, the directory the artifacts are
  downloaded into, are not modelled. `Promotion` continues it, in the same run or
  in a second one: artifacts per attempt, expiry, re-runs, the two looks at the
  source run (`VerifyRemote` with `ReuseCandidate`, and `VerifyIntent`), the draft.
* Upstream detection is in `ReleaseHistory`: `Prepares` is evaluate_release over the
  `Baselines` that load_native_baseline may find; the gate `Consumable`, a conjunct of
  `Preflight`, refuses a published candidate, a base whose upstream commit the baseline
  has already, and an upstream release without its archives. `upstream` is the commit
  of each stable line's tag and whether its archives are there.

Definitions whose comment starts with "Mutant:" are not part of the specifications:
each is a plausible bug in the definition that follows it, and `PROJECT.json` names
the property that notices it.

## Runs

| Run | Question | Answer |
|---|---|---|
| `asr_session` | Does the windowed session transcribe exactly the accepted recording, end once, keep cancellation, make progress and implement `AsrStream`? | yes |
| `omni_session` | The same for the Omni session, with the order of chunks and marker, and is less than a window and a step held upstream? | yes |
| `end_of_stream` | Do calls after the final result return END_OF_STREAM (litert_lm_asr_bridge.h)? | no: CANCELLED after a cancel |
| `asr_engine` | Does every accepted config give a source that holds a window and passes it, and does the engine decode the family that the container holds? | yes |
| `stream_proxy` | Overlapping turns, rejected messages, reused proxies, failing copies: is the reason read at a turn's end its own, is unknown only reported after a race, is no loss silent? | yes |
| `android_gpu` | With files written and renamed meanwhile: does the affected model never start on the affected driver, and is nothing refused without a reason? | yes, but for a file written in place after the last look at its time and size |
| `downloader` | Refusing, stalling, truncating, lying servers, killed callers, late workers: does the destination hold old or verified bytes only, is nothing left behind, does a call with a deadline return? | yes |
| `build` | Every platform, release and drift, from archive and source root, killed anywhere: is a finished bundle compiled with exactly the patches of its manifest, qualified and complete? | yes; what stub libraries and pinned overrides need is not read |
| `promotion` | Packaging over leftovers and surprises, then both ways to publish what the hosted runner packaged: do sound inputs pass, is what is archived qualified, is what is public a prepared candidate, is a draft finished? | yes; sound inputs pass over the leftovers that are cleared, and leftovers that are archived with the rest are in finding 9 |
| `publication` | Two runs for one tag, with interruptions, retries, a rebuilt candidate, foreign tags and assets: is what is published verified, unique and immutable, are only own bytes replaced, does a retry publish? | yes |
| `partial_draft` | Can a draft with nothing but own uploads always be resumed (docs/release_protocol.md)? | no: not when a retry stops while deleting the assets of a draft that already has its final receipt |
| `release_history` | Runs of several tags, building at once and publishing in turn, interrupted anywhere: are releases in order, numbers used once, drafts accepted again until overtaken, and do detection and policy agree? | yes, but for what upstream lacks |

### Bounds

* ASR: windows of 3 samples with an overlap of 1 give a step of 2; a recording of 6
  gives a full first window, a window with overlap and a padded one; a queue of
  exactly one window is the tightest the validation allows and the only size at
  which backpressure, windows and finish all interact. Reset may come at any time,
  so streams of every shorter length follow each other. The proofs remove these
  bounds for the safety properties.
* Engine: sample rates that put half and whole samples on both sides of every
  comparison, ratios in sixteenths around the one that leaves less than half a
  sample, and every label with every kind of container. The proofs are about any unit
  of the ratio, and so about every float a caller can pass.
* Stream proxy: three turns over two proxies, so that one is used again; a context of
  six tokens and a budget of two, so that turns end by stop token, by budget, by a
  full context and by a prompt that fills it. The proofs remove the bounds.
* Android GPU: a model of two reads, two files of which one may replace the other, one
  write to each file at any moment, five kinds of device. The proofs remove the
  bounds.
* Downloader: two runs, the second beside the orphaned worker of the first; three
  attempts with delays of 1 and 2 and Retry-After values below and above a deadline
  of 3. The proofs remove the bounds.
* Build: seven releases around the decisions of the table; three dependency graphs, in
  the third of which what a library needs depends on the copy; a clean `bin/` or one
  with a core and a provider of another release; two runs, so that the second meets
  what the first left. The proofs remove the bounds and the choice of graphs and
  leftovers.
* Packaging and promotion: any two leftovers together and all of them, one oddity at a
  time, and four releases: the last before the ASR bridge and before iOS without the
  provider, the first with the latter, and one whose Dawn is not replaced. Two attempts
  of the packaging run and one failed publish job are enough for any two looks at the
  source run to see different attempts. The proofs remove the bounds.
* Publication: two runs, because takeover needs a second one; three attempts
  (interrupt, interrupt the retry, succeed); two interruptions, two candidates of
  a run; one payload file beside the receipt, because the rules treat all payload
  files alike and the receipt separately; two releases, the second being the
  violation `OneRelease` looks for. The proofs remove these bounds for the safety
  properties.
* Release history: four candidates (two rebuilds of a stable line, the next line, a
  rebuild of a development line) after each of four histories (one base, the bases of
  all three lines, a read-only rebuild, an ordinary rebuild), two publish jobs per
  tag. The newer stable line is another upstream commit or the same one, with its
  archives or without. Every rule of validate_history refuses a candidate somewhere in it. The proofs
  remove the bounds.

### Fairness

* Sessions: weak fairness of process_next and of a started reset. It says that the
  caller keeps polling (as the header asks) and that calls return. Nothing
  obliges the caller to push, finish, cancel or reset.
* Publication: a started job runs on, the listing catches up, and a failed job is run
  again (strong fairness: another run's job may hold the concurrency group now
  and then) while the attempts of the bound last.
* Downloader: the caller is scheduled and time passes. Neither the server nor the
  worker promises anything, and so `SupervisedCallReturns` rests on the caller's own
  clock.
* Promotion: jobs that may run do, and failed publish jobs are re-run. Nobody has to
  dispatch a promotion, to build again, or to keep an artifact from expiring.
* The other specifications state none: their properties are safety properties.

`CHECK_DEADLOCK FALSE` stands in the configurations of systems that stop by design:
scripts end, jobs end, attempts are used up.

### Findings

With a run:

1. `end_of_stream`: process_next tests the cancellation before
   `final_result_returned`, so a cancelled stream answers CANCELLED even after its
   final result.
2. `partial_draft`: validate_resume_assets accepts a final receipt only beside the
   complete payload. A retry interrupted during its deletions leaves a draft that
   no retry accepts, against "a matching retry removes partial draft assets".

Met while modelling, without a run of their own:

3. push_audio_f32 returns WOULD_BLOCK whenever Push took less than offered, also
   when a cancel or finish slipped in after its checks (docs/asr_bridge.md:64 says
   the queue is full then). The caller learns the real reason with its next call.
4. The last validation reads the draft by ID, the promotion finds it by tag: with
   `SlowListing = TRUE`, a listing that omits a draft during a whole job, TLC finds an
   empty draft promoted.
5. validate_history rejects a candidate that a later release of its line, or of a newer
   stable line, has overtaken, also if it is the retry of a draft. The order of
   releases is kept; "can be safely retried" (docs/release_protocol.md:104) is not:
   two runs whose preflights passed before either tag existed are enough.
   `DraftWaitsForItsRun` says what holds instead. A draft of a promotion is also lost
   when its candidate expires (`CandidateGone`).
6. docs/platform_strategy.md:117 offers an x64 iOS simulator "when available";
   validate_release_manifest.py accepts exactly the eight supported platforms, so
   such a slice in `bin/` stops the release (`PlatformsExact`).
7. docs/platform_strategy.md:63 lists GemmaModelConstraintProvider in the v0.16 iOS
   package; apple_privacy_manifest.py has no declaration for it, so the packager
   refuses it today (`PrivacyAudited`). `SoundInputsArePackaged` therefore starts at
   v0.17. Nor can a stable release below v0.16 be packaged: its macOS compatibility
   shim is that of the upstream archives, which has nothing to retarget
   (package_apple_xcframeworks.py:406-416, `PackageApple`).
8. The gate against a commit that is published already asks the latest release, in
   the preflight only. Two bases of one upstream commit whose preflights both pass
   before either is published are both published.
9. Packaging by hand: the directory of a runtime upstream stopped shipping is passed
   over before `--clean` (package_upstream_prebuilts.py:73-75), so its old libraries
   are archived; `dist/official` of another tag goes into the archives of a stable
   release without a word; archives of another release left in `release/` are looked at
   and handed on with the new ones, and only the publish job refuses them
   (`InventoryExact`). The hosted runner meets none of this.
10. A library cut within its header by a killed run is kept by the next one: is_elf
    says no, and both the walk and the normalization pass it over
    (runtime_dependency_utils.py:48-53). `BundleIsClosed` is therefore about what the
    copies list.

## Proofs

The modules `*_proofs` are checked by TLAPS; every safety property that a run checks is
a theorem in one of them. Each starts from the assumptions on the constants of the
modules it extends, and from nothing else:

| Assumption | What it admits |
|---|---|
| `SourceConfig` | a window of at least one sample, an overlap shorter than it, a queue of at least a window, a recording of any length; both audio sources share it |
| `EngineConfig` | any rates and durations, any ratios in any unit |
| `StreamConfig` | a context and a budget of at least one token |
| `GpuSafetyConfig` | a model of at least one read, any devices |
| `DownloadConfig` | any attempts, delays, deadlines and runs |
| `BuildConfig` | any releases, platforms and libraries, any dependency graph for each kind of copy, any leftovers |
| `PackagingConfig`, `PromotionConfig` | any releases, working trees, attempts and failures |
| `HistoryConfig` | any stable lines in order, any development lines, histories that use each number of a line once and begin each line with its base, any upstream releases |
| `ServiceConfig`, `JobConfig` | any runs, payload and bounds; the theorems about the publication also assume `~SlowListing`, without which they are false (finding 4) |

*The windowed source.* `WindowsCarryTheRecording` says how long the queue is, which
samples it holds and what is in every window. It is not inductive: that a new
window starts with the right samples depends on the overlap buffer
(`OverlapIsLastTail`), and that a later push does not turn silence in an earlier
window into a lie depends on silence being there only once the input is closed
(`ShortWindowsEndTheStream`). With these `SourceInv` is inductive. The arithmetic is
in `FreshStartProperties`: where the fresh part of window k starts is a product,
and everything else uses it only through "the next one starts a window's fresh
part later" and "it never decreases". From `SourceInv` follow
`SourceCarriesTheRecording`, `SourceWindowsOverlap`, `SourcePadsOnlyTheEnd`,
`SourceCannotWedge` and `SourceCanProcessIsHonest`.

*The Omni source.* The same for chunks: what was handed over and what is queued make up
what was accepted, and the marker comes once, after all of it (`ChunkInv`).

*The session over the windowed source.* `SessionStepIsSourceStep` shows that whatever the
session does to the source is a step of the source or leaves it alone; the one fact
it needs is that a push in progress stays within the recording. Hence
`SessionImplementsSource`, and everything proved of the source holds inside the
session. `SessionInv` then adds where the text of every carried sample is: in
inference, in the merger, in the result in hand, or with the caller, unless a failure
was reported (`NothingForgotten`); that the final flush is only reached when the input
is finished and drained, which no other thread can undo (`PushAfterTheEnd`); and that
after the final result only the checks at the head of a call run. From it follow
`FinalResultIsComplete`, `NothingFollowsTheFinal` and `CancellationIsSticky`.

*The promise to the caller.* `SessionImplementsStream` maps the session to `AsrStream`:
a push that accepts samples is a Feed, finish and cancel are Close and
RequestCancel, a result handed over is a Deliver or End, a reported failure a
ReportFailure, reset a Restart, and everything else is invisible. Besides
`SessionInv` this needs that no text is in two places (`TextIsOnce`), which rests on
each window's new samples coming after all earlier ones (`NewWindowIsFresh`) and on
pushes during an inference not changing them (`PushKeepsNewSamples`).

*The Omni session.* The invariant has the same shape, with one counter in place of the
windows: everything up to `inferred` is in the merger, in the result in hand or with
the caller, unless a failure was reported or an output that is no text is about to be
(`DropsOutput`, `NothingForgotten`), and in no two places (`TextIsOnce`). That the final
flush finds everything inferred (`AllInferred`) holds because upstream only reports the
end after the marker, and because `FinishBetweenCalls` keeps the input open through a call
that began with it open (`ResultInHand`). From it follow `SessionEndsComplete` and
`SessionImplementsStream`; `SessionBufferIsBounded`, less than a
window and a step held upstream, is part of it.

*The engine selection.* `AsrInv` says that an engine was made of a valid config and that a
source has the geometry of one. The theorem is about the two ways to divide:
`QuotientIsBelow` gives the quotient by any unit its two bounds,
`NearestSample` says that the window the source takes is the one that was checked or one
sample longer, `RoundingIsMonotone` that a longer queue stays at least as long, and
`OverlapLeaves` turns "the overlap is shorter than the window" into an inequality
without division, which `LongerLeavesMore` carries over to the longer window.
`ContainersKeepTheirRoute` goes through the cases of ResolveContainerModelName, and
`PresetsAreValid` through the table of presets.

*The release history.* `NumbersAreUsedOnce` and `PublishedInOrder` are not inductive: what
the policy found is used after the check. `HistoryInv` adds that one job publishes
at a time (in `HistoryTypeOK`), that the answer of a job's recheck still holds at
each of its later steps (`RecheckHolds`: no other job can add a tag meanwhile), that a
rebuild with a draft keeps the base and the predecessor that admitted it
(`DraftsHavePredecessors`: tags are never removed), and that every tag has the base of
its line (`TagsHaveBases`). From it follow `NumbersStayUnique`, `ReleasesComeInOrder`,
`DraftsWaitForTheirRuns` and, with `BaseIsUnique`, `DetectionAgrees`: the latest release
stands for its line, so that the detection sees what the policy sees, and of the
refusals of `Consumable` those remain that are about upstream.

*The publication.* The argument of `PublicationInv`: a job that creates a draft looked at a
listing that was complete when it started (`ListingIsComplete`), so a tag has one
release, and every request, by ID or by tag, reaches it (`JobHasTheRelease`). What
draft-release.json shows is still there when it is deleted, and was accepted as the
run's own (`SeenIsOwn`: others may add assets meanwhile, but only where there was
none). What the last check found holds at the next request (`CheckHolds`), because
nobody but the job writes a draft that is being verified: that is the assumption
`BeforeUpload`. `StepWrites` says what a step may write at all; with it the invariant
gives `PublishedNeverChanges` and `OnlyOwnBytes`, and by itself `OneReleasePerTag`,
`PublishedStaysVerified` and `PublicationIsTypeCorrect`.

*The stream proxy.* `StreamInv` follows the reason from hand to hand: in the chunk, in the
conversation, in the proxy while the final callback waits in the consumer's inbox
(`ReasonInHand`, `ReasonInTheMail`, `ReasonRead`): in each place it is the true one, or
unknown and the turn raced. It needs that a proxy belongs to one unread turn at a
time (`ProxiesAreReadFirst`) and that a lost copy leaves the flag up until it is
read (`LossIsFlagged`). From it follow `FinishReasonsAreTrue`, `UnknownMeansRaced` and
`LossIsNeverSilent`.

*The GPU preflight.* The pages hashed so far are those of the pinned file, or it was
written since the first fstat and has another time than it had; so an identity that
was taken is that of the file, or the file is newer (`SeenIsThere`, `IdentityIsTrue`,
`VerdictIsTrue`). A file that was hashed and accepted has the same time in both looks
(`LooksAgree`), so that "newer than the first" is "newer than the last". That, and that
no step moves the descriptor after `Begin`, is what is behind `UnsafeModelsNeverStart`
and `RefusalsAreNarrow`.

*The downloader.* `DownloadInv` tells the four callers apart. With a supervised call
(`SupervisedInv`) workers write only into the directory of their own run, the
destination has no partial file, and what a worker has accepted is the pinned asset;
that a late worker of a killed caller harms nobody is `Work(r)` being a different path for
every run, with `FutureIsUntouched` for the runs to come. A caller that transfers by itself
has one transfer, and its partial files are gone when it is over (`OwnInv`);
`StagingInv` and `ArchiveInv` add what each kind has verified. From it follow
`RunsCleanUp` and, with the cache mapped to the file at the destination,
`DownloaderIsAVerifiedCache`: every step is a step of `VerifiedCache` or invisible.

*The build.* `BuildInv` follows a run along its checks. Each patch that lies behind the run
is either in the tree completely, with the sources that were audited, or not called for
(`PatchInv`; half-patched trees of killed runs are refused by the step that meets
them), and what a check found holds until the run ends (`CompileInv`, `QualifiedInv`).
The dependency walk keeps `WalkInv`: every library it has seen needs only libraries seen
or still to do, and all of it is in the bundle. So the set is closed when nothing is
left to do, whatever each copy needs. The steps after the walk keep it closed
(`ClosedStays`, `NeedsStay`): the override is pinned and its needs are not claimed, the
Visual C++ runtime adds what was not there, `NormalizeLinux` rewrites search paths and
not what is needed (`NormalizeLinuxKeeps`).

*Packaging and promotion.* `PackagingInv` has two halves. `QualifiedSoFar` holds for any
inputs: what each gate has made sure of stays true until the archives are written,
since no later step writes what it looked at. With `NothingStale` it says where an old
library may still be, stage by stage, and with `DistFits` what `dist/` may hold once the
manifest was validated. `Foreseen` says what each stage leaves
when nothing is odd, precisely enough that the next one passes: it is an induction
over the stages of the job, through every packager. `PackagingInvHolds` has it for the
package job alone and inside the two runs. `PublishInv` is about the two runs:
an attempt uploads once and what its job has archived (`ArtifactsAreArchived`); a job in
flight holds the concurrency group (`GroupIsHeld`), so that nobody else moves the draft
under it; the promoting run's copy is an upload under the name in its source
(`CopyIsAnUpload`). What `VerifyIntent` then lets pass is the run's own candidate
(`MayPublishIsPublishable`), and the draft has nothing else in it when it is published
(`PublishesOwnCandidate`). Nothing is assumed about when runs are repeated, artifacts
expire, or jobs fail.

Only model-checked: liveness (`FinishedStreamEnds`, `BackpressureClears`,
`SupervisedCallReturns`, `RetriedRunPublishes`, `DraftIsFinished`), because TLAPS proves
nothing about fairness or ENABLED; and the two findings, which are counterexamples.

## Assumptions

* Upstream inference and text merging are external: modelled by the results that
  process_next distinguishes. A reset that throws is not modelled.
* The caller follows the header: one thread records, no call after delete, an Omni
  stream is finished between two calls of process_next (`FinishBetweenCalls`).
  Dropping the last one breaks `FinalIsComplete`: the upstream session would be
  flushed with audio left in its own buffer.
* The runtime decodes the turns of a conversation in order and makes their callbacks
  one after the other, on one thread; no benchmark is running (ShouldStop then
  counts other steps); a message takes one token or the rest of the context.
* The consumer gives a proxy to another turn only after reading it, as the header's
  "use one proxy per turn or read only after the final callback" asks.
* A write to a model leaves another modification time. SHA-256 tells any two contents
  apart, there and everywhere else.
* A file move within a directory is atomic; a process that is killed has written some
  prefix of what it was writing.
* Bazel compiles what the tree and the WORKSPACE say. What is odd about an upstream
  release is one thing at a time.
* The hosted runner starts on a new checkout, and what is packaged by hand is uploaded
  nowhere (`Hosted`).
* The publish jobs are serialized (the workflow's concurrency group); a dead job's
  requests have landed or never will; all runs of `Publication` were dispatched with
  the same inputs, so they differ in nothing but the run ID; people interfere with
  a draft only before its verification (`BeforeUpload`), since nothing can guard the
  moment between a check and the next request; a read that fails stops the job like
  any interruption.
* A concurrency group keeps one waiting job and cancels an earlier one (GitHub). An
  identity stands for a tag; tags outside the grammar take no part in the order.
  Tags are neither deleted nor created by hand; upstream tags do not move and upstream
  archives do not come or go during a run. A published baseline exists: without
  one the detection has nothing to compare with and the gate lets nothing pass.

## Plan

What is left, in this order:

1. Config validation beside the numbers (`AsrEngine` takes backend and merger as
   labels), and the non-streaming decode of the finish-reason patch.
2. Type correctness of the remaining components as theorems of their own; so far it is
   part of the invariants that were proved.
3. The release handoff and the manifest's own document, beyond the facts `Packaging` takes
   from it.

## Not modelled

With the reason of each in `PROJECT.json`:

* the token-byte conversion: a pure function, tested against the real tokenizers;
* the search of the untimed overlap merger: a heuristic whose document claims no
  correctness that could be checked;
* the parsing of ELF, Mach-O, PE and disassembly in the validators: they enter as
  verdicts;
* the grammar of the release documents (keys, types, formats) and the layout of archives
  and frameworks;
* loading libraries in `litert_lm_bridge.c`, and the delete calls, beside which nothing
  runs by contract;
* the smokes: drivers of the libraries; their evidence is part of `Packaging`.
