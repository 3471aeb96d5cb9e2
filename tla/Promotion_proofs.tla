---------------------------- MODULE Promotion_proofs ----------------------------
(***************************************************************************)
(* The package job and both ways to publish what it archived, for any      *)
(* releases, any number of attempts and of failed jobs.                    *)
(***************************************************************************)
EXTENDS Promotion, TLAPS

(***************************************************************************)
(* The package job, stage by stage.                                        *)
(***************************************************************************)

\* Where a job is once the archives, the validated manifest, the manifest, the zips,
\* ... and the prebuilts are there.
Archived == {"done", "uploaded"}
Validated == {"archive"} \cup Archived
Listed == {"validate"} \cup Validated
Zipped == {"inventory", "dependencies", "manifest"} \cup Listed
MacosPackaged == {"apple"} \cup Zipped
IosPackaged == {"macos"} \cup MacosPackaged
OfficialPackaged == {"ios"} \cup IosPackaged
Merged == {"overrides", "official"} \cup OfficialPackaged
Copied == {"overlay"} \cup Merged

Inputs ==
  /\ tag \in Nat /\ stable \in BOOLEAN /\ publish \in BOOLEAN /\ smoke \in BOOLEAN
  /\ oddity \in Oddities /\ left \subseteq Leftovers
  /\ publish => smoke

TreesHoldBytes ==
  /\ bin \in [Dirs -> [Files -> Bytes]]
  /\ fw \in [Slices -> [Modules -> Bytes]]

\* Only where upstream has no prebuilts do leftovers survive the first step.
NothingStale ==
  /\ \A d \in Runtimes \ Unshipped, f \in Files : bin[d][f] # "stale"
  /\ \A s \in Devices \ Unshipped, m \in Modules : fw[s][m] # "stale"

\* What the gates behind the job have made sure of, for any inputs.
QualifiedSoFar ==
  /\ pc \in Copied => NothingStale
  /\ pc \in Zipped /\ ProviderFreeIos => "ios" \notin spm["provider"]
  /\ pc \in Validated =>
       /\ manifest.bin = bin /\ manifest.fw = fw
       /\ manifest.spm = spm /\ manifest.dist = dist
       /\ ManifestValid(manifest, IF publish THEN SmokeHosts ELSE {})
  /\ pc \in Archived =>
       /\ release = [bin |-> bin, fw |-> fw, spm |-> spm,
                     dist |-> IF dist \cap Official = {} THEN {} ELSE dist,
                     others |-> "release" \in left]
       /\ ProviderFreeIos => ValidIos(bin, fw)

SoundInputs ==
  /\ oddity = "none" /\ tag >= 1700
  /\ left \subseteq {"bin"} \cup (IF stable THEN Official ELSE {})

\* No zips of another release; upstream archives for a stable release only.
DistFits == "other_spm" \notin dist /\ (~stable => dist \cap Official = {})

\* What each stage leaves when nothing is odd.
Foreseen ==
  /\ pc # "failed"
  /\ \A d \in Dirs \ Runtimes, f \in Files : bin[d][f] = "absent"
  /\ \A m \in Modules : fw["ios_x64_sim"][m] = "absent"
  /\ pc = "overlay" => \A d \in Runtimes : \A f \in Upstream(d) : bin[d][f] # "absent"
  /\ pc = "overlay" => bin["macos"]["new"] = "absent"
  /\ pc \in Merged =>
       /\ \A d \in Runtimes : bin[d]["host"] = "built"
       /\ Overridden => bin["android"]["dawn"] = "pinned"
       /\ bin["macos"]["provider"] # "absent" /\ bin["macos"]["new"] = "absent"
  /\ pc \in {"overrides", "official", "ios"} => \A s \in Devices : bin[s]["metal"] # "absent"
  /\ DistFits /\ (pc \in OfficialPackaged /\ stable => "official" \in dist)
  /\ pc \in IosPackaged => \A s \in Devices :
       /\ bin[s]["provider"] = "absent"
       /\ \A m \in Modules : fw[s][m] # "absent" <=> m \in {"host", "metal", "clite"}
  /\ pc \in MacosPackaged => bin["macos"]["shim"] = "wrapper"
  /\ pc \in Zipped => \A m \in Modules :
       spm[m] # {} <=> m \in Present(fw["ios"]) \cup Present(bin["macos"])
  /\ pc \in Listed =>
       manifest = [bin |-> bin, fw |-> fw, dist |-> dist, spm |-> spm,
                   smokes |-> Evidence]

PackagingInv == Inputs /\ TreesHoldBytes /\ QualifiedSoFar /\ (SoundInputs => Foreseen)

(***************************************************************************)
(* Promotion.                                                              *)
(***************************************************************************)
Approvals == {"publish", "prepare-only"}

\* Every attempt uploads once, what its package job archived.
ArtifactsAreArchived ==
  /\ DOMAIN artifacts = Attempts
  /\ \A a \in Uploads :
       /\ a < attempt \/ (a = attempt /\ pc = "uploaded")
       /\ artifacts[a].attempt = a
       /\ artifacts[a].payload.bin = artifacts[a].manifest.bin
       /\ \E last \in Uploads : \A b \in Uploads : b <= last

\* A job in flight holds the concurrency group.
InFlight == {"download", "draft", "upload", "promote"}
GroupIsHeld == \A r \in Runs : job[r] \in InFlight => group = r

\* What a run may make public.
Publishable(r, c) ==
  /\ c.attempt \in Uploads /\ c = artifacts[c.attempt]
  /\ SmokeHosts \subseteq DOMAIN c.manifest.smokes
  /\ \A p \in SmokeHosts : c.payload.bin[p]["host"] = c.manifest.smokes[p]
  /\ IF r = "packaging" THEN c.approval = "publish"
     ELSE /\ c.approval = "prepare-only"
          /\ source = [attempt |-> c.attempt, artifact |-> c.attempt, digest |-> c.attempt]

CopyIsAnUpload ==
  copy # Nothing =>
    /\ copy.source.artifact \in Uploads
    /\ copy.candidate = artifacts[copy.source.artifact]

PublishesOwnCandidate ==
  /\ live = [state |-> live.state, run |-> live.run, assets |-> live.assets]
  /\ \A r \in Runs :
       /\ job[r] \in {"draft", "upload", "promote"} =>
            Publishable(r, workspace) /\ live.state # "published"
       /\ job[r] \in {"upload", "promote"} => live.state = "draft" /\ live.run = r
  /\ live.state = "published" => live.run \in Runs /\ Publishable(live.run, live.assets)
  /\ live.run = "promotion" => job["promotion"] # "none"

Stages == {"none", "reuse", "download", "failed", "done"} \cup PublishStages
PromotionTypes ==
  /\ attempt \in Attempts /\ job \in [Runs -> Stages]
  /\ status \in {"running", "success", "failure"} /\ group \in Runs \cup {"free"}
  /\ job["packaging"] # "none" => pc = "uploaded" /\ Uploads # {}
  /\ job["promotion"] # "none" =>
       source \in [attempt : Attempts, artifact : Uploads, digest : Uploads]
  /\ job["promotion"] \in PublishStages => copy # Nothing

PublishInv ==
  /\ PromotionTypes /\ ArtifactsAreArchived /\ GroupIsHeld
  /\ CopyIsAnUpload /\ PublishesOwnCandidate

PromotionInv == PackagingInv /\ PublishInv

-----------------------------------------------------------------------------
\* What "nothing is odd" means to the packagers.
LEMMA SoundInputsAreFit ==
  ASSUME Inputs, SoundInputs
  PROVE  /\ ProviderFreeIos /\ HasAsrBridge /\ SourceBuilt /\ Linked = {}
         /\ \A files : FitBinaries(files)
         /\ oddity # "imports" /\ oddity # "broken_prebuilt" /\ oddity # "override_changed"
         /\ oddity # "no_archive" /\ Unshipped = {} /\ "release" \notin left
BY DEF Inputs, SoundInputs, ProviderFreeIos, HasAsrBridge, SourceBuilt, Linked, FitBinaries,
   Unshipped, Official

\* A job starts on a checkout in which no stage has been reached.
JobStarts ==
  /\ Inputs /\ pc = "prebuilts"
  /\ bin = Checkout.bin /\ fw = Checkout.fw /\ dist = Checkout.dist

LEMMA StartedJob == JobStarts => PackagingInv
<1>. SUFFICES ASSUME JobStarts PROVE PackagingInv
  OBVIOUS
<1>1. Inputs /\ pc = "prebuilts"
  BY DEF JobStarts
<1>2. /\ bin = [d \in Dirs |->
                  IF d \in Runtimes /\ "bin" \in left THEN Stale(Earlier(d))
                  ELSE IF d = "macos_x64" /\ "macos_x64" \in left THEN Stale({"host"})
                  ELSE IF d = "ios_x64_sim" /\ "ios_x64" \in left THEN Stale({"host", "metal"})
                  ELSE None]
      /\ fw = [s \in Slices |->
                 IF s \in Devices /\ "bin" \in left
                   THEN [m \in Modules |->
                           IF m \in Earlier(s) \cup {"clite"} THEN "stale" ELSE "absent"]
                   ELSE Bare]
      /\ dist = left \cap DistParts
  BY DEF JobStarts, Checkout
<1>3. /\ \A Fs : Stale(Fs) \in [Files -> Bytes]
      /\ None \in [Files -> Bytes] /\ Bare \in [Modules -> Bytes]
      /\ \A s : [m \in Modules |-> IF m \in Earlier(s) \cup {"clite"} THEN "stale" ELSE "absent"]
                \in [Modules -> Bytes]
  BY DEF Stale, None, Bare, Bytes
<1>4. TreesHoldBytes
  BY <1>2, <1>3 DEF TreesHoldBytes
<1>5. QualifiedSoFar
  BY <1>1 DEF QualifiedSoFar, Copied, Merged, OfficialPackaged, IosPackaged, MacosPackaged, Zipped, Listed, Validated, Archived
<1>6. ASSUME SoundInputs PROVE Foreseen
  <2>1. \A d \in Dirs \ Runtimes : bin[d] = None
    BY <1>2, <1>6 DEF SoundInputs, Dirs, Runtimes, Slices, Devices, Official
  <2>2. fw["ios_x64_sim"] = Bare
    BY <1>2 DEF Slices, Devices
  <2>3. DistFits
    BY <1>2, <1>6 DEF SoundInputs, DistFits, Official
  <2>. QED
    BY <1>1, <2>1, <2>2, <2>3 DEF Foreseen, None, Bare, Copied, Merged, OfficialPackaged,
       IosPackaged, MacosPackaged, Zipped, Listed, Validated, Archived
<1>. QED  BY <1>1, <1>4, <1>5, <1>6 DEF PackagingInv

\* The upstream prebuilts replace what a runtime directory held.
LEMMA CopyPrebuiltsKeeps == PackagingInv /\ CopyPrebuilts => PackagingInv'
<1>. SUFFICES ASSUME PackagingInv, CopyPrebuilts PROVE PackagingInv'
  OBVIOUS
<1>. USE DEF PackagingInv
<1>1. /\ pc = "prebuilts" /\ pc' = "overlay"
      /\ tag' = tag /\ stable' = stable /\ publish' = publish /\ smoke' = smoke
      /\ oddity' = oddity /\ left' = left
      /\ dist' = dist /\ spm' = spm /\ manifest' = manifest /\ release' = release
      /\ bin' = [d \in Dirs |->
               IF d \in Runtimes \ Unshipped
                 THEN [f \in Files |-> IF f \in Upstream(d) THEN "prebuilt" ELSE "absent"]
                 ELSE bin[d]]
      /\ fw' = [s \in Slices |-> IF s \in Devices \ Unshipped THEN Bare ELSE fw[s]]
  BY DEF CopyPrebuilts, Step, inputs
<1>2. Inputs'
  BY <1>1 DEF Inputs
<1>3. TreesHoldBytes'
  BY <1>1 DEF TreesHoldBytes, Bare, Bytes
<1>4. QualifiedSoFar'
  <2>1. NothingStale'
    BY <1>1 DEF NothingStale, Unshipped, Bare, Dirs, Slices, Devices
  <2>. QED
    BY <1>1, <2>1 DEF QualifiedSoFar, Copied, Merged, OfficialPackaged, IosPackaged,
       MacosPackaged,
                Zipped, Listed, Validated, Archived
<1>5. ASSUME SoundInputs' PROVE Foreseen'
  <2>1. SoundInputs /\ Foreseen
    BY <1>1, <1>5 DEF SoundInputs
  <2>2. \A d \in Dirs \ Runtimes : bin'[d] = bin[d]
    BY <1>1
  <2>3. fw'["ios_x64_sim"] = fw["ios_x64_sim"]
    BY <1>1 DEF Slices, Devices
  <2>4. \A d \in Runtimes : Upstream(d)' = Upstream(d) /\ Upstream(d) \subseteq Files
    BY <1>1 DEF Upstream, Unshipped, Audited, Files, Runtimes, Devices
  <2>5. \A d \in Runtimes : \A f \in Upstream(d)' : bin'[d][f] # "absent"
    BY <1>1, <2>1, <2>4, SoundInputsAreFit DEF Dirs
  <2>6. bin'["macos"]["new"] = "absent"
    <3>1. "new" \notin Upstream("macos")
      BY <2>1 DEF Upstream, Audited, SoundInputs, Devices
    <3>. QED  BY <1>1, <2>1, <3>1, SoundInputsAreFit DEF Dirs, Runtimes, Files
  <2>7. DistFits'
    BY <1>1, <2>1 DEF Foreseen, DistFits
  <2>8. /\ pc' = "overlay"
        /\ \A d \in Dirs \ Runtimes, f \in Files : bin'[d][f] = "absent"
        /\ \A m \in Modules : fw'["ios_x64_sim"][m] = "absent"
    BY <1>1, <2>1, <2>2, <2>3 DEF Foreseen
  <2>. QED
    BY <2>5, <2>6, <2>7, <2>8 DEF Foreseen, Merged, OfficialPackaged, IosPackaged,
       MacosPackaged, Zipped, Listed, Validated, Archived
<1>. QED  BY <1>2, <1>3, <1>4, <1>5

\* The artifacts of the build jobs go over them.
LEMMA OverlayKeeps == PackagingInv /\ Overlay => PackagingInv'
<1>. SUFFICES ASSUME PackagingInv, Overlay PROVE PackagingInv'
  OBVIOUS
<1>. USE DEF PackagingInv
<1>1. /\ pc = "overlay" /\ pc' = "overrides"
      /\ tag' = tag /\ stable' = stable /\ publish' = publish /\ smoke' = smoke
      /\ oddity' = oddity /\ left' = left
      /\ fw' = fw /\ dist' = dist /\ spm' = spm /\ manifest' = manifest /\ release' = release
      /\ bin' = [d \in Dirs |-> [f \in Files |->
               IF Uploaded(d)[f] # "absent" THEN Uploaded(d)[f] ELSE bin[d][f]]]
  BY DEF Overlay, Step, inputs
<1>2. Inputs'
  BY <1>1 DEF Inputs
<1>3. \A d \in Dirs, f \in Files :
        /\ Uploaded(d)[f] \in Bytes \ {"stale"}
        /\ f = "host" /\ d \in Runtimes => Uploaded(d)[f] = "built"
        /\ d \notin Runtimes => Uploaded(d)[f] = "absent"
  BY DEF Uploaded, Upstream, Audited, Bytes, Runtimes, Devices
<1>4. TreesHoldBytes'
  BY <1>1, <1>3 DEF TreesHoldBytes
<1>5. QualifiedSoFar'
  BY <1>1, <1>3 DEF QualifiedSoFar, NothingStale, Unshipped, Copied, Merged,
     OfficialPackaged, IosPackaged, MacosPackaged, Zipped, Listed, Validated, Archived, Dirs
<1>6. ASSUME SoundInputs' PROVE Foreseen'
  <2>1. SoundInputs /\ Foreseen
    BY <1>1, <1>6 DEF SoundInputs
  <2>2. \A d \in Dirs \ Runtimes, f \in Files : bin'[d][f] = bin[d][f]
    BY <1>1, <1>3
  <2>3. \A d \in Runtimes : bin'[d]["host"] = "built"
    BY <1>1, <1>3 DEF Dirs, Files
  <2>4. Overridden' => bin'["android"]["dawn"] = "pinned"
    <3>1. Overridden => Uploaded("android")["dawn"] = "pinned"
      BY <2>1, SoundInputsAreFit DEF Uploaded, Upstream, Audited, Files, Runtimes, Devices
    <3>. QED  BY <1>1, <3>1 DEF Overridden, Dirs, Runtimes, Files
  <2>5. bin'["macos"]["provider"] # "absent" /\ bin'["macos"]["new"] = "absent"
    <3>1. /\ Uploaded("macos")["provider"] # "absent" 
          /\ Uploaded("macos")["new"] = "absent" /\ bin["macos"]["new"] = "absent"
      BY <1>1, <2>1, SoundInputsAreFit
         DEF Uploaded, Upstream, Audited, Files, Runtimes, Devices, Foreseen
    <3>. QED  BY <1>1, <3>1 DEF Dirs, Runtimes, Files
  <2>6. \A s \in Devices : bin'[s]["metal"] # "absent"
    <3>1. \A s \in Devices : Uploaded(s)["metal"] # "absent"
      BY <2>1, SoundInputsAreFit DEF Uploaded, Upstream, Audited, Files, Runtimes, Devices
    <3>. QED  BY <1>1, <3>1 DEF Dirs, Runtimes, Files
  <2>7. DistFits'
    BY <1>1, <2>1 DEF Foreseen, DistFits
  <2>8. /\ \A d \in Dirs \ Runtimes, f \in Files : bin'[d][f] = "absent"
        /\ \A m \in Modules : fw'["ios_x64_sim"][m] = "absent"
    BY <1>1, <2>1, <2>2 DEF Foreseen
  <2>9. pc' = "overrides" /\ pc' \notin OfficialPackaged
    BY <1>1 DEF OfficialPackaged, IosPackaged, MacosPackaged, Zipped, Listed, Validated,
       Archived
  <2>. QED
    BY <2>3, <2>4, <2>5, <2>6, <2>7, <2>8, <2>9 DEF Foreseen, OfficialPackaged,
       IosPackaged, MacosPackaged, Zipped, Listed, Validated
<1>. QED  BY <1>2, <1>4, <1>5, <1>6

\* A Dawn whose digest is not the pinned one stops the job.
LEMMA ApplyOverridesKeeps == PackagingInv /\ ApplyOverrides => PackagingInv'
<1>. SUFFICES ASSUME PackagingInv, ApplyOverrides PROVE PackagingInv'
  OBVIOUS
<1>. USE DEF PackagingInv
<1>1. /\ pc = "overrides"
      /\ pc' = IF ~(Overridden /\ oddity = "override_changed") THEN "official" ELSE "failed"
      /\ tag' = tag /\ stable' = stable /\ publish' = publish /\ smoke' = smoke
      /\ oddity' = oddity /\ left' = left
      /\ fw' = fw /\ dist' = dist /\ spm' = spm /\ manifest' = manifest /\ release' = release
      /\ bin' = IF Overridden /\ oddity # "override_changed"
              THEN [bin EXCEPT !["android"]["dawn"] = "pinned"] ELSE bin
  BY DEF ApplyOverrides, Step, inputs
<1>2. Inputs'
  BY <1>1 DEF Inputs
<1>3. /\ TreesHoldBytes'
      /\ \A d \in Dirs, f \in Files :
           bin'[d][f] = IF d = "android" /\ f = "dawn" /\ Overridden /\ oddity # "override_changed"
                          THEN "pinned" ELSE bin[d][f]
  BY <1>1 DEF TreesHoldBytes, Dirs, Runtimes, Files, Bytes
<1>4. QualifiedSoFar'
  BY <1>1, <1>3 DEF QualifiedSoFar, NothingStale, Unshipped, Copied, Merged,
     OfficialPackaged, IosPackaged, MacosPackaged, Zipped, Listed, Validated, Archived, Dirs
<1>5. ASSUME SoundInputs' PROVE Foreseen'
  <2>1. SoundInputs /\ Foreseen
    BY <1>1, <1>5 DEF SoundInputs
  <2>2. pc' = "official"
    BY <1>1, <2>1 DEF SoundInputs
  <2>. QED
    BY <1>1, <1>3, <2>1, <2>2 DEF Foreseen, DistFits, Merged, OfficialPackaged, IosPackaged,
       MacosPackaged, Zipped, Listed, Validated, Archived, Dirs, Runtimes, Devices, Files,
       Overridden
<1>. QED  BY <1>2, <1>3, <1>4, <1>5

LEMMA PackageOfficialAssetsKeeps == PackagingInv /\ PackageOfficialAssets => PackagingInv'
<1>. SUFFICES ASSUME PackagingInv, PackageOfficialAssets PROVE PackagingInv'
  OBVIOUS
<1>. USE DEF PackagingInv
<1>1. /\ pc = "official" /\ pc' = "ios"
      /\ tag' = tag /\ stable' = stable /\ publish' = publish /\ smoke' = smoke
      /\ oddity' = oddity /\ left' = left
      /\ bin' = bin /\ fw' = fw /\ spm' = spm /\ manifest' = manifest /\ release' = release
      /\ dist' = IF ~stable THEN dist
                 ELSE (dist \ {"official"})
                        \cup (IF oddity = "no_archive" THEN {} ELSE {"official"})
  BY DEF PackageOfficialAssets, Step, inputs
<1>2. Inputs' /\ TreesHoldBytes'
  BY <1>1 DEF Inputs, TreesHoldBytes
<1>3. QualifiedSoFar'
  BY <1>1 DEF QualifiedSoFar, NothingStale, Unshipped, Copied, Merged, OfficialPackaged,
     IosPackaged, MacosPackaged, Zipped, Listed, Validated, Archived
<1>4. ASSUME SoundInputs' PROVE Foreseen'
  <2>1. SoundInputs /\ Foreseen
    BY <1>1, <1>4 DEF SoundInputs
  <2>2. DistFits' /\ (stable' => "official" \in dist')
    BY <1>1, <2>1 DEF SoundInputs, Inputs, Foreseen, DistFits
  <2>. QED
    BY <1>1, <2>1, <2>2 DEF Foreseen, Merged, OfficialPackaged, IosPackaged,
       MacosPackaged, Zipped, Listed, Validated, Archived, Overridden
<1>. QED  BY <1>2, <1>3, <1>4

\* The iOS packager: on sound inputs both device directories hold what it needs.
LEMMA IosFindsItsSlices ==
  ASSUME PackagingInv, SoundInputs, pc = "ios"
  PROVE  /\ SourceSlices = Devices
         /\ \A s \in Devices : {"metal"} \cup Linked \subseteq Present(bin[s])
<1>1. Foreseen /\ Inputs /\ TreesHoldBytes /\ Linked = {}
  BY SoundInputsAreFit DEF PackagingInv
<1>2. /\ \A d \in Dirs \ Runtimes, f \in Files : bin[d][f] = "absent"
      /\ \A d \in Runtimes : bin[d]["host"] = "built"
      /\ \A s \in Devices : bin[s]["metal"] # "absent"
  BY <1>1 DEF Foreseen, Merged, OfficialPackaged
<1>3. \A d \in Dirs : DOMAIN bin[d] = Files
  BY <1>1 DEF TreesHoldBytes
<1>4. \A s \in Slices : "host" \in Present(bin[s]) <=> s \in Devices
  BY <1>2, <1>3 DEF Present, Dirs, Slices, Runtimes, Devices, Files
<1>5. SourceSlices = Devices
  BY <1>4 DEF SourceSlices, Slices
<1>6. \A s \in Devices : "metal" \in Present(bin[s])
  BY <1>2, <1>3 DEF Present, Dirs, Runtimes, Files
<1>. QED  BY <1>1, <1>5, <1>6

LEMMA DiscardProperties ==
  ASSUME NEW files \in [Files -> Bytes]
  PROVE  /\ Discard(files) \in [Files -> Bytes]
         /\ \A f \in Files : Discard(files)[f] \in {files[f], "absent"}
         /\ \A f \in Files : f # "provider" => Discard(files)[f] = files[f]
         /\ ProviderFreeIos => Discard(files)["provider"] = "absent"
BY DEF Discard, Bytes, Files

LEMMA PackageIosKeeps == PackagingInv /\ PackageIos => PackagingInv'
<1>. SUFFICES ASSUME PackagingInv, PackageIos PROVE PackagingInv'
  OBVIOUS
<1>. USE DEF PackagingInv
<1>. DEFINE ok == SourceBuilt =>
              /\ Devices \subseteq SourceSlices
              /\ \A s \in SourceSlices :
                   /\ {"metal"} \cup Linked \subseteq Present(bin[s])
                   /\ ProviderFreeIos => FitBinaries(bin[s])
            staged == IF SourceBuilt THEN SourceSlices ELSE Devices
<1>1. /\ pc = "ios" /\ pc' = IF ok THEN "macos" ELSE "failed"
      /\ tag' = tag /\ stable' = stable /\ publish' = publish /\ smoke' = smoke
      /\ oddity' = oddity /\ left' = left
      /\ dist' = dist /\ spm' = spm /\ manifest' = manifest /\ release' = release
      /\ ok => /\ bin' = [d \in Dirs |-> IF d \in staged THEN Discard(bin[d]) ELSE bin[d]]
               /\ fw' = [s \in Slices |->
                            IF s \notin staged THEN fw[s]
                            ELSE IF SourceBuilt THEN SourceFrameworks(s)
                            ELSE OfficialFrameworks]
      /\ ~ok => bin' = bin /\ fw' = fw
  BY DEF PackageIos, Step, inputs
<1>2. Inputs'
  BY <1>1 DEF Inputs
<1>3. /\ \A d \in Dirs : bin[d] \in [Files -> Bytes]
      /\ \A d \in Dirs : Discard(bin[d]) \in [Files -> Bytes]
      /\ \A d \in Dirs, f \in Files : Discard(bin[d])[f] \in {bin[d][f], "absent"}
  BY DiscardProperties DEF TreesHoldBytes
<1>4. /\ \A s \in Slices : SourceFrameworks(s) \in [Modules -> Bytes]
      /\ OfficialFrameworks \in [Modules -> Bytes]
  <2>1. \A s \in Slices : bin[s] \in [Files -> Bytes]
    BY DEF TreesHoldBytes, Dirs
  <2>2. Linked \subseteq Files
    BY DEF Linked, Files
  <2>. QED  BY <2>1, <2>2 DEF SourceFrameworks, OfficialFrameworks, Bare, Bytes, Files, Modules
<1>. HIDE DEF ok, staged
<1>5. TreesHoldBytes' /\ \A d \in Dirs, f \in Files : bin'[d][f] \in {bin[d][f], "absent"}
  <2>1. CASE ~ok
    BY <1>1, <2>1 DEF TreesHoldBytes
  <2>2. CASE ok
    <3>1. /\ \A d \in Dirs : bin'[d] = IF d \in staged THEN Discard(bin[d]) ELSE bin[d]
          /\ DOMAIN bin' = Dirs /\ bin' = [d \in Dirs |-> bin'[d]]
      BY <1>1, <2>2
    <3>2. \A d \in Dirs : bin'[d] \in [Files -> Bytes]
      BY <1>3, <3>1 DEF TreesHoldBytes
    <3>3. bin' \in [Dirs -> [Files -> Bytes]]
      BY <3>1, <3>2
    <3>4. /\ \A s \in Slices : fw'[s] \in [Modules -> Bytes]
          /\ fw' = [s \in Slices |-> fw'[s]]
      BY <1>1, <1>4, <2>2 DEF TreesHoldBytes
    <3>5. fw' \in [Slices -> [Modules -> Bytes]]
      BY <3>4
    <3>. QED  BY <1>3, <3>1, <3>3, <3>5 DEF TreesHoldBytes
  <2>. QED  BY <2>1, <2>2
<1>6. QualifiedSoFar'
  <2>1. NothingStale
    BY <1>1 DEF QualifiedSoFar, Copied, Merged, OfficialPackaged
  <2>2. \A d \in Runtimes \ Unshipped, f \in Files : bin'[d][f] # "stale"
    BY <1>5, <2>1 DEF NothingStale, Dirs
  <2>3. ASSUME NEW s \in Devices \ Unshipped, NEW m \in Modules PROVE fw'[s][m] # "stale"
    <3>1. s \in Slices /\ s \in Runtimes \ Unshipped
      BY DEF Slices, Runtimes
    <3>2. SourceFrameworks(s)[m] # "stale" /\ OfficialFrameworks[m] # "stale"
      BY <2>1, <3>1 DEF NothingStale, SourceFrameworks, OfficialFrameworks, Bare, Linked, Files,
                        Modules
    <3>3. fw'[s] \in {fw[s], SourceFrameworks(s), OfficialFrameworks}
      BY <1>1, <3>1
    <3>. QED  BY <2>1, <3>2, <3>3 DEF NothingStale
  <2>4. NothingStale'
    BY <1>1, <2>2, <2>3 DEF NothingStale, Unshipped
  <2>. QED
    BY <1>1, <2>4 DEF QualifiedSoFar, IosPackaged, MacosPackaged, Zipped, Listed, Validated,
                      Archived
<1>7. ASSUME SoundInputs' PROVE Foreseen'
  <2>1. SoundInputs /\ Foreseen
    BY <1>1, <1>7 DEF SoundInputs
  <2>2. /\ SourceBuilt /\ ProviderFreeIos /\ Linked = {}
        /\ SourceSlices = Devices
        /\ \A s \in Devices : {"metal"} \cup Linked \subseteq Present(bin[s])
        /\ \A files : FitBinaries(files)
    BY <1>1, <2>1, SoundInputsAreFit, IosFindsItsSlices
  <2>3. ok /\ staged = Devices
    BY <2>2 DEF ok, staged
  <2>4. /\ pc' = "macos"
        /\ bin' = [d \in Dirs |-> IF d \in Devices THEN Discard(bin[d]) ELSE bin[d]]
        /\ fw' = [s \in Slices |-> IF s \in Devices THEN SourceFrameworks(s) ELSE fw[s]]
    BY <1>1, <2>2, <2>3
  <2>5. \A d \in Dirs, f \in Files :
          bin'[d][f] = IF d \in Devices /\ f = "provider" THEN "absent" ELSE bin[d][f]
    <3>1. \A d \in Dirs : bin'[d] = IF d \in Devices THEN Discard(bin[d]) ELSE bin[d]
      BY <2>4
    <3>2. ASSUME NEW d \in Dirs, NEW f \in Files
          PROVE  Discard(bin[d])[f] = IF f = "provider" THEN "absent" ELSE bin[d][f]
      <4>1. bin[d] \in [Files -> Bytes]
        BY <1>3
      <4>. QED  BY <2>2, <4>1, DiscardProperties
    <3>. QED  BY <3>1, <3>2
  <2>6. fw'["ios_x64_sim"] = fw["ios_x64_sim"]
    BY <2>4 DEF Slices, Devices
  <2>7. \A s \in Devices, m \in Modules :
          fw'[s][m] # "absent" <=> m \in {"host", "metal", "clite"}
    <3>1. \A s \in Devices : bin[s]["host"] # "absent" /\ bin[s]["metal"] # "absent"
      BY <1>1, <2>1 DEF Foreseen, Merged, OfficialPackaged, Runtimes
    <3>2. \A s \in Devices : fw'[s] = SourceFrameworks(s)
      BY <2>4 DEF Slices
    <3>3. \A s \in Devices, m \in Modules :
            SourceFrameworks(s)[m] =
              IF m = "clite" THEN "wrapper"
              ELSE IF m \in {"host", "metal"} \cup Linked THEN bin[s][m] ELSE "absent"
      BY DEF SourceFrameworks
    <3>4. \A s \in Devices, m \in Modules :
            fw'[s][m] = IF m = "clite" THEN "wrapper"
                        ELSE IF m \in {"host", "metal"} THEN bin[s][m] ELSE "absent"
      BY <2>2, <3>2, <3>3
    <3>5. \A s \in Devices, m \in {"host", "metal"} : bin[s][m] # "absent"
      BY <3>1
    <3>. QED  BY <3>4, <3>5
  <2>8. /\ \A d \in Dirs \ Runtimes, f \in Files : bin'[d][f] = "absent"
        /\ \A d \in Runtimes : bin'[d]["host"] = "built"
        /\ Overridden => bin'["android"]["dawn"] = "pinned"
        /\ bin'["macos"]["provider"] # "absent" /\ bin'["macos"]["new"] = "absent"
        /\ \A s \in Devices : bin'[s]["provider"] = "absent"
    BY <1>1, <2>1, <2>5 DEF Foreseen, Merged, OfficialPackaged, Dirs, Runtimes, Devices, Files
  <2>9. DistFits /\ (stable => "official" \in dist) /\ \A m \in Modules : fw["ios_x64_sim"][m] = "absent"
    BY <1>1, <2>1 DEF Foreseen, OfficialPackaged
  <2>. QED
    BY <1>1, <2>4, <2>6, <2>7, <2>8, <2>9 DEF Foreseen, DistFits, MacosPackaged, Zipped, Listed,
       Validated, Archived, Overridden
<1>. QED  BY <1>2, <1>5, <1>6, <1>7

\* The macOS packager leaves a host that is as it should be alone.
LEMMA PackageMacosKeeps == PackagingInv /\ PackageMacos => PackagingInv'
<1>. SUFFICES ASSUME PackagingInv, PackageMacos PROVE PackagingInv'
  OBVIOUS
<1>. USE DEF PackagingInv
<1>. DEFINE ok == ~UnsupportedMacos /\ "host" \in Present(bin["macos"])
<1>1. /\ pc = "macos" /\ pc' = IF ok THEN "apple" ELSE "failed"
      /\ tag' = tag /\ stable' = stable /\ publish' = publish /\ smoke' = smoke
      /\ oddity' = oddity /\ left' = left
      /\ fw' = fw /\ dist' = dist /\ spm' = spm /\ manifest' = manifest /\ release' = release
      /\ bin' = IF ~ok THEN bin
                ELSE IF SourceBuilt
                  THEN [bin EXCEPT !["macos"]["host"] = Normalize(@),
                                   !["macos"]["shim"] = "wrapper"]
                  ELSE [bin EXCEPT !["macos"] =
                          [None EXCEPT !["host"] = "wrapper", !["shim"] = "official"]]
  BY DEF PackageMacos, Step, inputs
<1>. HIDE DEF ok
<1>2. Inputs'
  BY <1>1 DEF Inputs
<1>3. Normalize(bin["macos"]["host"]) \in {"built", "renamed"}
  BY DEF Normalize
<1>4. ASSUME ok, SourceBuilt
      PROVE  /\ TreesHoldBytes'
             /\ \A d \in Dirs, f \in Files :
                  bin'[d][f] = IF d = "macos" /\ f = "host" THEN Normalize(bin["macos"]["host"])
                               ELSE IF d = "macos" /\ f = "shim" THEN "wrapper" ELSE bin[d][f]
  <2>1. bin' = [bin EXCEPT !["macos"]["host"] = Normalize(@), !["macos"]["shim"] = "wrapper"]
    BY <1>1, <1>4
  <2>. DEFINE h == Normalize(bin["macos"]["host"])
              files == [bin["macos"] EXCEPT !["host"] = h, !["shim"] = "wrapper"]
  <2>2. "macos" \in Dirs /\ bin \in [Dirs -> [Files -> Bytes]] /\ h \in Bytes /\ "wrapper" \in Bytes
    BY <1>3 DEF TreesHoldBytes, Dirs, Runtimes, Bytes
  <2>. HIDE DEF h
  <2>3. bin' = [bin EXCEPT !["macos"] = files]
    BY <2>1, <2>2 DEF h
  <2>4. /\ files \in [Files -> Bytes]
        /\ \A f \in Files : files[f] = IF f = "host" THEN h
                                       ELSE IF f = "shim" THEN "wrapper" ELSE bin["macos"][f]
    BY <2>2 DEF Files
  <2>. HIDE DEF files
  <2>5. bin' \in [Dirs -> [Files -> Bytes]]
    BY <2>2, <2>3, <2>4
  <2>6. \A d \in Dirs : bin'[d] = IF d = "macos" THEN files ELSE bin[d]
    BY <2>2, <2>3
  <2>. QED  BY <1>1, <2>4, <2>5, <2>6 DEF TreesHoldBytes, h
<1>5. ASSUME ~(ok /\ SourceBuilt)
      PROVE  /\ TreesHoldBytes'
             /\ \A d \in Dirs, f \in Files : bin'[d][f] # "stale" \/ bin'[d][f] = bin[d][f]
  <2>1. CASE ~ok
    BY <1>1, <2>1 DEF TreesHoldBytes
  <2>2. CASE ok
    <3>1. bin' = [bin EXCEPT !["macos"] = [None EXCEPT !["host"] = "wrapper", !["shim"] = "official"]]
      BY <1>1, <1>5, <2>2
    <3>2. /\ [None EXCEPT !["host"] = "wrapper", !["shim"] = "official"] \in [Files -> Bytes]
          /\ \A f \in Files :
               [None EXCEPT !["host"] = "wrapper", !["shim"] = "official"][f] # "stale"
      BY DEF None, Files, Bytes
    <3>. QED  BY <1>1, <3>1, <3>2 DEF TreesHoldBytes
  <2>. QED  BY <2>1, <2>2
<1>6. QualifiedSoFar'
  <2>1. NothingStale'
    <3>1. NothingStale
      BY <1>1 DEF QualifiedSoFar, Copied, Merged, OfficialPackaged, IosPackaged
    <3>2. Runtimes \subseteq Dirs
      BY DEF Dirs
    <3>3. CASE ok /\ SourceBuilt
      <4>1. \A d \in Dirs, f \in Files :
              bin'[d][f] \in {"built", "renamed", "wrapper"} \/ bin'[d][f] = bin[d][f]
        BY <1>3, <1>4, <3>3
      <4>2. \A d \in Runtimes \ Unshipped, f \in Files : bin'[d][f] # "stale"
        BY <3>1, <3>2, <4>1 DEF NothingStale
      <4>. QED  BY <1>1, <3>1, <4>2 DEF NothingStale, Unshipped
    <3>4. CASE ~(ok /\ SourceBuilt)
      BY <1>1, <1>5, <3>1, <3>2, <3>4 DEF NothingStale, Unshipped
    <3>. QED  BY <3>3, <3>4
  <2>. QED
    BY <1>1, <2>1 DEF QualifiedSoFar, MacosPackaged, Zipped, Listed, Validated, Archived
<1>7. ASSUME SoundInputs' PROVE Foreseen'
  <2>1. SoundInputs /\ Foreseen /\ SourceBuilt
    BY <1>1, <1>7, SoundInputsAreFit DEF SoundInputs
  <2>2. bin["macos"]["host"] = "built" /\ Normalize(bin["macos"]["host"]) = "built"
    BY <1>1, <2>1 DEF Foreseen, Merged, OfficialPackaged, IosPackaged, Normalize, Runtimes
  <2>3. ok
    <3>1. DOMAIN bin["macos_x64"] = Files /\ DOMAIN bin["macos"] = Files
      BY DEF TreesHoldBytes, Dirs, Runtimes
    <3>2. \A f \in Files : bin["macos_x64"][f] = "absent"
      BY <2>1 DEF Foreseen, Dirs, Runtimes, Devices
    <3>. QED  BY <2>2, <3>1, <3>2 DEF ok, UnsupportedMacos, Present, Files
  <2>4. /\ TreesHoldBytes'
        /\ \A d \in Dirs, f \in Files :
             bin'[d][f] = IF d = "macos" /\ f = "shim" THEN "wrapper" ELSE bin[d][f]
    BY <1>4, <2>1, <2>2, <2>3
  <2>5. /\ \A d \in Dirs \ Runtimes, f \in Files : bin'[d][f] = "absent"
        /\ \A d \in Runtimes : bin'[d]["host"] = "built"
        /\ Overridden => bin'["android"]["dawn"] = "pinned"
        /\ bin'["macos"]["provider"] # "absent" /\ bin'["macos"]["new"] = "absent"
        /\ bin'["macos"]["shim"] = "wrapper"
        /\ \A s \in Devices : bin'[s]["provider"] = "absent"
    <3>1. /\ \A d \in Dirs \ Runtimes, f \in Files : bin[d][f] = "absent"
          /\ \A d \in Runtimes : bin[d]["host"] = "built"
          /\ Overridden => bin["android"]["dawn"] = "pinned"
          /\ bin["macos"]["provider"] # "absent" /\ bin["macos"]["new"] = "absent"
          /\ \A s \in Devices : bin[s]["provider"] = "absent"
      BY <1>1, <2>1 DEF Foreseen, Merged, OfficialPackaged, IosPackaged
    <3>2. /\ \A d \in Dirs \ {"macos"}, f \in Files : bin'[d][f] = bin[d][f]
          /\ \A f \in Files \ {"shim"} : bin'["macos"][f] = bin["macos"][f]
          /\ bin'["macos"]["shim"] = "wrapper"
      BY <2>4 DEF Dirs, Runtimes, Files
    <3>3. /\ Runtimes \subseteq Dirs /\ Devices \subseteq Runtimes \ {"macos", "android"}
          /\ {"macos", "android"} \subseteq Runtimes
          /\ {"host", "dawn", "provider", "new", "shim"} \subseteq Files
      BY DEF Dirs, Runtimes, Devices, Files
    <3>4. \A d \in Runtimes : bin'[d]["host"] = "built"
      BY <3>1, <3>2, <3>3
    <3>5. \A s \in Devices : bin'[s]["provider"] = "absent"
      BY <3>1, <3>2, <3>3
    <3>6. \A d \in Dirs \ Runtimes, f \in Files : bin'[d][f] = "absent"
      BY <3>1, <3>2, <3>3
    <3>7. bin'["android"]["dawn"] = bin["android"]["dawn"]
      BY <3>2, <3>3
    <3>8. bin'["macos"]["provider"] # "absent" /\ bin'["macos"]["new"] = "absent"
      BY <3>1, <3>2, <3>3
    <3>. QED  BY <3>1, <3>2, <3>4, <3>5, <3>6, <3>7, <3>8
  <2>6. /\ DistFits /\ (stable => "official" \in dist) /\ \A m \in Modules : fw["ios_x64_sim"][m] = "absent"
        /\ \A s \in Devices, m \in Modules : fw[s][m] # "absent" <=> m \in {"host", "metal", "clite"}
    BY <1>1, <2>1 DEF Foreseen, OfficialPackaged, IosPackaged
  <2>. QED
    <3>1. pc' = "apple" /\ (Overridden' <=> Overridden)
      BY <1>1, <2>3 DEF Overridden
    <3>2. fw' = fw /\ dist' = dist /\ stable' = stable
      BY <1>1
    <3>. QED  BY <2>5, <2>6, <3>1, <3>2 DEF Foreseen, DistFits, Zipped, Listed, Validated,
       Archived
<1>. QED  BY <1>2, <1>4, <1>5, <1>6, <1>7

\* The Apple packager zips what the frameworks and the macOS directory hold.
LEMMA PackageAppleKeeps == PackagingInv /\ PackageApple => PackagingInv'
<1>. SUFFICES ASSUME PackagingInv, PackageApple PROVE PackagingInv'
  OBVIOUS
<1>. USE DEF PackagingInv
<1>. DEFINE ok == /\ ~UnsupportedMacos
                  /\ ProviderFreeIos => ValidIos(bin, fw)
                  /\ SourceBuilt => "provider" \in Present(bin["macos"])
                  /\ bin["macos"]["shim"] = "wrapper"
                  /\ PrivacyAudited
<1>1. /\ pc = "apple" /\ pc' = IF ok THEN "inventory" ELSE "failed"
      /\ tag' = tag /\ stable' = stable /\ publish' = publish /\ smoke' = smoke
      /\ oddity' = oddity /\ left' = left
      /\ bin' = bin /\ fw' = fw /\ dist' = dist /\ manifest' = manifest /\ release' = release
      /\ spm' = IF ok THEN [m \in Modules |-> SlicesOf(m)] ELSE spm
  BY DEF PackageApple, Step, inputs
<1>2. ok /\ ProviderFreeIos => "provider" \notin Present(fw["ios"])
  BY DEF ValidIos, Slices, Devices
<1>3. ok => /\ ~UnsupportedMacos
            /\ ProviderFreeIos => ValidIos(bin, fw)
  OBVIOUS
<1>. HIDE DEF ok
<1>4. Inputs' /\ TreesHoldBytes'
  BY <1>1 DEF Inputs, TreesHoldBytes
<1>5. \A d \in Dirs : DOMAIN bin[d] = Files
  BY DEF TreesHoldBytes
<1>6. \A s \in Slices : DOMAIN fw[s] = Modules
  BY DEF TreesHoldBytes
<1>7. QualifiedSoFar'
  <2>1. NothingStale'
    BY <1>1 DEF NothingStale, Unshipped, QualifiedSoFar, Copied, Merged, OfficialPackaged,
       IosPackaged, MacosPackaged
  <2>2. ok /\ ProviderFreeIos => "ios" \notin spm'["provider"]
    <3>1. ok => spm'["provider"] = SlicesOf("provider")
      BY <1>1 DEF Modules, Files
    <3>2. ok /\ ProviderFreeIos => "ios" \notin SlicesOf("provider")
      BY <1>2 DEF SlicesOf, OnDevice
    <3>. QED  BY <3>1, <3>2
  <2>. QED
    BY <1>1, <2>1, <2>2 DEF QualifiedSoFar, Zipped, Listed, Validated, Archived, ProviderFreeIos
<1>8. ASSUME SoundInputs' PROVE Foreseen'
  <2>1. SoundInputs /\ Foreseen
    BY <1>1, <1>8 DEF SoundInputs
  <2>2. /\ ProviderFreeIos /\ SourceBuilt /\ \A files : FitBinaries(files)
        /\ oddity # "imports"
    BY <2>1, SoundInputsAreFit
  <2>3. /\ \A d \in Dirs \ Runtimes, f \in Files : bin[d][f] = "absent"
        /\ \A m \in Modules : fw["ios_x64_sim"][m] = "absent"
        /\ \A d \in Runtimes : bin[d]["host"] = "built"
        /\ Overridden => bin["android"]["dawn"] = "pinned"
        /\ bin["macos"]["provider"] # "absent" /\ bin["macos"]["new"] = "absent"
        /\ bin["macos"]["shim"] = "wrapper"
        /\ DistFits /\ (stable => "official" \in dist)
        /\ \A s \in Devices : bin[s]["provider"] = "absent"
        /\ \A s \in Devices, m \in Modules : fw[s][m] # "absent" <=> m \in {"host", "metal", "clite"}
    BY <1>1, <2>1 DEF Foreseen, Merged, OfficialPackaged, IosPackaged, MacosPackaged
  <2>4. ~UnsupportedMacos
    BY <1>5, <2>3 DEF UnsupportedMacos, Present, Dirs, Runtimes, Devices
  <2>5. ValidIos(bin, fw)
    <3>1. ASSUME NEW s \in Slices PROVE "provider" \notin Present(bin[s]) \cup Present(fw[s])
      <4>1. CASE s = "ios_x64_sim"
        BY <2>3, <4>1 DEF Present, Dirs, Slices, Runtimes, Devices, Files, Modules
      <4>2. CASE s \in Devices
        BY <2>3, <4>2 DEF Present, Modules, Files
      <4>. QED  BY <4>1, <4>2 DEF Slices
    <3>. QED  BY <2>2, <3>1 DEF ValidIos
  <2>6. "provider" \in Present(bin["macos"])
    BY <1>5, <2>3 DEF Present, Dirs, Runtimes, Files
  <2>7. OnDevice = {"host", "metal", "clite"}
    <3>1. Present(fw["ios"]) = {m \in Modules : fw["ios"][m] # "absent"}
      BY <1>6 DEF Present, Slices, Devices
    <3>. QED  BY <2>3, <3>1 DEF OnDevice, Devices, Modules, Files
  <2>8. \A s \in Slices : Present(fw[s]) \subseteq {"host", "metal", "clite"}
    <3>1. \A s \in Slices : Present(fw[s]) = {m \in Modules : fw[s][m] # "absent"}
      BY <1>6 DEF Present
    <3>. QED  BY <2>3, <3>1 DEF Slices
  <2>9. PrivacyAudited
    <3>1. IosModules \subseteq {"host", "metal", "clite"}
      BY <2>8 DEF IosModules
    <3>. QED  BY <2>2, <2>7, <3>1 DEF PrivacyAudited, Declared
  <2>10. ok
    BY <2>3, <2>4, <2>5, <2>6, <2>9 DEF ok
  <2>11. \A m \in Modules : spm'[m] # {} <=> m \in Present(fw["ios"]) \cup Present(bin["macos"])
    <3>1. \A m \in Modules : spm'[m] = SlicesOf(m)
      BY <1>1, <2>10
    <3>. QED  BY <3>1 DEF SlicesOf, OnDevice
  <2>12. pc' = "inventory" /\ (Overridden' <=> Overridden) /\ Present(fw'["ios"]) = Present(fw["ios"])
         /\ Present(bin'["macos"]) = Present(bin["macos"])
    BY <1>1, <2>10 DEF Overridden
  <2>. QED
    BY <1>1, <2>3, <2>11, <2>12 DEF Foreseen, DistFits, Listed, Validated, Archived
<1>. QED  BY <1>4, <1>7, <1>8

\* What the gates ask of sound inputs that have reached them.
LEMMA SoundPackagesPass ==
  ASSUME PackagingInv, SoundInputs, pc \in Zipped
  PROVE  /\ RequiredArtifacts(bin, fw, dist)
         /\ DependenciesHold /\ ValidIos(bin, fw)
         /\ \A d \in Dirs : Present(bin[d]) # {} <=> d \in Runtimes
         /\ \A s \in Slices : Present(fw[s]) # {} <=> s \in Devices
<1>. USE DEF PackagingInv
<1>1. /\ ProviderFreeIos /\ \A files : FitBinaries(files)
      /\ oddity # "broken_prebuilt"
  BY SoundInputsAreFit
<1>2. pc \in Copied /\ pc \in Merged /\ pc \in OfficialPackaged /\ pc \in IosPackaged
      /\ pc \in MacosPackaged
  BY DEF Copied, Merged, OfficialPackaged, IosPackaged, MacosPackaged
<1>3. Foreseen
  OBVIOUS
<1>4. /\ \A d \in Dirs \ Runtimes, f \in Files : bin[d][f] = "absent"
      /\ \A m \in Modules : fw["ios_x64_sim"][m] = "absent"
      /\ \A d \in Runtimes : bin[d]["host"] = "built"
      /\ bin["macos"]["shim"] = "wrapper"
      /\ DistFits /\ (stable => "official" \in dist)
      /\ \A s \in Devices : bin[s]["provider"] = "absent"
      /\ \A s \in Devices, m \in Modules : fw[s][m] # "absent" <=> m \in {"host", "metal", "clite"}
  BY <1>2, <1>3 DEF Foreseen
<1>5. /\ \A d \in Dirs : Present(bin[d]) = {f \in Files : bin[d][f] # "absent"}
      /\ \A s \in Slices : Present(fw[s]) = {m \in Modules : fw[s][m] # "absent"}
  BY DEF TreesHoldBytes, Present
<1>6. \A d \in Runtimes : "host" \in Present(bin[d])
  BY <1>4, <1>5 DEF Dirs, Files
<1>7. \A d \in Dirs \ Runtimes : Present(bin[d]) = {}
  BY <1>4, <1>5
<1>8. \A s \in Devices : Present(fw[s]) = {"host", "metal", "clite"}
  BY <1>4, <1>5 DEF Slices, Modules, Files
<1>9. Present(fw["ios_x64_sim"]) = {}
  BY <1>4, <1>5 DEF Slices
<1>10. ValidIos(bin, fw)
  <2>1. ASSUME NEW s \in Slices PROVE "provider" \notin Present(bin[s]) \cup Present(fw[s])
    <3>1. CASE s \in Devices
      <4>1. "provider" \notin Present(bin[s])
        <5>1. s \in Dirs /\ bin[s]["provider"] = "absent"
          BY <1>4, <3>1 DEF Dirs, Runtimes
        <5>. QED  BY <1>5, <5>1
      <4>. QED  BY <1>8, <3>1, <4>1
    <3>2. CASE s = "ios_x64_sim"
      <4>1. s \in Dirs \ Runtimes
        BY <3>2 DEF Dirs, Runtimes, Devices, Slices
      <4>. QED  BY <1>7, <1>9, <3>2, <4>1
    <3>. QED  BY <3>1, <3>2 DEF Slices
  <2>. QED  BY <1>1, <2>1 DEF ValidIos
<1>11. DependenciesHold
  <2>1. "macos_x64" \in Dirs \ Runtimes
    BY DEF Dirs, Runtimes, Devices
  <2>. QED  BY <1>1, <1>7, <1>10, <2>1 DEF DependenciesHold, UnsupportedMacos
<1>12. RequiredArtifacts(bin, fw, dist)
  <2>1. "shim" \in Present(bin["macos"])
    BY <1>4, <1>5 DEF Dirs, Runtimes, Files
  <2>. QED  BY <1>4, <1>6, <1>8, <2>1 DEF RequiredArtifacts
<1>. QED  BY <1>6, <1>7, <1>8, <1>9, <1>10, <1>11, <1>12 DEF Slices

\* The two gates that only look.
LEMMA GatesKeep ==
  PackagingInv /\ (ValidateArtifacts \/ ValidateDependencies) => PackagingInv'
<1>. SUFFICES ASSUME PackagingInv, ValidateArtifacts \/ ValidateDependencies PROVE PackagingInv'
  OBVIOUS
<1>. USE DEF PackagingInv
<1>1. /\ pc \in {"inventory", "dependencies"} /\ pc' \in {"dependencies", "manifest", "failed"}
      /\ tag' = tag /\ stable' = stable /\ publish' = publish /\ smoke' = smoke
      /\ oddity' = oddity /\ left' = left
      /\ bin' = bin /\ fw' = fw /\ dist' = dist /\ spm' = spm /\ manifest' = manifest /\ release' = release
  BY DEF ValidateArtifacts, ValidateDependencies, Step, inputs
<1>2. Inputs' /\ TreesHoldBytes'
  BY <1>1 DEF Inputs, TreesHoldBytes
<1>3. QualifiedSoFar'
  BY <1>1 DEF QualifiedSoFar, NothingStale, Unshipped, Copied, Merged, OfficialPackaged,
     IosPackaged, MacosPackaged, Zipped, Listed, Validated, Archived, ProviderFreeIos
<1>4. ASSUME SoundInputs' PROVE Foreseen'
  <2>1. SoundInputs /\ Foreseen /\ pc \in Zipped
    BY <1>1, <1>4 DEF SoundInputs, Zipped
  <2>2. pc' # "failed"
    BY <2>1, SoundPackagesPass DEF ValidateArtifacts, ValidateDependencies, Step
  <2>. QED
    BY <1>1, <2>1, <2>2 DEF Foreseen, DistFits, Merged, OfficialPackaged, IosPackaged,
       MacosPackaged,
       Zipped, Listed, Validated, Archived, Overridden, Present
<1>. QED  BY <1>2, <1>3, <1>4

LEMMA WriteManifestKeeps == PackagingInv /\ WriteManifest => PackagingInv'
<1>. SUFFICES ASSUME PackagingInv, WriteManifest PROVE PackagingInv'
  OBVIOUS
<1>. USE DEF PackagingInv
<1>1. /\ pc = "manifest" /\ pc' = IF ProviderFreeIos => ValidIos(bin, fw) THEN "validate" ELSE "failed"
      /\ tag' = tag /\ stable' = stable /\ publish' = publish /\ smoke' = smoke
      /\ oddity' = oddity /\ left' = left
      /\ bin' = bin /\ fw' = fw /\ dist' = dist /\ spm' = spm /\ release' = release
      /\ manifest' = [bin |-> bin, fw |-> fw, dist |-> dist, spm |-> spm,
                      smokes |-> Evidence]
  BY DEF WriteManifest, Step, inputs
<1>2. Inputs' /\ TreesHoldBytes'
  BY <1>1 DEF Inputs, TreesHoldBytes
<1>3. QualifiedSoFar'
  BY <1>1 DEF QualifiedSoFar, NothingStale, Unshipped, Copied, Merged, OfficialPackaged,
     IosPackaged, MacosPackaged, Zipped, Listed, Validated, Archived, ProviderFreeIos
<1>4. ASSUME SoundInputs' PROVE Foreseen'
  <2>1. SoundInputs /\ Foreseen /\ pc \in Zipped
    BY <1>1, <1>4 DEF SoundInputs, Zipped
  <2>2. pc' = "validate"
    BY <1>1, <2>1, SoundPackagesPass
  <2>3. Evidence' = Evidence
    BY <1>1 DEF Evidence, Uploaded, Upstream, Unshipped, Audited, Linked, Overridden,
       ProviderFreeIos
  <2>. QED
    BY <1>1, <2>1, <2>2, <2>3 DEF Foreseen, DistFits, Merged, OfficialPackaged, IosPackaged,
       MacosPackaged, Zipped, Listed, Validated, Archived, Overridden, Present
<1>. QED  BY <1>2, <1>3, <1>4

\* The manifest of sound inputs is valid: exactly the supported platforms, the zips
\* required and no others than allowed, and the hosts that the smokes ran.
LEMMA SoundManifestsAreValid ==
  ASSUME PackagingInv, SoundInputs, pc \in Listed
  PROVE  /\ manifest.bin = bin /\ manifest.fw = fw
         /\ manifest.spm = spm /\ manifest.dist = dist
         /\ ManifestValid(manifest, IF publish THEN SmokeHosts ELSE {})
<1>. USE DEF PackagingInv
<1>1. pc \in Zipped /\ pc \in MacosPackaged /\ pc \in OfficialPackaged /\ pc \in Merged
  BY DEF Zipped, MacosPackaged, IosPackaged, OfficialPackaged, Merged
<1>2. /\ manifest.bin = bin /\ manifest.fw = fw /\ manifest.spm = spm
      /\ manifest.dist = dist /\ manifest.smokes = Evidence
  BY DEF Foreseen
<1>3. /\ RequiredArtifacts(bin, fw, dist)
      /\ \A d \in Dirs : Present(bin[d]) # {} <=> d \in Runtimes
      /\ \A s \in Slices : Present(fw[s]) # {} <=> s \in Devices
  BY <1>1, SoundPackagesPass
<1>4. HasAsrBridge
  BY SoundInputsAreFit
<1>5. /\ DistFits /\ (stable => "official" \in dist) /\ (Overridden => bin["android"]["dawn"] = "pinned")
      /\ bin["macos"]["new"] = "absent" /\ bin["macos"]["shim"] = "wrapper"
      /\ \A d \in Runtimes : bin[d]["host"] = "built"
      /\ \A m \in Modules : fw["ios"][m] # "absent" <=> m \in {"host", "metal", "clite"}
      /\ \A m \in Modules : spm[m] # {} <=> m \in Present(fw["ios"]) \cup Present(bin["macos"])
  <2>1. Foreseen
    OBVIOUS
  <2>2. "ios" \in Devices
    BY DEF Devices
  <2>3. /\ DistFits /\ (stable => "official" \in dist) /\ (Overridden => bin["android"]["dawn"] = "pinned")
        /\ bin["macos"]["new"] = "absent" /\ bin["macos"]["shim"] = "wrapper"
        /\ \A d \in Runtimes : bin[d]["host"] = "built"
    BY <1>1, <2>1 DEF Foreseen
  <2>4. pc \in IosPackaged
    BY <1>1 DEF IosPackaged
  <2>5. /\ \A s \in Devices, m \in Modules : fw[s][m] # "absent" <=> m \in {"host", "metal", "clite"}
        /\ \A m \in Modules : spm[m] # {} <=> m \in Present(fw["ios"]) \cup Present(bin["macos"])
    BY <1>1, <2>1, <2>4 DEF Foreseen
  <2>. QED  BY <2>2, <2>3, <2>5
<1>6. PlatformsExact(manifest)
  BY <1>2, <1>3 DEF PlatformsExact, Platforms, Dirs, Runtimes, Devices
<1>7. SpmInventory(manifest)
  <2>1. /\ Present(bin["macos"]) = {f \in Files : bin["macos"][f] # "absent"}
        /\ Present(fw["ios"]) = {m \in Modules : fw["ios"][m] # "absent"}
    BY DEF TreesHoldBytes, Present, Dirs, Runtimes, Slices, Devices
  <2>2. Present(fw["ios"]) = {"host", "metal", "clite"}
    BY <1>5, <2>1 DEF Modules, Files
  <2>3. /\ "shim" \in Present(bin["macos"])
        /\ Present(bin["macos"]) \subseteq {"host", "shim", "dawn", "provider", "metal"}
    BY <1>5, <2>1 DEF Files
  <2>4. /\ RequiredSpm = {"host", "clite", "shim", "metal"}
        /\ AllowedSpm = {"host", "clite", "shim", "metal", "dawn", "provider"}
    BY <1>4 DEF RequiredSpm, AllowedSpm
  <2>5. {x \in Modules : spm[x] # {}} = {x \in Modules : x \in Present(fw["ios"]) \cup Present(bin["macos"])}
    BY <1>5
  <2>6. \A x \in {"host", "clite", "shim", "metal"} : x \in Modules
    BY DEF Modules, Files
  <2>. QED  BY <1>2, <1>5, <2>2, <2>3, <2>4, <2>5, <2>6 DEF SpmInventory, DistFits
<1>8. SmokesMatch(manifest)
  <2>1. \A p \in SmokeHosts : p \in Runtimes /\ Uploaded(p)["host"] = "built"
    BY DEF SmokeHosts, Uploaded, Runtimes, Files
  <2>. QED  BY <1>2, <1>5, <2>1 DEF SmokesMatch, Evidence
<1>9. (IF publish THEN SmokeHosts ELSE {}) \subseteq DOMAIN manifest.smokes
  BY <1>2 DEF Evidence, Inputs
<1>. QED
  BY <1>2, <1>3, <1>5, <1>6, <1>7, <1>8, <1>9 DEF ManifestValid, OverridesInPlace, DistFits

LEMMA ValidateManifestKeeps == PackagingInv /\ ValidateManifest => PackagingInv'
<1>. SUFFICES ASSUME PackagingInv, ValidateManifest PROVE PackagingInv'
  OBVIOUS
<1>. USE DEF PackagingInv
<1>. DEFINE ok == /\ manifest.bin = bin /\ manifest.fw = fw
                  /\ manifest.spm = spm /\ manifest.dist = dist
                  /\ ManifestValid(manifest, IF publish THEN SmokeHosts ELSE {})
<1>1. /\ pc = "validate" /\ pc' = IF ok THEN "archive" ELSE "failed"
      /\ tag' = tag /\ stable' = stable /\ publish' = publish /\ smoke' = smoke
      /\ oddity' = oddity /\ left' = left
      /\ bin' = bin /\ fw' = fw /\ dist' = dist /\ spm' = spm /\ release' = release
      /\ manifest' = manifest
  BY DEF ValidateManifest, Step, inputs
<1>2. Inputs' /\ TreesHoldBytes'
  BY <1>1 DEF Inputs, TreesHoldBytes
<1>3. ok => ok'
  BY <1>1 DEF ManifestValid, OverridesInPlace, Overridden, PlatformsExact, Platforms,
     SpmInventory,
     RequiredSpm, AllowedSpm, HasAsrBridge, RequiredArtifacts, SmokesMatch
<1>. HIDE DEF ok
<1>4. QualifiedSoFar'
  <2>1. pc' # "failed" => ok'
    BY <1>1, <1>3
  <2>. QED
    BY <1>1, <2>1 DEF ok, QualifiedSoFar, NothingStale, Unshipped, Copied, Merged,
       OfficialPackaged, IosPackaged, MacosPackaged, Zipped, Listed, Validated, Archived, ProviderFreeIos
<1>5. ASSUME SoundInputs' PROVE Foreseen'
  <2>1. SoundInputs /\ Foreseen /\ pc \in Listed
    BY <1>1, <1>5 DEF SoundInputs, Listed
  <2>2. pc' = "archive"
    BY <1>1, <2>1, SoundManifestsAreValid DEF ok
  <2>3. Evidence' = Evidence
    BY <1>1 DEF Evidence, Uploaded, Upstream, Unshipped, Audited, Linked, Overridden,
       ProviderFreeIos
  <2>. QED
    BY <1>1, <2>1, <2>2, <2>3 DEF Foreseen, DistFits, Merged, OfficialPackaged, IosPackaged,
       MacosPackaged, Zipped, Listed, Validated, Archived, Overridden, Present
<1>. QED  BY <1>2, <1>4, <1>5

LEMMA CreateArchivesKeeps == PackagingInv /\ CreateArchives => PackagingInv'
<1>. SUFFICES ASSUME PackagingInv, CreateArchives PROVE PackagingInv'
  OBVIOUS
<1>. USE DEF PackagingInv
<1>1. /\ pc = "archive" /\ pc' \in {"done", "failed"}
      /\ pc' = "done" => DependenciesHold
      /\ DependenciesHold /\ "release" \notin left => pc' = "done"
      /\ tag' = tag /\ stable' = stable /\ publish' = publish /\ smoke' = smoke
      /\ oddity' = oddity /\ left' = left
      /\ bin' = bin /\ fw' = fw /\ dist' = dist /\ spm' = spm /\ manifest' = manifest
      /\ release' = [bin |-> bin, fw |-> fw, spm |-> spm,
                     dist |-> IF dist \cap Official = {} THEN {} ELSE dist,
                     others |-> "release" \in left]
  <2>1. PICK ok \in {DependenciesHold} \cup (IF "release" \in left THEN {FALSE} ELSE {}) :
          Step("archive", ok, "done")
    BY DEF CreateArchives
  <2>2. DependenciesHold \in BOOLEAN
    BY DEF DependenciesHold
  <2>3. ok \in BOOLEAN /\ (ok => DependenciesHold)
        /\ (DependenciesHold /\ "release" \notin left => ok)
    BY <2>1, <2>2
  <2>4. pc = "archive" /\ pc' = IF ok THEN "done" ELSE "failed"
    BY <2>1 DEF Step
  <2>. QED  BY <2>3, <2>4 DEF CreateArchives, inputs
<1>2. Inputs' /\ TreesHoldBytes'
  BY <1>1 DEF Inputs, TreesHoldBytes
<1>3. /\ \A m, R : ManifestValid(m, R)' <=> ManifestValid(m, R)
      /\ ValidIos(bin, fw)' <=> ValidIos(bin, fw)
  BY <1>1 DEF ManifestValid, OverridesInPlace, Overridden, PlatformsExact, Platforms,
     SpmInventory,
     RequiredSpm, AllowedSpm, HasAsrBridge, RequiredArtifacts, SmokesMatch, ValidIos, FitBinaries
<1>4. QualifiedSoFar'
  BY <1>1, <1>3 DEF QualifiedSoFar, NothingStale, Unshipped, Copied, Merged,
     OfficialPackaged, IosPackaged, MacosPackaged, Zipped, Listed, Validated, Archived, ProviderFreeIos, DependenciesHold
<1>5. ASSUME SoundInputs' PROVE Foreseen'
  <2>1. SoundInputs /\ Foreseen /\ pc \in Zipped
    BY <1>1, <1>5 DEF SoundInputs, Zipped, Listed, Validated
  <2>2. pc' = "done"
    BY <1>1, <2>1, SoundPackagesPass, SoundInputsAreFit
  <2>3. Evidence' = Evidence
    BY <1>1 DEF Evidence, Uploaded, Upstream, Unshipped, Audited, Linked, Overridden,
       ProviderFreeIos
  <2>. QED
    BY <1>1, <2>1, <2>2, <2>3 DEF Foreseen, DistFits, Merged, OfficialPackaged, IosPackaged,
       MacosPackaged, Zipped, Listed, Validated, Archived, Overridden, Present
<1>. QED  BY <1>2, <1>4, <1>5

LEMMA PackageStepKeeps == PackagingInv /\ PackageStep => PackagingInv'
BY CopyPrebuiltsKeeps, OverlayKeeps, ApplyOverridesKeeps, PackageOfficialAssetsKeeps,
   PackageIosKeeps, PackageMacosKeeps, PackageAppleKeeps, GatesKeep, WriteManifestKeeps,
   ValidateManifestKeeps, CreateArchivesKeeps
   DEF PackageStep


-----------------------------------------------------------------------------
LEMMA PackagingStutters == PackagingInv /\ UNCHANGED vars => PackagingInv'
<1>. SUFFICES ASSUME PackagingInv, UNCHANGED vars PROVE PackagingInv'
  OBVIOUS
<1>. USE DEF PackagingInv
<1>1. /\ pc' = pc /\ tag' = tag /\ stable' = stable /\ publish' = publish /\ smoke' = smoke
      /\ oddity' = oddity /\ left' = left
      /\ bin' = bin /\ fw' = fw /\ dist' = dist /\ spm' = spm /\ manifest' = manifest
      /\ release' = release
  BY DEF vars
<1>2. Inputs' /\ TreesHoldBytes'
  BY <1>1 DEF Inputs, TreesHoldBytes
<1>3. /\ \A m, R : ManifestValid(m, R)' <=> ManifestValid(m, R)
      /\ ValidIos(bin, fw)' <=> ValidIos(bin, fw)
  BY <1>1 DEF ManifestValid, OverridesInPlace, Overridden, PlatformsExact, Platforms,
     SpmInventory,
     RequiredSpm, AllowedSpm, HasAsrBridge, RequiredArtifacts, SmokesMatch, ValidIos, FitBinaries
<1>4. QualifiedSoFar'
  BY <1>1, <1>3 DEF QualifiedSoFar, NothingStale, Unshipped, ProviderFreeIos
<1>5. ASSUME SoundInputs' PROVE Foreseen'
  <2>1. SoundInputs /\ Foreseen
    BY <1>1, <1>5 DEF SoundInputs
  <2>2. Evidence' = Evidence /\ (\A d \in Runtimes : Upstream(d)' = Upstream(d))
    BY <1>1 DEF Evidence, Uploaded, Upstream, Unshipped, Audited, Linked, Overridden,
       ProviderFreeIos
  <2>. QED  BY <1>1, <2>1, <2>2 DEF Foreseen, DistFits, Overridden, Present
<1>. QED  BY <1>2, <1>4, <1>5

LEMMA UploadKeepsPackaging ==
  PackagingInv /\ pc = "done" /\ pc' = "uploaded"
    /\ UNCHANGED <<inputs, bin, fw, dist, spm, manifest, release>> => PackagingInv'
<1>. SUFFICES ASSUME PackagingInv, pc = "done", pc' = "uploaded",
                     UNCHANGED <<inputs, bin, fw, dist, spm, manifest, release>>
              PROVE PackagingInv'
  OBVIOUS
<1>. USE DEF PackagingInv
<1>1. /\ tag' = tag /\ stable' = stable /\ publish' = publish /\ smoke' = smoke
      /\ oddity' = oddity /\ left' = left
      /\ bin' = bin /\ fw' = fw /\ dist' = dist /\ spm' = spm /\ manifest' = manifest
      /\ release' = release
  BY DEF inputs
<1>2. Inputs' /\ TreesHoldBytes'
  BY <1>1 DEF Inputs, TreesHoldBytes
<1>3. /\ \A m, R : ManifestValid(m, R)' <=> ManifestValid(m, R)
      /\ ValidIos(bin, fw)' <=> ValidIos(bin, fw)
  BY <1>1 DEF ManifestValid, OverridesInPlace, Overridden, PlatformsExact, Platforms,
     SpmInventory,
     RequiredSpm, AllowedSpm, HasAsrBridge, RequiredArtifacts, SmokesMatch, ValidIos, FitBinaries
<1>4. QualifiedSoFar'
  BY <1>1, <1>3 DEF QualifiedSoFar, NothingStale, Unshipped, ProviderFreeIos, Copied,
     Merged, OfficialPackaged, IosPackaged,
     MacosPackaged, Zipped, Listed, Validated, Archived
<1>5. ASSUME SoundInputs' PROVE Foreseen'
  <2>1. SoundInputs /\ Foreseen
    BY <1>1, <1>5 DEF SoundInputs
  <2>2. Evidence' = Evidence
    BY <1>1 DEF Evidence, Uploaded, Upstream, Unshipped, Audited, Linked, Overridden,
       ProviderFreeIos
  <2>. QED
    BY <1>1, <2>1, <2>2 DEF Foreseen, DistFits, Overridden, Present, Merged,
       OfficialPackaged, IosPackaged,
       MacosPackaged, Zipped, Listed, Validated, Archived
<1>. QED  BY <1>2, <1>4, <1>5

\* A new checkout takes nothing over from the packaging before it.
LEMMA RerunKeepsPackaging == PackagingInv /\ Rerun => PackagingInv'
<1>1. PackagingInv /\ Rerun => JobStarts'
  <2>. SUFFICES ASSUME PackagingInv, Rerun PROVE JobStarts'
    OBVIOUS
  <2>1. /\ pc' = "prebuilts" /\ bin' = Checkout.bin /\ fw' = Checkout.fw
        /\ dist' = Checkout.dist
        /\ tag' = tag /\ stable' = stable /\ publish' = publish /\ smoke' = smoke
        /\ oddity' = oddity /\ left' = left
    BY DEF Rerun, inputs
  <2>2. Checkout' = Checkout
    BY <2>1 DEF Checkout
  <2>3. Inputs'
    BY <2>1 DEF PackagingInv, Inputs
  <2>. QED  BY <2>1, <2>2, <2>3 DEF JobStarts
<1>2. JobStarts' => PackagingInv'
  BY StartedJob, PTL
<1>. QED  BY <1>1, <1>2

\* Every step of the release is a step of the package job, its upload, a new start,
\* or leaves it alone.
LEMMA PromotionStepKeepsPackaging ==
  PackagingInv /\ [PromotionNext]_promotionVars => PackagingInv'
<1>. SUFFICES ASSUME PackagingInv, [PromotionNext]_promotionVars PROVE PackagingInv'
  OBVIOUS
<1>1. CASE Package
  BY <1>1, PackageStepKeeps DEF Package
<1>2. CASE Upload
  BY <1>2, UploadKeepsPackaging DEF Upload
<1>3. CASE Rerun
  BY <1>3, RerunKeepsPackaging
<1>4. CASE UNCHANGED vars
  BY <1>4, PackagingStutters
<1>5. Package \/ Upload \/ Rerun \/ UNCHANGED vars
  BY DEF PromotionNext, promotionVars, PackagingFailed, RerunPublish, Expire, MainMoves,
     Dispatch,
     VerifyRemote, ReuseCandidate, RetryPromotion, PublishStep, VerifyIntent, PrepareDraft,
     UploadAssets, Promote, Crash
<1>. QED  BY <1>1, <1>2, <1>3, <1>4, <1>5

\* A step of run r keeps the other run out.
LEMMA BecomesKeeps ==
  ASSUME PromotionTypes, GroupIsHeld, NEW r \in Runs, NEW stage \in Stages \ {"none"},
         MayRun(r), Becomes(r, stage)
  PROVE  /\ job' \in [Runs -> Stages]
         /\ status' \in {"running", "success", "failure"} /\ group' \in Runs \cup {"free"}
         /\ GroupIsHeld'
         /\ job'[r] = stage
         /\ \A q \in Runs \ {r} : job'[q] = job[q] /\ job[q] \notin InFlight
<1>1. /\ job \in [Runs -> Stages] /\ group \in {r, "free"} /\ r # "free"
      /\ job' = [job EXCEPT ![r] = stage]
      /\ group' = IF stage \in {"failed", "done"} THEN "free" ELSE r
  BY DEF PromotionTypes, MayRun, Becomes, Runs
<1>2. /\ job'[r] = stage
      /\ \A q \in Runs \ {r} : job'[q] = job[q] /\ job[q] \notin InFlight
  BY <1>1 DEF GroupIsHeld, Runs
<1>3. GroupIsHeld'
  BY <1>1, <1>2 DEF GroupIsHeld, InFlight
<1>. QED  BY <1>1, <1>2, <1>3 DEF PromotionTypes, Becomes

\* While no artifact is uploaded and no source is named, what may be published stays.
LEMMA PublishableStays ==
  ASSUME UNCHANGED <<artifacts, source>>
  PROVE  /\ Uploads' = Uploads
         /\ \A r, c : Publishable(r, c)' <=> Publishable(r, c)
BY DEF Publishable, Uploads

\* Steps that touch neither the jobs nor what they carry.
LEMMA ArtifactsStay ==
  ASSUME ArtifactsAreArchived, PromotionTypes, UNCHANGED artifacts,
         \/ attempt' = attempt /\ (pc = "uploaded" => pc' = "uploaded")
         \/ attempt' = attempt + 1
  PROVE  ArtifactsAreArchived'
BY DEF ArtifactsAreArchived, PromotionTypes, Uploads, Attempts

LEMMA PackageKeeps == PackagingInv /\ PublishInv /\ Package => PublishInv'
<1>. SUFFICES ASSUME PackagingInv, PublishInv, Package PROVE PublishInv'
  OBVIOUS
<1>. USE DEF PublishInv
<1>1. /\ group' = "packaging" /\ group \in {"packaging", "free"} /\ pc # "uploaded"
      /\ attempt' = attempt /\ status' = status /\ artifacts' = artifacts
      /\ source' = source /\ copy' = copy /\ job' = job /\ workspace' = workspace /\ live' = live
  BY DEF Package, MayRun, local, PackageStep, CopyPrebuilts, Overlay, ApplyOverrides,
     PackageOfficialAssets, PackageIos, PackageMacos, PackageApple, ValidateArtifacts,
     ValidateDependencies, WriteManifest, ValidateManifest, CreateArchives, Step
<1>2. Uploads' = Uploads /\ \A r, c : Publishable(r, c)' <=> Publishable(r, c)
  BY <1>1, PublishableStays
<1>3. PromotionTypes'
  BY <1>1, <1>2 DEF PromotionTypes, Runs
<1>4. ArtifactsAreArchived'
  BY <1>1, ArtifactsStay
<1>5. GroupIsHeld'
  BY <1>1 DEF GroupIsHeld, Runs
<1>6. CopyIsAnUpload' /\ PublishesOwnCandidate'
  BY <1>1, <1>2 DEF CopyIsAnUpload, PublishesOwnCandidate
<1>. QED  BY <1>3, <1>4, <1>5, <1>6

\* The one upload of an attempt is of the archives its package job has just made.
LEMMA UploadKeeps == PackagingInv /\ PublishInv /\ Upload => PublishInv'
<1>. SUFFICES ASSUME PackagingInv, PublishInv, Upload PROVE PublishInv'
  OBVIOUS
<1>. USE DEF PublishInv
<1>. DEFINE new == [attempt |-> attempt, manifest |-> manifest, payload |-> release,
                    approval |-> IF publish THEN "publish" ELSE "prepare-only"]
<1>1. /\ MayRun("packaging") /\ pc = "done" /\ pc' = "uploaded"
      /\ artifacts' = [artifacts EXCEPT ![attempt] = new]
      /\ IF publish THEN Becomes("packaging", "verify")
         ELSE status' \in {"success", "failure"} /\ group' = "free" /\ UNCHANGED job
      /\ attempt' = attempt /\ source' = source /\ copy' = copy /\ workspace' = workspace
      /\ live' = live
  BY DEF Upload
<1>2. attempt \in Attempts /\ attempt \in Nat \ {0} /\ DOMAIN artifacts = Attempts
  BY PromotionConfig DEF PromotionTypes, Attempts, ArtifactsAreArchived
<1>3. attempt \notin Uploads
  BY <1>1, <1>2 DEF ArtifactsAreArchived, Uploads, Attempts
<1>4. new # Nothing /\ new.attempt = attempt /\ new.payload.bin = new.manifest.bin
  <2>1. release.bin = bin /\ manifest.bin = bin
    BY <1>1 DEF PackagingInv, QualifiedSoFar, Archived, Validated
  <2>2. new.attempt = attempt /\ new.payload = release /\ new.manifest = manifest
    OBVIOUS
  <2>3. Nothing.attempt = 0
    BY DEF Nothing
  <2>. QED  BY <1>2, <2>1, <2>2, <2>3
<1>. HIDE DEF new
<1>5. /\ DOMAIN artifacts' = Attempts
      /\ Uploads' = Uploads \cup {attempt}
      /\ artifacts'[attempt] = new
      /\ \A a \in Uploads : artifacts'[a] = artifacts[a]
  BY <1>1, <1>2, <1>3, <1>4 DEF Uploads
<1>6. ArtifactsAreArchived'
  <2>1. \A a \in Uploads' : a < attempt \/ a = attempt
    BY <1>5 DEF ArtifactsAreArchived
  <2>2. \A a \in Uploads' : artifacts'[a].attempt = a /\ artifacts'[a].payload.bin = artifacts'[a].manifest.bin
    BY <1>4, <1>5 DEF ArtifactsAreArchived
  <2>3. \A b \in Uploads' : b <= attempt
    BY <1>2, <1>5 DEF ArtifactsAreArchived, Uploads, Attempts
  <2>. QED  BY <1>1, <1>5, <2>1, <2>2, <2>3 DEF ArtifactsAreArchived
<1>7. \A r, c : Publishable(r, c) => Publishable(r, c)'
  BY <1>1, <1>5 DEF Publishable
<1>8. /\ job' \in [Runs -> Stages] /\ GroupIsHeld'
      /\ status' \in {"running", "success", "failure"} /\ group' \in Runs \cup {"free"}
      /\ job'["promotion"] = job["promotion"]
      /\ job'["packaging"] \in {job["packaging"], "verify"}
      /\ job["promotion"] \notin InFlight
  <2>1. CASE publish
    BY <1>1, <2>1, BecomesKeeps DEF Runs, Stages, PublishStages
  <2>2. CASE ~publish
    <3>1. group \in {"packaging", "free"} /\ job["packaging"] = "none"
      BY <1>1 DEF MayRun, PromotionTypes
    <3>. QED  BY <1>1, <2>2, <3>1 DEF PromotionTypes, GroupIsHeld, Runs, InFlight
  <2>. QED  BY <2>1, <2>2
<1>9. PromotionTypes'
  BY <1>1, <1>2, <1>5, <1>8 DEF PromotionTypes
<1>10. CopyIsAnUpload'
  BY <1>1, <1>5 DEF CopyIsAnUpload
<1>11. PublishesOwnCandidate'
  BY <1>1, <1>7, <1>8 DEF PublishesOwnCandidate, Runs
<1>. QED  BY <1>6, <1>8, <1>9, <1>10, <1>11

\* Steps of the packaging run and of its surroundings that publish nothing.
LEMMA SurroundingsKeep ==
  PackagingInv /\ PublishInv
    /\ (PackagingFailed \/ Rerun \/ RerunPublish \/ MainMoves \/ \E a \in Attempts : Expire(a))
    => PublishInv'
<1>. SUFFICES ASSUME PackagingInv, PublishInv,
                     PackagingFailed \/ Rerun \/ RerunPublish \/ MainMoves
                       \/ \E a \in Attempts : Expire(a)
              PROVE PublishInv'
  OBVIOUS
<1>. USE DEF PublishInv
<1>0. /\ artifacts' = artifacts /\ source' = source /\ copy' = copy /\ workspace' = workspace
      /\ live' = live
  BY DEF PackagingFailed, Rerun, RerunPublish, MainMoves, Expire, local
<1>1. Uploads' = Uploads /\ \A r, c : Publishable(r, c)' <=> Publishable(r, c)
  BY <1>0, PublishableStays
<1>2. CopyIsAnUpload'
  BY <1>0, <1>1 DEF CopyIsAnUpload
<1>3. CASE PackagingFailed
  <2>1. /\ group \in {"packaging", "free"} /\ pc = "failed" /\ pc' = pc /\ status' = "failure"
        /\ group' = "free" /\ attempt' = attempt /\ job' = job
    BY <1>3 DEF PackagingFailed, MayRun, vars, local
  <2>2. PromotionTypes'
    BY <1>0, <1>1, <2>1 DEF PromotionTypes
  <2>3. GroupIsHeld'
    BY <2>1 DEF GroupIsHeld, Runs, PromotionTypes, InFlight
  <2>4. ArtifactsAreArchived'
    BY <1>0, <2>1, ArtifactsStay
  <2>. QED  BY <1>0, <1>1, <1>2, <2>1, <2>2, <2>3, <2>4 DEF PublishesOwnCandidate
<1>4. CASE Rerun
  <2>1. /\ attempt' = attempt + 1 /\ attempt < MaxAttempts /\ status' = "running" /\ group' = group
        /\ job' = [job EXCEPT !["packaging"] = "none"]
    BY <1>4 DEF Rerun
  <2>2. /\ job' \in [Runs -> Stages] /\ job'["packaging"] = "none"
        /\ job'["promotion"] = job["promotion"]
    BY <2>1 DEF PromotionTypes, Runs, Stages
  <2>3. attempt' \in Attempts
    BY <2>1, PromotionConfig DEF PromotionTypes, Attempts
  <2>4. PromotionTypes'
    BY <1>0, <1>1, <2>1, <2>2, <2>3 DEF PromotionTypes
  <2>5. GroupIsHeld'
    BY <2>1, <2>2 DEF GroupIsHeld, Runs, InFlight
  <2>6. ArtifactsAreArchived'
    BY <1>0, <2>1, ArtifactsStay
  <2>. QED  BY <1>0, <1>1, <1>2, <2>2, <2>4, <2>5, <2>6 DEF PublishesOwnCandidate, Runs
<1>5. CASE RerunPublish
  <2>1. /\ attempt' = IF attempt < MaxAttempts THEN attempt + 1 ELSE attempt
        /\ status' = "running" /\ group' = group /\ pc' = pc
        /\ job["packaging"] = "failed"
        /\ job' = [job EXCEPT !["packaging"] = "verify"]
    BY <1>5 DEF RerunPublish, vars
  <2>2. /\ job' \in [Runs -> Stages] /\ job'["packaging"] = "verify"
        /\ job'["promotion"] = job["promotion"]
    BY <2>1 DEF PromotionTypes, Runs, Stages, PublishStages
  <2>3. attempt' \in Attempts
    BY <2>1, PromotionConfig DEF PromotionTypes, Attempts
  <2>4. PromotionTypes'
    BY <1>0, <1>1, <2>1, <2>2, <2>3 DEF PromotionTypes
  <2>5. GroupIsHeld'
    BY <2>1, <2>2 DEF GroupIsHeld, Runs, InFlight
  <2>6. ArtifactsAreArchived'
    BY <1>0, <2>1, ArtifactsStay
  <2>. QED  BY <1>0, <1>1, <1>2, <2>2, <2>4, <2>5, <2>6 DEF PublishesOwnCandidate, Runs
<1>6. CASE MainMoves \/ \E a \in Attempts : Expire(a)
  <2>1. attempt' = attempt /\ status' = status /\ group' = group /\ pc' = pc /\ job' = job
    BY <1>6 DEF MainMoves, Expire, vars, local
  <2>2. PromotionTypes'
    BY <1>0, <1>1, <2>1 DEF PromotionTypes
  <2>3. GroupIsHeld'
    BY <2>1 DEF GroupIsHeld
  <2>4. ArtifactsAreArchived'
    BY <1>0, <2>1, ArtifactsStay
  <2>. QED  BY <1>0, <1>1, <1>2, <2>1, <2>2, <2>3, <2>4 DEF PublishesOwnCandidate
<1>. QED  BY <1>3, <1>4, <1>5, <1>6

-----------------------------------------------------------------------------
LEMMA DispatchKeeps == PackagingInv /\ PublishInv /\ Dispatch => PublishInv'
<1>. SUFFICES ASSUME PackagingInv, PublishInv, Dispatch PROVE PublishInv'
  OBVIOUS
<1>. USE DEF PublishInv
<1>1. /\ job["promotion"] = "none"
      /\ source' \in [attempt : 1..attempt, artifact : Uploads, digest : Uploads]
      /\ job' = [job EXCEPT !["promotion"] = "reuse"]
      /\ attempt' = attempt /\ status' = status /\ group' = group /\ artifacts' = artifacts
      /\ pc' = pc /\ copy' = copy /\ workspace' = workspace /\ live' = live
  BY DEF Dispatch, vars, remote
<1>2. /\ job' \in [Runs -> Stages] /\ job'["promotion"] = "reuse"
      /\ job'["packaging"] = job["packaging"]
  BY <1>1 DEF PromotionTypes, Runs, Stages
<1>3. Uploads' = Uploads /\ 1..attempt \subseteq Attempts
  BY <1>1, PromotionConfig DEF Uploads, Attempts, PromotionTypes
<1>4. PromotionTypes'
  BY <1>1, <1>2, <1>3 DEF PromotionTypes, PublishStages
<1>5. ArtifactsAreArchived'
  BY <1>1, ArtifactsStay
<1>6. GroupIsHeld'
  BY <1>1, <1>2 DEF GroupIsHeld, Runs, InFlight
<1>7. CopyIsAnUpload'
  BY <1>1, <1>3 DEF CopyIsAnUpload
<1>8. \A c : Publishable("packaging", c)' <=> Publishable("packaging", c)
  BY <1>1, <1>3 DEF Publishable
<1>9. PublishesOwnCandidate'
  BY <1>1, <1>2, <1>8 DEF PublishesOwnCandidate, Runs
<1>. QED  BY <1>4, <1>5, <1>6, <1>7, <1>9

\* What a step of run r has to show when it uploads nothing, names no source and
\* moves its job on to some stage.
LEMMA JobStepKeeps ==
  ASSUME PublishInv, NEW r \in Runs, NEW stage \in Stages \ {"none"},
         job[r] # "none", MayRun(r), Becomes(r, stage),
         UNCHANGED <<pc, attempt, artifacts, source>>,
         CopyIsAnUpload',
         r = "promotion" /\ stage \in PublishStages => copy' # Nothing,
         copy # Nothing => copy' # Nothing,
         stage \in {"draft", "upload", "promote"} =>
           Publishable(r, workspace') /\ live'.state # "published",
         stage \in {"upload", "promote"} => live'.state = "draft" /\ live'.run = r,
         live' = [state |-> live'.state, run |-> live'.run, assets |-> live'.assets],
         live'.state = "published" => live'.run \in Runs /\ Publishable(live'.run, live'.assets),
         live'.run \in {live.run, r}
  PROVE  PublishInv'
<1>. USE DEF PublishInv
<1>1. /\ job' \in [Runs -> Stages] /\ GroupIsHeld'
      /\ status' \in {"running", "success", "failure"} /\ group' \in Runs \cup {"free"}
      /\ job'[r] = stage
      /\ \A q \in Runs \ {r} : job'[q] = job[q] /\ job[q] \notin InFlight
  BY BecomesKeeps
<1>2. Uploads' = Uploads /\ \A q, c : Publishable(q, c)' <=> Publishable(q, c)
  BY PublishableStays
<1>3. PromotionTypes'
  BY <1>1, <1>2 DEF PromotionTypes, Runs
<1>4. ArtifactsAreArchived'
  BY ArtifactsStay
<1>5. ASSUME NEW q \in Runs
      PROVE  /\ job'[q] \in {"draft", "upload", "promote"} =>
                  Publishable(q, workspace)' /\ live'.state # "published"
             /\ job'[q] \in {"upload", "promote"} => live'.state = "draft" /\ live'.run = q
  <2>1. CASE q = r
    BY <1>1, <1>2, <2>1 DEF Publishable, Uploads
  <2>2. CASE q # r
    BY <1>1, <2>2 DEF InFlight
  <2>. QED  BY <2>1, <2>2
<1>6. live'.state = "published" => live'.run \in Runs /\ Publishable(live.run, live.assets)'
  BY <1>2 DEF Publishable, Uploads
<1>7. live'.run = "promotion" => job'["promotion"] # "none"
  BY <1>1 DEF PublishesOwnCandidate, Runs
<1>8. PublishesOwnCandidate'
  BY <1>5, <1>6, <1>7 DEF PublishesOwnCandidate
<1>. QED  BY <1>1, <1>3, <1>4, <1>8

\* The part of the invariant a step that leaves the release alone can use.
LEMMA LiveStays ==
  ASSUME PublishInv, live' = live
  PROVE  /\ live' = [state |-> live'.state, run |-> live'.run, assets |-> live'.assets]
         /\ live'.state = "published" => live'.run \in Runs /\ Publishable(live'.run, live'.assets)
         /\ live'.run = live.run
BY DEF PublishInv, PublishesOwnCandidate

LEMMA PromotingRunKeeps ==
  PackagingInv /\ PublishInv /\ (VerifyRemote \/ ReuseCandidate) => PublishInv'
<1>1. ASSUME PublishInv, VerifyRemote PROVE PublishInv'
  <2>. DEFINE stage == IF RemoteMatches THEN "download" ELSE "failed"
  <2>1. /\ MayRun("promotion") /\ job["promotion"] = "reuse" /\ Becomes("promotion", stage)
        /\ UNCHANGED <<pc, attempt, artifacts, source>> /\ copy' = copy /\ live' = live
    BY <1>1 DEF VerifyRemote, vars
  <2>2. "promotion" \in Runs /\ stage \in Stages \ {"none"}
        /\ stage \notin PublishStages \cup {"draft", "upload", "promote"}
    BY DEF Runs, Stages, PublishStages
  <2>. HIDE DEF stage
  <2>3. CopyIsAnUpload'
    BY <1>1, <2>1 DEF PublishInv, CopyIsAnUpload, Uploads
  <2>4. /\ live' = [state |-> live'.state, run |-> live'.run, assets |-> live'.assets]
        /\ live'.state = "published" => live'.run \in Runs /\ Publishable(live'.run, live'.assets)
        /\ live'.run = live.run
    BY <1>1, <2>1, LiveStays
  <2>. QED  BY <1>1, <2>1, <2>2, <2>3, <2>4, JobStepKeeps
<1>2. ASSUME PublishInv, ReuseCandidate PROVE PublishInv'
  <2>. DEFINE c == artifacts[source.artifact]
              ok == /\ source.artifact \notin expired /\ source.digest = c.attempt
                    /\ Prepared(c)
                    /\ ManifestValid(c.manifest, SmokeHosts)
              stage == IF ok THEN "verify" ELSE "failed"
              new == [attempt |-> c.attempt, candidate |-> c, source |-> source]
  <2>1. /\ MayRun("promotion") /\ job["promotion"] = "download"
        /\ Becomes("promotion", stage)
        /\ copy' = IF ok THEN new ELSE copy
        /\ UNCHANGED <<pc, attempt, artifacts, source>> /\ live' = live
    BY <1>2 DEF ReuseCandidate, vars
  <2>2. "promotion" \in Runs /\ stage \in Stages \ {"none"}
        /\ stage \notin {"draft", "upload", "promote"}
        /\ (stage \in PublishStages => ok)
    BY DEF Runs, Stages, PublishStages
  <2>3. source.artifact \in Uploads
    BY <1>2, <2>1 DEF PublishInv, PromotionTypes
  <2>4. new.candidate = c /\ new.source = source /\ new # Nothing
    <3>1. Nothing.attempt = 0 /\ new.attempt = c.attempt
      BY DEF Nothing
    <3>2. c.attempt = source.artifact /\ source.artifact # 0
      BY <1>2, <2>3, PromotionConfig DEF PublishInv, ArtifactsAreArchived, Uploads, Attempts
    <3>. QED  BY <3>1, <3>2
  <2>. HIDE DEF new, ok, stage
  <2>5. CopyIsAnUpload'
    <3>1. CASE ok
      BY <2>1, <2>3, <2>4, <3>1 DEF CopyIsAnUpload, Uploads
    <3>2. CASE ~ok
      BY <1>2, <2>1, <3>2 DEF PublishInv, CopyIsAnUpload, Uploads
    <3>. QED  BY <3>1, <3>2
  <2>6. /\ live' = [state |-> live'.state, run |-> live'.run, assets |-> live'.assets]
        /\ live'.state = "published" => live'.run \in Runs /\ Publishable(live'.run, live'.assets)
        /\ live'.run = live.run
    BY <1>2, <2>1, LiveStays
  <2>7. (stage \in PublishStages => copy' # Nothing) /\ (copy # Nothing => copy' # Nothing)
    BY <2>1, <2>2, <2>4
  <2>. QED  BY <1>2, <2>1, <2>2, <2>5, <2>6, <2>7, JobStepKeeps
<1>. QED  BY <1>1, <1>2

LEMMA RetryPromotionKeeps == PublishInv /\ RetryPromotion => PublishInv'
<1>. SUFFICES ASSUME PublishInv, RetryPromotion PROVE PublishInv'
  OBVIOUS
<1>. USE DEF PublishInv
<1>. DEFINE stage == IF copy = Nothing THEN "reuse" ELSE "verify"
<1>1. /\ job["promotion"] = "failed" /\ job' = [job EXCEPT !["promotion"] = stage]
      /\ attempt' = attempt /\ status' = status /\ group' = group /\ artifacts' = artifacts
      /\ pc' = pc /\ source' = source /\ copy' = copy /\ workspace' = workspace /\ live' = live
  BY DEF RetryPromotion, vars, remote
<1>2. stage \in {"reuse", "verify"} /\ (stage = "verify" => copy # Nothing)
  OBVIOUS
<1>. HIDE DEF stage
<1>3. /\ job' \in [Runs -> Stages] /\ job'["promotion"] = stage
      /\ job'["packaging"] = job["packaging"]
  BY <1>1, <1>2 DEF PromotionTypes, Runs, Stages, PublishStages
<1>4. Uploads' = Uploads /\ \A q, c : Publishable(q, c)' <=> Publishable(q, c)
  BY <1>1, PublishableStays
<1>5. PromotionTypes'
  BY <1>1, <1>2, <1>3, <1>4 DEF PromotionTypes, PublishStages
<1>6. ArtifactsAreArchived'
  BY <1>1, ArtifactsStay
<1>7. GroupIsHeld'
  BY <1>1, <1>2, <1>3 DEF GroupIsHeld, Runs, InFlight
<1>8. CopyIsAnUpload' /\ PublishesOwnCandidate'
  BY <1>1, <1>2, <1>3, <1>4 DEF CopyIsAnUpload, PublishesOwnCandidate, Runs
<1>. QED  BY <1>5, <1>6, <1>7, <1>8

-----------------------------------------------------------------------------
\* What passes the checks of a publish job is its run's own candidate, qualified.
LEMMA MayPublishIsPublishable ==
  ASSUME PublishInv, NEW r \in Runs, job[r] = "verify", MayPublish(r)
  PROVE  Publishable(r, Downloaded(r))
<1>. USE DEF PublishInv
<1>. DEFINE c == Downloaded(r)
<1>1. /\ SmokeHosts \subseteq DOMAIN c.manifest.smokes
      /\ \A p \in SmokeHosts : c.manifest.bin[p]["host"] = c.manifest.smokes[p]
  BY DEF MayPublish, ManifestValid, SmokesMatch
<1>2. ASSUME NEW a \in Uploads, c = artifacts[a]
      PROVE  /\ c.attempt \in Uploads /\ c = artifacts[c.attempt] /\ c.attempt = a
             /\ \A p \in SmokeHosts : c.payload.bin[p]["host"] = c.manifest.smokes[p]
  BY <1>1, <1>2 DEF ArtifactsAreArchived
<1>3. CASE r = "packaging"
  <2>1. Uploads # {}
    BY <1>3 DEF PromotionTypes
  <2>2. Latest \in Uploads
    <3>1. \E last \in Uploads : \A b \in Uploads : b <= last
      BY <2>1 DEF ArtifactsAreArchived
    <3>. QED  BY <3>1 DEF Latest
  <2>3. c = artifacts[Latest] /\ c.approval = "publish"
    BY <1>3 DEF MayPublish, Downloaded
  <2>. HIDE DEF c
  <2>. QED  BY <1>1, <1>2, <1>3, <2>2, <2>3 DEF Publishable, c
<1>4. CASE r = "promotion"
  <2>1. /\ source.digest = source.artifact /\ copy.source = source
        /\ c = copy.candidate /\ c.approval = "prepare-only" /\ c.attempt = source.attempt
    BY <1>4 DEF MayPublish, RemoteMatches, Prepared, Downloaded
  <2>2. copy # Nothing /\ source \in [attempt : Attempts, artifact : Uploads, digest : Uploads]
    BY <1>4 DEF PromotionTypes, PublishStages
  <2>3. source.artifact \in Uploads /\ c = artifacts[source.artifact]
    BY <2>1, <2>2 DEF CopyIsAnUpload
  <2>4. c.attempt = source.artifact
    BY <1>2, <2>3
  <2>5. source = [attempt |-> c.attempt, artifact |-> c.attempt, digest |-> c.attempt]
    BY <2>1, <2>2, <2>4
  <2>. HIDE DEF c
  <2>. QED  BY <1>1, <1>2, <1>4, <2>1, <2>3, <2>5 DEF Publishable, c
<1>. QED  BY <1>3, <1>4 DEF Runs

LEMMA VerifyIntentKeeps ==
  ASSUME PublishInv, NEW r \in Runs, VerifyIntent(r)
  PROVE  PublishInv'
<1>. DEFINE ok == MayPublish(r) /\ OwnTransaction(r)
            stage == IF ~ok THEN "failed"
                     ELSE IF live.state # "published" THEN "draft"
                     ELSE IF live.assets = Downloaded(r) THEN "done" ELSE "failed"
<1>1. /\ MayRun(r) /\ job[r] = "verify" /\ Becomes(r, stage)
      /\ workspace' = IF ok THEN Downloaded(r) ELSE workspace
      /\ UNCHANGED <<pc, attempt, artifacts, source>> /\ copy' = copy /\ live' = live
  BY DEF VerifyIntent, vars
<1>2. /\ stage \in Stages \ {"none"} /\ stage \in {"failed", "draft", "done"}
      /\ stage = "draft" => ok /\ live.state # "published"
  BY DEF Stages, PublishStages
<1>3. ok => Publishable(r, Downloaded(r))
  BY <1>1, MayPublishIsPublishable
<1>. HIDE DEF ok, stage
<1>4. CopyIsAnUpload'
  BY <1>1 DEF PublishInv, CopyIsAnUpload, Uploads
<1>5. /\ live' = [state |-> live'.state, run |-> live'.run, assets |-> live'.assets]
      /\ live'.state = "published" => live'.run \in Runs /\ Publishable(live'.run, live'.assets)
      /\ live'.run = live.run
  BY <1>1, LiveStays
<1>6. r = "promotion" => copy' # Nothing
  BY <1>1 DEF PublishInv, PromotionTypes, PublishStages
<1>. QED  BY <1>1, <1>2, <1>3, <1>4, <1>5, <1>6, JobStepKeeps

LEMMA DraftStepKeeps ==
  ASSUME PublishInv, NEW r \in Runs, PrepareDraft(r) \/ UploadAssets(r) \/ Promote(r) \/ Crash(r)
  PROVE  PublishInv'
<1>1. /\ MayRun(r) /\ UNCHANGED <<pc, attempt, artifacts, source>> /\ copy' = copy
      /\ workspace' = workspace /\ job[r] \in PublishStages
  BY DEF PrepareDraft, UploadAssets, Promote, Crash, vars, PublishStages
<1>2. CopyIsAnUpload'
  BY <1>1 DEF PublishInv, CopyIsAnUpload, Uploads
<1>3. job[r] # "none" /\ (r = "promotion" => copy' # Nothing)
  BY <1>1 DEF PublishInv, PromotionTypes, PublishStages
<1>4. /\ live = [state |-> live.state, run |-> live.run, assets |-> live.assets]
      /\ job[r] \in {"draft", "upload", "promote"} =>
           Publishable(r, workspace) /\ live.state # "published"
      /\ job[r] \in {"upload", "promote"} => live.state = "draft" /\ live.run = r
  BY DEF PublishInv, PublishesOwnCandidate
<1>5. \A stage \in {"upload", "promote", "done", "failed"} : stage \in Stages \ {"none"}
  BY DEF Stages, PublishStages
<1>6. CASE PrepareDraft(r)
  <2>1. /\ job[r] = "draft" /\ Becomes(r, "upload")
        /\ live' = [state |-> "draft", run |-> r, assets |-> Nothing]
    BY <1>6 DEF PrepareDraft
  <2>2. live'.state = "draft" /\ live'.run = r
    BY <2>1
  <2>3. live' = [state |-> live'.state, run |-> live'.run, assets |-> live'.assets]
    BY <2>1
  <2>. QED  BY <1>1, <1>2, <1>3, <1>4, <1>5, <2>1, <2>2, <2>3, JobStepKeeps
<1>7. CASE UploadAssets(r)
  <2>1. /\ job[r] = "upload" /\ Becomes(r, "promote")
        /\ live' = [live EXCEPT !.assets = workspace]
    BY <1>7 DEF UploadAssets
  <2>2. live' = [state |-> live.state, run |-> live.run, assets |-> workspace]
    BY <1>4, <2>1
  <2>3. live'.state = "draft" /\ live'.run = r
    BY <1>4, <2>1, <2>2
  <2>4. live' = [state |-> live'.state, run |-> live'.run, assets |-> live'.assets]
    BY <2>2
  <2>. QED  BY <1>1, <1>2, <1>3, <1>4, <1>5, <2>1, <2>3, <2>4, JobStepKeeps
<1>8. CASE Promote(r)
  <2>. DEFINE ok == InventoryExact(r) /\ ReceiptBinds(r)
              stage == IF ok THEN "done" ELSE "failed"
  <2>1. /\ job[r] = "promote" /\ Becomes(r, stage)
        /\ live' = IF ok THEN [live EXCEPT !.state = "published"] ELSE live
    BY <1>8 DEF Promote
  <2>2. ok => live.run = r /\ live.assets = workspace
    BY DEF InventoryExact
  <2>3. stage \in {"done", "failed"}
    OBVIOUS
  <2>. HIDE DEF ok, stage
  <2>4. live' = [state |-> IF ok THEN "published" ELSE live.state, run |-> live.run,
                 assets |-> live.assets]
    BY <1>4, <2>1
  <2>5. live'.run = live.run /\ live'.assets = live.assets /\ (~ok => live'.state = live.state)
    BY <2>4
  <2>6. live' = [state |-> live'.state, run |-> live'.run, assets |-> live'.assets]
    BY <2>4
  <2>7. live'.state = "published" => live'.run \in Runs /\ Publishable(live'.run, live'.assets)
    BY <1>4, <2>1, <2>2, <2>5
  <2>. QED  BY <1>1, <1>2, <1>3, <1>5, <2>1, <2>3, <2>5, <2>6, <2>7, JobStepKeeps
<1>9. CASE Crash(r)
  <2>1. Becomes(r, "failed") /\ live' = live
    BY <1>9 DEF Crash
  <2>2. /\ live' = [state |-> live'.state, run |-> live'.run, assets |-> live'.assets]
        /\ live'.state = "published" => live'.run \in Runs /\ Publishable(live'.run, live'.assets)
        /\ live'.run = live.run
    BY <2>1, LiveStays
  <2>. QED  BY <1>1, <1>2, <1>3, <1>5, <2>1, <2>2, JobStepKeeps
<1>. QED  BY <1>6, <1>7, <1>8, <1>9

-----------------------------------------------------------------------------
LEMMA PromotionInvInit == PromotionInit => PromotionInv
<1>. SUFFICES ASSUME PromotionInit PROVE PromotionInv
  OBVIOUS
<1>1. PackagingInv
  <2>1. JobStarts
    BY PackagingConfig DEF PromotionInit, Init, JobStarts, Inputs
  <2>. QED  BY <2>1, StartedJob
<1>2. /\ attempt = 1 /\ status = "running" /\ group = "packaging"
      /\ artifacts = [a \in Attempts |-> Nothing]
      /\ copy = Nothing /\ job = [r \in Runs |-> "none"]
      /\ live = [state |-> "none", run |-> "none", assets |-> Nothing]
  BY DEF PromotionInit
<1>3. Uploads = {} /\ 1 \in Attempts
  BY <1>2, PromotionConfig DEF Uploads, Attempts
<1>4. PromotionTypes
  BY <1>2, <1>3 DEF PromotionTypes, Runs, Stages, PublishStages
<1>5. ArtifactsAreArchived /\ GroupIsHeld /\ CopyIsAnUpload
  BY <1>2, <1>3 DEF ArtifactsAreArchived, GroupIsHeld, CopyIsAnUpload, InFlight
<1>6. PublishesOwnCandidate
  BY <1>2 DEF PublishesOwnCandidate
<1>. QED  BY <1>1, <1>4, <1>5, <1>6 DEF PromotionInv, PublishInv

LEMMA PromotionInvStep == PromotionInv /\ [PromotionNext]_promotionVars => PromotionInv'
<1>. SUFFICES ASSUME PackagingInv, PublishInv, [PromotionNext]_promotionVars PROVE PublishInv'
  BY PromotionStepKeepsPackaging DEF PromotionInv
<1>1. CASE Package
  BY <1>1, PackageKeeps
<1>2. CASE Upload
  BY <1>2, UploadKeeps
<1>3. CASE PackagingFailed \/ Rerun \/ RerunPublish \/ MainMoves \/ \E a \in Attempts : Expire(a)
  BY <1>3, SurroundingsKeep
<1>4. CASE Dispatch
  BY <1>4, DispatchKeeps
<1>5. CASE VerifyRemote \/ ReuseCandidate
  BY <1>5, PromotingRunKeeps
<1>6. CASE RetryPromotion
  BY <1>6, RetryPromotionKeeps
<1>7. ASSUME NEW r \in Runs, VerifyIntent(r) PROVE PublishInv'
  BY <1>7, VerifyIntentKeeps
<1>8. ASSUME NEW r \in Runs, PrepareDraft(r) \/ UploadAssets(r) \/ Promote(r) \/ Crash(r)
      PROVE PublishInv'
  BY <1>8, DraftStepKeeps
<1>9. CASE UNCHANGED promotionVars
  <2>1. /\ attempt' = attempt /\ status' = status /\ group' = group /\ artifacts' = artifacts
        /\ pc' = pc /\ source' = source /\ copy' = copy /\ job' = job /\ workspace' = workspace
        /\ live' = live
    BY <1>9 DEF promotionVars, vars, remote, local
  <2>2. Uploads' = Uploads /\ \A q, c : Publishable(q, c)' <=> Publishable(q, c)
    BY <2>1, PublishableStays
  <2>. QED
    BY <2>1, <2>2 DEF PublishInv, PromotionTypes, ArtifactsAreArchived, GroupIsHeld,
       CopyIsAnUpload, PublishesOwnCandidate
<1>. QED
  BY <1>1, <1>2, <1>3, <1>4, <1>5, <1>6, <1>7, <1>8, <1>9 DEF PromotionNext, PublishStep

LEMMA PromotionInvHolds == PromotionSpec => []PromotionInv
BY PromotionInvInit, PromotionInvStep, PTL DEF PromotionSpec

\* The package job by itself.
LEMMA PackagingInvHolds == Spec => []PackagingInv
<1>1. Init => PackagingInv
  BY PackagingConfig, StartedJob DEF Init, JobStarts, Inputs
<1>2. PackagingInv /\ [Next]_vars => PackagingInv'
  BY PackageStepKeeps, PackagingStutters DEF Next, Finished
<1>. QED  BY <1>1, <1>2, PTL DEF Spec

\* From v0.17, an upstream release with nothing odd about it goes through every
\* packager and every gate of the package job, by hand where runtimes, and for a
\* stable release upstream archives, were packaged before, and in the workflow
\* however often it is re-run (package_upstream_prebuilts,
\* package_official_release_assets, package_ios_runtime, package_macos_runtime,
\* package_apple_xcframeworks, validate_release_manifest).
THEOREM SoundInputsPass ==
  (Spec => []SoundInputsArePackaged) /\ (PromotionSpec => []SoundInputsArePackaged)
<1>1. PackagingInv => SoundInputsArePackaged
  BY DEF PackagingInv, SoundInputs, Foreseen, SoundInputsArePackaged
<1>2. PromotionInv => PackagingInv
  BY DEF PromotionInv
<1>. QED  BY <1>1, <1>2, PackagingInvHolds, PromotionInvHolds, PTL

\* What a package job archives is what its gates qualified, whatever the working
\* tree held: no provider for iOS, the audited Dawn, the supported platforms, no
\* upstream archives in a development release and no zips of another one, the hosts
\* that the smokes ran; and, but where upstream has no prebuilts, nothing stale
\* (copy_prebuilts, validate_schema_2_payload, create_archives).
THEOREM ArchivesAreQualified ==
  (Spec => []ReleaseIsQualified) /\ (PromotionSpec => []ReleaseIsQualified)
<1>1. PackagingInv => ReleaseIsQualified
  <2>. SUFFICES ASSUME PackagingInv, pc = "done"
                PROVE  /\ ProviderFreeIos =>
                            /\ \A s \in Slices :
                                 "provider" \notin Present(bin[s]) \cup Present(fw[s])
                            /\ "ios" \notin spm["provider"]
                       /\ Overridden => bin["android"]["dawn"] = "pinned"
                       /\ \A d \in Dirs \ Runtimes : Present(bin[d]) = {}
                       /\ ~stable => dist \cap Official = {}
                       /\ "other_spm" \notin dist
                       /\ NothingStale
                       /\ publish => \A p \in SmokeHosts :
                            /\ p \in DOMAIN manifest.smokes
                            /\ bin[p]["host"] = manifest.smokes[p]
    <3>1. ASSUME PackagingInv, pc = "done"
          PROVE  /\ release.bin = bin /\ release.fw = fw /\ release.spm = spm
                 /\ release.dist = IF dist \cap Official = {} THEN {} ELSE dist
      BY <3>1 DEF PackagingInv, QualifiedSoFar, Archived
    <3>. QED  BY <3>1 DEF ReleaseIsQualified, NothingStale
  <2>1. /\ NothingStale
        /\ ProviderFreeIos => "ios" \notin spm["provider"] /\ ValidIos(bin, fw)
        /\ manifest.bin = bin /\ manifest.fw = fw /\ manifest.dist = dist
        /\ ManifestValid(manifest, IF publish THEN SmokeHosts ELSE {})
    BY DEF PackagingInv, QualifiedSoFar, Copied, Merged, OfficialPackaged, IosPackaged,
       MacosPackaged, Zipped, Listed, Validated, Archived
  <2>2. /\ ~stable => dist \cap Official = {}
        /\ "other_spm" \notin dist
        /\ Overridden => bin["android"]["dawn"] = "pinned"
        /\ Platforms(manifest) = Runtimes
        /\ publish => \A p \in SmokeHosts :
             /\ p \in DOMAIN manifest.smokes
             /\ bin[p]["host"] = manifest.smokes[p]
    BY <2>1 DEF ManifestValid, OverridesInPlace, PlatformsExact, SpmInventory, SmokesMatch
  <2>3. \A d \in Dirs \ Runtimes : Present(bin[d]) = {}
    BY <2>1, <2>2 DEF Platforms
  <2>. QED  BY <2>1, <2>2, <2>3 DEF ValidIos
<1>2. PromotionInv => PackagingInv
  BY DEF PromotionInv
<1>. QED  BY <1>1, <1>2, PackagingInvHolds, PromotionInvHolds, PTL

\* What is public is a candidate that some attempt uploaded after every gate, with its
\* smokes; of another run only as prepared, in the attempt and under the digest
\* named (validate_preparation, load_promotion, validate_publication_intent).
THEOREM PublishedWasPrepared == PromotionSpec => []PublishedIsAPreparedCandidate
<1>1. PromotionInv => PublishedIsAPreparedCandidate
  BY DEF PromotionInv, PublishInv, PublishesOwnCandidate, Publishable,
         PublishedIsAPreparedCandidate
<1>. QED  BY <1>1, PromotionInvHolds, PTL

=============================================================================
