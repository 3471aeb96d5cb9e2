------------------------------- MODULE Packaging -------------------------------
(***************************************************************************)
(* The package job of native_release.yml: raw upstream prebuilts, the      *)
(* artifacts of the build jobs over them, the pinned overrides, then the   *)
(* Apple packagers, the validators, the manifest and the archives.  Every  *)
(* tool reads what the ones before it left in bin/ and dist/; none of them *)
(* knows where a file came from, so each gate has to catch what an earlier *)
(* step brought back.                                                      *)
(*                                                                         *)
(* A file is known by where its bytes come from.  What may be odd about a  *)
(* run is one "oddity", an upstream release that differs from those        *)
(* audited, and what an earlier packaging left in the working tree: the    *)
(* hosted runner starts on a new checkout, the same commands by hand may   *)
(* not, and each --clean clears what its own tool is about to write.       *)
(***************************************************************************)
EXTENDS Naturals, FiniteSets

CONSTANTS
  Tags,      \* compatibility tags, v0.17.0 as 1700
  Checkouts  \* what the working trees may hold of an earlier packaging

\* dist/: the upstream archives of this compatibility tag and of another one, the
\* zips of another release.
Official == {"official", "other_official"}
DistParts == Official \cup {"other_spm"}

\* "bin": the runtime directories; "release": archives of another release.
Leftovers == {"bin", "macos_x64", "ios_x64", "release"} \cup DistParts

ASSUME PackagingConfig == Tags \subseteq Nat /\ Checkouts \subseteq SUBSET Leftovers

VARIABLES
  tag, stable, publish, smoke, oddity, left,  \* the inputs of the run
  pc,
  bin,       \* bin[d][f]: bytes of file f in runtime directory d
  fw,        \* fw[d][m]: bytes of framework m in the iOS directory d
  dist,      \* the DistParts there are
  spm,       \* spm[m]: the platforms with a slice in the zip of module m
  manifest,  \* what manifest.json lists
  release    \* what the archives hold

vars == <<tag, stable, publish, smoke, oddity, left, pc, bin, fw, dist, spm,
          manifest, release>>
inputs == <<tag, stable, publish, smoke, oddity, left>>

Devices == {"ios", "ios_sim"}
Runtimes == {"android", "linux", "macos", "windows"} \cup Devices
Slices == Devices \cup {"ios_x64_sim"}
Dirs == Runtimes \cup Slices \cup {"macos_x64"}

\* host: LiteRtLm; shim: libCLiteRTLM_mac; metal: the accelerator plugin that is
\* loaded by name; new: a library no audit knows.
Files == {"host", "shim", "dawn", "provider", "metal", "new"}
Modules == Files \cup {"clite"}

Bytes == {"absent", "stale", "prebuilt", "repaired", "built", "renamed", "pinned",
          "wrapper", "official"}
Oddities == {"none", "new_ios", "new_macos", "no_ios", "no_linux", "no_archive",
             "override_changed", "broken_prebuilt", "imports", "ios_unfit"}

SmokeHosts == {"linux", "macos", "windows"}
None == [f \in Files |-> "absent"]
Bare == [m \in Modules |-> "absent"]
Stale(Fs) == [f \in Files |-> IF f \in Fs THEN "stale" ELSE "absent"]

Present(files) == {f \in DOMAIN files : files[f] # "absent"}
Step(from, ok, to) == pc = from /\ pc' = IF ok THEN to ELSE "failed"

ProviderFreeIos == tag >= 1700
HasAsrBridge == tag >= 1600
\* Releases whose Android Dawn is replaced by the audited one.
Overridden == tag >= 1500 /\ tag <= 1900

-----------------------------------------------------------------------------
(***************************************************************************)
(* Merging the inputs.                                                     *)
(***************************************************************************)

\* The libraries the audited releases of upstream ship for a runtime ...
Audited(d) ==
  CASE d = "android" -> {"dawn"}
    [] d \in {"linux", "windows"} -> {"dawn", "provider"}
    [] d = "macos" -> {"dawn", "metal", "provider"}
    [] d \in Devices -> {"metal", "provider"}
    [] OTHER -> {}

\* ... the runtimes it has no prebuilts for, and what it ships for the others.
Unshipped == (IF oddity = "no_ios" THEN {"ios"} ELSE {})
               \cup (IF oddity = "no_linux" THEN {"linux"} ELSE {})
Upstream(d) ==
  IF d \in Unshipped THEN {}
  ELSE Audited(d)
         \cup (IF \/ oddity = "new_macos" /\ d = "macos"
                  \/ oddity = "new_ios" /\ d \in Devices THEN {"new"} ELSE {})

\* A runtime without prebuilts is passed over before --clean would empty its
\* directory.
CopyPrebuilts ==
  /\ Step("prebuilts", TRUE, "overlay")
  /\ bin' = [d \in Dirs |->
               IF d \in Runtimes \ Unshipped
                 THEN [f \in Files |-> IF f \in Upstream(d) THEN "prebuilt" ELSE "absent"]
                 ELSE bin[d]]
  /\ fw' = [s \in Slices |-> IF s \in Devices \ Unshipped THEN Bare ELSE fw[s]]
  /\ UNCHANGED <<inputs, dist, spm, manifest, release>>

\* What an iOS host is linked against: the provider until v0.17.
Linked == (IF ProviderFreeIos THEN {} ELSE {"provider"})
            \cup (IF oddity = "new_ios" THEN {"new"} ELSE {})

\* What the build jobs upload: the host and its closure, of the prebuilts; on Linux with repaired
\* search paths, on macOS with the release's install name, for iOS from v0.17
\* without the provider.
Uploaded(d) ==
  LET needs == CASE d = "macos" -> {"provider"}
                 [] d \in Devices -> {"metal"} \cup Linked
                 [] OTHER -> Audited(d)
      closure == needs \cap Upstream(d)
  IN  [f \in Files |->
         IF f = "host" /\ d \in Runtimes THEN "built"
         ELSE IF f \notin closure THEN "absent"
         ELSE IF d = "linux" THEN "repaired"
         ELSE IF d = "android" /\ Overridden THEN "pinned" ELSE "prebuilt"]

Overlay ==
  /\ Step("overlay", TRUE, "overrides")
  /\ bin' = [d \in Dirs |-> [f \in Files |->
               IF Uploaded(d)[f] # "absent" THEN Uploaded(d)[f] ELSE bin[d][f]]]
  /\ UNCHANGED <<inputs, fw, dist, spm, manifest, release>>

\* The override is downloaded beside its target and replaces it when its digest
\* is the pinned one.
ApplyOverrides ==
  /\ Step("overrides", ~(Overridden /\ oddity = "override_changed"), "official")
  /\ bin' = IF Overridden /\ oddity # "override_changed"
              THEN [bin EXCEPT !["android"]["dawn"] = "pinned"] ELSE bin
  /\ UNCHANGED <<inputs, fw, dist, spm, manifest, release>>

\* Skipped in a development release.  --clean clears the directory of the tag.
PackageOfficialAssets ==
  /\ Step("official", TRUE, "ios")
  /\ dist' = IF ~stable THEN dist
             ELSE (dist \ {"official"})
                    \cup (IF oddity = "no_archive" THEN {} ELSE {"official"})
  /\ UNCHANGED <<inputs, bin, fw, spm, manifest, release>>

-----------------------------------------------------------------------------
(***************************************************************************)
(* Apple packaging.                                                        *)
(***************************************************************************)
SourceBuilt == HasAsrBridge \/ "official" \notin dist

\* An unsupported arch of macOS in bin/ stops every Apple step.
UnsupportedMacos == Present(bin["macos_x64"]) # {}

\* Slices with a source-built host; both of Devices are required.
SourceSlices == {s \in Slices : "host" \in Present(bin[s])}

\* No binary beside the provider requires the provider, or a newer iOS than the
\* candidate's floor.
FitBinaries(files) == ~(oddity = "ios_unfit" /\ "metal" \in Present(files))

\* validate_ios_directory: the binaries first, then that the provider is gone.
ValidIos(b, f) ==
  \A s \in Slices :
    FitBinaries(b[s]) /\ "provider" \notin Present(b[s]) \cup Present(f[s])

\* Frameworks of a source-built slice: the host, what it links, the plugin it
\* loads by name, and a CLiteRTLM that re-exports the host.
SourceFrameworks(s) ==
  [m \in Modules |-> IF m = "clite" THEN "wrapper"
                     ELSE IF m \in {"host", "metal"} \cup Linked THEN bin[s][m]
                     ELSE "absent"]
OfficialFrameworks ==
  [Bare EXCEPT !["host"] = "wrapper", !["clite"] = "official"]

\* Mutant: validate, and leave the provider to a later step.
DiscardLater(files) == IF ProviderFreeIos THEN files ELSE files

\* The unused provider is discarded before the frameworks are staged.
Discard(files) ==
  IF ProviderFreeIos THEN [files EXCEPT !["provider"] = "absent"] ELSE files

PackageIos ==
  LET ok == SourceBuilt =>
              /\ Devices \subseteq SourceSlices
              /\ \A s \in SourceSlices :
                   /\ {"metal"} \cup Linked \subseteq Present(bin[s])
                   /\ ProviderFreeIos => FitBinaries(bin[s])
      staged == IF SourceBuilt THEN SourceSlices ELSE Devices
  IN  /\ Step("ios", ok, "macos")
      /\ IF ok
           THEN /\ bin' = [d \in Dirs |-> IF d \in staged THEN Discard(bin[d]) ELSE bin[d]]
                /\ fw' = [s \in Slices |->
                            IF s \notin staged THEN fw[s]
                            ELSE IF SourceBuilt THEN SourceFrameworks(s)
                            ELSE OfficialFrameworks]
           ELSE UNCHANGED <<bin, fw>>
      /\ UNCHANGED <<inputs, dist, spm, manifest, release>>

\* Mutant: install_name_tool runs in any case.
NormalizeAlways(bytes) == "renamed"

\* The install name is set only where it differs, so a qualified host keeps its
\* bytes.
Normalize(bytes) == IF bytes \in {"built", "renamed"} THEN bytes ELSE "renamed"

\* Source-built: a shim beside the host.  Official: the directory is emptied and
\* the upstream binary and its bridge wrapper are thinned into it.
PackageMacos ==
  LET ok == ~UnsupportedMacos /\ "host" \in Present(bin["macos"])
  IN  /\ Step("macos", ok, "apple")
      /\ bin' = IF ~ok THEN bin
                ELSE IF SourceBuilt
                  THEN [bin EXCEPT !["macos"]["host"] = Normalize(@),
                                   !["macos"]["shim"] = "wrapper"]
                  ELSE [bin EXCEPT !["macos"] =
                          [None EXCEPT !["host"] = "wrapper", !["shim"] = "official"]]
      /\ UNCHANGED <<inputs, fw, dist, spm, manifest, release>>

IosModules == UNION {Present(fw[s]) : s \in Slices}

\* A framework is packaged for iOS when the device has it.
OnDevice == Present(fw["ios"])

\* Frameworks whose use of required-reason APIs was audited.
Declared == {<<"host", "ios">>, <<"clite", "ios">>, <<"metal", "ios">>,
            <<"host", "macos">>, <<"metal", "macos">>}

\* Platforms in the zip of a module.  A macOS library rides in the framework of
\* the iOS module of its name, or is a library of its own; the macOS host in the
\* primary module.
SlicesOf(m) ==
  (IF m \in OnDevice THEN {"ios"} ELSE {})
    \cup (IF m \in Present(bin["macos"]) THEN {"macos"} ELSE {})

\* The framework slices carry a manifest of an audited declaration, and the
\* binary must use what it declares; a bare macOS library carries none.
PrivacyAudited ==
  /\ \A m \in OnDevice : <<m, "ios">> \in Declared
  /\ \A m \in Present(bin["macos"]) \cap ((IosModules \ {"clite"}) \cup {"host"}) :
       <<m, "macos">> \in Declared
  /\ oddity # "imports"

\* The shim must re-export the host to be pointed at the framework; the binary of
\* the upstream archive is itself what the host beside it re-exports.
PackageApple ==
  LET ok == /\ ~UnsupportedMacos
            /\ ProviderFreeIos => ValidIos(bin, fw)
            /\ SourceBuilt => "provider" \in Present(bin["macos"])
            /\ bin["macos"]["shim"] = "wrapper"
            /\ PrivacyAudited
  IN  /\ Step("apple", ok, "inventory")
      /\ spm' = IF ok THEN [m \in Modules |-> SlicesOf(m)] ELSE spm
      /\ UNCHANGED <<inputs, bin, fw, dist, manifest, release>>

-----------------------------------------------------------------------------
(***************************************************************************)
(* Validation, manifest and archives.                                      *)
(***************************************************************************)

\* validate_runtime_artifacts and the manifest's own check of required paths.
RequiredArtifacts(b, f, parts) ==
  /\ \A d \in Runtimes \ Devices : "host" \in Present(b[d])
  /\ \A s \in Devices :
       {"host", "clite"} \cup (IF HasAsrBridge THEN {"metal"} ELSE {}) \subseteq Present(f[s])
  /\ "shim" \in Present(b["macos"])
  /\ stable => "official" \in parts

ValidateArtifacts ==
  /\ Step("inventory", RequiredArtifacts(bin, fw, dist), "dependencies")
  /\ UNCHANGED <<inputs, bin, fw, dist, spm, manifest, release>>

\* Every library finds what it needs beside it; raw prebuilts no host links are
\* checked here for the first time.
DependenciesHold ==
  /\ ProviderFreeIos => ValidIos(bin, fw)
  /\ ~UnsupportedMacos
  /\ oddity # "broken_prebuilt"

ValidateDependencies ==
  /\ Step("dependencies", DependenciesHold, "manifest")
  /\ UNCHANGED <<inputs, bin, fw, dist, spm, manifest, release>>

\* The smoke evidence of the build jobs: the digest of the host that ran.
Evidence == [p \in (IF smoke THEN SmokeHosts ELSE {}) |-> Uploaded(p)["host"]]

\* package_release: digests of all there is in bin/ and dist/.
WriteManifest ==
  /\ Step("manifest", ProviderFreeIos => ValidIos(bin, fw), "validate")
  /\ manifest' = [bin |-> bin, fw |-> fw, dist |-> dist, spm |-> spm,
                  smokes |-> Evidence]
  /\ UNCHANGED <<inputs, bin, fw, dist, spm, release>>

\* Modules that must have a zip, and those that may.
RequiredSpm == {"host", "clite", "shim"} \cup (IF HasAsrBridge THEN {"metal"} ELSE {})
AllowedSpm == RequiredSpm \cup (IF HasAsrBridge THEN {"dawn", "provider"} ELSE {})

Platforms(m) == {d \in Dirs : Present(m.bin[d]) # {} \/ (d \in Slices /\ Present(m.fw[d]) # {})}

\* Mutant: the required platforms, and whatever else there is.
PlatformsBound(m) == Runtimes \subseteq Platforms(m)

\* Exactly the supported platforms.
PlatformsExact(m) == Platforms(m) = Runtimes

OverridesInPlace(m) == Overridden => m.bin["android"]["dawn"] = "pinned"

SpmInventory(m) ==
  LET zips == {x \in Modules : m.spm[x] # {}}
  IN  RequiredSpm \subseteq zips /\ zips \subseteq AllowedSpm /\ "other_spm" \notin m.dist

\* The library a smoke ran on is the one that is packaged.
SmokesMatch(m) == \A p \in DOMAIN m.smokes : m.bin[p]["host"] = m.smokes[p]

\* validate_release_manifest, schema 2, with the smokes that are required; its
\* identity sections are the run's own inputs here.
ManifestValid(m, required) ==
  /\ ~stable => m.dist \cap Official = {}
  /\ OverridesInPlace(m) /\ PlatformsExact(m) /\ SpmInventory(m)
  /\ RequiredArtifacts(m.bin, m.fw, m.dist)
  /\ SmokesMatch(m)
  /\ required \subseteq DOMAIN m.smokes

\* validate_artifacts hashes the files again, then the payload is validated.
ValidateManifest ==
  /\ Step("validate", /\ manifest.bin = bin /\ manifest.fw = fw
                      /\ manifest.spm = spm /\ manifest.dist = dist
                      /\ ManifestValid(manifest, IF publish THEN SmokeHosts ELSE {}),
          "archive")
  /\ UNCHANGED <<inputs, bin, fw, dist, spm, manifest, release>>

\* One archive per directory below bin/, all of dist/ when upstream archives are in
\* it, the zips as they are, and the dependencies of what is then in release/ once
\* more: archives of another release may not pass, and go along if they do.
CreateArchives ==
  /\ \E ok \in {DependenciesHold} \cup (IF "release" \in left THEN {FALSE} ELSE {}) :
       Step("archive", ok, "done")
  /\ release' = [bin |-> bin, fw |-> fw, spm |-> spm,
                 dist |-> IF dist \cap Official = {} THEN {} ELSE dist,
                 others |-> "release" \in left]
  /\ UNCHANGED <<inputs, bin, fw, dist, spm, manifest>>

\* What an earlier packaging leaves in the directory of a runtime.
Earlier(d) == Audited(d) \cup {"host"} \cup (IF d = "macos" THEN {"shim"} ELSE {})

\* The working tree the job starts on.
Checkout ==
  [bin |-> [d \in Dirs |->
              IF d \in Runtimes /\ "bin" \in left THEN Stale(Earlier(d))
              ELSE IF d = "macos_x64" /\ "macos_x64" \in left THEN Stale({"host"})
              ELSE IF d = "ios_x64_sim" /\ "ios_x64" \in left THEN Stale({"host", "metal"})
              ELSE None],
   fw |-> [s \in Slices |->
             IF s \in Devices /\ "bin" \in left
               THEN [m \in Modules |->
                       IF m \in Earlier(s) \cup {"clite"} THEN "stale" ELSE "absent"]
               ELSE Bare],
   dist |-> left \cap DistParts,
   spm |-> [m \in Modules |-> {}],
   manifest |-> [bin |-> <<>>, smokes |-> <<>>]]

Init ==
  /\ tag \in Tags /\ stable \in BOOLEAN /\ publish \in BOOLEAN /\ smoke \in BOOLEAN
  /\ publish => smoke
  /\ smoke => HasAsrBridge
  /\ oddity \in Oddities /\ left \in Checkouts
  /\ pc = "prebuilts"
  /\ bin = Checkout.bin /\ fw = Checkout.fw /\ dist = Checkout.dist
  /\ spm = Checkout.spm /\ manifest = Checkout.manifest /\ release = Checkout.manifest

PackageStep ==
  \/ CopyPrebuilts \/ Overlay \/ ApplyOverrides \/ PackageOfficialAssets
  \/ PackageIos \/ PackageMacos \/ PackageApple
  \/ ValidateArtifacts \/ ValidateDependencies \/ WriteManifest \/ ValidateManifest
  \/ CreateArchives

Finished == pc \in {"done", "failed"} /\ UNCHANGED vars

Next == PackageStep \/ Finished

Spec == Init /\ [][Next]_vars

-----------------------------------------------------------------------------
\* From v0.17, an upstream release with nothing odd about it goes through every
\* packager and every gate, on a new checkout or where runtimes were packaged
\* before, and for a stable release where upstream archives were: the provider
\* that the prebuilts bring back is gone before the first gate that refuses it, the
\* macOS packager leaves the bytes that were smoked alone, and the zips produced
\* are those required and no others than allowed.  Anything else an earlier
\* packaging leaves may stop it, as upstream archives do a development release.
SoundInputsArePackaged ==
  /\ oddity = "none" /\ tag >= 1700
  /\ left \subseteq {"bin"} \cup (IF stable THEN Official ELSE {})
  => pc # "failed"

\* What is archived is what was qualified, whatever the working tree held: no Gemma
\* provider in the iOS payloads from v0.17, the audited Dawn on Android, the
\* supported platforms and no others, no upstream archives in a development
\* release, no zips of another release, and for each host the smoke ran on, the
\* bytes that ran; nor a library of an earlier packaging, but in the directory of a
\* runtime upstream has no prebuilts for.  Two things do get in: in a stable release
\* the upstream archives of another tag, and beside the archives whatever release/
\* held, which the publish job refuses.
ReleaseIsQualified ==
  pc = "done" =>
    /\ ProviderFreeIos =>
         /\ \A s \in Slices :
              "provider" \notin Present(release.bin[s]) \cup Present(release.fw[s])
         /\ "ios" \notin release.spm["provider"]
    /\ Overridden => release.bin["android"]["dawn"] = "pinned"
    /\ \A d \in Dirs \ Runtimes : Present(release.bin[d]) = {}
    /\ ~stable => release.dist = {}
    /\ "other_spm" \notin release.dist
    /\ \A d \in Runtimes \ Unshipped, f \in Files : release.bin[d][f] # "stale"
    /\ \A s \in Devices \ Unshipped, m \in Modules : release.fw[s][m] # "stale"
    /\ publish => \A p \in SmokeHosts :
         /\ p \in DOMAIN manifest.smokes
         /\ release.bin[p]["host"] = manifest.smokes[p]

=============================================================================
