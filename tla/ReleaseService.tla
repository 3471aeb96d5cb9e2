---------------------------- MODULE ReleaseService ----------------------------
(***************************************************************************)
(* The GitHub release service, as the publish job of native_release.yml    *)
(* uses it: the releases that claim one tag, the tag itself, and the       *)
(* listing, which may lag behind a creation.  The service is external;     *)
(* what it may do is read off the calls of the job and the failures its    *)
(* tools expect (tools/reconcile_release_tag.py).                          *)
(*                                                                         *)
(* A release is named by its numeric ID.  Bytes are named by their origin: *)
(* a tuple that starts with the kind of content.                           *)
(***************************************************************************)
EXTENDS Integers, Sequences, FiniteSets

CONSTANTS Runs,         \* workflow runs dispatched for the tag
          Payload,      \* names of a candidate's assets, the receipt apart
          MaxReleases   \* bound: releases ever created

ASSUME ServiceConfig == MaxReleases \in Nat \ {0}

VARIABLES
  releases,  \* releases[id]: the run its notes name, draft flag, assets
  listed,    \* the IDs the release listing and the tag lookup of gh show
  tag        \* what refs/tags/<release tag> points to

serviceVars == <<releases, listed, tag>>

Receipt == "release-result.json"
Names == Payload \cup {Receipt}
Ids == DOMAIN releases

Missing == <<"missing">>
Starter == <<"starter">>   \* an upload that never became "uploaded"
Foreign == <<"foreign">>   \* bytes of somebody else

NoAssets == [n \in Names |-> Missing]

ServiceInit == releases = <<>> /\ listed = {} /\ tag = "none"

\* POST releases: a draft whose notes name the run.
CreateDraft(run) ==
  /\ Len(releases) < MaxReleases
  /\ releases' = Append(releases,
                        [run |-> run, draft |-> TRUE, assets |-> NoAssets])
  /\ UNCHANGED <<listed, tag>>

SetAsset(id, name, content) ==
  /\ releases' = [releases EXCEPT ![id].assets[name] = content]
  /\ UNCHANGED <<listed, tag>>

Undraft(id) ==
  /\ releases' = [releases EXCEPT ![id].draft = FALSE]
  /\ UNCHANGED <<listed, tag>>

\* POST git/refs never moves an existing ref.
CreateRef ==
  /\ tag' = IF tag = "none" THEN "exact" ELSE tag
  /\ UNCHANGED <<releases, listed>>

(***************************************************************************)
(* What happens without the job.                                           *)
(***************************************************************************)

\* The listing catches up.
ListRelease ==
  /\ \E id \in Ids \ listed : listed' = listed \cup {id}
  /\ UNCHANGED <<releases, tag>>

\* Somebody pushes the tag, annotated or on another commit.
PushForeignTag ==
  /\ tag = "none"
  /\ tag' = "wrong"
  /\ UNCHANGED <<releases, listed>>

\* Somebody adds an asset to the draft.
AddForeignAsset ==
  \E id \in Ids, name \in Names :
    /\ releases[id].draft
    /\ releases[id].assets[name] = Missing
    /\ SetAsset(id, name, Foreign)
=============================================================================
