-------------------------------- MODULE Upgrade --------------------------------
(***************************************************************************)
(* From the registry to the runtime: checks search for a newer tag of one       *)
(* container (TagSearch), users apply what they are offered (Recreate), and the *)
(* next check works with the tag that then runs.  Checks and updates overlap.  *)
(***************************************************************************)
EXTENDS TagSearch, Recreate

CONSTANTS
    It,           \* the container whose tag is searched for
    Starts        \* pairs of a world and a plan

vars == <<searchVars, recreateVars>>

TypeOK == SearchTypeOK /\ RecreateTypeOK

ASSUME UpgradeAssumption == It \in Names /\ Images = Tags

(***************************************************************************)
(* The row has the tag that runs at first.                                 *)
(***************************************************************************)
ASSUME StartsAssumption ==
    \A start \in Starts : /\ start.world \in Worlds /\ start.plan \in Plans
                          /\ start.world.tag = start.plan.image

Init ==
    /\ SearchInit /\ RecreateInit
    /\ \E start \in Starts :
         /\ plan = start.plan
         /\ hub = start.world.hub /\ tag = start.world.tag /\ list = start.world.list
         /\ set = SettingsOf(start.world) /\ pushes = start.world.pushes

------------------------------------------------------------------------------
(***************************************************************************)
(* An update of the container applies the latest_tag of the row it loads, if    *)
(* that has has_update; those of the other containers pull their image again.  *)
(***************************************************************************)
Offered == IF offer.latest = None THEN tag ELSE offer.latest

Apply(u) ==
    /\ IF Target(u) = It THEN offer.has /\ Begin(u, Offered) ELSE Begin(u, plan.image)
    /\ UNCHANGED searchVars

Row(image, has) ==
    /\ tag' = image /\ offer' = [offer EXCEPT !.has = has]
    /\ UNCHANGED <<hub, set, list, pushes, search>>

(***************************************************************************)
(* A successful update takes has_update from the row; the tag that runs goes    *)
(* into it when the containers could be listed, unless the update loaded that   *)
(* tag already.  latest_tag is the one it loaded.                           *)
(***************************************************************************)
Succeed(u) ==
    /\ Report(u)
    /\ IF Target(u) = It
       THEN \E image \in {tag} \cup (IF known' = known THEN {} ELSE {runtime[It].image}) :
              Row(image, FALSE)
       ELSE UNCHANGED searchVars

(***************************************************************************)
(* A sync writes the tag that runs, and takes has_update away when the digest   *)
(* that runs is the latest one (UpdateRules).                               *)
(***************************************************************************)
Sync ==
    /\ SyncIds
    /\ IF runtime[It] = NoOne THEN Row(tag, offer.has)
       ELSE \E has \in {offer.has, FALSE} : Row(runtime[It].image, has)

Next ==
    \/ SearchNext /\ UNCHANGED recreateVars
    \/ \E u \in Updates : Apply(u) \/ Succeed(u)
    \/ \E u \in Updates : WorkStep(u) /\ UNCHANGED searchVars
    \/ Sync

Spec == Init /\ [][Next]_vars

------------------------------------------------------------------------------
(***************************************************************************)
(* auto keeps a tag with two numbers or more to its major version              *)
(* (registry_service.py:356): through any number of searches and updates, of    *)
(* which some fail, are overtaken or see part of a list, a container that may   *)
(* only ever be checked by auto, minor or patch stays in the major version and *)
(* with the suffix it started with.                                         *)
(***************************************************************************)
Cautious ==
    \A own \in set.choices : Resolved(own, set.host).strategy \in {"auto", "minor", "patch"}

LineKept ==
    Cautious /\ Len(Release(plan.image)) >= 2 /\ runtime[It] # NoOne =>
        /\ Major(runtime[It].image) = Major(plan.image)
        /\ runtime[It].image.suffix = plan.image.suffix

==============================================================================
