---------------------------- MODULE UpgradeDBStages ----------------------------
(***************************************************************************)
(* The inductive invariant behind OkMeansUpgraded.                         *)
(*                                                                         *)
(* A live upgrade past updateController is the only one there will be, so  *)
(* it finds the documents as beta 7 left them, has the database for itself *)
(* and runs the transactions it read for. A collection gets the form of    *)
(* 2.0 in one stage, and no later stage touches what that has made; units  *)
(* and machines get theirs in two (UnitsMoved, ContainersLeft). Where the  *)
(* documents are that move, UpgradeDBHomes says.                           *)
(***************************************************************************)
EXTENDS UpgradeDBInvariant

\* The place of a stage in upgrade-db.
Rank ==
  [removeCleanups            |->  0, upgradePrecheck         |->  1,
   repairTxnQueue            |->  2, resumeTransactions      |->  3,
   clearModelQueues          |->  4, dropIndexes             |->  5,
   updateController          |->  6, updateModels            |->  7,
   moveServices              |->  8, updateUnits             |->  9,
   updateSequences           |-> 10, updateLeases            |-> 11,
   updateModelEntityRefs     |-> 12, updateRelations         |-> 13,
   updateResources           |-> 14, annotations             |-> 15,
   constraints               |-> 16, endpointbindings        |-> 17,
   settings                  |-> 18, statuses                |-> 19,
   statusHistory             |-> 20, dropServices            |-> 21,
   dropSettingsRefs          |-> 22, dropIPAddresses         |-> 23,
   upgradeCharms             |-> 24, upgradeUsers            |-> 25,
   upgradeModelUsers         |-> 26, upgradeMachines         |-> 27,
   upgradeCloudImageMetadata |-> 28, upgradeSpaces           |-> 29,
   upgradeSubnets            |-> 30, upgradeLinkLayerDevices |-> 31,
   upgradeIPAddresses        |-> 32, updateAgentTools        |-> 33,
   reopenState               |-> 34, openTools               |-> 35,
   dropBlobIndex             |-> 36, addTools                |-> 37]

\* How far the command has got: a successful upgrade is past all its stages.
Progress == IF Succeeded THEN 38 ELSE IF pc = "idle" THEN 0 ELSE Rank[pc]

\* A live upgrade is past the stage.
Done(stage) == live /\ Progress > Rank[stage]

\* The late stages that write without a transaction, and those that run one.
Writing ==
  {"statusHistory", "dropServices", "dropSettingsRefs", "dropIPAddresses",
   "reopenState", "openTools", "dropBlobIndex", "addTools"}

Transacting == (AfterController \ Writing) \cup {"updateController", "removeCleanups"}

Running == (pc # "idle" => exit = "running") /\ (inTxn => pc \in Transacting)

\* As long as no controller is recorded, the database is as beta 7 left it.
StillConsistent ==
  RecordedUUIDs(db) = {} =>
    /\ Consistent(db)
    /\ \A t \in txns : Sparing(t.ops)
    /\ live /\ inTxn => Sparing(ops)

\* The operations are those that the stage has read the database for.
ReadFor ==
  /\ pc = "updateController" =>
       ops = UpdateControllerOps(db, uuid) /\ context = ControllerContext(db)
  /\ pc = "updateModels" => ops = UpdateModelsOps(db, uuid, context)
  /\ pc = "moveServices" => ops = MoveServicesOps(db)
  /\ pc = "updateUnits" => ops = UpdateUnitsOps(db)
  /\ pc = "updateSequences" => ops = UpdateSequencesOps(db)
  /\ pc = "updateLeases" => ops = UpdateLeasesOps(db)
  /\ pc = "updateModelEntityRefs" => ops = UpdateModelEntityRefsOps(db)
  /\ pc = "updateRelations" => ops = UpdateRelationsOps(db)
  /\ pc = "updateResources" => ops = UpdateResourcesOps(db)
  /\ pc \in GlobalKeyed => ops = GlobalKeyOps(db, pc, KeyName(pc))
  /\ pc = "upgradeCharms" => ops = UpgradeCharmsOps(db)
  /\ pc = "upgradeUsers" => ops = UpgradeUsersOps(db)
  /\ pc = "upgradeModelUsers" => ops = UpgradeModelUsersOps(db)
  /\ pc = "upgradeMachines" => ops = UpgradeMachinesOps(db)
  /\ pc = "upgradeCloudImageMetadata" => ops = UpgradeCloudImageMetadataOps(db)
  /\ pc = "upgradeSpaces" => ops = ProviderIDOps(db, "spaces", "space")
  /\ pc = "upgradeSubnets" => ops = ProviderIDOps(db, "subnets", "subnet")
  /\ pc = "upgradeLinkLayerDevices" =>
       ops = ProviderIDOps(db, "linklayerdevices", "linklayerdevice")
  /\ pc = "upgradeIPAddresses" => ops = ProviderIDOps(db, "ip.addresses", "address")
  /\ pc = "updateAgentTools" => ops = UpdateAgentToolsOps(db)

InHand == live /\ inTxn /\ pc # "removeCleanups" => ReadFor

-----------------------------------------------------------------------------
(* What each stage leaves behind.                                          *)

\* updateModels finds its cloud and its credential in the database.
ContextKnown ==
  live /\ pc = "updateModels" =>
    /\ <<context.cloud>> \in DOMAIN db["clouds"]
    /\ CredentialID(context.cloud, context.owner) \in DOMAIN db["cloudCredentials"]

Told(doc) ==
  /\ Has(doc, "controller-uuid")
  /\ <<doc["cloud"]>> \in DOMAIN db["clouds"]
  /\ doc["cloud-credential"] \in DOMAIN db["cloudCredentials"]

ModelsTold == Done("updateModels") => \A id \in DOMAIN db["models"] : Told(db["models"][id])

\* The services wait for moveServices.
ServicesWait ==
  Done("updateController") /\ ~Done("moveServices") =>
    DOMAIN db["applications"] = {} /\ ServicesComplete(db)

\* Every application has its storage constraints at once, and its other documents
\* under the key of a service until their collection is renamed.
ApplicationsFollow ==
  Done("moveServices") =>
    \A id \in DOMAIN db["applications"] :
      LET charm == CharmURL(db["applications"][id])
      IN  /\ NewConstraintID(id, charm) \in DOMAIN db["storageconstraints"]
          /\ \A c \in ApplicationKeyed :
               KeyedDoc(c, IF Done(c) THEN "a" ELSE "s", id, charm) \in DOMAIN db[c]

\* The stage after which a collection is as 2.0 wants it.
StageOf(c) ==
  CASE c \in GlobalKeyed          -> c
    [] c = "sequence"             -> "updateSequences"
    [] c = "leases"               -> "updateLeases"
    [] c = "modelEntityRefs"      -> "updateModelEntityRefs"
    [] c = "relations"            -> "updateRelations"
    [] c = "resources"            -> "updateResources"
    [] c = "statuseshistory"      -> "statusHistory"
    [] c = "services"             -> "dropServices"
    [] c = "settingsrefs"         -> "dropSettingsRefs"
    [] c = "ipaddresses"          -> "dropIPAddresses"
    [] c = "charms"               -> "upgradeCharms"
    [] c = "users"                -> "upgradeUsers"
    [] c = "modelusers"           -> "upgradeModelUsers"
    [] c = "spaces"               -> "upgradeSpaces"
    [] c = "subnets"              -> "upgradeSubnets"
    [] c = "linklayerdevices"     -> "upgradeLinkLayerDevices"
    [] c = "ip.addresses"         -> "upgradeIPAddresses"
    [] c \in {"machines", "units"} -> "updateAgentTools"

Renewed ==
  GlobalKeyed \cup Provided
    \cup {"sequence", "leases", "modelEntityRefs", "relations", "resources",
          "statuseshistory", "services", "settingsrefs", "ipaddresses",
          "charms", "users", "modelusers", "machines", "units"}

\* A collection of d as 2.0 wants it.
IsNew(d, c) ==
  CASE c \in GlobalKeyed      -> ServiceKeyed(d, c) = {}
    [] c \in Provided         -> Prefixed(d, c) = {}
    [] c = "sequence"         -> ServiceSequences(d) = {}
    [] c = "leases"           -> ServiceLeases(d) = {}
    [] c = "modelEntityRefs"  -> NoneHas(d, c, {"services"})
    [] c = "relations"        -> EndpointsRenamed(d)
    [] c = "resources"        -> NoneHas(d, c, {"service-id", "env-uuid"})
    [] c = "statuseshistory"  -> StaleHistory(d) = {}
    [] c \in {"services", "settingsrefs", "ipaddresses"} -> DOMAIN d[c] = {}
    [] c = "charms"           -> CharmsAlive(d)
    [] c = "users"            -> NoneHas(d, c, {"deactivated"})
    [] c = "modelusers"       -> UsersOfObjects(d)
    [] c \in {"machines", "units"} ->
         \A id \in DOMAIN d[c] : GetStringField(d[c][id], "tools.version") = AgentVersion

RenewedByStage == \A c \in Renewed : Done(StageOf(c)) => IsNew(db, c)

\* The provider ids wait for their stage.
ProviderIDsWait ==
  Done("updateController") =>
    \A c \in Provided : ~Done(StageOf(c)) =>
      \A id \in DOMAIN db[c] : PrefixedOnce(db[c][id])

UnitsMoved ==
  Done("updateUnits") =>
    /\ NoneHas(db, "units", {"service", "ports", "privateaddress", "publicaddress"})
    /\ \A id \in DOMAIN db["units"] : WorkloadStatusID(db["units"][id]) \in DOMAIN db["statuses"]

ContainersLeft == Done("upgradeMachines") => LXCGone(db)

Opened ==
  /\ Done("reopenState") => "2.0" \in indexes
  /\ Succeeded => AgentVersion \in tools /\ "blobstore" \in indexes
  /\ Succeeded => txns = {} /\ RecordedUUIDs(db) = {uuid}

\* The inductive invariant.
StagesInv ==
  /\ Running /\ StillConsistent /\ InHand
  /\ ContextKnown /\ ModelsTold
  /\ ServicesWait /\ ApplicationsFollow
  /\ RenewedByStage /\ ProviderIDsWait
  /\ UnitsMoved /\ ContainersLeft /\ Opened
=============================================================================
