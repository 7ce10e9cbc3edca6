------------------------------- MODULE UpgradeDB -------------------------------
(***************************************************************************)
(* The commands of b7-upgrade that change the controller's database:       *)
(* upgrade-db (upgradedb.go) and clean-db (cleandb.go), run one after the  *)
(* other by an operator, for real (--live) or as a dry run, on a database  *)
(* that a beta 7 controller has left behind.                               *)
(*                                                                         *)
(* Every stage reads its documents and computes a transaction in one step, *)
(* and runs the transaction in the next. The process may fail between any  *)
(* two steps and in the middle of a transaction, which then stays pending  *)
(* in the database until some later run completes it. The juju agents are  *)
(* stopped; what they left unfinished is in the database already.          *)
(***************************************************************************)
EXTENDS ControllerOps, MovedDocs, References, FiniteSets

CONSTANTS
  B7States,   \* the databases an operator may have: records [db, txns]
  MaxRuns     \* bound on the number of commands the operator gives

Collections ==
  {"annotations", "applications", "assignUnits", "charms", "cleanups", "clouds",
   "cloudCredentials", "cloudimagemetadata", "constraints", "controllers",
   "controllerusers", "endpointbindings", "ip.addresses", "ipaddresses",
   "leases", "linklayerdevices", "machines", "migrations", "modelEntityRefs",
   "models", "modelusers", "permissions", "providerIDs", "refcounts",
   "relations", "resources", "sequence", "services", "settings",
   "settingsrefs", "spaces", "statuses", "statuseshistory",
   "storageconstraints", "storageinstances", "subnets", "units",
   "usermodelname", "users"}

\* A database of beta 7 knows no controller UUID, and the transactions its
\* agents left behind neither record one nor make controller settings.
ASSUME B7Assumption ==
  \A s \in B7States :
    /\ DOMAIN s.db = Collections
    /\ RecordedUUIDs(s.db) = {}
    /\ <<"controllerSettings">> \notin DOMAIN s.db["controllers"]
    /\ \A t \in s.txns : /\ t.done \subseteq t.ops
                         /\ t.applying \in BOOLEAN
                         /\ \A op \in t.ops : op.c \in Collections
                         /\ Neutral(t.ops)

\* The controller has a model with an owner and a cloud, and the transactions
\* its agents left behind change neither that nor the credentials of the model.
\* The agents know nothing of the documents that 2.0 keeps the credentials in.
ASSUME ControllerAssumption ==
  \A s \in B7States :
    LET names == Credentials(ControllerContext(s.db).cloud)
    IN  /\ \A p \in Landmarks(s.db) : Filled(s.db, p)
        /\ \A t \in s.txns : \A op \in t.ops :
             /\ \A p \in Landmarks(s.db) : Spares(op, p)
             /\ \A name \in names : Spares(op, SettingAt(s.db, name))
             /\ \A name \in names \ LXDCerts :
                  LET p == SavedAt(s.db, name) IN ~Touches(op, p[1], p[2])

\* A database as beta 7 leaves it: no applications, the services with all their
\* documents, and no more than one prefix to a provider id.
Consistent(d) ==
  /\ DOMAIN d["applications"] = {}
  /\ ServicesComplete(d)
  /\ \A c \in Provided : \A id \in DOMAIN d[c] : PrefixedOnce(d[c][id])

\* The operations leave it so.
Sparing(O) == \A op \in O : SparesServices(op) /\ SparesProviderIDs(op)

\* The databases found are consistent, and no service was being made, upgraded or
\* destroyed when the agents were stopped.
ASSUME ConsistencyAssumption ==
  \A s \in B7States : Consistent(s.db) /\ \A t \in s.txns : Sparing(t.ops)

\* Nothing stands where the upgrade moves a document to: beta 7 has no such ids.
\* A sequence is kept under the model that it names, and no document that is moved
\* was being changed when the agents were stopped, but for the number of units.
ASSUME HomesAssumption ==
  \A s \in B7States :
    /\ \A id \in ServiceSequences(s.db) :
         GetStringField(s.db["sequence"][id], "model-uuid") = ModelOf(id)
    /\ \A mv \in Moves(s.db) :
         /\ mv.old \in DOMAIN s.db[mv.from]
         /\ mv.new \notin DOMAIN s.db[mv.to]
         /\ \A t \in s.txns : Stays(t.ops, mv)

\* Every unit, relation, resource and reference of a model names services that are
\* there, and so does what the agents were writing when they were stopped. They
\* know nothing of applications.
ASSUME ReferencesAssumption ==
  \A s \in B7States :
    /\ \A c \in Referring : \A id \in DOMAIN s.db[c] :
         SaysServices(c, s.db[c][id]) /\ NamesServices(s.db, c, id, s.db[c][id])
    /\ \A t \in s.txns : \A op \in t.ops :
         KeepsNames(s.db, op) /\ (op.c \in Referring => SaysServices(op.c, op.set))

ASSUME MaxRunsAssumption == MaxRuns \in Nat

VARIABLES
  \* what survives the process
  db,        \* the juju database
  txns,      \* the transactions that were started and not completed
  certs,     \* the LXD certificates saved under /etc/juju, by setting
  indexes,   \* the generations of indexes that exist
  tools,     \* the agent binaries in the tools storage
  \* the process
  pc,        \* the stage about to be taken, "idle" between two commands
  cmd,       \* the command running, or the last one
  live,      \* the --live flag of that command
  uuid,      \* the controller UUID it generated: the number of the run
  context,   \* what dbUpgradeContext remembers of updateController
  ops,       \* the operations handed to RunTransaction
  inTxn,     \* whether RunTransaction has been called
  exit,      \* how the last command ended
  \* history, never read by an action
  b7         \* the database as the operator found it

disk == <<db, txns, certs, indexes, tools>>
vars == <<disk, pc, cmd, live, uuid, context, ops, inTxn, exit, b7>>

-----------------------------------------------------------------------------
(* The stages of the commands, in the order upgradeDB,                     *)
(* renameServiceToApplication and otherSchemaUpgrades call them.           *)

NoContext == [cloud |-> "", owner |-> ""]

FirstStage == [c \in {"upgrade-db", "clean-db"} |->
                 IF c = "upgrade-db" THEN "upgradePrecheck" ELSE "removeCleanups"]

Follows ==
  [upgradePrecheck           |-> "repairTxnQueue",
   repairTxnQueue            |-> "resumeTransactions",
   resumeTransactions        |-> "clearModelQueues",
   clearModelQueues          |-> "dropIndexes",
   dropIndexes               |-> "updateController",
   updateController          |-> "updateModels",
   updateModels              |-> "moveServices",
   moveServices              |-> "updateUnits",
   updateUnits               |-> "updateSequences",
   updateSequences           |-> "updateLeases",
   updateLeases              |-> "updateModelEntityRefs",
   updateModelEntityRefs     |-> "updateRelations",
   updateRelations           |-> "updateResources",
   updateResources           |-> "annotations",
   annotations               |-> "constraints",
   constraints               |-> "endpointbindings",
   endpointbindings          |-> "settings",
   settings                  |-> "statuses",
   statuses                  |-> "statusHistory",
   statusHistory             |-> "dropServices",
   dropServices              |-> "dropSettingsRefs",
   dropSettingsRefs          |-> "dropIPAddresses",
   dropIPAddresses           |-> "upgradeCharms",
   upgradeCharms             |-> "upgradeUsers",
   upgradeUsers              |-> "upgradeModelUsers",
   upgradeModelUsers         |-> "upgradeMachines",
   upgradeMachines           |-> "upgradeCloudImageMetadata",
   upgradeCloudImageMetadata |-> "upgradeSpaces",
   upgradeSpaces             |-> "upgradeSubnets",
   upgradeSubnets            |-> "upgradeLinkLayerDevices",
   upgradeLinkLayerDevices   |-> "upgradeIPAddresses",
   upgradeIPAddresses        |-> "updateAgentTools",
   updateAgentTools          |-> "reopenState",
   reopenState               |-> "openTools",
   openTools                 |-> "dropBlobIndex",
   dropBlobIndex             |-> "addTools",
   addTools                  |-> "done",
   removeCleanups            |-> "done"]

Stages == DOMAIN Follows

\* A mistake: the transactions of others are not resumed.
NextStageWithoutResume(stage) ==
  CASE ~live /\ stage = "upgradePrecheck"  -> "dropIndexes"
    [] ~live /\ stage = "updateAgentTools" -> "done"
    [] stage = "repairTxnQueue"            -> "clearModelQueues"
    [] OTHER                               -> Follows[stage]

\* A mistake: one of the collections is forgotten.
NextStageWithoutRelations(stage) ==
  CASE ~live /\ stage = "upgradePrecheck"  -> "dropIndexes"
    [] ~live /\ stage = "updateAgentTools" -> "done"
    [] stage = "updateModelEntityRefs"     -> "updateResources"
    [] OTHER                               -> Follows[stage]

\* A dry run leaves the transaction queues alone and does not reopen the
\* database.
NextStage(stage) ==
  CASE ~live /\ stage = "upgradePrecheck"  -> "dropIndexes"
    [] ~live /\ stage = "updateAgentTools" -> "done"
    [] OTHER -> Follows[stage]

At(stage) == pc = stage /\ ~inTxn

\* The command ends.
Exit(how) ==
  /\ pc' = "idle"
  /\ exit' = how
  /\ context' = NoContext
  /\ ops' = {}
  /\ inTxn' = FALSE
  /\ UNCHANGED <<cmd, live, uuid, b7>>

\* The stage is done; after the last one the command succeeds.
Continue ==
  IF NextStage(pc) = "done"
  THEN Exit("ok")
  ELSE /\ pc' = NextStage(pc)
       /\ ops' = {}
       /\ inTxn' = FALSE
       /\ UNCHANGED <<cmd, live, uuid, context, exit, b7>>

\* The stage has read the database and calls RunTransaction with O.
Reads(stage, O) ==
  /\ At(stage)
  /\ ops' = O
  /\ inTxn' = TRUE
  /\ UNCHANGED <<disk, pc, cmd, live, uuid, context, exit, b7>>

-----------------------------------------------------------------------------
Init ==
  /\ \E s \in B7States : /\ db = s.db
                         /\ txns = s.txns
                         /\ b7 = s.db
  /\ certs = NoDoc
  /\ indexes = {"b7", "blobstore"}
  /\ tools = {"2.0-beta7"}
  /\ pc = "idle" /\ cmd = "clean-db" /\ live = FALSE /\ uuid = 0
  /\ context = NoContext /\ ops = {} /\ inTxn = FALSE /\ exit = "none"

\* The operator gives a command. upgradeDB generates a controller UUID.
Start(command, forReal) ==
  /\ pc = "idle"
  /\ uuid < MaxRuns
  /\ pc' = FirstStage[command]
  /\ cmd' = command
  /\ live' = forReal
  /\ uuid' = uuid + 1
  /\ exit' = "running"
  /\ UNCHANGED <<disk, context, ops, inTxn, b7>>

-----------------------------------------------------------------------------
(* upgradePrecheck and cleanTxnQueue                                       *)

MustBeEmpty == {"assignUnits", "cleanups", "migrations", "ipaddresses", "storageinstances"}

UpgradePrecheck ==
  /\ At("upgradePrecheck")
  /\ IF \A c \in MustBeEmpty : DOMAIN db[c] = {} THEN Continue ELSE Exit("error")
  /\ UNCHANGED disk

\* d with the transaction queues of the given documents of c emptied.
ClearQueues(d, c, ids) ==
  [d EXCEPT ![c] = [id \in DOMAIN d[c] |->
     IF id \in ids THEN d[c][id] ++ Field("txn-queue", {}) ELSE d[c][id]]]

RepairTxnQueue ==
  /\ At("repairTxnQueue")
  /\ IF <<"apiHostPorts">> \in DOMAIN db["controllers"]
     THEN /\ db' = ClearQueues(db, "controllers", {<<"apiHostPorts">>})
          /\ Continue
     ELSE db' = db /\ Exit("error")
  /\ UNCHANGED <<txns, certs, indexes, tools>>

\* A pending transaction is carried out, or dropped if its assertions fail.
Complete(t) ==
  /\ txns' = txns \ {t}
  /\ db' = IF t.applying THEN Apply(db, t.ops \ t.done)
           ELSE IF Asserted(db, t.ops) THEN Apply(db, t.ops) ELSE db
  /\ UNCHANGED <<certs, indexes, tools>>

ResumeTransaction(t) ==
  /\ At("resumeTransactions")
  /\ IF Stuck(db, t.ops)
     THEN Exit("error") /\ UNCHANGED disk
     ELSE Complete(t) /\ UNCHANGED <<pc, cmd, live, uuid, context, ops, inTxn, exit, b7>>

NothingToResume ==
  /\ At("resumeTransactions")
  /\ txns = {}
  /\ Continue
  /\ UNCHANGED disk

ClearModelQueues ==
  /\ At("clearModelQueues")
  /\ db' = ClearQueues(db, "models", DOMAIN db["models"])
  /\ Continue
  /\ UNCHANGED <<txns, certs, indexes, tools>>

\* The errors of DropIndexName are ignored here, so any index may stay.
DropIndexes ==
  /\ At("dropIndexes")
  /\ \E dropped \in SUBSET {"b7", "2.0"} :
       indexes' = IF live THEN indexes \ dropped ELSE indexes
  /\ Continue
  /\ UNCHANGED <<db, txns, certs, tools>>

-----------------------------------------------------------------------------
(* RunTransaction: a dry run does nothing. A live run first completes the  *)
(* pending transactions on the same documents, then tests the assertions,  *)
(* then applies the operations.                                            *)

Shares(t) == \E op \in ops, q \in t.ops : Touches(q, op.c, op.id)

\* The transaction that has been recorded before anything is tested.
Recorded == [ops |-> ops, done |-> {}, applying |-> FALSE]

\* RunTransaction stops at a document whose txn-queue cannot be followed. The
\* transaction stays recorded.
StopAtQueue ==
  /\ Exit("error")
  /\ txns' = txns \cup {Recorded}
  /\ UNCHANGED <<db, certs, indexes, tools>>

DryRunTransaction ==
  /\ inTxn /\ ~live
  /\ Continue
  /\ UNCHANGED disk

FlushTransaction(t) ==
  /\ inTxn /\ live
  /\ Shares(t)
  /\ IF Stuck(db, t.ops)
     THEN StopAtQueue
     ELSE Complete(t) /\ UNCHANGED <<pc, cmd, live, uuid, context, ops, inTxn, exit, b7>>

CanRun == inTxn /\ live /\ ~\E t \in txns : Shares(t)

Commit ==
  /\ CanRun
  /\ ~Stuck(db, ops)
  /\ Asserted(db, ops)
  /\ db' = Apply(db, ops)
  /\ Continue
  /\ UNCHANGED <<txns, certs, indexes, tools>>

\* A mistake: the error of RunTransaction is not looked at.
AbortIgnored ==
  /\ CanRun
  /\ ~Stuck(db, ops)
  /\ ~Asserted(db, ops)
  /\ Continue
  /\ UNCHANGED disk

\* A mistake: a transaction that is refused is run again.
AbortRetried ==
  /\ CanRun
  /\ ~Stuck(db, ops)
  /\ ~Asserted(db, ops)
  /\ UNCHANGED vars

Abort ==
  /\ CanRun
  /\ ~Stuck(db, ops)
  /\ ~Asserted(db, ops)
  /\ Exit("aborted")
  /\ UNCHANGED disk

StuckTransaction ==
  /\ CanRun
  /\ Stuck(db, ops)
  /\ StopAtQueue

-----------------------------------------------------------------------------
(* updateController and updateModels                                       *)

\* The LXD certificates are written to disk before the transaction; a setting
\* that is missing panics.
UpdateController ==
  /\ At("updateController")
  /\ \/ /\ ~FindsController(db)
        /\ Exit("error")
        /\ UNCHANGED disk
     \/ /\ FindsController(db)
        /\ ControllerContext(db).cloud \notin Clouds
        /\ Exit("error")
        /\ UNCHANGED disk
     \/ /\ FindsController(db)
        /\ ControllerContext(db).cloud \in Clouds
        /\ ~HasSettingsOf(db, ControllerContext(db).cloud)
        /\ Exit("panic")
        /\ UNCHANGED disk
     \/ /\ FindsController(db)
        /\ ControllerContext(db).cloud \in Clouds
        /\ HasSettingsOf(db, ControllerContext(db).cloud)
        /\ context' = ControllerContext(db)
        /\ certs' = IF live /\ ControllerContext(db).cloud = "lxd"
                    THEN LXDCertFiles(db) ELSE certs
        /\ ops' = UpdateControllerOps(db, uuid)
        /\ inTxn' = TRUE
        /\ UNCHANGED <<db, txns, indexes, tools, pc, cmd, live, uuid, exit, b7>>

UpdateModels == Reads("updateModels", UpdateModelsOps(db, uuid, context))

-----------------------------------------------------------------------------
(* renameServiceToApplication                                              *)

MoveServices ==
  IF ServicesSplit(db) /\ FindsStorageConstraints(db)
  THEN Reads("moveServices", MoveServicesOps(db))
  ELSE At("moveServices") /\ Exit("error") /\ UNCHANGED disk

UpdateUnits == Reads("updateUnits", UpdateUnitsOps(db))

UpdateSequences == Reads("updateSequences", UpdateSequencesOps(db))

UpdateLeases ==
  IF \E id \in DOMAIN db["leases"] : RenamedLease(db["leases"][id])
  THEN At("updateLeases") /\ Exit("error") /\ UNCHANGED disk
  ELSE Reads("updateLeases", UpdateLeasesOps(db))

UpdateModelEntityRefs == Reads("updateModelEntityRefs", UpdateModelEntityRefsOps(db))

UpdateRelations == Reads("updateRelations", UpdateRelationsOps(db))

UpdateResources == Reads("updateResources", UpdateResourcesOps(db))

\* updateCollectionIDGlobalKey; the stages are named after their collection.
UpdateCollectionIDGlobalKey(c) == Reads(c, GlobalKeyOps(db, c, KeyName(c)))

\* One document at a time and without a transaction.
UpdateStatusHistory ==
  /\ At("statusHistory")
  /\ IF live /\ StaleHistory(db) # {}
     THEN /\ \E id \in StaleHistory(db) : db' = Apply(db, {HistoryUpdate(db, id)})
          /\ UNCHANGED <<pc, cmd, live, uuid, context, ops, inTxn, exit, b7>>
     ELSE db' = db /\ Continue
  /\ UNCHANGED <<txns, certs, indexes, tools>>

\* A mistake: the dry run drops them too.
DropCollectionAlways(stage, c) ==
  /\ At(stage)
  /\ db' = [db EXCEPT ![c] = NoDoc]
  /\ Continue
  /\ UNCHANGED <<txns, certs, indexes, tools>>

\* The collections whose contents have moved are dropped one after the other.
DropCollection(stage, c) ==
  /\ At(stage)
  /\ db' = IF live THEN [db EXCEPT ![c] = NoDoc] ELSE db
  /\ Continue
  /\ UNCHANGED <<txns, certs, indexes, tools>>

DropServices     == DropCollection("dropServices", "services")
DropSettingsRefs == DropCollection("dropSettingsRefs", "settingsrefs")
DropIPAddresses  == DropCollection("dropIPAddresses", "ipaddresses")

RenameServiceToApplication ==
  \/ MoveServices \/ UpdateUnits \/ UpdateSequences \/ UpdateLeases
  \/ UpdateModelEntityRefs \/ UpdateRelations \/ UpdateResources
  \/ \E c \in GlobalKeyed : UpdateCollectionIDGlobalKey(c)
  \/ UpdateStatusHistory
  \/ DropServices \/ DropSettingsRefs \/ DropIPAddresses

-----------------------------------------------------------------------------
(* otherSchemaUpgrades and updateAgentTools                                *)

UpgradeCharms     == Reads("upgradeCharms", UpgradeCharmsOps(db))
UpgradeUsers      == Reads("upgradeUsers", UpgradeUsersOps(db))
UpgradeModelUsers == Reads("upgradeModelUsers", UpgradeModelUsersOps(db))
UpgradeMachines   == Reads("upgradeMachines", UpgradeMachinesOps(db))
UpgradeCloudImageMetadata ==
  Reads("upgradeCloudImageMetadata", UpgradeCloudImageMetadataOps(db))
UpgradeSpaces  == Reads("upgradeSpaces", ProviderIDOps(db, "spaces", "space"))
UpgradeSubnets == Reads("upgradeSubnets", ProviderIDOps(db, "subnets", "subnet"))
UpgradeLinkLayerDevices ==
  Reads("upgradeLinkLayerDevices", ProviderIDOps(db, "linklayerdevices", "linklayerdevice"))
UpgradeIPAddresses ==
  Reads("upgradeIPAddresses", ProviderIDOps(db, "ip.addresses", "address"))
UpdateAgentTools == Reads("updateAgentTools", UpdateAgentToolsOps(db))

OtherSchemaUpgrades ==
  \/ UpgradeCharms \/ UpgradeUsers \/ UpgradeModelUsers \/ UpgradeMachines
  \/ UpgradeCloudImageMetadata \/ UpgradeSpaces \/ UpgradeSubnets
  \/ UpgradeLinkLayerDevices \/ UpgradeIPAddresses \/ UpdateAgentTools

-----------------------------------------------------------------------------
(* openDBusingState and addTwoZeroBinariesToDB, of live runs only          *)

ReopenState ==
  /\ At("reopenState")
  /\ indexes' = indexes \cup {"2.0"}
  /\ Continue
  /\ UNCHANGED <<db, txns, certs, tools>>

\* The path of the tools file is only now found to be wrong.
OpenTools ==
  /\ At("openTools")
  /\ Continue \/ Exit("error")
  /\ UNCHANGED disk

\* Unlike DropIndexes this stage fails when its index is not there.
DropBlobIndex ==
  /\ At("dropBlobIndex")
  /\ IF "blobstore" \in indexes
     THEN indexes' = indexes \ {"blobstore"} /\ Continue
     ELSE indexes' = indexes /\ Exit("error")
  /\ UNCHANGED <<db, txns, certs, tools>>

\* Storing the tarball creates the index of its chunks again.
AddTools ==
  /\ At("addTools")
  /\ tools' = tools \cup {AgentVersion}
  /\ indexes' = indexes \cup {"blobstore"}
  /\ Continue
  /\ UNCHANGED <<db, txns, certs>>

AddTwoZeroBinariesToDB == ReopenState \/ OpenTools \/ DropBlobIndex \/ AddTools

-----------------------------------------------------------------------------
(* clean-db: without cleanups no transaction is run.                       *)
RemoveCleanups ==
  IF DOMAIN db["cleanups"] # {}
  THEN Reads("removeCleanups", RemoveCleanupsOps(db))
  ELSE At("removeCleanups") /\ Continue /\ UNCHANGED disk

-----------------------------------------------------------------------------
(* The process is killed or loses the database. Within RunTransaction the  *)
(* transaction stays behind, with its assertions still to be tested or     *)
(* with some of its operations carried out.                                *)

Fail ==
  /\ pc # "idle"
  /\ Exit("failed")
  /\ UNCHANGED disk

FailBeforeApply ==
  /\ inTxn /\ live
  /\ Exit("failed")
  /\ txns' = txns \cup {Recorded}
  /\ UNCHANGED <<db, certs, indexes, tools>>

FailWhileApplying ==
  /\ CanRun
  /\ ~Stuck(db, ops)
  /\ Asserted(db, ops)
  /\ Exit("failed")
  /\ \E done \in Cuts(ops) :
       /\ db' = Apply(db, done)
       /\ txns' = txns \cup {[ops |-> ops, done |-> done, applying |-> TRUE]}
  /\ UNCHANGED <<certs, indexes, tools>>

-----------------------------------------------------------------------------
RunTransaction ==
  \/ DryRunTransaction \/ Commit \/ Abort \/ StuckTransaction
  \/ \E t \in txns : FlushTransaction(t)

\* A step of the command that is running.
Step ==
  \/ UpgradePrecheck \/ RepairTxnQueue \/ NothingToResume
  \/ \E t \in txns : ResumeTransaction(t)
  \/ ClearModelQueues \/ DropIndexes
  \/ UpdateController \/ UpdateModels
  \/ RenameServiceToApplication \/ OtherSchemaUpgrades
  \/ AddTwoZeroBinariesToDB
  \/ RemoveCleanups
  \/ RunTransaction

Failure == Fail \/ FailBeforeApply \/ FailWhileApplying

\* The operator has given up.
Finished ==
  /\ pc = "idle"
  /\ uuid = MaxRuns
  /\ UNCHANGED vars

Next ==
  \/ \E command \in DOMAIN FirstStage, forReal \in BOOLEAN : Start(command, forReal)
  \/ Step
  \/ Failure
  \/ Finished

Spec == Init /\ [][Next]_vars

\* A command keeps running until it ends; nothing makes the operator give one.
FairSpec == Spec /\ WF_vars(Step)
=============================================================================
