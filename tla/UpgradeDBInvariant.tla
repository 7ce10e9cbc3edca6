--------------------------- MODULE UpgradeDBInvariant ---------------------------
(***************************************************************************)
(* The inductive invariant behind ControllerUUIDAgrees, UUIDIsPermanent    *)
(* and OneRunMigrates.                                                     *)
(*                                                                         *)
(* The controller settings are the seat of the identity: updateController  *)
(* founds it (its transaction asserts that they are missing), updateModels *)
(* joins it. A transaction of either kind that fails stays pending, so the *)
(* invariant also follows the transactions that may yet be completed.      *)
(***************************************************************************)
EXTENDS UpgradeDBProperties

Runs == 0..MaxRuns

\* The stages that only a live upgrade reaches.
LiveStages ==
  {"repairTxnQueue", "resumeTransactions", "clearModelQueues", "reopenState",
   "openTools", "dropBlobIndex", "addTools"}

\* The inductive invariant behind TypeOK and DryRunChangesNothing: a command
\* runs transactions within a stage, and a dry run skips the live stages.
ProcessInv ==
  /\ TypeOK
  /\ inTxn => pc \in Stages
  /\ pc \in LiveStages => live

\* The operations record no UUID but u, and the controller settings they may
\* make have one.
Records(O, u) ==
  \A op \in O :
    /\ OpUUIDs(op) \subseteq {u}
    /\ KeepsUUIDs(op)
    /\ IsFounding(op) => Has(op.set, "controller-uuid") /\ op.assert = "d-"

\* updateController: makes the controller settings, leaves the models alone.
Founds(O, u) ==
  /\ Records(O, u)
  /\ \A op \in O : op.c # "models"
  /\ \E op \in O : IsFounding(op)

\* updateModels: relies on the controller settings.
Joins(O, u) ==
  /\ Records(O, u)
  /\ \A op \in O : ~IsFounding(op)

\* The controller settings of d name u.
Seated(d, u) ==
  /\ <<"controllerSettings">> \in DOMAIN d["controllers"]
  /\ Has(d["controllers"][<<"controllerSettings">>], "controller-uuid")
  /\ d["controllers"][<<"controllerSettings">>]["controller-uuid"] = u

AfterResume ==
  Stages \ {"upgradePrecheck", "repairTxnQueue", "resumeTransactions", "removeCleanups"}

\* A live upgrade has completed the transactions of others before its own.
NothingPending == live /\ pc \in AfterResume => txns = {}

\* Past updateController the settings name the run.
OwnSeat == live /\ pc \in AfterController => Seated(db, uuid)

\* The stages that run a transaction which has nothing to do with the identity.
Reading == Stages \ (LiveStages \cup {"updateController", "updateModels"})

\* Which transactions are at hand.
OpsKind ==
  inTxn => \/ pc \in Reading /\ Neutral(ops)
           \/ pc = "updateController" /\ Founds(ops, uuid)
           \/ pc = "updateModels" /\ Joins(ops, uuid)

TxnsKind ==
  \A t \in txns :
    \/ Neutral(t.ops)
    \/ \E u \in Runs : Founds(t.ops, u)
    \/ \E u \in Runs : Joins(t.ops, u) /\ Seated(db, u)

\* At most one pending transaction has to do with the identity.
OneIdentityTxn ==
  \A s, t \in txns : Neutral(s.ops) \/ Neutral(t.ops) \/ s = t

\* A founding transaction that is half carried out owns what is recorded, and
\* makes the settings sooner or later.
HalfFounded ==
  \A t \in txns : \A u \in Runs :
    t.applying /\ Founds(t.ops, u) =>
      /\ RecordedUUIDs(db) \subseteq {u}
      /\ Seated(db, u) \/ \E op \in t.ops \ t.done : IsFounding(op)

\* Whatever is recorded is what the settings say, or will say.
RecordedBySettings ==
  \/ RecordedUUIDs(db) = {}
  \/ \E u \in Runs : Seated(db, u) /\ RecordedUUIDs(db) \subseteq {u}
  \/ \E t \in txns : \E u \in Runs : t.applying /\ Founds(t.ops, u)

SettingsNamed ==
  <<"controllerSettings">> \in DOMAIN db["controllers"] =>
    Has(db["controllers"][<<"controllerSettings">>], "controller-uuid")

ModelsSeated == \A u \in FieldValues(db["models"], "controller-uuid") : Seated(db, u)

\* What the database and the pending transactions say of the identity.
IdentityKept ==
  /\ TxnsKind /\ OneIdentityTxn /\ HalfFounded
  /\ RecordedBySettings /\ SettingsNamed /\ ModelsSeated

\* What a running command relies on: a live upgrade has the database for itself,
\* and past updateController the settings name its own UUID.
IdentityOwned == NothingPending /\ OwnSeat /\ OpsKind

\* The inductive invariant.
IdentityInv == ProcessInv /\ IdentityKept /\ IdentityOwned

-----------------------------------------------------------------------------
(* The refinement mapping from the database and the process of UpgradeDB   *)
(* to what SchemaUpgrade promises of them.                                 *)

TheUUID(d) == IF RecordedUUIDs(d) = {} THEN 0 ELSE CHOOSE u \in RecordedUUIDs(d) : TRUE

ModelUUIDs(d) ==
  [id \in DOMAIN d["models"] |->
     IF Has(d["models"][id], "controller-uuid") THEN d["models"][id]["controller-uuid"] ELSE 0]

Promised ==
  INSTANCE SchemaUpgrade WITH
    controller <- TheUUID(db),
    models     <- ModelUUIDs(db),
    runs       <- uuid,
    busy       <- pc # "idle",
    live       <- live,
    outcome    <- IF pc # "idle" THEN "running"
                  ELSE IF exit = "ok" /\ cmd = "upgrade-db" /\ live THEN "upgraded"
                  ELSE "stopped"

\* upgrade-db and clean-db implement SchemaUpgrade: one identity, given once,
\* which every model joins before a run reports success.
KeepsPromise == Promised!Spec

-----------------------------------------------------------------------------
(* What the refinement needs besides IdentityInv.                          *)

\* The UUIDs that the operations record are those of runs there have been.
GivenBy(O) == \A op \in O : OpUUIDs(op) \subseteq 1..uuid

UUIDsGiven ==
  /\ RecordedUUIDs(db) \subseteq 1..uuid
  /\ \A t \in txns : GivenBy(t.ops)
  /\ GivenBy(ops)
  /\ pc # "idle" => uuid # 0

AfterModels == AfterController \ {"updateModels"}

\* The operations have every model of d join a controller, and make no model.
JoinsModels(d, O) ==
  /\ \A op \in O : op.c = "models" => op.change = "update" /\ Has(op.set, "controller-uuid")
  /\ \A id \in DOMAIN d["models"] : \E op \in O : op.c = "models" /\ op.id = id

\* Past updateModels every model has joined, and no transaction touches one.
ModelsJoined ==
  /\ live /\ pc = "updateModels" /\ inTxn => JoinsModels(db, ops)
  /\ live /\ pc \in AfterModels =>
       /\ \A id \in DOMAIN db["models"] : Has(db["models"][id], "controller-uuid")
       /\ inTxn => \A op \in ops : op.c # "models"

\* What clean-db reports is no success of an upgrade.
CleanupsOfCleanDB == pc = "removeCleanups" => cmd = "clean-db"

PromiseInv == UUIDsGiven /\ ModelsJoined /\ CleanupsOfCleanDB

-----------------------------------------------------------------------------
(* What keeps the credentials.                                             *)

\* The controller model, its owner and its cloud are what they were.
LandmarksStay ==
  \A p \in Landmarks(b7) : Filled(db, p) /\ ValueAt(db, p) = ValueAt(b7, p)

\* A setting that is still there is as it was found.
SettingsAsFound ==
  \A s \in FoundCredentials : Filled(db, SettingAt(b7, s)) => InPlace(SettingAt(b7, s), s)

\* An operation removes a setting only if it has been saved.
RemovesSaved(op, s) ==
  Touches(op, "settings", SettingAt(b7, s)[2]) /\ op.change = "update" =>
    /\ s \notin DOMAIN op.set
    /\ s \in op.unset => Saved(s)

Inserts(op, p) == Touches(op, p[1], p[2]) /\ op.change = "insert"

\* It makes the document that saves a setting with the value that was found,
\* unless that has been saved by another.
SavesFound(op, s) ==
  LET p == SavedAt(b7, s)
  IN  Touches(op, p[1], p[2]) =>
        /\ op.change = "insert"
        /\ \/ Saved(s)
           \/ Has(op.set, p[3]) /\ op.set[p[3]] = ValueAt(b7, SettingAt(b7, s))

Careful(O) ==
  \A op \in O :
    /\ \A p \in Landmarks(b7) : Spares(op, p)
    /\ \A s \in FoundCredentials : RemovesSaved(op, s)
    /\ \A s \in FoundCredentials \ LXDCerts : SavesFound(op, s)

AllCareful ==
  /\ \A t \in txns : Careful(t.ops)
  /\ live /\ inTxn => Careful(ops)

\* The transaction of updateController saves what is not saved yet.
SavesInTime ==
  live /\ inTxn /\ pc = "updateController" =>
    \A s \in FoundCredentials :
      \/ Saved(s)
      \/ /\ s \notin LXDCerts
         /\ \E op \in ops : Inserts(op, SavedAt(b7, s)) /\ op.assert = "d-"

\* Past updateController everything is saved.
SavedInTime == live /\ pc \in AfterController => \A s \in FoundCredentials : Saved(s)

\* The inductive invariant behind CredentialsKept.
CredentialsInv ==
  /\ LandmarksStay /\ SettingsAsFound /\ CredentialsKept
  /\ AllCareful /\ SavesInTime /\ SavedInTime
=============================================================================
