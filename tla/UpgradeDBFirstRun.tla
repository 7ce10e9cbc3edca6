--------------------------- MODULE UpgradeDBFirstRun ---------------------------
(***************************************************************************)
(* The inductive invariant behind OnlyRepeatedRunsAbort.                   *)
(*                                                                         *)
(* Every stage asserts something of the documents it has not read: that    *)
(* nothing stands where it will put one. A live upgrade that is the first  *)
(* finds the database as accommodating as beta 7 left it, and none of its  *)
(* stages takes what a later one claims.                                   *)
(***************************************************************************)
EXTENDS UpgradeDBReferences

-----------------------------------------------------------------------------
(* What the assertions of the stages ask of a database d.                  *)

ModelsFit(d) ==
  /\ \A id \in DOMAIN d["models"] :
       /\ id = <<id[1]>>
       /\ ModelSettingsID(id[1]) \in DOMAIN d["settings"]
       /\ <<"e", id[1], "us", AdminUser>> \notin DOMAIN d["permissions"]
  /\ <<AdminUser, "admin">> \in DOMAIN d["usermodelname"]
  /\ <<AdminUser, "controller">> \notin DOMAIN d["usermodelname"]

ServicesFit(d) ==
  /\ \A id \in DOMAIN d["services"] :
       /\ id = <<id[1], id[2]>>
       /\ id \notin DOMAIN d["applications"]
       /\ OldConstraintID(id) \in DOMAIN d["storageconstraints"]
       /\ NewConstraintID(id, CharmURL(d["services"][id])) \notin DOMAIN d["storageconstraints"]
  /\ DOMAIN d["refcounts"] = {}

\* A unit is kept under the model and the name that it has.
KeptByName(id, doc) ==
  Has(doc, "model-uuid") /\ Has(doc, "name") /\ id = <<doc["model-uuid"], doc["name"]>>

\* Of the ids of statuses only those of workload versions have six parts.
UnitsFit(d) ==
  /\ \A id \in DOMAIN d["units"] : KeptByName(id, d["units"][id])
  /\ \A id \in DOMAIN d["statuses"] : 6 \notin DOMAIN id

\* The four stages that reserve provider ids, and what each calls its entities.
Reserving == {"upgradeSpaces", "upgradeSubnets", "upgradeLinkLayerDevices", "upgradeIPAddresses"}

Kind(c) ==
  CASE c = "spaces"           -> "space"
    [] c = "subnets"          -> "subnet"
    [] c = "linklayerdevices" -> "linklayerdevice"
    [] c = "ip.addresses"     -> "address"

ReservedID(c, doc) ==
  DocID(doc["model-uuid"], <<Kind(c)>> \o LocalID(doc["providerid"]))

\* No two entities reserve the same id, also those of different stages.
ProvidersFit(d) ==
  \A c, k \in Provided : \A id \in Prefixed(d, c), other \in Prefixed(d, k) :
    /\ ReservedID(c, d[c][id]) \notin DOMAIN d["providerIDs"]
    /\ ReservedID(c, d[c][id]) = ReservedID(k, d[k][other]) => c = k /\ id = other

\* The transactions that read no other documents than those they rename.
Rekeying(d, stage) ==
  CASE stage = "updateSequences"           -> UpdateSequencesOps(d)
    [] stage = "updateLeases"              -> UpdateLeasesOps(d)
    [] stage = "upgradeCloudImageMetadata" -> UpgradeCloudImageMetadataOps(d)
    [] OTHER                               -> GlobalKeyOps(d, stage, KeyName(stage))

\* The stages whose assertions may fail.
Claiming ==
  {"updateModels", "moveServices", "updateUnits", "updateSequences", "updateLeases",
   "upgradeCloudImageMetadata"} \cup GlobalKeyed \cup Reserving

Fit(d, stage) ==
  CASE stage = "updateModels"  -> ModelsFit(d)
    [] stage = "moveServices"  -> ServicesFit(d)
    [] stage = "updateUnits"   -> UnitsFit(d)
    [] stage \in Reserving     -> ProvidersFit(d)
    [] OTHER                   -> Asserted(d, Rekeying(d, stage))

-----------------------------------------------------------------------------
(* What the agents had left to do when they were stopped.                  *)

\* The operation takes nothing that a stage will claim.
Unobtrusive(op) ==
  /\ op.c \notin {"models", "usermodelname", "storageconstraints", "refcounts", "sequence",
                  "leases", "cloudimagemetadata", "providerIDs"} \cup Provided
  /\ SparesServices(op)
  /\ op.c = "permissions" => op.id[1] # "e"
  /\ op.c \in GlobalKeyed /\ 2 \in DOMAIN op.id => op.id[2] \notin {"s", "a"}
  /\ op.c = "settings" => op.change # "remove"
  /\ op.c = "statuses" => 6 \notin DOMAIN op.id
  /\ op.c = "units" =>
       /\ op.change = "insert" => KeptByName(op.id, op.set)
       /\ op.change = "update" => {"model-uuid", "name"} \cap (op.unset \cup DOMAIN op.set) = {}

\* The collections that only updateController writes.
Founded == {"clouds", "cloudCredentials", "controllerusers"}

SparesFounded(O) == \A op \in O : op.c \notin Founded

\* The database found is one that accepts the transactions of a first run, as far as
\* the documents that beta 7 makes decide, and remains so whatever transactions of the
\* agents are completed. Images are left out: two models may cache the same.
ASSUME FirstRunAssumption ==
  \A s \in B7States :
    /\ \A stage \in Claiming \ {"upgradeCloudImageMetadata"} : Fit(s.db, stage)
    /\ ControllerContext(s.db).cloud \in Clouds =>
         HasSettingsOf(s.db, ControllerContext(s.db).cloud)
    /\ \A c \in Founded : DOMAIN s.db[c] = {}
    /\ \A t \in s.txns : SparesFounded(t.ops) /\ \A op \in t.ops : Unobtrusive(op)

\* No two models have cached the metadata of the same image.
ImagesApart(d) == Fit(d, "upgradeCloudImageMetadata")

-----------------------------------------------------------------------------
\* The operations take no credential of the controller model, and nothing else that
\* a stage will want.
Discreet(O) ==
  \A op \in O :
    /\ Unobtrusive(op)
    /\ \A s \in FoundCredentials : Spares(op, SettingAt(b7, s))

\* The UUID of a command is new until updateController has recorded it.
FreshUUID ==
  pc # "idle" /\ ~(live /\ pc \in AfterController) =>
    /\ uuid \notin RecordedUUIDs(db)
    /\ \A t \in txns : \A op \in t.ops : uuid \notin OpUUIDs(op)

\* The stages whose transaction the database that was found accepts.
Accepted == {stage \in Claiming : Fit(b7, stage)}

\* As long as no controller is recorded, the database still accepts them, has the
\* credentials that updateController reads, and has nothing that it makes unless its
\* transaction is half carried out.
NothingClaimed ==
  RecordedUUIDs(db) = {} =>
    /\ \A stage \in Accepted : Fit(db, stage)
    /\ \A s \in FoundCredentials : Filled(db, SettingAt(b7, s))
    /\ \A t \in txns : Discreet(t.ops)

NothingFounded ==
  RecordedUUIDs(db) = {} =>
    /\ \/ \A c \in Founded : DOMAIN db[c] = {}
       \/ \E t \in txns : \E u \in Runs : t.applying /\ Founds(t.ops, u)
    /\ \A t \in txns : SparesFounded(t.ops) \/ \E u \in Runs : Founds(t.ops, u)

\* To a live upgrade past updateController what a stage claims is left until it comes.
ClaimsWait ==
  Done("updateController") => \A stage \in Accepted : Done(stage) \/ Fit(db, stage)

\* clean-db asserts nothing.
CleansFreely ==
  inTxn /\ pc = "removeCleanups" => \A op \in ops : op.c = "cleanups" /\ op.assert = "none"

\* The inductive invariant.
FirstRunInv == FreshUUID /\ NothingClaimed /\ NothingFounded /\ ClaimsWait /\ CleansFreely
=============================================================================
