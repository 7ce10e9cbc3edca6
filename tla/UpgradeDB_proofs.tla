--------------------------- MODULE UpgradeDB_proofs ---------------------------
(***************************************************************************)
(* What holds of upgrade-db and clean-db for every database of beta 7 and  *)
(* every number of runs. First the laws of transactions: what one does to  *)
(* a document, for every database and every set of operations; which       *)
(* collections those of upgrade-db and clean-db are about; and which of    *)
(* them have to do with the identity of the controller: only those of      *)
(* updateController and updateModels. Then the steps of the stages, the    *)
(* types, and the promise of the dry run. Then the identity of the         *)
(* controller: all documents name one, a UUID that has been recorded       *)
(* stays, and only the run that it belongs to migrates documents. They     *)
(* implement SchemaUpgrade: the steps of the many stages are a handful of  *)
(* kinds, and each kind is a step of the abstract specification or leaves  *)
(* its variables alone. And they lose no credential of the controller      *)
(* model: along the same kinds of steps, no operation at hand or pending   *)
(* removes one that has not been saved.                                    *)
(***************************************************************************)
EXTENDS UpgradeDBInvariant, TLAPS

\* A transaction makes and drops no collection, and leaves the collections
\* alone that none of its operations is about.
LEMMA ApplyElsewhere ==
  ASSUME NEW d, NEW O
  PROVE  /\ DOMAIN Apply(d, O) = DOMAIN d
         /\ \A c \in DOMAIN d : (\A op \in O : op.c # c) => Apply(d, O)[c] = d[c]
  BY DEF Apply, On

\* The ids of a collection after the transaction.
LEMMA ApplyIDs ==
  ASSUME NEW d, NEW O, NEW c \in DOMAIN d
  PROVE  /\ \A id \in DOMAIN Apply(d, O)[c] :
              \/ id \in DOMAIN d[c]
              \/ \E op \in O : op.c = c /\ op.id = id /\ op.change = "insert"
         /\ \A id \in DOMAIN d[c] :
              \/ id \in DOMAIN Apply(d, O)[c]
              \/ \E op \in O : op.c = c /\ op.id = id /\ op.change = "remove"
         /\ \A op \in O :
              op.c = c /\ op.change = "insert" =>
                \/ op.id \in DOMAIN Apply(d, O)[c]
                \/ \E q \in O : q.c = c /\ q.id = op.id /\ q.change = "remove"
<1>1. CASE On(O, c) = {}
  BY <1>1 DEF Apply, On
<1>2. CASE On(O, c) # {}
  <2>1. Apply(d, O)[c] = ApplyTo(d[c], On(O, c))
    BY <1>2 DEF Apply
  <2>2. DOMAIN Apply(d, O)[c] =
          (DOMAIN d[c] \cup {op.id : op \in {o \in On(O, c) : o.change = "insert"}})
            \ {op.id : op \in {o \in On(O, c) : o.change = "remove"}}
    BY <2>1 DEF ApplyTo
  <2> QED
    BY <2>2 DEF On
<1> QED
  BY <1>1, <1>2

\* A document that some of the operations update is what one of them makes of it.
LEMMA ApplyUpdate ==
  ASSUME NEW d, NEW O, NEW c \in DOMAIN d, NEW id \in DOMAIN Apply(d, O)[c],
         id \in DOMAIN d[c], NEW op \in O, op.c = c, op.id = id, op.change = "update"
  PROVE  \E o \in O : /\ o.c = c /\ o.id = id /\ o.change = "update"
                        /\ Apply(d, O)[c][id] = Without(d[c][id], o.unset) ++ o.set
<1> DEFINE mine == On(O, c)
           chosen == CHOOSE o \in mine : o.id = id /\ o.change = "update"
<1>1. op \in mine
  BY DEF On
<1>2. chosen \in mine /\ chosen.id = id /\ chosen.change = "update"
  BY <1>1, Zenon
<1>3. Apply(d, O)[c] = ApplyTo(d[c], mine)
  BY <1>1 DEF Apply
<1>4. Apply(d, O)[c][id] = Changed(d[c], id, mine)
  BY <1>3 DEF ApplyTo
<1>5. Apply(d, O)[c][id] = Without(d[c][id], chosen.unset) ++ chosen.set
  BY <1>1, <1>4 DEF Changed
<1> QED
  BY <1>2, <1>5 DEF On

\* A document after the transaction is as it was, or updated by one of the
\* operations, or what one of the operations inserted.
LEMMA ApplyDoc ==
  ASSUME NEW d, NEW O, NEW c \in DOMAIN d, NEW id \in DOMAIN Apply(d, O)[c]
  PROVE  \/ id \in DOMAIN d[c] /\ Apply(d, O)[c][id] = d[c][id]
         \/ /\ id \in DOMAIN d[c]
            /\ \E op \in O :
                 /\ op.c = c /\ op.id = id /\ op.change = "update"
                 /\ Apply(d, O)[c][id] = Without(d[c][id], op.unset) ++ op.set
         \/ /\ id \notin DOMAIN d[c]
            /\ \E op \in O : /\ op.c = c /\ op.id = id /\ op.change = "insert"
                               /\ Apply(d, O)[c][id] = op.set
<1> DEFINE mine == On(O, c)
<1>1. CASE mine = {}
  BY <1>1 DEF Apply
<1>2. CASE mine # {}
  <2>1. Apply(d, O)[c] = ApplyTo(d[c], mine)
    BY <1>2 DEF Apply
  <2>2. Apply(d, O)[c][id] = Changed(d[c], id, mine)
    BY <2>1 DEF ApplyTo
  <2>3. CASE id \notin DOMAIN d[c]
    <3>1. PICK op \in O : op.c = c /\ op.id = id /\ op.change = "insert"
      BY <2>3, ApplyIDs
    <3>2. \E o \in mine : o.id = id /\ o.change = "insert"
      BY <3>1 DEF On
    <3> DEFINE chosen == CHOOSE o \in mine : o.id = id /\ o.change = "insert"
    <3>3. chosen \in mine /\ chosen.id = id /\ chosen.change = "insert"
      BY <3>2, Zenon
    <3>4. Apply(d, O)[c][id] = chosen.set
      BY <2>2, <2>3 DEF Changed
    <3> QED
      BY <2>3, <3>3, <3>4 DEF On
  <2>4. CASE id \in DOMAIN d[c] /\ \E o \in mine : o.id = id /\ o.change = "update"
    <3>1. PICK o \in O : o.c = c /\ o.id = id /\ o.change = "update"
      BY <2>4 DEF On
    <3> QED
      BY <2>4, <3>1, ApplyUpdate
  <2>5. CASE id \in DOMAIN d[c] /\ ~\E o \in mine : o.id = id /\ o.change = "update"
    BY <2>2, <2>5 DEF Changed
  <2> QED
    BY <2>3, <2>4, <2>5
<1> QED
  BY <1>1, <1>2

-----------------------------------------------------------------------------
\* The operations stay within the given collections.
About(O, cs) == \A op \in O : op.c \in cs

\* A rename is about the collections it moves from and to.
LEMMA MoveOpsAbout ==
  ASSUME NEW from, NEW old, NEW to, NEW new, NEW doc
  PROVE  About(MoveOps(from, old, to, new, doc), {from, to})
  BY DEF MoveOps, About, RemoveOp, InsertOp

\* moveDocsFromServicesToApplications
LEMMA MoveServicesAbout ==
  ASSUME NEW d
  PROVE  About(MoveServicesOps(d),
               {"services", "applications", "storageconstraints", "refcounts"})
<1>1. \A id : About(MoveServiceOps(d, id), {"services", "applications", "storageconstraints"})
  BY MoveOpsAbout DEF MoveServiceOps, About
<1>2. \A key, doc : InsertOp("refcounts", key, doc, <<>>).c = "refcounts"
  BY DEF InsertOp
<1> QED
  BY <1>1, <1>2 DEF MoveServicesOps, About

\* updateUnits, updateModelEntityRefs, updateRelations, updateResources
LEMMA UpdateAllAbout ==
  ASSUME NEW d
  PROVE  /\ About(UpdateUnitsOps(d), {"units", "statuses"})
         /\ About(UpdateModelEntityRefsOps(d), {"modelEntityRefs"})
         /\ About(UpdateRelationsOps(d), {"relations"})
         /\ About(UpdateResourcesOps(d), {"resources"})
<1>1. About(UpdateUnitsOps(d), {"units", "statuses"})
  BY DEF About, UpdateUnitsOps, UpdateAllOps, UpdateOp, InsertOp
<1>2. About(UpdateModelEntityRefsOps(d), {"modelEntityRefs"})
  BY DEF About, UpdateModelEntityRefsOps, UpdateAllOps, UpdateOp
<1>3. About(UpdateRelationsOps(d), {"relations"})
  BY DEF About, UpdateRelationsOps, UpdateAllOps, UpdateOp
<1>4. About(UpdateResourcesOps(d), {"resources"})
  BY DEF About, UpdateResourcesOps, UpdateAllOps, UpdateOp
<1> QED
  BY <1>1, <1>2, <1>3, <1>4

\* updateSequences, updateLeases, updateCollectionIDGlobalKey
LEMMA RekeyAbout ==
  ASSUME NEW d
  PROVE  /\ About(UpdateSequencesOps(d), {"sequence"})
         /\ About(UpdateLeasesOps(d), {"leases"})
         /\ \A c, keyName : About(GlobalKeyOps(d, c, keyName), {c})
         /\ About(UpgradeCloudImageMetadataOps(d), {"cloudimagemetadata"})
<1>1. About(UpdateSequencesOps(d), {"sequence"})
  BY MoveOpsAbout DEF About, UpdateSequencesOps
<1>2. About(UpdateLeasesOps(d), {"leases"})
  BY MoveOpsAbout DEF About, UpdateLeasesOps
<1>3. \A c, keyName : About(GlobalKeyOps(d, c, keyName), {c})
  BY MoveOpsAbout DEF About, GlobalKeyOps
<1>4. About(UpgradeCloudImageMetadataOps(d), {"cloudimagemetadata"})
  BY MoveOpsAbout DEF About, UpgradeCloudImageMetadataOps
<1> QED
  BY <1>1, <1>2, <1>3, <1>4

\* otherSchemaUpgrades, updateAgentTools, clean-db and the status history
LEMMA SchemaAbout ==
  ASSUME NEW d
  PROVE  /\ About(UpgradeCharmsOps(d), {"charms"})
         /\ About(UpgradeUsersOps(d), {"users"})
         /\ About(UpgradeModelUsersOps(d), {"modelusers"})
         /\ About(UpgradeMachinesOps(d), {"machines"})
         /\ \A c, kind : About(ProviderIDOps(d, c, kind), {c, "providerIDs"})
         /\ About(UpdateAgentToolsOps(d), {"machines", "units"})
         /\ About(RemoveCleanupsOps(d), {"cleanups"})
         /\ \A id : About({HistoryUpdate(d, id)}, {"statuseshistory"})
<1>1. About(UpgradeCharmsOps(d), {"charms"})
  BY DEF About, UpgradeCharmsOps, UpdateAllOps, UpdateOp
<1>2. About(UpgradeUsersOps(d), {"users"})
  BY DEF About, UpgradeUsersOps, UpdateAllOps, UpdateOp
<1>3. About(UpgradeModelUsersOps(d), {"modelusers"})
  BY DEF About, UpgradeModelUsersOps, UpdateAllOps, UpdateOp
<1>4. About(UpgradeMachinesOps(d), {"machines"})
  BY DEF About, UpgradeMachinesOps, UpdateAllOps, UpdateOp
<1>5. \A c, kind : About(ProviderIDOps(d, c, kind), {c, "providerIDs"})
  BY DEF About, ProviderIDOps, UpdateOp, InsertOp
<1>6. About(UpdateAgentToolsOps(d), {"machines", "units"})
  BY DEF About, UpdateAgentToolsOps, UpdateAllOps, UpdateOp
<1>7. About(RemoveCleanupsOps(d), {"cleanups"})
  BY DEF About, RemoveCleanupsOps, RemoveAnyOp, RemoveOp
<1>8. \A id : About({HistoryUpdate(d, id)}, {"statuseshistory"})
  BY DEF About, HistoryUpdate, UpdateOp
<1> QED
  BY <1>1, <1>2, <1>3, <1>4, <1>5, <1>6, <1>7, <1>8

\* updateController and updateModels
LEMMA ControllerAbout ==
  ASSUME NEW d, NEW u, NEW ctx
  PROVE  /\ About(UpdateControllerOps(d, u),
                  {"controllers", "clouds", "cloudCredentials", "permissions", "controllerusers"})
         /\ About(UpdateModelsOps(d, u, ctx),
                  {"models", "permissions", "settings", "usermodelname"})
<1>1. About(UpdateControllerOps(d, u),
            {"controllers", "clouds", "cloudCredentials", "permissions", "controllerusers"})
  BY DEF About, UpdateControllerOps, UpdateOp, InsertOp
<1>2. About(UpdateModelsOps(d, u, ctx), {"models", "permissions", "settings", "usermodelname"})
  <2>1. \A id : About(UpdateModelOps(d, id, u, ctx), {"models", "permissions", "settings"})
    BY DEF About, UpdateModelOps, UpdateOp, InsertOp
  <2>2. About(MoveOps("usermodelname", <<AdminUser, "admin">>,
                      "usermodelname", <<AdminUser, "controller">>, NoDoc),
              {"usermodelname"})
    BY MoveOpsAbout
  <2> QED
    BY <2>1, <2>2 DEF About, UpdateModelsOps
<1> QED
  BY <1>1, <1>2

\* Operations on other collections have nothing to do with the identity.
LEMMA AboutNeutral ==
  ASSUME NEW O, NEW cs, About(O, cs), cs \cap IdentityCollections = {}
  PROVE  Neutral(O)
  BY DEF About, Neutral, OpUUIDs, KeepsUUIDs, IsFounding, IdentityCollections
-----------------------------------------------------------------------------
\* The controller settings that updateController writes have the UUID of the
\* run and no other.
LEMMA ControllerSettingsUUID ==
  ASSUME NEW d, NEW u
  PROVE  LET set == CopyBsonDField(ControllerSettings(d, u))
         IN  /\ DOMAIN set \cap IdentityFields = {"controller-uuid"}
             /\ set["controller-uuid"] = u
<1> DEFINE info == d["controllers"][<<"stateServingInfo">>]
           f1 == Field("controller-uuid", u)
           f2 == Field("api-port", ReadBsonDField(info, "apiport"))
           f3 == Field("state-port", ReadBsonDField(info, "stateport"))
           f4 == Field("ca-cert", ReadBsonDField(ControllerModelSettings(d), "ca-cert"))
<1>1. /\ DOMAIN f1 = {"controller-uuid"} /\ f1["controller-uuid"] = u
      /\ DOMAIN f2 = {"api-port"} /\ DOMAIN f3 = {"state-port"} /\ DOMAIN f4 = {"ca-cert"}
  BY DEF Field
<1>2. ControllerSettings(d, u) = ((f1 ++ f2) ++ f3) ++ f4
  BY DEF ControllerSettings
<1> HIDE DEF f1, f2, f3, f4
<1>3. /\ DOMAIN (f1 ++ f2) = {"controller-uuid", "api-port"}
      /\ (f1 ++ f2)["controller-uuid"] = u
  BY <1>1 DEF ++
<1>4. /\ DOMAIN ((f1 ++ f2) ++ f3) = {"controller-uuid", "api-port", "state-port"}
      /\ ((f1 ++ f2) ++ f3)["controller-uuid"] = u
  BY <1>1, <1>3 DEF ++
<1>5. /\ DOMAIN (((f1 ++ f2) ++ f3) ++ f4)
           = {"controller-uuid", "api-port", "state-port", "ca-cert"}
      /\ (((f1 ++ f2) ++ f3) ++ f4)["controller-uuid"] = u
  BY <1>1, <1>4 DEF ++
<1> QED
  BY <1>2, <1>5 DEF CopyBsonDField, Without, IdentityFields

\* updateController founds the identity of the controller with the UUID of the
\* run.
LEMMA UpdateControllerFounds ==
  ASSUME NEW d, NEW u
  PROVE  Founds(UpdateControllerOps(d, u), u)
<1> DEFINE O == UpdateControllerOps(d, u)
           cloud == ControllerContext(d).cloud
           owner == ControllerContext(d).owner
           o1 == UpdateOp("controllers", <<"e">>, Field("cloud", cloud), {})
           o2 == InsertOp("clouds", <<cloud>>, CloudDoc(d, cloud), <<>>)
           o3 == InsertOp("cloudCredentials", CredentialID(cloud, owner),
                          CredentialDoc(d, cloud, owner), <<>>)
           o4 == InsertOp("controllers", <<"controllerSettings">>,
                          ControllerSettings(d, u), <<>>)
           o5 == InsertOp("permissions", <<"c", u, "us", AdminUser>>,
                          [access |-> "superuser", object |-> <<"c", u>>], <<>>)
           o6 == InsertOp("controllerusers", <<AdminUser>>,
                          Field("object-uuid", u) ++ Field("user", AdminUser), <<>>)
           ok(op) == /\ OpUUIDs(op) \subseteq {u}
                     /\ KeepsUUIDs(op)
                     /\ IsFounding(op) => Has(op.set, "controller-uuid") /\ op.assert = "d-"
                     /\ op.c # "models"
<1>1. O = {o1, o2, o3, o4, o5, o6}
  BY DEF UpdateControllerOps
<1>2. ok(o1)
  BY DEF UpdateOp, OpUUIDs, KeepsUUIDs, IsFounding, Field, IdentityFields
<1>3. ok(o2) /\ ok(o3)
  BY DEF InsertOp, OpUUIDs, KeepsUUIDs, IsFounding, IdentityCollections
<1>4. ok(o4) /\ IsFounding(o4)
  <2>1. /\ o4.c = "controllers" /\ o4.id = <<"controllerSettings">>
        /\ o4.change = "insert" /\ o4.assert = "d-" /\ o4.unset = {}
        /\ o4.set = CopyBsonDField(ControllerSettings(d, u))
    BY DEF InsertOp
  <2> HIDE DEF o4
  <2> QED
    BY <2>1, ControllerSettingsUUID DEF OpUUIDs, KeepsUUIDs, IsFounding, Has
<1>5. ok(o5)
  <2>1. /\ o5.c = "permissions" /\ o5.id = <<"c", u, "us", AdminUser>>
        /\ o5.change = "insert" /\ o5.unset = {}
        /\ o5.set = CopyBsonDField([access |-> "superuser", object |-> <<"c", u>>])
    BY DEF InsertOp
  <2>2. DOMAIN o5.set \cap IdentityFields = {}
    BY <2>1 DEF CopyBsonDField, Without, IdentityFields
  <2>3. o5.id[2] = u
    BY <2>1
  <2> HIDE DEF o5
  <2> QED
    BY <2>1, <2>2, <2>3 DEF OpUUIDs, KeepsUUIDs, IsFounding
<1>6. ok(o6)
  <2>1. /\ o6.c = "controllerusers" /\ o6.change = "insert" /\ o6.unset = {}
        /\ o6.set = CopyBsonDField(Field("object-uuid", u) ++ Field("user", AdminUser))
    BY DEF InsertOp
  <2>2. /\ DOMAIN (Field("object-uuid", u) ++ Field("user", AdminUser)) = {"object-uuid", "user"}
        /\ (Field("object-uuid", u) ++ Field("user", AdminUser))["object-uuid"] = u
    BY DEF Field, ++
  <2>3. /\ DOMAIN o6.set \cap IdentityFields = {"object-uuid"}
        /\ o6.set["object-uuid"] = u
    BY <2>1, <2>2 DEF CopyBsonDField, Without, IdentityFields
  <2> HIDE DEF o6
  <2> QED
    BY <2>1, <2>3 DEF OpUUIDs, KeepsUUIDs, IsFounding
<1> HIDE DEF o1, o2, o3, o4, o5, o6, O
<1> QED
  BY <1>1, <1>2, <1>3, <1>4, <1>5, <1>6 DEF Founds, Records, O

\* updateModels tells every model the UUID of the run, and makes no controller
\* settings.
LEMMA UpdateModelsJoins ==
  ASSUME NEW d, NEW u, NEW ctx
  PROVE  Joins(UpdateModelsOps(d, u, ctx), u)
<1> DEFINE ok(op) == /\ OpUUIDs(op) \subseteq {u}
                     /\ KeepsUUIDs(op)
                     /\ ~IsFounding(op)
<1>1. \A id : \A op \in UpdateModelOps(d, id, u, ctx) : ok(op)
  <2> TAKE id
  <2> DEFINE o1 == UpdateOp("models", id, ModelUpdates(d["models"][id], u, ctx),
                            {"server-uuid"})
             o2 == InsertOp("permissions", <<"e", id[1], "us", AdminUser>>,
                            [access |-> "admin", object |-> <<"e", id[1]>>], id)
             o3 == UpdateOp("settings", ModelSettingsID(id[1]), UpdatedSettings,
                            RemovedSettings(ctx.cloud))
  <2>1. ok(o1)
    <3> DEFINE named == IF GetStringField(d["models"][id], "name") = "admin"
                        THEN Field("name", "controller") ELSE NoDoc
               f1 == Field("cloud", ctx.cloud)
               f2 == Field("cloud-credential", CredentialID(ctx.cloud, ctx.owner))
               f3 == Field("controller-uuid", u)
    <3>1. /\ DOMAIN f1 = {"cloud"} /\ DOMAIN f2 = {"cloud-credential"}
          /\ DOMAIN f3 = {"controller-uuid"} /\ f3["controller-uuid"] = u
          /\ DOMAIN named \subseteq {"name"}
      BY DEF Field, NoDoc
    <3>2. ModelUpdates(d["models"][id], u, ctx) = ((f1 ++ f2) ++ f3) ++ named
      BY DEF ModelUpdates
    <3> HIDE DEF f1, f2, f3, named
    <3>3. /\ DOMAIN ((f1 ++ f2) ++ f3) = {"cloud", "cloud-credential", "controller-uuid"}
          /\ ((f1 ++ f2) ++ f3)["controller-uuid"] = u
      BY <3>1 DEF ++
    <3>4. /\ DOMAIN (((f1 ++ f2) ++ f3) ++ named) \cap IdentityFields = {"controller-uuid"}
          /\ (((f1 ++ f2) ++ f3) ++ named)["controller-uuid"] = u
      BY <3>1, <3>3 DEF IdentityFields, ++
    <3>5. /\ o1.c = "models" /\ o1.change = "update" /\ o1.unset = {"server-uuid"}
          /\ o1.set = ModelUpdates(d["models"][id], u, ctx)
      BY DEF UpdateOp
    <3> HIDE DEF o1
    <3> QED
      BY <3>2, <3>4, <3>5 DEF OpUUIDs, KeepsUUIDs, IsFounding, IdentityFields
  <2>2. ok(o2)
    <3>1. /\ o2.c = "permissions" /\ o2.id[1] = "e"
          /\ o2.change = "insert" /\ o2.unset = {}
          /\ o2.set = CopyBsonDField([access |-> "admin", object |-> <<"e", id[1]>>])
      BY DEF InsertOp
    <3>2. DOMAIN o2.set \cap IdentityFields = {}
      BY <3>1 DEF CopyBsonDField, Without, IdentityFields
    <3> HIDE DEF o2
    <3> QED
      BY <3>1, <3>2 DEF OpUUIDs, KeepsUUIDs, IsFounding
  <2>3. ok(o3)
    BY DEF UpdateOp, OpUUIDs, KeepsUUIDs, IsFounding, IdentityCollections
  <2> HIDE DEF ok, o1, o2, o3
  <2> QED
    BY <2>1, <2>2, <2>3 DEF UpdateModelOps, o1, o2, o3
<1>2. \A op \in MoveOps("usermodelname", <<AdminUser, "admin">>,
                        "usermodelname", <<AdminUser, "controller">>, NoDoc) : ok(op)
  BY MoveOpsAbout DEF About, OpUUIDs, KeepsUUIDs, IsFounding, IdentityCollections
<1> QED
  BY <1>1, <1>2 DEF UpdateModelsOps, Joins, Records

-----------------------------------------------------------------------------
(* Stages and their steps. *)


\* The order of the stages leads from stage to stage or to the end.
LEMMA FollowsType ==
  \A stage \in Stages : Follows[stage] \in Stages \cup {"done"}
  BY DEF Stages, Follows

LEMMA NextStageType ==
  ASSUME pc \in Stages
  PROVE  NextStage(pc) \in Stages \cup {"done"}
<1>1. "dropIndexes" \in Stages
  BY DEF Stages, Follows
<1> QED
  BY <1>1, FollowsType DEF NextStage

\* "idle" is no stage.
LEMMA IdleNoStage == "idle" \notin Stages
  BY DEF Stages, Follows

\* What updateController reads and what it and updateModels write, save for
\* the users.
CredentialCollections == {"controllers", "models", "settings", "clouds", "cloudCredentials"}

\* The operations are about other collections, or rename settings documents.
Elsewhere(d, O) ==
  \/ About(O, Collections \ CredentialCollections)
  \/ \E keyName : O = GlobalKeyOps(d, "settings", keyName)

\* The two kinds of steps most stages consist of: they read the database for a
\* transaction that leaves the identity of the controller alone, or they give up.
NeutralRead ==
  /\ \E stage \in Reading : Reads(stage, ops')
  /\ Neutral(ops')
  /\ About(ops', Collections \ IdentityCollections)
  /\ Elsewhere(db, ops')

GiveUp == pc \in Stages /\ ~inTxn /\ Exit("error") /\ UNCHANGED disk

Drop == DropServices \/ DropSettingsRefs \/ DropIPAddresses

\* One stage that reads.
LEMMA ReadsNeutral ==
  ASSUME NEW stage \in Reading, NEW O, NEW cs \in SUBSET Collections,
         About(O, cs), cs \cap IdentityCollections = {}, Reads(stage, O),
         \/ cs \cap CredentialCollections = {}
         \/ \E keyName : O = GlobalKeyOps(db, "settings", keyName)
  PROVE  NeutralRead
<1>1. /\ Neutral(O) /\ About(O, Collections \ IdentityCollections)
      /\ Elsewhere(db, O)
  BY AboutNeutral DEF About, Elsewhere
<1>2. ops' = O
  BY DEF Reads
<1> QED
  BY <1>1, <1>2 DEF NeutralRead, Reads

\* The stages of renameServiceToApplication.
LEMMA RenameSteps ==
  ASSUME RenameServiceToApplication
  PROVE  NeutralRead \/ GiveUp \/ UpdateStatusHistory \/ Drop
<1> USE DEF Reading, LiveStages, Stages, Follows, Collections, IdentityCollections,
            CredentialCollections
<1>1. ASSUME MoveServices PROVE NeutralRead \/ GiveUp
  BY <1>1, MoveServicesAbout, ReadsNeutral DEF MoveServices, GiveUp, At
<1>2. ASSUME UpdateUnits PROVE NeutralRead
  BY <1>2, UpdateAllAbout, ReadsNeutral DEF UpdateUnits
<1>3. ASSUME UpdateSequences PROVE NeutralRead
  BY <1>3, RekeyAbout, ReadsNeutral DEF UpdateSequences
<1>4. ASSUME UpdateLeases PROVE NeutralRead \/ GiveUp
  BY <1>4, RekeyAbout, ReadsNeutral DEF UpdateLeases, GiveUp, At
<1>5. ASSUME UpdateModelEntityRefs PROVE NeutralRead
  BY <1>5, UpdateAllAbout, ReadsNeutral DEF UpdateModelEntityRefs
<1>6. ASSUME UpdateRelations PROVE NeutralRead
  BY <1>6, UpdateAllAbout, ReadsNeutral DEF UpdateRelations
<1>7. ASSUME UpdateResources PROVE NeutralRead
  BY <1>7, UpdateAllAbout, ReadsNeutral DEF UpdateResources
<1>8. ASSUME NEW c \in GlobalKeyed, UpdateCollectionIDGlobalKey(c) PROVE NeutralRead
  <2>1. c \in Reading /\ {c} \in SUBSET Collections /\ {c} \cap IdentityCollections = {}
    BY DEF GlobalKeyed
  <2> DEFINE O == GlobalKeyOps(db, c, KeyName(c))
  <2>2. About(O, {c})
    BY RekeyAbout
  <2>3. Reads(c, O)
    BY <1>8 DEF UpdateCollectionIDGlobalKey
  <2>4. \/ {c} \cap CredentialCollections = {}
        \/ \E k : O = GlobalKeyOps(db, "settings", k)
    BY DEF GlobalKeyed
  <2> HIDE DEF O
  <2> QED
    BY <2>1, <2>2, <2>3, <2>4, ReadsNeutral
<1> QED
  BY <1>1, <1>2, <1>3, <1>4, <1>5, <1>6, <1>7, <1>8 DEF RenameServiceToApplication, Drop

\* The stages of otherSchemaUpgrades and updateAgentTools.
LEMMA SchemaSteps ==
  ASSUME OtherSchemaUpgrades
  PROVE  NeutralRead
<1> USE DEF Reading, LiveStages, Stages, Follows, Collections, IdentityCollections,
            CredentialCollections
<1>1. ASSUME UpgradeCharms PROVE NeutralRead
  BY <1>1, SchemaAbout, ReadsNeutral DEF UpgradeCharms
<1>2. ASSUME UpgradeUsers PROVE NeutralRead
  BY <1>2, SchemaAbout, ReadsNeutral DEF UpgradeUsers
<1>3. ASSUME UpgradeModelUsers PROVE NeutralRead
  BY <1>3, SchemaAbout, ReadsNeutral DEF UpgradeModelUsers
<1>4. ASSUME UpgradeMachines PROVE NeutralRead
  BY <1>4, SchemaAbout, ReadsNeutral DEF UpgradeMachines
<1>5. ASSUME UpgradeCloudImageMetadata PROVE NeutralRead
  BY <1>5, RekeyAbout, ReadsNeutral DEF UpgradeCloudImageMetadata
<1>6. ASSUME UpgradeSpaces PROVE NeutralRead
  <2>1. About(ProviderIDOps(db, "spaces", "space"), {"spaces", "providerIDs"})
    BY SchemaAbout
  <2> QED
    BY <1>6, <2>1, ReadsNeutral DEF UpgradeSpaces
<1>7. ASSUME UpgradeSubnets PROVE NeutralRead
  <2>1. About(ProviderIDOps(db, "subnets", "subnet"), {"subnets", "providerIDs"})
    BY SchemaAbout
  <2> QED
    BY <1>7, <2>1, ReadsNeutral DEF UpgradeSubnets
<1>8. ASSUME UpgradeLinkLayerDevices PROVE NeutralRead
  <2>1. About(ProviderIDOps(db, "linklayerdevices", "linklayerdevice"), {"linklayerdevices", "providerIDs"})
    BY SchemaAbout
  <2> QED
    BY <1>8, <2>1, ReadsNeutral DEF UpgradeLinkLayerDevices
<1>9. ASSUME UpgradeIPAddresses PROVE NeutralRead
  <2>1. About(ProviderIDOps(db, "ip.addresses", "address"), {"ip.addresses", "providerIDs"})
    BY SchemaAbout
  <2> QED
    BY <1>9, <2>1, ReadsNeutral DEF UpgradeIPAddresses
<1>10. ASSUME UpdateAgentTools PROVE NeutralRead
  BY <1>10, SchemaAbout, ReadsNeutral DEF UpdateAgentTools
<1> QED
  BY <1>1, <1>2, <1>3, <1>4, <1>5, <1>6, <1>7, <1>8, <1>9, <1>10 DEF OtherSchemaUpgrades

\* clean-db
LEMMA CleanupSteps ==
  ASSUME RemoveCleanups
  PROVE  NeutralRead \/ (At("removeCleanups") /\ Continue /\ UNCHANGED disk)
  BY SchemaAbout, ReadsNeutral DEF RemoveCleanups, Reading, LiveStages, Stages, Follows, Collections,
                                      IdentityCollections, CredentialCollections
-----------------------------------------------------------------------------
(* The types.                                                              *)

\* A command that ends leaves the process idle.
LEMMA ExitOK ==
  ASSUME ProcessOK, NEW how \in {"ok", "error", "aborted", "panic", "failed"}, Exit(how)
  PROVE  /\ ProcessOK'
         /\ pc' = "idle" /\ inTxn' = FALSE
  BY IdleNoStage DEF ProcessOK, Exit, NoContext

\* A stage is followed by a stage, by a live one only in a live upgrade, or by
\* the end of the command.
LEMMA ContinueOK ==
  ASSUME ProcessOK, pc \in Stages, pc \in LiveStages => live, Continue
  PROVE  /\ ProcessOK'
         /\ inTxn' = FALSE
         /\ pc' \in LiveStages => live'
<1>1. NextStage(pc) \in Stages \cup {"done"}
  BY NextStageType
<1>2. CASE NextStage(pc) = "done"
  <2>1. "idle" \notin LiveStages
    BY DEF LiveStages
  <2>2. Exit("ok")
    BY <1>2 DEF Continue
  <2> QED
    BY <2>1, <2>2, ExitOK
<1>3. CASE NextStage(pc) # "done"
  <2>1. /\ pc' = NextStage(pc) /\ ops' = {} /\ inTxn' = FALSE
        /\ UNCHANGED <<cmd, live, uuid, context, exit, b7>>
    BY <1>3 DEF Continue
  <2>2. NextStage(pc) \in LiveStages => live
    BY DEF NextStage, Stages, Follows, LiveStages
  <2> QED
    BY <1>1, <1>3, <2>1, <2>2 DEF ProcessOK
<1> QED
  BY <1>2, <1>3

\* Completing a transaction keeps the collections.
LEMMA CompleteOK ==
  ASSUME DiskOK, NEW t \in txns, Complete(t)
  PROVE  DiskOK'
<1>1. DOMAIN db' = DOMAIN db
  BY ApplyElsewhere DEF Complete
<1> QED
  BY <1>1 DEF DiskOK, Complete

\* A transaction that is recorded has its type.
LEMMA RecordOK ==
  ASSUME DiskOK, ProcessOK, NEW done \in SUBSET ops, NEW applying \in BOOLEAN,
         txns' = txns \cup {[ops |-> ops, done |-> done, applying |-> applying]},
         DOMAIN db' = DOMAIN db, UNCHANGED <<certs, indexes, tools>>
  PROVE  DiskOK'
<1> DEFINE new == [ops |-> ops, done |-> done, applying |-> applying]
<1>1. new.ops = ops /\ new.done = done /\ new.applying = applying
  OBVIOUS
<1>2. txns' = txns \cup {new}
  OBVIOUS
<1> HIDE DEF new
<1>3. \A t \in txns' : /\ t.done \subseteq t.ops
                       /\ t.applying \in BOOLEAN
                       /\ \A op \in t.ops : op.c \in Collections
  BY <1>1, <1>2 DEF DiskOK, ProcessOK
<1> QED
  BY <1>3 DEF DiskOK

\* StopAtQueue
LEMMA StopOK ==
  ASSUME DiskOK, ProcessOK, StopAtQueue
  PROVE  DiskOK' /\ ProcessOK' /\ pc' = "idle" /\ inTxn' = FALSE
<1>1. Recorded = [ops |-> ops, done |-> {}, applying |-> FALSE]
  BY DEF Recorded
<1>2. DiskOK'
  BY <1>1, RecordOK DEF StopAtQueue
<1> QED
  BY <1>2, ExitOK DEF StopAtQueue

\* The effect of a stage that stays within the process.
LEMMA StageOK ==
  ASSUME ProcessInv, NEW stage \in Stages, At(stage), DiskOK',
         \/ Continue
         \/ \E how \in {"ok", "error", "aborted", "panic", "failed"} : Exit(how)
  PROVE  ProcessInv'
<1>1. "idle" \notin LiveStages /\ pc \in Stages
  BY DEF LiveStages, At
<1> QED
  BY <1>1, ContinueOK, ExitOK DEF ProcessInv, TypeOK

\* A stage that reads.
LEMMA NeutralReadOK ==
  ASSUME ProcessInv, NeutralRead
  PROVE  ProcessInv'
<1>1. PICK stage \in Stages : Reads(stage, ops')
  BY DEF NeutralRead, Reading
<1>2. /\ pc \in Stages /\ inTxn' = TRUE
      /\ UNCHANGED <<disk, pc, cmd, live, uuid, context, exit, b7>>
  BY <1>1 DEF Reads, At
<1>3. DiskOK'
  BY <1>2 DEF ProcessInv, TypeOK, DiskOK, disk
<1>4. ProcessOK'
  BY <1>2 DEF NeutralRead, About, ProcessInv, TypeOK, ProcessOK
<1> QED
  BY <1>2, <1>3, <1>4 DEF ProcessInv, TypeOK

\* A stage that gives up.
LEMMA GiveUpOK ==
  ASSUME ProcessInv, GiveUp
  PROVE  ProcessInv'
<1>1. DiskOK'
  BY DEF GiveUp, disk, ProcessInv, TypeOK, DiskOK
<1> QED
  BY <1>1, StageOK DEF GiveUp, At

\* The stages of upgradeDB before updateController.
LEMMA PreparationOK ==
  ASSUME ProcessInv,
         \/ UpgradePrecheck \/ RepairTxnQueue \/ NothingToResume
         \/ \E t \in txns : ResumeTransaction(t)
         \/ ClearModelQueues \/ DropIndexes
  PROVE  ProcessInv'
<1> USE DEF ProcessInv, TypeOK
<1> DEFINE early == {"upgradePrecheck", "repairTxnQueue", "resumeTransactions",
                     "clearModelQueues", "dropIndexes"}
<1>0. early \subseteq Stages
  BY DEF Stages, Follows
<1> HIDE DEF early
<1>1. CASE UpgradePrecheck
  <2>1. DiskOK'
    BY <1>1 DEF UpgradePrecheck, DiskOK, disk
  <2> QED
    BY <1>0, <1>1, <2>1, StageOK DEF UpgradePrecheck, early
<1>2. CASE RepairTxnQueue
  <2>1. DiskOK'
    BY <1>2 DEF RepairTxnQueue, ClearQueues, DiskOK
  <2> QED
    BY <1>0, <1>2, <2>1, StageOK DEF RepairTxnQueue, early
<1>3. CASE NothingToResume
  <2>1. DiskOK'
    BY <1>3 DEF NothingToResume, DiskOK, disk
  <2> QED
    BY <1>0, <1>3, <2>1, StageOK DEF NothingToResume, early
<1>4. ASSUME NEW t \in txns, ResumeTransaction(t) PROVE ProcessInv'
  <2>1. CASE Stuck(db, t.ops)
    <3>1. DiskOK'
      BY <1>4, <2>1 DEF ResumeTransaction, DiskOK, disk
    <3> QED
      BY <1>0, <1>4, <2>1, <3>1, StageOK DEF ResumeTransaction, early
  <2>2. CASE ~Stuck(db, t.ops)
    <3>1. DiskOK'
      BY <1>4, <2>2, CompleteOK DEF ResumeTransaction
    <3>2. ProcessOK'
      BY <1>4, <2>2 DEF ResumeTransaction, ProcessOK
    <3> QED
      BY <1>4, <2>2, <3>1, <3>2 DEF ResumeTransaction
  <2> QED
    BY <2>1, <2>2
<1>5. CASE ClearModelQueues
  <2>1. DiskOK'
    BY <1>5 DEF ClearModelQueues, ClearQueues, DiskOK
  <2> QED
    BY <1>0, <1>5, <2>1, StageOK DEF ClearModelQueues, early
<1>6. CASE DropIndexes
  <2>1. DiskOK'
    BY <1>6 DEF DropIndexes, DiskOK
  <2> QED
    BY <1>0, <1>6, <2>1, StageOK DEF DropIndexes, early
<1> QED
  BY <1>1, <1>2, <1>3, <1>4, <1>5, <1>6

\* updateController and updateModels.
LEMMA ControllerOK ==
  ASSUME ProcessInv, UpdateController \/ UpdateModels
  PROVE  ProcessInv'
<1> USE DEF ProcessInv, TypeOK
<1>0. {"updateController", "updateModels"} \subseteq Stages
  BY DEF Stages, Follows
<1>1. CASE UpdateController
  <2>1. CASE Exit("error") \/ Exit("panic")
    <3>1. At("updateController") /\ UNCHANGED disk
      BY <1>1, <2>1 DEF UpdateController, Exit, At
    <3>2. DiskOK'
      BY <3>1 DEF DiskOK, disk
    <3> QED
      BY <1>0, <2>1, <3>1, <3>2, StageOK
  <2>2. CASE /\ ControllerContext(db).cloud \in Clouds
             /\ context' = ControllerContext(db)
             /\ certs' = IF live /\ ControllerContext(db).cloud = "lxd"
                         THEN LXDCertFiles(db) ELSE certs
             /\ ops' = UpdateControllerOps(db, uuid)
             /\ inTxn' = TRUE
             /\ UNCHANGED <<db, txns, indexes, tools, pc, cmd, live, uuid, exit, b7>>
    <3>1. DiskOK'
      BY <2>2 DEF DiskOK, LXDCertFiles
    <3>2. \A op \in ops' : op.c \in Collections
      BY <2>2, ControllerAbout DEF About, Collections
    <3>3. ProcessOK'
      BY <2>2, <3>2 DEF ProcessOK
    <3>4. At("updateController")
      BY <1>1 DEF UpdateController
    <3> QED
      BY <1>0, <2>2, <3>1, <3>3, <3>4 DEF At
  <2> QED
    BY <1>1, <2>1, <2>2 DEF UpdateController
<1>2. CASE UpdateModels
  <2>1. /\ ops' = UpdateModelsOps(db, uuid, context)
        /\ At("updateModels") /\ inTxn' = TRUE
        /\ UNCHANGED <<disk, pc, cmd, live, uuid, context, exit, b7>>
    BY <1>2 DEF UpdateModels, Reads
  <2>2. DiskOK'
    BY <2>1 DEF DiskOK, disk
  <2>3. \A op \in ops' : op.c \in Collections
    BY <2>1, ControllerAbout DEF About, Collections
  <2>4. ProcessOK'
    BY <2>1, <2>3 DEF ProcessOK
  <2> QED
    BY <1>0, <2>1, <2>2, <2>4 DEF At
<1> QED
  BY <1>1, <1>2

\* The stages of renameServiceToApplication that write without a transaction.
LEMMA WritesOK ==
  ASSUME ProcessInv, UpdateStatusHistory \/ Drop
  PROVE  ProcessInv'
<1> USE DEF ProcessInv, TypeOK
<1>0. {"statusHistory", "dropServices", "dropSettingsRefs", "dropIPAddresses"} \subseteq Stages
  BY DEF Stages, Follows
<1>1. CASE UpdateStatusHistory
  <2>1. DOMAIN db' = DOMAIN db
    BY <1>1, ApplyElsewhere DEF UpdateStatusHistory
  <2>2. DiskOK'
    BY <1>1, <2>1 DEF UpdateStatusHistory, DiskOK
  <2>3. CASE UNCHANGED <<pc, cmd, live, uuid, context, ops, inTxn, exit, b7>>
    BY <2>2, <2>3 DEF ProcessOK
  <2> QED
    BY <1>0, <1>1, <2>2, <2>3, StageOK DEF UpdateStatusHistory
<1>2. ASSUME NEW stage \in {"dropServices", "dropSettingsRefs", "dropIPAddresses"},
             NEW c \in {"services", "settingsrefs", "ipaddresses"}, DropCollection(stage, c)
      PROVE  ProcessInv'
  <2>1. DiskOK'
    BY <1>2 DEF DropCollection, DiskOK
  <2> QED
    BY <1>0, <1>2, <2>1, StageOK DEF DropCollection
<1> QED
  BY <1>1, <1>2 DEF Drop, DropServices, DropSettingsRefs, DropIPAddresses

\* addTwoZeroBinariesToDB.
LEMMA ToolsOK ==
  ASSUME ProcessInv, AddTwoZeroBinariesToDB
  PROVE  ProcessInv'
<1> USE DEF ProcessInv, TypeOK
<1>0. {"reopenState", "openTools", "dropBlobIndex", "addTools"} \subseteq Stages
  BY DEF Stages, Follows
<1>1. CASE ReopenState
  <2>1. DiskOK'
    BY <1>1 DEF ReopenState, DiskOK
  <2> QED
    BY <1>0, <1>1, <2>1, StageOK DEF ReopenState
<1>2. CASE OpenTools
  <2>1. DiskOK'
    BY <1>2 DEF OpenTools, DiskOK, disk
  <2> QED
    BY <1>0, <1>2, <2>1, StageOK DEF OpenTools
<1>3. CASE DropBlobIndex
  <2>1. DiskOK'
    BY <1>3 DEF DropBlobIndex, DiskOK
  <2> QED
    BY <1>0, <1>3, <2>1, StageOK DEF DropBlobIndex
<1>4. CASE AddTools
  <2>1. DiskOK'
    BY <1>4 DEF AddTools, DiskOK
  <2> QED
    BY <1>0, <1>4, <2>1, StageOK DEF AddTools
<1> QED
  BY <1>1, <1>2, <1>3, <1>4 DEF AddTwoZeroBinariesToDB

\* RunTransaction.
LEMMA RunTransactionOK ==
  ASSUME ProcessInv, RunTransaction
  PROVE  ProcessInv'
<1> USE DEF ProcessInv, TypeOK
<1>0. "idle" \notin LiveStages
  BY DEF LiveStages
<1>1. CASE DryRunTransaction
  <2>1. DiskOK'
    BY <1>1 DEF DryRunTransaction, DiskOK, disk
  <2> QED
    BY <1>1, <2>1, ContinueOK DEF DryRunTransaction
<1>2. CASE Commit
  <2>1. DOMAIN db' = DOMAIN db
    BY <1>2, ApplyElsewhere DEF Commit
  <2>2. DiskOK'
    BY <1>2, <2>1 DEF Commit, DiskOK
  <2> QED
    BY <1>2, <2>2, ContinueOK DEF Commit, CanRun
<1>3. CASE Abort
  <2>1. DiskOK'
    BY <1>3 DEF Abort, DiskOK, disk
  <2> QED
    BY <1>0, <1>3, <2>1, ExitOK DEF Abort
<1>4. CASE StuckTransaction
  BY <1>0, <1>4, StopOK DEF StuckTransaction
<1>5. ASSUME NEW t \in txns, FlushTransaction(t) PROVE ProcessInv'
  <2>1. CASE Stuck(db, t.ops)
    BY <1>0, <1>5, <2>1, StopOK DEF FlushTransaction
  <2>2. CASE ~Stuck(db, t.ops)
    <3>1. DiskOK'
      BY <1>5, <2>2, CompleteOK DEF FlushTransaction
    <3>2. ProcessOK'
      BY <1>5, <2>2 DEF FlushTransaction, ProcessOK
    <3> QED
      BY <1>5, <2>2, <3>1, <3>2 DEF FlushTransaction
  <2> QED
    BY <2>1, <2>2
<1> QED
  BY <1>1, <1>2, <1>3, <1>4, <1>5 DEF RunTransaction

\* Fail, FailBeforeApply, FailWhileApplying.
LEMMA FailureOK ==
  ASSUME ProcessInv, Failure
  PROVE  ProcessInv'
<1> USE DEF ProcessInv, TypeOK
<1>0. "idle" \notin LiveStages
  BY DEF LiveStages
<1>1. CASE Fail
  <2>1. DiskOK'
    BY <1>1 DEF Fail, DiskOK, disk
  <2> QED
    BY <1>0, <1>1, <2>1, ExitOK DEF Fail
<1>2. CASE FailBeforeApply
  <2>1. DiskOK'
    BY <1>2, RecordOK DEF FailBeforeApply, Recorded
  <2> QED
    BY <1>0, <1>2, <2>1, ExitOK DEF FailBeforeApply
<1>3. CASE FailWhileApplying
  <2>1. PICK done \in Cuts(ops) :
          /\ db' = Apply(db, done)
          /\ txns' = txns \cup {[ops |-> ops, done |-> done, applying |-> TRUE]}
    BY <1>3 DEF FailWhileApplying
  <2>2. done \in SUBSET ops
    BY DEF Cuts
  <2>3. DOMAIN db' = DOMAIN db
    BY <2>1, ApplyElsewhere
  <2>4. DiskOK'
    BY <1>3, <2>1, <2>2, <2>3, RecordOK DEF FailWhileApplying
  <2> QED
    BY <1>0, <1>3, <2>4, ExitOK DEF FailWhileApplying
<1> QED
  BY <1>1, <1>2, <1>3 DEF Failure

\* Every step keeps the invariant of the process.
LEMMA ProcessStep ==
  ASSUME ProcessInv, [Next]_vars
  PROVE  ProcessInv'
<1>1. ASSUME NEW command \in DOMAIN FirstStage, NEW forReal \in BOOLEAN,
             Start(command, forReal)
      PROVE  ProcessInv'
  <2>1. DiskOK'
    BY <1>1 DEF Start, ProcessInv, TypeOK, DiskOK, disk
  <2>2. /\ FirstStage[command] \in Stages \ LiveStages
        /\ FirstStage[command] # "idle"
    BY DEF FirstStage, Stages, Follows, LiveStages
  <2>3. ProcessOK'
    <3>1. uuid' \in 0..MaxRuns
      <4>1. uuid \in 0..MaxRuns /\ uuid < MaxRuns /\ uuid' = uuid + 1
        BY <1>1 DEF Start, ProcessInv, TypeOK, ProcessOK
      <4> QED
        BY <4>1, MaxRunsAssumption
    <3> QED
      BY <1>1, <2>2, <3>1 DEF Start, ProcessInv, TypeOK, ProcessOK
  <2> QED
    BY <1>1, <2>1, <2>2, <2>3 DEF Start, ProcessInv, TypeOK
<1>2. CASE Step
  <2>1. CASE RenameServiceToApplication
    BY <2>1, RenameSteps, NeutralReadOK, GiveUpOK, WritesOK
  <2>2. CASE OtherSchemaUpgrades
    BY <2>2, SchemaSteps, NeutralReadOK
  <2>3. CASE RemoveCleanups
    <3>1. CASE At("removeCleanups") /\ Continue /\ UNCHANGED disk
      <4>1. DiskOK'
        BY <3>1 DEF ProcessInv, TypeOK, DiskOK, disk
      <4>2. "removeCleanups" \in Stages
        BY DEF Stages, Follows
      <4> QED
        BY <3>1, <4>1, <4>2, StageOK
    <3> QED
      BY <2>3, <3>1, CleanupSteps, NeutralReadOK
  <2> QED
    BY <1>2, <2>1, <2>2, <2>3, PreparationOK, ControllerOK, ToolsOK, RunTransactionOK DEF Step
<1>3. CASE Failure
  BY <1>3, FailureOK
<1>4. CASE UNCHANGED vars
  BY <1>4 DEF vars, disk, ProcessInv, TypeOK, DiskOK, ProcessOK
<1> QED
  BY <1>1, <1>2, <1>3, <1>4 DEF Next, Finished

\* An operator starts from a database of beta 7 with no command running.
LEMMA ProcessInit ==
  ASSUME Init
  PROVE  ProcessInv
<1>1. PICK s \in B7States : db = s.db /\ txns = s.txns /\ b7 = s.db
  BY DEF Init
<1>2. DiskOK
  BY <1>1, B7Assumption DEF Init, DiskOK, NoDoc
<1>3. ProcessOK
  <2>1. uuid \in 0..MaxRuns
    BY MaxRunsAssumption DEF Init
  <2>2. cmd \in DOMAIN FirstStage
    BY DEF Init, FirstStage
  <2> QED
    BY <2>1, <2>2 DEF Init, ProcessOK, NoContext
<1>4. "idle" \notin LiveStages
  BY DEF LiveStages
<1> QED
  BY <1>2, <1>3, <1>4 DEF Init, ProcessInv, TypeOK

\* The invariant of the process holds throughout.
LEMMA ProcessInvariant == Spec => []ProcessInv
<1>1. Init => ProcessInv
  BY ProcessInit
<1>2. ProcessInv /\ [Next]_vars => ProcessInv'
  BY ProcessStep
<1> QED
  BY <1>1, <1>2, PTL DEF Spec

\* Whatever database of beta 7 the operator has and however many commands are
\* given, every variable has its type: no stage of upgradedb.go hands an
\* operation on an unknown collection to RunTransaction, and a stage is
\* followed by a stage or by the end of the command.
THEOREM TypeCorrect == Spec => []TypeOK
<1>1. ProcessInv => TypeOK
  BY DEF ProcessInv
<1> QED
  BY <1>1, ProcessInvariant, PTL

-----------------------------------------------------------------------------
(* The dry run.                                                            *)

\* A step of a dry run leaves alone what outlives the process.
LEMMA DryRunStep ==
  ASSUME ProcessInv, [Next]_vars, ~live
  PROVE  UNCHANGED disk
<1>0. \A stage \in LiveStages : ~At(stage)
  BY DEF ProcessInv, At
<1>1. CASE \E command \in DOMAIN FirstStage, forReal \in BOOLEAN : Start(command, forReal)
  BY <1>1 DEF Start
<1>2. CASE Step
  <2>1. CASE RenameServiceToApplication
    <3>1. CASE UpdateStatusHistory
      BY <3>1 DEF UpdateStatusHistory, disk
    <3>2. CASE Drop
      BY <3>2 DEF Drop, DropServices, DropSettingsRefs, DropIPAddresses, DropCollection, disk
    <3> QED
      BY <2>1, <3>1, <3>2, RenameSteps DEF NeutralRead, Reads, GiveUp
  <2>2. CASE OtherSchemaUpgrades
    BY <2>2, SchemaSteps DEF NeutralRead, Reads
  <2>3. CASE RemoveCleanups
    BY <2>3, CleanupSteps DEF NeutralRead, Reads
  <2>4. CASE UpgradePrecheck \/ NothingToResume
    BY <2>4 DEF UpgradePrecheck, NothingToResume
  <2>5. ~RepairTxnQueue /\ ~ClearModelQueues /\ ~\E t \in txns : ResumeTransaction(t)
    BY <1>0 DEF RepairTxnQueue, ClearModelQueues, ResumeTransaction, LiveStages
  <2>6. CASE DropIndexes
    BY <2>6 DEF DropIndexes, disk
  <2>7. CASE UpdateController
    BY <2>7 DEF UpdateController, disk
  <2>8. CASE UpdateModels
    BY <2>8 DEF UpdateModels, Reads
  <2>9. ~AddTwoZeroBinariesToDB
    BY <1>0 DEF AddTwoZeroBinariesToDB, ReopenState, OpenTools, DropBlobIndex, AddTools,
                LiveStages
  <2>10. CASE RunTransaction
    BY <2>10 DEF RunTransaction, DryRunTransaction, FlushTransaction, Commit, Abort,
                 StuckTransaction, CanRun
  <2> QED
    BY <1>2, <2>1, <2>2, <2>3, <2>4, <2>5, <2>6, <2>7, <2>8, <2>9, <2>10 DEF Step
<1>3. CASE Failure
  BY <1>3 DEF Failure, Fail, FailBeforeApply, FailWhileApplying, CanRun
<1>4. CASE UNCHANGED vars
  BY <1>4 DEF vars
<1> QED
  BY <1>1, <1>2, <1>3, <1>4 DEF Next, Finished

\* Without --live neither upgrade-db nor clean-db changes the database, its
\* pending transactions, its indexes, the tools or the certificates on disk,
\* whichever of the many stages and RunTransaction the dry run goes through
\* and wherever it fails.
THEOREM DryRunKept == Spec => DryRunChangesNothing
<1>1. ProcessInv /\ [Next]_vars => [~live => UNCHANGED disk]_vars
  BY DryRunStep
<1> QED
  BY <1>1, ProcessInvariant, PTL DEF Spec, DryRunChangesNothing

-----------------------------------------------------------------------------
(* What a transaction does to the recorded UUIDs. The operations O take no *)
(* UUID away and add none outside U.                                       *)
Adds(O, U) == \A op \in O : KeepsUUIDs(op) /\ OpUUIDs(op) \subseteq U

\* A UUID that a document records stays in the document.
LEMMA FieldStays ==
  ASSUME NEW d, NEW c \in IdentityCollections \cap DOMAIN d, NEW id \in DOMAIN d[c],
         NEW f \in IdentityFields, Has(d[c][id], f), NEW O, Adds(O, {d[c][id][f]})
  PROVE  /\ id \in DOMAIN Apply(d, O)[c]
         /\ Has(Apply(d, O)[c][id], f)
         /\ Apply(d, O)[c][id][f] = d[c][id][f]
<1> DEFINE new == Apply(d, O)
<1>1. id \in DOMAIN new[c]
  BY ApplyIDs DEF Adds, KeepsUUIDs
<1>2. CASE new[c][id] = d[c][id]
  BY <1>1, <1>2
<1>3. ASSUME NEW op \in O, op.c = c, new[c][id] = Without(d[c][id], op.unset) ++ op.set
      PROVE  Has(new[c][id], f) /\ new[c][id][f] = d[c][id][f]
  <2>1. f \notin op.unset
    BY <1>3 DEF Adds, KeepsUUIDs
  <2>2. f \in DOMAIN op.set => op.set[f] = d[c][id][f]
    BY <1>3 DEF Adds, OpUUIDs
  <2> HIDE DEF new
  <2>3. /\ DOMAIN new[c][id] = (DOMAIN d[c][id] \ op.unset) \cup DOMAIN op.set
        /\ new[c][id][f] = IF f \in DOMAIN op.set THEN op.set[f] ELSE d[c][id][f]
    BY <1>3, <2>1 DEF ++, Without, Has
  <2> QED
    BY <2>1, <2>2, <2>3 DEF Has
<1>4. \/ new[c][id] = d[c][id]
      \/ \E op \in O : op.c = c /\ new[c][id] = Without(d[c][id], op.unset) ++ op.set
  BY <1>1, ApplyDoc
<1> QED
  BY <1>1, <1>2, <1>3, <1>4

\* A UUID that a document records was there or is added by the transaction.
LEMMA FieldComes ==
  ASSUME NEW d, NEW c \in IdentityCollections \cap DOMAIN d, NEW O, NEW U,
         \A op \in O : op.c = c => OpUUIDs(op) \subseteq U,
         NEW f \in IdentityFields
  PROVE  FieldValues(Apply(d, O)[c], f) \subseteq FieldValues(d[c], f) \cup U
<1> DEFINE new == Apply(d, O)
<1>1. SUFFICES ASSUME NEW id \in DOMAIN new[c], Has(new[c][id], f)
               PROVE  new[c][id][f] \in FieldValues(d[c], f) \cup U
  BY DEF FieldValues
<1>2. CASE id \in DOMAIN d[c] /\ new[c][id] = d[c][id]
  BY <1>1, <1>2 DEF FieldValues
<1>3. ASSUME id \in DOMAIN d[c], NEW op \in O, op.c = c,
             new[c][id] = Without(d[c][id], op.unset) ++ op.set
      PROVE  new[c][id][f] \in FieldValues(d[c], f) \cup U
  <2> HIDE DEF new
  <2>1. /\ f \in (DOMAIN d[c][id]) \cup DOMAIN op.set
        /\ new[c][id][f] = IF f \in DOMAIN op.set THEN op.set[f] ELSE d[c][id][f]
        /\ f \notin DOMAIN op.set => f \in DOMAIN d[c][id]
    BY <1>1, <1>3 DEF ++, Without, Has
  <2>2. f \in DOMAIN op.set => op.set[f] \in U
    BY <1>3 DEF OpUUIDs
  <2>3. f \in DOMAIN d[c][id] => d[c][id][f] \in FieldValues(d[c], f)
    BY <1>3 DEF FieldValues, Has
  <2> QED
    BY <2>1, <2>2, <2>3
<1>4. ASSUME NEW op \in O, op.c = c, new[c][id] = op.set
      PROVE  new[c][id][f] \in U
  BY <1>1, <1>4 DEF OpUUIDs, Has
<1>5. \/ id \in DOMAIN d[c] /\ new[c][id] = d[c][id]
      \/ /\ id \in DOMAIN d[c]
         /\ \E op \in O : op.c = c /\ new[c][id] = Without(d[c][id], op.unset) ++ op.set
      \/ \E op \in O : op.c = c /\ new[c][id] = op.set
  BY ApplyDoc
<1> HIDE DEF new
<1> QED
  BY <1>2, <1>3, <1>4, <1>5

\* The recorded UUIDs after a transaction.
LEMMA OperationsRecord ==
  ASSUME NEW d, DOMAIN d = Collections, NEW O, NEW U, \A op \in O : OpUUIDs(op) \subseteq U
  PROVE  RecordedUUIDs(Apply(d, O)) \subseteq RecordedUUIDs(d) \cup U
<1> DEFINE new == Apply(d, O)
<1>1. IdentityCollections \subseteq DOMAIN d /\ "permissions" \in IdentityCollections
  BY DEF Collections, IdentityCollections
<1>2. ASSUME NEW c \in IdentityCollections, NEW f \in IdentityFields
      PROVE  FieldValues(new[c], f) \subseteq FieldValues(d[c], f) \cup U
  BY <1>1, FieldComes
<1>3. ASSUME NEW id \in DOMAIN new["permissions"], id[1] = "c"
      PROVE  id \in DOMAIN d["permissions"] \/ id[2] \in U
  <2>1. CASE id \in DOMAIN d["permissions"]
    BY <2>1
  <2>2. ASSUME NEW op \in O, op.c = "permissions", op.id = id
        PROVE  id[2] \in U
    BY <1>3, <2>2 DEF OpUUIDs, IdentityCollections
  <2> QED
    BY <1>1, <2>1, <2>2, ApplyIDs
<1> HIDE DEF new
<1> QED
  BY <1>2, <1>3 DEF RecordedUUIDs, new

LEMMA RecordedComes ==
  ASSUME NEW d, DOMAIN d = Collections, NEW O, NEW U, Adds(O, U)
  PROVE  RecordedUUIDs(Apply(d, O)) \subseteq RecordedUUIDs(d) \cup U
  BY OperationsRecord DEF Adds

\* What a document names is recorded.
LEMMA FieldRecorded ==
  ASSUME NEW d, NEW c \in IdentityCollections, NEW id \in DOMAIN d[c], NEW f \in IdentityFields,
         Has(d[c][id], f)
  PROVE  d[c][id][f] \in RecordedUUIDs(d)
<1>1. d[c][id][f] \in FieldValues(d[c], f)
  BY DEF FieldValues
<1> QED
  BY <1>1 DEF RecordedUUIDs

\* What the models, or the controllers, name is recorded.
LEMMA NamedRecorded ==
  ASSUME NEW d
  PROVE  /\ FieldValues(d["models"], "controller-uuid") \subseteq RecordedUUIDs(d)
         /\ FieldValues(d["controllers"], "controller-uuid") \subseteq RecordedUUIDs(d)
  BY DEF RecordedUUIDs, IdentityCollections, IdentityFields

\* Documents that name u go on doing so if the transaction adds no other.
LEMMA UUIDsKept ==
  ASSUME NEW d, DOMAIN d = Collections, NEW u, RecordedUUIDs(d) \subseteq {u},
         NEW O, Adds(O, {u})
  PROVE  SameUUIDs(d, Apply(d, O))
<1> DEFINE new == Apply(d, O)
<1>1. IdentityCollections \subseteq DOMAIN d
  BY DEF Collections, IdentityCollections
<1>2. ASSUME NEW c \in IdentityCollections, NEW id \in DOMAIN d[c], NEW f \in IdentityFields,
             Has(d[c][id], f)
      PROVE  /\ id \in DOMAIN new[c]
             /\ Has(new[c][id], f)
             /\ new[c][id][f] = d[c][id][f]
  <2>1. d[c][id][f] = u
    BY <1>2, FieldRecorded
  <2> QED
    BY <1>1, <1>2, <2>1, FieldStays
<1>3. \A id \in DOMAIN d["permissions"] : id \in DOMAIN new["permissions"]
  BY <1>1, ApplyIDs DEF Adds, KeepsUUIDs, IdentityCollections
<1> HIDE DEF new
<1> QED
  BY <1>2, <1>3 DEF SameUUIDs, new

-----------------------------------------------------------------------------
(* The seat of the identity.                                               *)

\* The controller settings, if there are any, name a UUID.
Named(d) ==
  <<"controllerSettings">> \in DOMAIN d["controllers"] =>
    Has(d["controllers"][<<"controllerSettings">>], "controller-uuid")

\* The UUID the settings name is recorded.
LEMMA SeatedRecorded ==
  ASSUME NEW d, NEW u, Seated(d, u)
  PROVE  /\ u \in RecordedUUIDs(d)
         /\ u \in FieldValues(d["controllers"], "controller-uuid")
<1>1. u \in FieldValues(d["controllers"], "controller-uuid")
  BY DEF Seated, FieldValues
<1> QED
  BY <1>1, NamedRecorded

\* The settings name at most one UUID.
LEMMA SeatedOnce ==
  ASSUME NEW d, NEW u, NEW v, Seated(d, u), Seated(d, v)
  PROVE  u = v
  BY DEF Seated

\* Operations that record no other UUID leave the settings as they are.
LEMMA SeatStays ==
  ASSUME NEW d, DOMAIN d = Collections, NEW u, Seated(d, u), NEW O, Adds(O, {u})
  PROVE  Seated(Apply(d, O), u)
<1>1. "controllers" \in IdentityCollections \cap DOMAIN d /\ "controller-uuid" \in IdentityFields
  BY DEF IdentityCollections, Collections, IdentityFields
<1> QED
  BY <1>1, FieldStays DEF Seated

\* Operations that can only make settings with a UUID and take none away.
Names(O) == \A op \in O : KeepsUUIDs(op) /\ (IsFounding(op) => Has(op.set, "controller-uuid"))

\* After such a transaction the settings have a UUID if they had one.
LEMMA NamedStays ==
  ASSUME NEW d, DOMAIN d = Collections, Named(d), NEW O, Names(O)
  PROVE  Named(Apply(d, O))
<1> DEFINE new == Apply(d, O)
           id == <<"controllerSettings">>
<1>1. "controllers" \in DOMAIN d
  BY DEF Collections
<1>2. SUFFICES ASSUME id \in DOMAIN new["controllers"]
               PROVE  Has(new["controllers"][id], "controller-uuid")
  BY DEF Named
<1>3. CASE id \in DOMAIN d["controllers"] /\ new["controllers"][id] = d["controllers"][id]
  BY <1>3 DEF Named
<1>4. ASSUME id \in DOMAIN d["controllers"], NEW op \in O, op.c = "controllers",
             new["controllers"][id] = Without(d["controllers"][id], op.unset) ++ op.set
      PROVE  Has(new["controllers"][id], "controller-uuid")
  <2>1. Has(d["controllers"][id], "controller-uuid")
    BY <1>4 DEF Named
  <2>2. "controller-uuid" \notin op.unset
    BY <1>4 DEF Names, KeepsUUIDs, IdentityCollections, IdentityFields
  <2> HIDE DEF new, id
  <2> QED
    BY <1>4, <2>1, <2>2 DEF Has, ++, Without
<1>5. ASSUME NEW op \in O, op.c = "controllers", op.id = id, op.change = "insert",
             new["controllers"][id] = op.set
      PROVE  Has(new["controllers"][id], "controller-uuid")
  BY <1>5 DEF Names, IsFounding
<1>6. \/ id \in DOMAIN d["controllers"] /\ new["controllers"][id] = d["controllers"][id]
      \/ /\ id \in DOMAIN d["controllers"]
         /\ \E op \in O :
              /\ op.c = "controllers"
              /\ new["controllers"][id] = Without(d["controllers"][id], op.unset) ++ op.set
      \/ \E op \in O : /\ op.c = "controllers" /\ op.id = id /\ op.change = "insert"
                       /\ new["controllers"][id] = op.set
  BY <1>1, <1>2, ApplyDoc
<1> HIDE DEF new, id
<1> QED
  BY <1>3, <1>4, <1>5, <1>6

\* The operation that makes the settings gives them the UUID of its run.
LEMMA FoundingSeats ==
  ASSUME NEW d, DOMAIN d = Collections, <<"controllerSettings">> \notin DOMAIN d["controllers"],
         NEW u, NEW O, Records(O, u), NEW founding \in O, IsFounding(founding)
  PROVE  Seated(Apply(d, O), u)
<1> DEFINE new == Apply(d, O)
           id == <<"controllerSettings">>
<1>1. "controllers" \in DOMAIN d
  BY DEF Collections
<1>2. id \in DOMAIN new["controllers"]
  BY <1>1, ApplyIDs DEF IsFounding, Records, KeepsUUIDs, IdentityCollections
<1>3. PICK op \in O : /\ op.c = "controllers" /\ op.id = id /\ op.change = "insert"
                      /\ new["controllers"][id] = op.set
  BY <1>1, <1>2, ApplyDoc
<1>4. Has(op.set, "controller-uuid") /\ OpUUIDs(op) \subseteq {u}
  BY <1>3 DEF Records, IsFounding
<1>5. op.set["controller-uuid"] = u
  BY <1>3, <1>4 DEF OpUUIDs, IdentityCollections, IdentityFields, Has
<1> QED
  BY <1>2, <1>3, <1>4, <1>5 DEF Seated

-----------------------------------------------------------------------------
(* Steps that have nothing to do with the identity.                        *)

Quiet(d, e) ==
  /\ RecordedUUIDs(e) \subseteq RecordedUUIDs(d)
  /\ SameUUIDs(d, e)
  /\ \A u : Seated(d, u) => Seated(e, u)
  /\ Named(d) => Named(e)
  /\ FieldValues(e["models"], "controller-uuid") \subseteq FieldValues(d["models"], "controller-uuid")

\* Leaving the database alone is quiet.
LEMMA SameQuiet ==
  ASSUME NEW d
  PROVE  Quiet(d, d)
  BY DEF Quiet, SameUUIDs

\* Neutral operations leave every UUID where it is.
LEMMA NeutralSame ==
  ASSUME NEW d, DOMAIN d = Collections, NEW O, Neutral(O)
  PROVE  SameUUIDs(d, Apply(d, O))
<1>1. \A v : Adds(O, {v})
  BY DEF Neutral, Adds
<1>2. IdentityCollections \subseteq DOMAIN d
  BY DEF Collections, IdentityCollections
<1>3. \A id \in DOMAIN d["permissions"] : id \in DOMAIN Apply(d, O)["permissions"]
  BY <1>1, <1>2, ApplyIDs DEF Adds, KeepsUUIDs, IdentityCollections
<1>4. ASSUME NEW c \in IdentityCollections, NEW id \in DOMAIN d[c], NEW f \in IdentityFields,
             Has(d[c][id], f)
      PROVE  /\ id \in DOMAIN Apply(d, O)[c]
             /\ Has(Apply(d, O)[c][id], f)
             /\ Apply(d, O)[c][id][f] = d[c][id][f]
  <2>1. Adds(O, {d[c][id][f]})
    BY <1>1
  <2> QED
    BY <1>2, <1>4, <2>1, FieldStays
<1> QED
  BY <1>3, <1>4 DEF SameUUIDs

\* A transaction that is neutral is quiet.
LEMMA NeutralQuiet ==
  ASSUME NEW d, DOMAIN d = Collections, NEW O, Neutral(O)
  PROVE  Quiet(d, Apply(d, O))
<1>1. Adds(O, {}) /\ Names(O) /\ \A u : Adds(O, {u})
  BY DEF Neutral, Adds, Names
<1>2. RecordedUUIDs(Apply(d, O)) \subseteq RecordedUUIDs(d)
  BY <1>1, RecordedComes
<1>3. SameUUIDs(d, Apply(d, O))
  BY NeutralSame
<1>4. \A u : Seated(d, u) => Seated(Apply(d, O), u)
  BY <1>1, SeatStays
<1>5. Named(d) => Named(Apply(d, O))
  BY <1>1, NamedStays
<1>6. FieldValues(Apply(d, O)["models"], "controller-uuid")
        \subseteq FieldValues(d["models"], "controller-uuid")
  <2>1. "models" \in IdentityCollections \cap DOMAIN d /\ "controller-uuid" \in IdentityFields
    BY DEF IdentityCollections, IdentityFields, Collections
  <2>2. \A op \in O : op.c = "models" => OpUUIDs(op) \subseteq {}
    BY DEF Neutral
  <2>3. FieldValues(Apply(d, O)["models"], "controller-uuid")
          \subseteq FieldValues(d["models"], "controller-uuid") \cup {}
    BY <2>1, <2>2, FieldComes
  <2> QED
    BY <2>3
<1> QED
  BY <1>2, <1>3, <1>4, <1>5, <1>6 DEF Quiet

\* Dropping a collection that records no UUID is quiet.
LEMMA DropQuiet ==
  ASSUME NEW d, DOMAIN d = Collections, NEW c \in Collections \ IdentityCollections, NEW docs
  PROVE  Quiet(d, [d EXCEPT ![c] = docs])
<1> DEFINE new == [d EXCEPT ![c] = docs]
<1>1. /\ \A e \in IdentityCollections : new[e] = d[e]
      /\ {"models", "controllers", "permissions"} \subseteq IdentityCollections
  BY DEF Collections, IdentityCollections
<1> HIDE DEF new
<1> QED
  BY <1>1 DEF Quiet, SameUUIDs, RecordedUUIDs, Seated, Named, new

\* Emptying transaction queues is quiet.
LEMMA ClearQuiet ==
  ASSUME NEW d, DOMAIN d = Collections, NEW c \in Collections, NEW ids
  PROVE  Quiet(d, ClearQueues(d, c, ids))
<1> DEFINE new == ClearQueues(d, c, ids)
<1>1. DOMAIN new = Collections
  BY DEF ClearQueues
<1>2. ASSUME NEW e \in Collections
      PROVE  /\ DOMAIN new[e] = DOMAIN d[e] \/ (e # c /\ new[e] = d[e])
             /\ \A id \in DOMAIN d[e], f \in IdentityFields :
                  /\ Has(new[e][id], f) <=> Has(d[e][id], f)
                  /\ Has(d[e][id], f) => new[e][id][f] = d[e][id][f]
  <2>1. CASE e # c
    <3>1. new[e] = d[e]
      BY <2>1 DEF ClearQueues
    <3> QED
      BY <2>1, <3>1
  <2>2. CASE e = c
    <3>1. new[e] = [id \in DOMAIN d[c] |-> IF id \in ids THEN d[c][id] ++ Field("txn-queue", {})
                                           ELSE d[c][id]]
      BY <2>2 DEF ClearQueues
    <3> HIDE DEF new
    <3>2. \A id \in DOMAIN d[c], f \in IdentityFields :
            LET doc == d[c][id] ++ Field("txn-queue", {})
            IN  /\ Has(doc, f) <=> Has(d[c][id], f)
                /\ Has(d[c][id], f) => doc[f] = d[c][id][f]
      BY DEF Has, ++, Field, IdentityFields
    <3> QED
      BY <2>2, <3>1, <3>2
  <2> QED
    BY <2>1, <2>2
<1>3. \A e \in Collections : DOMAIN new[e] = DOMAIN d[e]
  BY <1>2
<1> HIDE DEF new
<1>4. ASSUME NEW e \in Collections, NEW f \in IdentityFields
      PROVE  FieldValues(new[e], f) = FieldValues(d[e], f)
  BY <1>2, <1>3 DEF FieldValues
<1>5. IdentityCollections \subseteq Collections
      /\ {"models", "controllers", "permissions"} \subseteq Collections
  BY DEF Collections, IdentityCollections
<1>6. RecordedUUIDs(new) \subseteq RecordedUUIDs(d)
  BY <1>3, <1>4, <1>5 DEF RecordedUUIDs
<1>7. SameUUIDs(d, new)
  BY <1>2, <1>3, <1>5 DEF SameUUIDs
<1>8. \A u : Seated(d, u) => Seated(new, u)
  BY <1>2, <1>3, <1>5 DEF Seated, IdentityFields
<1>9. Named(d) => Named(new)
  BY <1>2, <1>3, <1>5 DEF Named, IdentityFields
<1>10. FieldValues(new["models"], "controller-uuid") = FieldValues(d["models"], "controller-uuid")
  BY <1>4, <1>5 DEF IdentityFields
<1> QED
  BY <1>6, <1>7, <1>8, <1>9, <1>10 DEF Quiet, new

\* The settings named by the invariant.
LEMMA NamedSettings == SettingsNamed <=> Named(db)
  BY DEF SettingsNamed, Named

\* A founding transaction is not neutral, and founds for one run only.
LEMMA FoundsOnce ==
  ASSUME NEW O, NEW u, Founds(O, u)
  PROVE  /\ ~Neutral(O)
         /\ \A v : Founds(O, v) => v = u
         /\ \A v : ~Joins(O, v)
<1>1. PICK op \in O : IsFounding(op)
  BY DEF Founds
<1>2. op.set["controller-uuid"] \in OpUUIDs(op)
  BY <1>1 DEF Founds, Records, OpUUIDs, IsFounding, IdentityCollections, IdentityFields, Has
<1> QED
  BY <1>1, <1>2 DEF Founds, Joins, Records, Neutral

\* Quiet steps, which complete or record neutral transactions only, keep what
\* the database says of the identity.
LEMMA QuietKept ==
  ASSUME IdentityKept, Quiet(db, db'),
         \A t \in txns' \ txns : Neutral(t.ops),
         \A t \in txns \ txns' : Neutral(t.ops)
  PROVE  IdentityKept' /\ SameUUIDs(db, db')
<1> USE DEF IdentityKept
<1>1. TxnsKind'
  BY DEF TxnsKind, Quiet
<1>2. OneIdentityTxn'
  BY DEF OneIdentityTxn
<1>3. HalfFounded'
  BY FoundsOnce DEF HalfFounded, Quiet
<1>4. RecordedBySettings'
  BY FoundsOnce DEF RecordedBySettings, Quiet
<1>5. SettingsNamed'
  BY DEF SettingsNamed, Quiet, Named
<1>6. ModelsSeated'
  BY DEF ModelsSeated, Quiet
<1> QED
  BY <1>1, <1>2, <1>3, <1>4, <1>5, <1>6 DEF Quiet

-----------------------------------------------------------------------------
(* Transactions of updateController and updateModels.                      *)

\* What founding and joining operations, all or some of them, do.
LEMMA RecordsAdds ==
  ASSUME NEW O, NEW u, Records(O, u), NEW S \in SUBSET O
  PROVE  Adds(S, {u}) /\ Names(S) /\ Records(S, u)
  BY DEF Records, Adds, Names

\* While the settings name a UUID, or the database is without a pending founder,
\* it is the only one recorded.
LEMMA SeatedOwns ==
  ASSUME IdentityKept, NEW u, Seated(db, u),
         \A t \in txns : \A v \in Runs : ~(t.applying /\ Founds(t.ops, v))
  PROVE  RecordedUUIDs(db) \subseteq {u}
  BY SeatedRecorded, SeatedOnce DEF IdentityKept, RecordedBySettings

\* Without settings and without a pending founder nothing is recorded.
LEMMA NothingRecorded ==
  ASSUME IdentityKept, <<"controllerSettings">> \notin DOMAIN db["controllers"],
         \A t \in txns : \A v \in Runs : ~(t.applying /\ Founds(t.ops, v))
  PROVE  RecordedUUIDs(db) = {}
  BY DEF IdentityKept, RecordedBySettings, Seated

\* The assertion of updateController: there are no controller settings yet.
LEMMA FoundersAssertion ==
  ASSUME NEW d, NEW O, NEW u, Founds(O, u), Asserted(d, O)
  PROVE  <<"controllerSettings">> \notin DOMAIN d["controllers"]
  BY DEF Founds, Records, Asserted, IsFounding

\* Once every UUID that is recorded is the one the settings name, the database
\* is in order, with pending transactions that rely on that UUID or on none.
LEMMA SettledKept ==
  ASSUME NEW u \in Runs, Seated(db', u), RecordedUUIDs(db') \subseteq {u},
         \A t \in txns' : Neutral(t.ops) \/ Joins(t.ops, u), OneIdentityTxn'
  PROVE  IdentityKept'
<1>1. TxnsKind'
  BY DEF TxnsKind, Runs
<1>2. HalfFounded'
  BY FoundsOnce DEF HalfFounded
<1>3. RecordedBySettings' /\ SettingsNamed'
  BY DEF RecordedBySettings, SettingsNamed, Seated, Runs
<1>4. ModelsSeated'
  BY NamedRecorded DEF ModelsSeated
<1> QED
  BY <1>1, <1>2, <1>3, <1>4 DEF IdentityKept

\* Dropping transactions of which none is a founder half carried out.
LEMMA DroppedKept ==
  ASSUME IdentityKept, db' = db, txns' \subseteq txns,
         \A t \in txns : \A v \in Runs : ~(t.applying /\ Founds(t.ops, v))
  PROVE  IdentityKept'
  BY DEF IdentityKept, TxnsKind, OneIdentityTxn, HalfFounded, RecordedBySettings,
         SettingsNamed, ModelsSeated, Runs

\* Carrying out a founding transaction, from nothing or half-way.
LEMMA FounderSettles ==
  ASSUME DOMAIN db = Collections, SettingsNamed, NEW u, RecordedUUIDs(db) \subseteq {u},
         NEW O, Records(O, u), Seated(db, u) \/ \E op \in O : IsFounding(op)
  PROVE  /\ Seated(Apply(db, O), u) /\ RecordedUUIDs(Apply(db, O)) \subseteq {u}
         /\ SameUUIDs(db, Apply(db, O))
<1>1. Adds(O, {u}) /\ SameUUIDs(db, Apply(db, O))
  BY UUIDsKept DEF Records, Adds
<1>2. RecordedUUIDs(Apply(db, O)) \subseteq {u}
  BY <1>1, RecordedComes
<1>3. CASE <<"controllerSettings">> \notin DOMAIN db["controllers"]
  <2>1. PICK op \in O : IsFounding(op)
    BY <1>3 DEF Seated
  <2>2. Seated(Apply(db, O), u)
    BY <1>3, <2>1, FoundingSeats
  <2> QED
    BY <1>1, <1>2, <2>2
<1>4. CASE <<"controllerSettings">> \in DOMAIN db["controllers"]
  <2>1. \E v : Seated(db, v)
    BY <1>4 DEF SettingsNamed, Seated
  <2>2. Seated(db, u)
    BY <2>1, SeatedRecorded
  <2>3. Seated(Apply(db, O), u)
    BY <1>1, <2>2, SeatStays
  <2> QED
    BY <1>1, <1>2, <2>3
<1> QED
  BY <1>3, <1>4

\* Completing a pending transaction, of whichever kind, keeps the database in
\* order and every UUID that is recorded.
LEMMA CompleteKept ==
  ASSUME DiskOK, IdentityKept, NEW t \in txns, Complete(t)
  PROVE  IdentityKept' /\ SameUUIDs(db, db')
<1>0. /\ DOMAIN db = Collections /\ t.done \subseteq t.ops
      /\ txns' = txns \ {t}
  BY DEF DiskOK, Complete
<1>1. db' = db \/ db' = Apply(db, t.ops) \/ db' = Apply(db, t.ops \ t.done)
  BY DEF Complete
<1>2. CASE Neutral(t.ops)
  <2>1. Neutral(t.ops \ t.done)
    BY <1>2 DEF Neutral
  <2>2. Quiet(db, db')
    BY <1>0, <1>1, <1>2, <2>1, NeutralQuiet, SameQuiet
  <2> QED
    BY <1>0, <1>2, <2>2, QuietKept DEF Quiet
<1>3. ASSUME NEW u \in Runs, Founds(t.ops, u)
      PROVE  IdentityKept' /\ SameUUIDs(db, db')
  <2>1. \A s \in txns \ {t} : Neutral(s.ops)
    BY <1>3, FoundsOnce DEF IdentityKept, OneIdentityTxn
  <2>2. ~t.applying => \A s \in txns : \A v \in Runs : ~(s.applying /\ Founds(s.ops, v))
    BY <2>1, FoundsOnce
  <2>3. OneIdentityTxn'
    BY <1>0, <2>1 DEF OneIdentityTxn
  <2>4. Records(t.ops, u) /\ Records(t.ops \ t.done, u)
    BY <1>0, <1>3, RecordsAdds DEF Founds
  <2>5. CASE ~t.applying /\ ~Asserted(db, t.ops)
    <3>1. db' = db
      BY <2>5 DEF Complete
    <3> QED
      BY <1>0, <2>2, <2>5, <3>1, DroppedKept, SameQuiet DEF Quiet
  <2>6. CASE ~t.applying /\ Asserted(db, t.ops)
    <3>1. db' = Apply(db, t.ops)
      BY <2>6 DEF Complete
    <3>2. RecordedUUIDs(db) = {}
      BY <1>3, <2>2, <2>6, FoundersAssertion, NothingRecorded
    <3>3. Seated(db', u) /\ RecordedUUIDs(db') \subseteq {u} /\ SameUUIDs(db, db')
      BY <1>0, <1>3, <2>4, <3>1, <3>2, FounderSettles DEF Founds, IdentityKept
    <3> QED
      BY <1>0, <2>1, <2>3, <3>3, SettledKept
  <2>7. CASE t.applying
    <3>1. db' = Apply(db, t.ops \ t.done)
      BY <2>7 DEF Complete
    <3>2. /\ RecordedUUIDs(db) \subseteq {u}
          /\ Seated(db, u) \/ \E op \in t.ops \ t.done : IsFounding(op)
      BY <1>3, <2>7 DEF IdentityKept, HalfFounded
    <3>3. Seated(db', u) /\ RecordedUUIDs(db') \subseteq {u} /\ SameUUIDs(db, db')
      BY <1>0, <2>4, <3>1, <3>2, FounderSettles DEF IdentityKept
    <3> QED
      BY <1>0, <2>1, <2>3, <3>3, SettledKept
  <2> QED
    BY <2>5, <2>6, <2>7
<1>4. ASSUME NEW u \in Runs, Joins(t.ops, u), Seated(db, u), ~Neutral(t.ops)
      PROVE  IdentityKept' /\ SameUUIDs(db, db')
  <2>1. \A s \in txns \ {t} : Neutral(s.ops)
    BY <1>4 DEF IdentityKept, OneIdentityTxn
  <2>2. RecordedUUIDs(db) \subseteq {u}
    BY <1>4, <2>1, FoundsOnce, SeatedOwns
  <2>3. Adds(t.ops, {u}) /\ Adds(t.ops \ t.done, {u})
    BY <1>0, <1>4, RecordsAdds DEF Joins
  <2>4. Seated(db', u)
    BY <1>0, <1>1, <1>4, <2>3, SeatStays
  <2>5. RecordedUUIDs(db') \subseteq {u}
    BY <1>0, <1>1, <2>2, <2>3, RecordedComes
  <2>6. OneIdentityTxn'
    BY <1>0, <2>1 DEF OneIdentityTxn
  <2>7. SameUUIDs(db, db')
    BY <1>0, <1>1, <2>2, <2>3, UUIDsKept, SameQuiet DEF Quiet
  <2> QED
    BY <1>0, <2>1, <2>2, <2>4, <2>5, <2>6, <2>7, SettledKept
<1> QED
  BY <1>2, <1>3, <1>4 DEF IdentityKept, TxnsKind

-----------------------------------------------------------------------------
(* The steps of the commands.                                              *)

\* What every step does.
Keeps ==
  /\ IdentityKept' /\ IdentityOwned'
  /\ SameUUIDs(db, db')

\* Where the stages that rely on the database being theirs come from.
LEMMA StagesBefore ==
  ASSUME live, pc \in Stages
  PROVE  /\ NextStage(pc) \in AfterResume => pc \in AfterResume \cup {"resumeTransactions"}
         /\ NextStage(pc) \in AfterController => pc \in AfterController \cup {"updateController"}
         /\ pc = "updateController" \/ pc \in AfterController => pc \in AfterResume
  BY DEF NextStage, Follows, Stages, AfterResume, AfterController

\* A command that has ended relies on nothing.
LEMMA ExitOwned ==
  ASSUME NEW how, Exit(how)
  PROVE  IdentityOwned'
  BY IdleNoStage DEF Exit, IdentityOwned, NothingPending, OwnSeat, OpsKind, AfterResume,
                     AfterController

\* A stage that is followed by the next one.
LEMMA ContinueOwned ==
  ASSUME pc \in Stages, Continue,
         live /\ pc \in AfterResume \cup {"resumeTransactions"} => txns' = {},
         live /\ pc \in AfterController \cup {"updateController"} => Seated(db', uuid)
  PROVE  IdentityOwned'
<1>1. CASE NextStage(pc) = "done"
  BY <1>1, ExitOwned DEF Continue
<1>2. CASE NextStage(pc) # "done"
  <2>1. pc' = NextStage(pc) /\ inTxn' = FALSE /\ UNCHANGED <<live, uuid>>
    BY <1>2 DEF Continue
  <2> QED
    BY <2>1, StagesBefore DEF IdentityOwned, NothingPending, OwnSeat, OpsKind
<1> QED
  BY <1>1, <1>2

\* A stage, other than updateController, that is done or gives up.
LEMMA StageKeeps ==
  ASSUME IdentityInv, NEW stage \in Stages \ {"updateController"}, At(stage),
         Quiet(db, db'), txns' = txns, stage = "resumeTransactions" => txns = {},
         Continue \/ \E how : Exit(how)
  PROVE  Keeps
<1>1. IdentityKept' /\ SameUUIDs(db, db')
  BY QuietKept DEF IdentityInv
<1>2. SameUUIDs(db, db')
  BY DEF Quiet
<1>3. CASE Continue
  <2>1. pc \in Stages /\ pc # "updateController"
    BY DEF At
  <2>2. live /\ pc \in AfterResume \cup {"resumeTransactions"} => txns' = {}
    BY DEF IdentityInv, IdentityOwned, NothingPending, At
  <2>3. live /\ pc \in AfterController \cup {"updateController"} => Seated(db', uuid)
    BY <2>1 DEF IdentityInv, IdentityOwned, OwnSeat, Quiet
  <2>4. IdentityOwned'
    BY <1>3, <2>1, <2>2, <2>3, ContinueOwned
  <2> QED
    BY <1>1, <1>2, <2>4 DEF Keeps
<1> QED
  BY <1>1, <1>2, <1>3, ExitOwned DEF Keeps

\* A step within a stage that has to do with the transactions of others only
\* while the upgrade does not own the database.
LEMMA WithinKeeps ==
  ASSUME IdentityInv, IdentityKept', SameUUIDs(db, db'),
         UNCHANGED <<pc, live, uuid, ops, inTxn>>, txns' \subseteq txns,
         live /\ pc \in AfterController => Seated(db', uuid)
  PROVE  Keeps
  BY DEF Keeps, IdentityInv, IdentityOwned, NothingPending, OwnSeat, OpsKind

\* A stage that reads for a neutral transaction.
LEMMA NeutralReadKeeps ==
  ASSUME IdentityInv, NeutralRead
  PROVE  Keeps
<1>1. PICK stage \in Reading : Reads(stage, ops')
  BY DEF NeutralRead
<1>2. /\ pc \in Reading /\ Neutral(ops')
      /\ UNCHANGED <<db, txns, pc, live, uuid>>
  BY <1>1 DEF Reads, At, NeutralRead, disk
<1>3. IdentityKept' /\ SameUUIDs(db, db')
  BY <1>2, SameQuiet, QuietKept DEF IdentityInv
<1>4. IdentityOwned'
  BY <1>2 DEF IdentityInv, IdentityOwned, NothingPending, OwnSeat, OpsKind
<1> QED
  BY <1>2, <1>3, <1>4 DEF Keeps

\* The stages of upgradeDB before updateController.
LEMMA PreparationKeeps ==
  ASSUME IdentityInv,
         \/ UpgradePrecheck \/ RepairTxnQueue \/ NothingToResume
         \/ \E t \in txns : ResumeTransaction(t)
         \/ ClearModelQueues \/ DropIndexes
  PROVE  Keeps
<1> DEFINE early == {"upgradePrecheck", "repairTxnQueue", "resumeTransactions",
                     "clearModelQueues", "dropIndexes"}
<1>0. early \subseteq Stages \ {"updateController"}
  BY DEF Stages, Follows
<1>a. DOMAIN db = Collections /\ {"controllers", "models"} \subseteq Collections
  BY DEF IdentityInv, ProcessInv, TypeOK, DiskOK, Collections
<1> HIDE DEF early
<1>1. CASE UpgradePrecheck
  BY <1>0, <1>1, SameQuiet, StageKeeps DEF UpgradePrecheck, early, disk
<1>2. CASE RepairTxnQueue
  <2>1. Quiet(db, db')
    BY <1>a, <1>2, ClearQuiet, SameQuiet DEF RepairTxnQueue
  <2> QED
    BY <1>0, <1>2, <2>1, StageKeeps DEF RepairTxnQueue, early
<1>3. CASE NothingToResume
  BY <1>0, <1>3, SameQuiet, StageKeeps DEF NothingToResume, early, disk
<1>4. ASSUME NEW t \in txns, ResumeTransaction(t) PROVE Keeps
  <2>1. CASE Stuck(db, t.ops)
    <3>1. Exit("error") /\ db' = db /\ txns' = txns
      BY <1>4, <2>1 DEF ResumeTransaction, disk
    <3>2. IdentityKept' /\ SameUUIDs(db, db')
      BY <3>1, SameQuiet, QuietKept DEF IdentityInv
    <3> QED
      BY <3>1, <3>2, ExitOwned DEF Keeps
  <2>2. CASE ~Stuck(db, t.ops)
    <3>1. /\ Complete(t) /\ pc = "resumeTransactions"
          /\ UNCHANGED <<pc, live, uuid, ops, inTxn>>
      BY <1>4, <2>2 DEF ResumeTransaction, At
    <3>2. IdentityKept' /\ SameUUIDs(db, db')
      BY <3>1, CompleteKept DEF IdentityInv, ProcessInv, TypeOK
    <3>3. pc \notin AfterController
      BY <3>1 DEF AfterController
    <3> QED
      BY <3>1, <3>2, <3>3, WithinKeeps DEF Complete
  <2> QED
    BY <2>1, <2>2
<1>5. CASE ClearModelQueues
  <2>1. Quiet(db, db')
    BY <1>a, <1>5, ClearQuiet DEF ClearModelQueues
  <2> QED
    BY <1>0, <1>5, <2>1, StageKeeps DEF ClearModelQueues, early
<1>6. CASE DropIndexes
  BY <1>0, <1>6, SameQuiet, StageKeeps DEF DropIndexes, early
<1> QED
  BY <1>1, <1>2, <1>3, <1>4, <1>5, <1>6

\* updateController and updateModels read.
LEMMA ControllerKeeps ==
  ASSUME IdentityInv, UpdateController \/ UpdateModels
  PROVE  Keeps
<1>1. /\ UNCHANGED <<db, txns>>
      /\ \/ \E how : Exit(how)
         \/ /\ UNCHANGED <<pc, live, uuid>>
            /\ \/ pc = "updateController" /\ Founds(ops', uuid)
               \/ pc = "updateModels" /\ Joins(ops', uuid)
  <2>1. CASE UpdateController
    <3>1. Founds(UpdateControllerOps(db, uuid), uuid)
      BY UpdateControllerFounds
    <3> QED
      BY <2>1, <3>1 DEF UpdateController, At, disk
  <2>2. CASE UpdateModels
    <3>1. Joins(UpdateModelsOps(db, uuid, context), uuid)
      BY UpdateModelsJoins
    <3> QED
      BY <2>2, <3>1 DEF UpdateModels, Reads, At, disk
  <2> QED
    BY <2>1, <2>2
<1>2. IdentityKept' /\ SameUUIDs(db, db')
  BY <1>1, SameQuiet, QuietKept DEF IdentityInv
<1>3. CASE \E how : Exit(how)
  BY <1>1, <1>2, <1>3, ExitOwned DEF Keeps
<1>4. CASE /\ UNCHANGED <<pc, live, uuid>>
           /\ \/ pc = "updateController" /\ Founds(ops', uuid)
              \/ pc = "updateModels" /\ Joins(ops', uuid)
  <2>1. IdentityOwned'
    BY <1>1, <1>4 DEF IdentityInv, IdentityOwned, NothingPending, OwnSeat, OpsKind
  <2> QED
    BY <1>1, <1>2, <2>1 DEF Keeps
<1> QED
  BY <1>1, <1>3, <1>4

\* The stages of renameServiceToApplication that write without a transaction.
LEMMA WritesKeeps ==
  ASSUME IdentityInv, UpdateStatusHistory \/ Drop
  PROVE  Keeps
<1>0. /\ {"statusHistory", "dropServices", "dropSettingsRefs", "dropIPAddresses"}
           \subseteq Stages \ {"updateController"}
      /\ DOMAIN db = Collections
      /\ {"services", "settingsrefs", "ipaddresses"} \subseteq Collections \ IdentityCollections
  BY DEF Stages, Follows, IdentityInv, ProcessInv, TypeOK, DiskOK, Collections,
         IdentityCollections
<1>1. CASE UpdateStatusHistory
  <2>1. CASE ~(live /\ StaleHistory(db) # {})
    BY <1>0, <1>1, <2>1, SameQuiet, StageKeeps DEF UpdateStatusHistory
  <2>2. CASE live /\ StaleHistory(db) # {}
    <3>1. PICK id \in StaleHistory(db) : db' = Apply(db, {HistoryUpdate(db, id)})
      BY <1>1, <2>2 DEF UpdateStatusHistory
    <3>2. Neutral({HistoryUpdate(db, id)})
      <4>1. About({HistoryUpdate(db, id)}, {"statuseshistory"})
        BY SchemaAbout
      <4>2. {"statuseshistory"} \cap IdentityCollections = {}
        BY DEF IdentityCollections
      <4> QED
        BY <4>1, <4>2, AboutNeutral
    <3>3. Quiet(db, db')
      BY <1>0, <3>1, <3>2, NeutralQuiet
    <3>4. txns' = txns /\ UNCHANGED <<pc, live, uuid, ops, inTxn>>
      BY <1>1, <2>2 DEF UpdateStatusHistory
    <3>5. IdentityKept' /\ SameUUIDs(db, db')
      BY <3>3, <3>4, QuietKept DEF IdentityInv
    <3>6. live /\ pc \in AfterController => Seated(db', uuid)
      BY <3>3 DEF IdentityInv, IdentityOwned, OwnSeat, Quiet
    <3> QED
      BY <3>3, <3>4, <3>5, <3>6, WithinKeeps DEF Quiet
  <2> QED
    BY <2>1, <2>2
<1>2. ASSUME NEW stage \in {"dropServices", "dropSettingsRefs", "dropIPAddresses"},
             NEW c \in {"services", "settingsrefs", "ipaddresses"}, DropCollection(stage, c)
      PROVE  Keeps
  <2>1. Quiet(db, db')
    BY <1>0, <1>2, DropQuiet, SameQuiet DEF DropCollection
  <2> QED
    BY <1>0, <1>2, <2>1, StageKeeps DEF DropCollection
<1> QED
  BY <1>1, <1>2 DEF Drop, DropServices, DropSettingsRefs, DropIPAddresses

\* addTwoZeroBinariesToDB.
LEMMA ToolsKeeps ==
  ASSUME IdentityInv, AddTwoZeroBinariesToDB
  PROVE  Keeps
<1>0. {"reopenState", "openTools", "dropBlobIndex", "addTools"} \subseteq Stages \ {"updateController"}
  BY DEF Stages, Follows
<1>1. /\ UNCHANGED <<db, txns>>
      /\ Continue \/ \E how : Exit(how)
      /\ \E stage \in {"reopenState", "openTools", "dropBlobIndex", "addTools"} : At(stage)
  BY DEF AddTwoZeroBinariesToDB, ReopenState, OpenTools, DropBlobIndex, AddTools, disk
<1>2. PICK stage \in {"reopenState", "openTools", "dropBlobIndex", "addTools"} : At(stage)
  BY <1>1
<1> QED
  BY <1>0, <1>1, <1>2, SameQuiet, StageKeeps

\* What holds of the database when a live upgrade runs a transaction of its own
\* that has to do with the identity.
LEMMA OwnTransaction ==
  ASSUME IdentityInv, live, inTxn, ~Neutral(ops)
  PROVE  /\ txns = {}
         /\ \/ pc = "updateController" /\ Founds(ops, uuid)
            \/ /\ pc = "updateModels" /\ Joins(ops, uuid) /\ Seated(db, uuid)
               /\ RecordedUUIDs(db) \subseteq {uuid}
<1>1. \/ pc = "updateController" /\ Founds(ops, uuid)
      \/ pc = "updateModels" /\ Joins(ops, uuid)
  BY DEF IdentityInv, IdentityOwned, OpsKind
<1>2. /\ {"updateController", "updateModels"} \subseteq AfterResume
      /\ "updateModels" \in AfterController
  BY DEF AfterResume, AfterController, Stages, Follows
<1>3. txns = {}
  BY <1>1, <1>2 DEF IdentityInv, IdentityOwned, NothingPending
<1>4. ASSUME pc = "updateModels"
      PROVE  Seated(db, uuid) /\ RecordedUUIDs(db) \subseteq {uuid}
  <2>1. Seated(db, uuid)
    BY <1>2, <1>4 DEF IdentityInv, IdentityOwned, OwnSeat
  <2> QED
    BY <1>3, <2>1, SeatedOwns DEF IdentityInv
<1> QED
  BY <1>1, <1>3, <1>4

\* Carrying out some of the operations of the transaction at hand.
LEMMA OwnOperations ==
  ASSUME IdentityInv, live, inTxn, ~Neutral(ops), Asserted(db, ops), NEW done \in SUBSET ops
  PROVE  /\ SameUUIDs(db, Apply(db, done))
         /\ RecordedUUIDs(Apply(db, done)) \subseteq {uuid}
         /\ \/ Seated(Apply(db, done), uuid)
            \/ Founds(ops, uuid) /\ \E op \in ops \ done : IsFounding(op)
         /\ Named(Apply(db, done))
         /\ FieldValues(Apply(db, done)["models"], "controller-uuid") # {}
              => Seated(Apply(db, done), uuid)
<1>0. DOMAIN db = Collections /\ Named(db)
  BY NamedSettings DEF IdentityInv, ProcessInv, TypeOK, DiskOK, IdentityKept
<1>1. CASE pc = "updateController" /\ Founds(ops, uuid)
  <2>1. RecordedUUIDs(db) = {}
    BY <1>1, OwnTransaction, FoundersAssertion, NothingRecorded DEF IdentityInv
  <2>2. Records(done, uuid) /\ Adds(done, {uuid}) /\ Names(done)
    BY <1>1, RecordsAdds DEF Founds
  <2>3. RecordedUUIDs(Apply(db, done)) \subseteq {uuid}
    BY <1>0, <2>1, <2>2, RecordedComes
  <2>4. Named(Apply(db, done))
    BY <1>0, <2>2, NamedStays
  <2>5. Seated(Apply(db, done), uuid) \/ \E op \in ops \ done : IsFounding(op)
    <3>1. CASE \E op \in done : IsFounding(op)
      BY <1>0, <2>1, <2>2, <3>1, FounderSettles DEF IdentityInv, IdentityKept
    <3> QED
      BY <1>1, <3>1 DEF Founds
  <2>6. FieldValues(Apply(db, done)["models"], "controller-uuid") = {}
    <3>1. \A op \in done : op.c # "models"
      BY <1>1 DEF Founds
    <3>2. "models" \in DOMAIN db
      BY <1>0 DEF Collections
    <3>3. Apply(db, done)["models"] = db["models"]
      BY <3>1, <3>2, ApplyElsewhere
    <3> QED
      BY <2>1, <3>3, NamedRecorded
  <2>7. SameUUIDs(db, Apply(db, done))
    BY <1>0, <2>1, <2>2, UUIDsKept
  <2> QED
    BY <1>1, <2>3, <2>4, <2>5, <2>6, <2>7
<1>2. CASE /\ Joins(ops, uuid) /\ Seated(db, uuid)
           /\ RecordedUUIDs(db) \subseteq {uuid}
  <2>1. Adds(done, {uuid}) /\ Names(done)
    BY <1>2, RecordsAdds DEF Joins
  <2>2. Seated(Apply(db, done), uuid)
    BY <1>0, <1>2, <2>1, SeatStays
  <2>3. RecordedUUIDs(Apply(db, done)) \subseteq {uuid}
    BY <1>0, <1>2, <2>1, RecordedComes
  <2>4. Named(Apply(db, done))
    BY <1>0, <2>1, NamedStays
  <2>5. SameUUIDs(db, Apply(db, done))
    BY <1>0, <1>2, <2>1, UUIDsKept
  <2> QED
    BY <1>2, <2>2, <2>3, <2>4, <2>5
<1> QED
  BY <1>1, <1>2, OwnTransaction

\* A transaction that is recorded and left behind, with nothing carried out or
\* with some of its operations.
LEMMA RecordKeeps ==
  ASSUME IdentityInv, live, inTxn, NEW done \in SUBSET ops, NEW applying \in BOOLEAN,
         txns' = txns \cup {[ops |-> ops, done |-> done, applying |-> applying]},
         \/ ~applying /\ db' = db
         \/ applying /\ db' = Apply(db, done) /\ Asserted(db, ops)
  PROVE  IdentityKept' /\ SameUUIDs(db, db')
<1> DEFINE new == [ops |-> ops, done |-> done, applying |-> applying]
<1>1. new.ops = ops /\ new.done = done /\ new.applying = applying
  OBVIOUS
<1>2. txns' = txns \cup {new}
  OBVIOUS
<1>3. DOMAIN db = Collections
  BY DEF IdentityInv, ProcessInv, TypeOK, DiskOK
<1>4. uuid \in Runs
  BY DEF IdentityInv, ProcessInv, TypeOK, ProcessOK, Runs
<1> HIDE DEF new
<1>5. CASE Neutral(ops)
  <2>1. Neutral(done)
    BY <1>5 DEF Neutral
  <2>2. Quiet(db, db')
    BY <1>3, <2>1, NeutralQuiet, SameQuiet
  <2> QED
    BY <1>1, <1>2, <1>5, <2>2, QuietKept DEF IdentityInv, Quiet
<1>6. CASE ~Neutral(ops)
  <2>1. txns' = {new}
    BY <1>2, <1>6, OwnTransaction
  <2>2. OneIdentityTxn'
    BY <2>1 DEF OneIdentityTxn
  <2>3. CASE ~applying /\ db' = db
    <3>1. TxnsKind'
      BY <1>1, <1>4, <1>6, <2>1, <2>3, OwnTransaction DEF TxnsKind, Runs
    <3>2. HalfFounded'
      BY <1>1, <2>1, <2>3 DEF HalfFounded
    <3>3. RecordedBySettings'
      BY <1>6, <2>3, OwnTransaction DEF IdentityInv, IdentityKept, RecordedBySettings, Runs
    <3>4. SettingsNamed' /\ ModelsSeated'
      BY <2>3 DEF IdentityInv, IdentityKept, SettingsNamed, ModelsSeated
    <3> QED
      BY <2>2, <2>3, <3>1, <3>2, <3>3, <3>4, SameQuiet DEF IdentityKept, Quiet
  <2>4. CASE applying /\ db' = Apply(db, done) /\ Asserted(db, ops)
    <3>1. /\ SameUUIDs(db, db')
          /\ RecordedUUIDs(db') \subseteq {uuid}
          /\ Seated(db', uuid) \/ (Founds(ops, uuid) /\ \E op \in ops \ done : IsFounding(op))
          /\ Named(db')
          /\ FieldValues(db'["models"], "controller-uuid") # {} => Seated(db', uuid)
      BY <1>6, <2>4, OwnOperations
    <3>2. TxnsKind'
      <4>1. Joins(ops, uuid) => Seated(db', uuid)
        BY <3>1, FoundsOnce
      <4> QED
        BY <1>1, <1>4, <1>6, <2>1, <4>1, OwnTransaction DEF TxnsKind, Runs
    <3>3. HalfFounded'
      <4>1. ASSUME NEW u \in Runs, Founds(ops, u)
            PROVE  u = uuid
        BY <1>6, <4>1, OwnTransaction, FoundsOnce
      <4> QED
        BY <1>1, <2>1, <3>1, <4>1 DEF HalfFounded, Runs
    <3>4. RecordedBySettings'
      <4>1. CASE Seated(db', uuid)
        BY <1>4, <3>1, <4>1 DEF RecordedBySettings, Runs
      <4>2. CASE Founds(ops, uuid)
        BY <1>1, <1>4, <2>1, <2>4, <4>2 DEF RecordedBySettings, Runs
      <4> QED
        BY <3>1, <4>1, <4>2
    <3>5. SettingsNamed'
      BY <3>1 DEF SettingsNamed, Named
    <3>6. ModelsSeated'
      BY <3>1, NamedRecorded DEF ModelsSeated
    <3> QED
      BY <2>2, <3>1, <3>2, <3>3, <3>4, <3>5, <3>6 DEF IdentityKept
  <2> QED
    BY <2>3, <2>4
<1> QED
  BY <1>5, <1>6

\* RunTransaction has found nothing in its way and carries out its operations.
LEMMA CommitKeeps ==
  ASSUME IdentityInv, Commit
  PROVE  Keeps
<1>1. /\ DOMAIN db = Collections /\ uuid \in Runs
      /\ live /\ inTxn /\ pc \in Stages /\ Asserted(db, ops)
      /\ db' = Apply(db, ops) /\ txns' = txns /\ Continue
  BY DEF IdentityInv, ProcessInv, TypeOK, DiskOK, ProcessOK, Runs, Commit, CanRun
<1>2. pc \in AfterResume \cup {"resumeTransactions"} => txns' = {}
  BY <1>1 DEF IdentityInv, IdentityOwned, NothingPending, OpsKind, Reading, LiveStages
<1>3. CASE Neutral(ops)
  <2>1. Quiet(db, db')
    BY <1>1, <1>3, NeutralQuiet
  <2>2. IdentityKept' /\ SameUUIDs(db, db')
    BY <1>1, <2>1, QuietKept DEF IdentityInv
  <2>3. pc # "updateController"
    BY <1>1, <1>3, FoundsOnce DEF IdentityInv, IdentityOwned, OpsKind, Reading
  <2>4. pc \in AfterController \cup {"updateController"} => Seated(db', uuid)
    BY <1>1, <2>1, <2>3 DEF IdentityInv, IdentityOwned, OwnSeat, Quiet
  <2>5. IdentityOwned'
    BY <1>1, <1>2, <2>4, ContinueOwned
  <2> QED
    BY <2>1, <2>2, <2>5 DEF Keeps, Quiet
<1>4. CASE ~Neutral(ops)
  <2>1. /\ SameUUIDs(db, db')
        /\ RecordedUUIDs(db') \subseteq {uuid}
        /\ Seated(db', uuid)
    BY <1>1, <1>4, OwnOperations
  <2>2. txns' = {}
    BY <1>1, <1>4, OwnTransaction
  <2>3. IdentityKept'
    BY <1>1, <2>1, <2>2, SettledKept DEF OneIdentityTxn
  <2>4. IdentityOwned'
    BY <1>1, <2>1, <2>2, ContinueOwned
  <2> QED
    BY <2>1, <2>3, <2>4 DEF Keeps
<1> QED
  BY <1>3, <1>4

\* RunTransaction stops at a document and leaves the transaction recorded.
LEMMA StopKeeps ==
  ASSUME IdentityInv, live, inTxn, StopAtQueue
  PROVE  Keeps
<1>1. /\ db' = db
      /\ txns' = txns \cup {[ops |-> ops, done |-> {}, applying |-> FALSE]}
      /\ Exit("error")
  BY DEF StopAtQueue, Recorded
<1> QED
  BY <1>1, RecordKeeps, ExitOwned DEF Keeps

\* RunTransaction.
LEMMA RunTransactionKeeps ==
  ASSUME IdentityInv, RunTransaction
  PROVE  Keeps
<1>1. CASE DryRunTransaction
  <2>1. UNCHANGED <<db, txns>> /\ ~live /\ Continue /\ pc \in Stages
    BY <1>1 DEF DryRunTransaction, disk, IdentityInv, ProcessInv
  <2>2. IdentityKept' /\ SameUUIDs(db, db')
    BY <2>1, SameQuiet, QuietKept DEF IdentityInv
  <2>3. IdentityOwned'
    BY <2>1, ContinueOwned
  <2> QED
    BY <2>1, <2>2, <2>3 DEF Keeps
<1>2. CASE Abort
  <2>1. UNCHANGED <<db, txns>> /\ Exit("aborted")
    BY <1>2 DEF Abort, disk
  <2>2. IdentityKept' /\ SameUUIDs(db, db')
    BY <2>1, SameQuiet, QuietKept DEF IdentityInv
  <2> QED
    BY <2>1, <2>2, ExitOwned DEF Keeps
<1>3. ASSUME NEW t \in txns, FlushTransaction(t) PROVE Keeps
  <2>1. CASE Stuck(db, t.ops)
    BY <1>3, <2>1, StopKeeps DEF FlushTransaction
  <2>2. CASE ~Stuck(db, t.ops)
    <3>1. /\ Complete(t) /\ live
          /\ UNCHANGED <<pc, live, uuid, ops, inTxn>>
      BY <1>3, <2>2 DEF FlushTransaction
    <3>2. IdentityKept' /\ SameUUIDs(db, db')
      BY <3>1, CompleteKept DEF IdentityInv, ProcessInv, TypeOK
    <3>3. pc \notin AfterController
      <4>1. AfterController \subseteq AfterResume
        BY DEF AfterController, AfterResume
      <4> QED
        BY <3>1, <4>1 DEF IdentityInv, IdentityOwned, NothingPending
    <3> QED
      BY <3>1, <3>2, <3>3, WithinKeeps DEF Complete
  <2> QED
    BY <2>1, <2>2
<1> QED
  BY <1>1, <1>2, <1>3, CommitKeeps, StopKeeps DEF RunTransaction, StuckTransaction, CanRun

\* Fail, FailBeforeApply, FailWhileApplying.
LEMMA FailureKeeps ==
  ASSUME IdentityInv, Failure
  PROVE  Keeps
<1>1. CASE Fail
  <2>1. UNCHANGED <<db, txns>> /\ Exit("failed")
    BY <1>1 DEF Fail, disk
  <2>2. IdentityKept' /\ SameUUIDs(db, db')
    BY <2>1, SameQuiet, QuietKept DEF IdentityInv
  <2> QED
    BY <2>1, <2>2, ExitOwned DEF Keeps
<1>2. CASE FailBeforeApply
  <2>1. /\ live /\ inTxn /\ db' = db /\ Exit("failed")
        /\ txns' = txns \cup {[ops |-> ops, done |-> {}, applying |-> FALSE]}
    BY <1>2 DEF FailBeforeApply, Recorded
  <2> QED
    BY <2>1, RecordKeeps, ExitOwned DEF Keeps
<1>3. CASE FailWhileApplying
  <2>1. PICK done \in Cuts(ops) :
          /\ db' = Apply(db, done)
          /\ txns' = txns \cup {[ops |-> ops, done |-> done, applying |-> TRUE]}
    BY <1>3 DEF FailWhileApplying
  <2>2. done \in SUBSET ops
    BY DEF Cuts
  <2>3. live /\ inTxn /\ Asserted(db, ops) /\ Exit("failed")
    BY <1>3 DEF FailWhileApplying, CanRun
  <2> QED
    BY <2>1, <2>2, <2>3, RecordKeeps, ExitOwned DEF Keeps
<1> QED
  BY <1>1, <1>2, <1>3 DEF Failure

\* Every step keeps the identity.
LEMMA IdentityStep ==
  ASSUME IdentityInv, [Next]_vars
  PROVE  Keeps
<1>1. ASSUME NEW command \in DOMAIN FirstStage, NEW forReal \in BOOLEAN,
             Start(command, forReal)
      PROVE  Keeps
  <2>1. /\ UNCHANGED <<db, txns, inTxn>> /\ pc = "idle"
        /\ pc' \in {"upgradePrecheck", "removeCleanups"}
    BY <1>1 DEF Start, FirstStage, disk
  <2>2. IdentityKept' /\ SameUUIDs(db, db')
    BY <2>1, SameQuiet, QuietKept DEF IdentityInv
  <2>3. IdentityOwned'
    BY <2>1, IdleNoStage DEF IdentityInv, ProcessInv, IdentityOwned, NothingPending, OwnSeat,
                             OpsKind, AfterResume, AfterController
  <2> QED
    BY <2>1, <2>2, <2>3 DEF Keeps
<1>2. CASE Step
  <2>1. ProcessInv
    BY DEF IdentityInv
  <2>2. CASE GiveUp
    <3>1. UNCHANGED <<db, txns>> /\ Exit("error")
      BY <2>2 DEF GiveUp, disk
    <3>2. IdentityKept' /\ SameUUIDs(db, db')
      BY <3>1, SameQuiet, QuietKept DEF IdentityInv
    <3> QED
      BY <3>1, <3>2, ExitOwned DEF Keeps
  <2>3. CASE At("removeCleanups") /\ Continue /\ UNCHANGED disk
    <3>1. "removeCleanups" \in Stages \ {"updateController"}
      BY DEF Stages, Follows
    <3> QED
      BY <2>3, <3>1, SameQuiet, StageKeeps DEF disk
  <2>4. CASE RenameServiceToApplication
    BY <2>2, <2>4, RenameSteps, NeutralReadKeeps, WritesKeeps
  <2>5. CASE OtherSchemaUpgrades
    BY <2>5, SchemaSteps, NeutralReadKeeps
  <2>6. CASE RemoveCleanups
    BY <2>3, <2>6, CleanupSteps, NeutralReadKeeps
  <2> QED
    BY <1>2, <2>4, <2>5, <2>6, PreparationKeeps, ControllerKeeps, ToolsKeeps,
       RunTransactionKeeps DEF Step
<1>3. CASE Failure
  BY <1>3, FailureKeeps
<1>4. CASE UNCHANGED vars
  <2>1. UNCHANGED <<db, txns, pc, live, uuid, ops, inTxn>>
    BY <1>4 DEF vars, disk
  <2>2. IdentityKept' /\ SameUUIDs(db, db')
    BY <2>1, SameQuiet, QuietKept DEF IdentityInv
  <2>3. IdentityOwned'
    BY <2>1 DEF IdentityInv, IdentityOwned, NothingPending, OwnSeat, OpsKind
  <2> QED
    BY <2>1, <2>2, <2>3 DEF Keeps
<1> QED
  BY <1>1, <1>2, <1>3, <1>4 DEF Next, Finished

\* A database of beta 7 knows no controller UUID.
LEMMA IdentityInit ==
  ASSUME Init
  PROVE  IdentityInv
<1>1. PICK s \in B7States : db = s.db /\ txns = s.txns
  BY DEF Init
<1>2. /\ RecordedUUIDs(db) = {}
      /\ <<"controllerSettings">> \notin DOMAIN db["controllers"]
      /\ \A t \in txns : Neutral(t.ops)
  BY <1>1, B7Assumption
<1>3. IdentityKept
  BY <1>2, FoundsOnce, NamedRecorded DEF IdentityKept, TxnsKind, OneIdentityTxn, HalfFounded,
                          RecordedBySettings, SettingsNamed, ModelsSeated
<1>4. IdentityOwned
  BY IdleNoStage DEF Init, IdentityOwned, NothingPending, OwnSeat, OpsKind
<1> QED
  BY <1>3, <1>4, ProcessInit DEF IdentityInv

-----------------------------------------------------------------------------
(* The theorems.                                                           *)

\* In every reachable state the recorded UUIDs, the controller settings and the
\* pending transactions of updateController and updateModels fit together.
THEOREM IdentityInvariant == Spec => []IdentityInv
<1>1. Init => IdentityInv
  BY IdentityInit
<1>2. IdentityInv /\ [Next]_vars => IdentityInv'
  BY IdentityStep, ProcessStep DEF Keeps, IdentityInv
<1> QED
  BY <1>1, <1>2, PTL DEF Spec

\* However many runs of upgrade-db generate a controller UUID and wherever they
\* fail, no two documents name different controllers, and no model names one
\* that has no settings.
THEOREM UUIDsAgree == Spec => []ControllerUUIDAgrees
<1>1. ASSUME IdentityInv
      PROVE  ControllerUUIDAgrees
  <2>1. ASSUME NEW t \in txns, NEW u \in Runs, t.applying, Founds(t.ops, u)
        PROVE  RecordedUUIDs(db) \subseteq {u}
    BY <1>1, <2>1 DEF IdentityInv, IdentityKept, HalfFounded
  <2>2. \A u, v \in RecordedUUIDs(db) : u = v
    BY <1>1, <2>1 DEF IdentityInv, IdentityKept, RecordedBySettings
  <2>3. \A u \in FieldValues(db["models"], "controller-uuid") :
          u \in FieldValues(db["controllers"], "controller-uuid")
    BY <1>1, SeatedRecorded DEF IdentityInv, IdentityKept, ModelsSeated
  <2> QED
    BY <2>2, <2>3 DEF ControllerUUIDAgrees
<1> QED
  BY <1>1, IdentityInvariant, PTL

\* A document that names a controller goes on naming the same one, whichever
\* UUID a later run generates and whenever the transaction of an earlier run is
\* completed.
THEOREM UUIDsStay == Spec => UUIDIsPermanent
<1>1. IdentityInv /\ [Next]_vars => [SameUUIDs(db, db')]_vars
  BY IdentityStep DEF Keeps
<1> QED
  BY <1>1, IdentityInvariant, PTL DEF Spec, UUIDIsPermanent

\* A live upgrade-db that migrates documents, in whatever stage past
\* updateController, is the run whose UUID the database records: the assertions
\* of updateController keep every other run from getting there.
THEOREM OneMigration == Spec => []OneRunMigrates
<1>1. ASSUME IdentityInv
      PROVE  OneRunMigrates
  <2>1. SUFFICES ASSUME live, pc \in AfterController
                 PROVE  RecordedUUIDs(db) = {uuid}
    BY DEF OneRunMigrates
  <2>2. Seated(db, uuid)
    BY <1>1, <2>1 DEF IdentityInv, IdentityOwned, OwnSeat
  <2>3. txns = {}
    BY <1>1, <2>1 DEF IdentityInv, IdentityOwned, NothingPending, AfterController, AfterResume
  <2>4. RecordedUUIDs(db) \subseteq {uuid}
    BY <1>1, <2>2, <2>3, SeatedOwns DEF IdentityInv
  <2> QED
    BY <2>2, <2>4, SeatedRecorded
<1> QED
  BY <1>1, IdentityInvariant, PTL

-----------------------------------------------------------------------------
(* The kinds of steps a running command takes.                             *)

\* The documents that have to do with the credentials say the same in d and e,
\* save for their transaction queues.
Unmoved(d, e) ==
  \A p : p[1] \in CredentialCollections /\ p[3] # "txn-queue" =>
    /\ Filled(d, p) <=> Filled(e, p)
    /\ Filled(d, p) => ValueAt(d, p) = ValueAt(e, p)

\* What is the same in both does not matter.
LEMMA SameUnmoved ==
  ASSUME NEW d, NEW e, \A c \in CredentialCollections : d[c] = e[c]
  PROVE  Unmoved(d, e)
  BY DEF Unmoved, Filled, ValueAt

\* Nor do transaction queues.
LEMMA ClearUnmoved ==
  ASSUME NEW d, DOMAIN d = Collections, NEW c \in Collections, NEW ids
  PROVE  Unmoved(d, ClearQueues(d, c, ids))
<1> DEFINE new == ClearQueues(d, c, ids)
<1>1. \A e \in Collections : e # c => new[e] = d[e]
  BY DEF ClearQueues
<1>2. new[c] = [id \in DOMAIN d[c] |-> IF id \in ids THEN d[c][id] ++ Field("txn-queue", {})
                                       ELSE d[c][id]]
  BY DEF ClearQueues
<1> HIDE DEF new
<1>3. ASSUME NEW id, NEW f, f # "txn-queue"
      PROVE  /\ id \in DOMAIN new[c] <=> id \in DOMAIN d[c]
             /\ id \in DOMAIN d[c] =>
                  /\ f \in DOMAIN new[c][id] <=> f \in DOMAIN d[c][id]
                  /\ f \in DOMAIN d[c][id] => new[c][id][f] = d[c][id][f]
  BY <1>2, <1>3 DEF ++, Field
<1>4. ASSUME NEW p, p[1] \in CredentialCollections, p[3] # "txn-queue"
      PROVE  /\ Filled(d, p) <=> Filled(new, p)
             /\ Filled(d, p) => ValueAt(d, p) = ValueAt(new, p)
  <2>1. CASE p[1] = c
    BY <1>3, <1>4, <2>1 DEF Filled, Has, ValueAt
  <2>2. CASE p[1] # c
    BY <1>1, <1>4, <2>2 DEF Filled, ValueAt, CredentialCollections, Collections
  <2> QED
    BY <2>1, <2>2
<1> QED
  BY <1>4 DEF Unmoved, new

\* updateController has found the settings it needs and written the certificates.
SavesCerts ==
  LET cloud == ControllerContext(db).cloud
  IN  /\ cloud \in Clouds /\ HasSettingsOf(db, cloud)
      /\ certs' = IF live /\ cloud = "lxd" THEN LXDCertFiles(db) ELSE certs

\* A stage has read the database and calls RunTransaction.
ReadsFor ==
  /\ pc \in Stages /\ ~inTxn /\ inTxn' = TRUE
  /\ UNCHANGED <<db, txns, pc, cmd, live, uuid, exit, b7>>
  /\ \/ pc = "updateController" /\ ops' = UpdateControllerOps(db, uuid) /\ SavesCerts
     \/ pc = "updateModels" /\ ops' = UpdateModelsOps(db, uuid, context) /\ certs' = certs
     \/ /\ pc \in Reading /\ certs' = certs
        /\ About(ops', Collections \ IdentityCollections) /\ Elsewhere(db, ops')

\* The transaction at hand is left behind before it has changed anything, or with
\* some of its operations carried out.
LeavesBehind ==
  \/ db' = db /\ txns' = txns \cup {Recorded}
  \/ /\ Asserted(db, ops)
     /\ \E done \in SUBSET ops :
          /\ db' = Apply(db, done)
          /\ txns' = txns \cup {[ops |-> ops, done |-> done, applying |-> TRUE]}

\* The command gives up, or is killed, perhaps with a transaction left behind.
Quits ==
  /\ pc \in Stages
  /\ \E how \in {"error", "aborted", "panic", "failed"} : Exit(how)
  /\ certs' = certs
  /\ \/ db' = db /\ txns' = txns
     \/ live /\ inTxn /\ LeavesBehind

\* A stage is done that runs no transaction.
Passes ==
  /\ pc \in Stages \ {"updateController", "updateModels"}
  /\ Continue
  /\ Quiet(db, db') /\ Unmoved(db, db') /\ UNCHANGED <<txns, certs>>
  /\ pc \in AfterModels => db'["models"] = db["models"]
  /\ pc = "addTools" => db' = db

\* A step in the middle of a stage.
Within ==
  /\ pc \in Stages /\ live
  /\ UNCHANGED <<pc, cmd, live, uuid, context, ops, inTxn, exit, b7>>
  /\ \/ \E t \in txns : Complete(t)
     \/ /\ pc \in AfterModels /\ Quiet(db, db') /\ Unmoved(db, db')
        /\ UNCHANGED <<txns, certs>> /\ db'["models"] = db["models"]

\* Whatever is left behind has the operations at hand.
LEMMA LeftBehind ==
  ASSUME LeavesBehind
  PROVE  /\ \E done \in SUBSET ops : db' = db \/ db' = Apply(db, done)
         /\ \E t : t.ops = ops /\ txns' = txns \cup {t}
<1>1. CASE db' = db /\ txns' = txns \cup {Recorded}
  <2>1. Recorded.ops = ops
    BY DEF Recorded
  <2> QED
    BY <1>1, <2>1
<1>2. ASSUME NEW done \in SUBSET ops, db' = Apply(db, done),
             txns' = txns \cup {[ops |-> ops, done |-> done, applying |-> TRUE]}
      PROVE  \E t : t.ops = ops /\ txns' = txns \cup {t}
  <2>1. [ops |-> ops, done |-> done, applying |-> TRUE].ops = ops
    OBVIOUS
  <2> QED
    BY <1>2, <2>1
<1> QED
  BY <1>1, <1>2 DEF LeavesBehind

\* A stage that reads for a transaction which has nothing to do with models.
LEMMA NeutralReadsFor ==
  ASSUME NeutralRead
  PROVE  ReadsFor
<1>1. PICK stage \in Reading : Reads(stage, ops')
  BY DEF NeutralRead
<1>2. /\ pc \in Reading /\ pc \in Stages /\ ~inTxn /\ inTxn' = TRUE
      /\ UNCHANGED <<db, txns, certs, pc, cmd, live, uuid, exit, b7>>
  BY <1>1 DEF Reads, At, Reading, disk
<1> QED
  BY <1>2 DEF ReadsFor, NeutralRead

\* The stages of upgradeDB before updateController.
LEMMA PreparationKind ==
  ASSUME ProcessInv,
         \/ UpgradePrecheck \/ RepairTxnQueue \/ NothingToResume
         \/ \E t \in txns : ResumeTransaction(t)
         \/ ClearModelQueues \/ DropIndexes
  PROVE  Quits \/ Passes \/ Within
<1> DEFINE early == {"upgradePrecheck", "repairTxnQueue", "resumeTransactions",
                     "clearModelQueues", "dropIndexes"}
<1>0. /\ early \subseteq Stages \ {"updateController", "updateModels"}
      /\ \A stage \in early : stage \notin AfterModels /\ stage # "addTools"
      /\ DOMAIN db = Collections /\ {"controllers", "models"} \subseteq Collections
  BY DEF Stages, Follows, AfterModels, AfterController, ProcessInv, TypeOK, DiskOK, Collections
<1>1. pc \in early
  BY DEF UpgradePrecheck, RepairTxnQueue, NothingToResume, ResumeTransaction,
         ClearModelQueues, DropIndexes, At
<1>2. CASE UpgradePrecheck
  BY <1>0, <1>1, <1>2, SameQuiet, SameUnmoved DEF UpgradePrecheck, Quits, Passes, disk
<1>3. CASE RepairTxnQueue
  <2>1. Quiet(db, db') /\ Unmoved(db, db')
    BY <1>0, <1>3, ClearQuiet, SameQuiet, ClearUnmoved, SameUnmoved DEF RepairTxnQueue
  <2> QED
    BY <1>0, <1>1, <1>3, <2>1 DEF RepairTxnQueue, Quits, Passes
<1>4. CASE NothingToResume
  BY <1>0, <1>1, <1>4, SameQuiet, SameUnmoved DEF NothingToResume, Passes, disk
<1>5. ASSUME NEW t \in txns, ResumeTransaction(t) PROVE Quits \/ Within
  <2>1. live
    BY <1>5 DEF ResumeTransaction, At, ProcessInv, LiveStages
  <2> QED
    BY <1>0, <1>1, <1>5, <2>1 DEF ResumeTransaction, Quits, Within, disk
<1>6. CASE ClearModelQueues
  <2>1. Quiet(db, db') /\ Unmoved(db, db')
    BY <1>0, <1>6, ClearQuiet, ClearUnmoved DEF ClearModelQueues
  <2> QED
    BY <1>0, <1>1, <1>6, <2>1 DEF ClearModelQueues, Passes
<1>7. CASE DropIndexes
  BY <1>0, <1>1, <1>7, SameQuiet, SameUnmoved DEF DropIndexes, Passes
<1> QED
  BY <1>2, <1>3, <1>4, <1>5, <1>6, <1>7

\* updateController and updateModels.
LEMMA ControllerKind ==
  ASSUME UpdateController \/ UpdateModels
  PROVE  ReadsFor \/ Quits
<1>0. {"updateController", "updateModels"} \subseteq Stages
  BY DEF Stages, Follows
<1>1. CASE UpdateController
  BY <1>0, <1>1 DEF UpdateController, At, ReadsFor, SavesCerts, Quits, disk
<1>2. CASE UpdateModels
  BY <1>0, <1>2 DEF UpdateModels, Reads, At, ReadsFor, disk
<1> QED
  BY <1>1, <1>2

\* The stages of renameServiceToApplication that write without a transaction.
LEMMA WritesKind ==
  ASSUME ProcessInv, UpdateStatusHistory \/ Drop
  PROVE  Passes \/ Within
<1>0. /\ {"statusHistory", "dropServices", "dropSettingsRefs", "dropIPAddresses"}
           \subseteq (Stages \cap AfterModels) \ {"updateController", "updateModels"}
      /\ DOMAIN db = Collections /\ "models" \in Collections
      /\ {"services", "settingsrefs", "ipaddresses"} \subseteq Collections \ IdentityCollections
      /\ "models" \in IdentityCollections
  BY DEF Stages, Follows, AfterModels, AfterController, ProcessInv, TypeOK, DiskOK,
         Collections, IdentityCollections
<1>1. CASE UpdateStatusHistory
  <2>1. CASE ~(live /\ StaleHistory(db) # {})
    BY <1>0, <1>1, <2>1, SameQuiet, SameUnmoved DEF UpdateStatusHistory, At, Passes
  <2>2. CASE live /\ StaleHistory(db) # {}
    <3>1. PICK id \in StaleHistory(db) : db' = Apply(db, {HistoryUpdate(db, id)})
      BY <1>1, <2>2 DEF UpdateStatusHistory
    <3>2. About({HistoryUpdate(db, id)}, {"statuseshistory"})
      BY SchemaAbout
    <3>3. Neutral({HistoryUpdate(db, id)})
      <4>1. {"statuseshistory"} \cap IdentityCollections = {}
        BY DEF IdentityCollections
      <4> QED
        BY <3>2, <4>1, AboutNeutral
    <3>4. db'["models"] = db["models"]
      BY <1>0, <3>1, <3>2, ApplyElsewhere DEF About
    <3>5. Unmoved(db, db')
      <4>1. CredentialCollections \subseteq DOMAIN db /\ "statuseshistory" \notin CredentialCollections
        BY <1>0 DEF CredentialCollections, Collections
      <4> QED
        BY <3>1, <3>2, <4>1, ApplyElsewhere, SameUnmoved DEF About
    <3> QED
      BY <1>0, <1>1, <2>2, <3>1, <3>3, <3>4, <3>5, NeutralQuiet DEF UpdateStatusHistory, At, Within
  <2> QED
    BY <2>1, <2>2
<1>2. ASSUME NEW stage \in {"dropServices", "dropSettingsRefs", "dropIPAddresses"},
             NEW c \in {"services", "settingsrefs", "ipaddresses"}, DropCollection(stage, c)
      PROVE  Passes
  <2>1. Quiet(db, db')
    BY <1>0, <1>2, DropQuiet, SameQuiet DEF DropCollection
  <2>2. db'["models"] = db["models"]
    BY <1>0, <1>2 DEF DropCollection
  <2>3. stage # "addTools"
    BY <1>2
  <2>4. Unmoved(db, db')
    <3>1. \A e \in CredentialCollections : db'[e] = db[e]
      BY <1>0, <1>2 DEF DropCollection, CredentialCollections
    <3> QED
      BY <3>1, SameUnmoved
  <2> QED
    BY <1>0, <1>2, <2>1, <2>2, <2>3, <2>4 DEF DropCollection, At, Passes
<1> QED
  BY <1>1, <1>2 DEF Drop, DropServices, DropSettingsRefs, DropIPAddresses

\* addTwoZeroBinariesToDB
LEMMA ToolsKind ==
  ASSUME AddTwoZeroBinariesToDB
  PROVE  Quits \/ Passes
<1>0. {"reopenState", "openTools", "dropBlobIndex", "addTools"}
        \subseteq Stages \ {"updateController", "updateModels"}
  BY DEF Stages, Follows
<1>1. CASE ReopenState
  BY <1>0, <1>1, SameQuiet, SameUnmoved DEF ReopenState, At, Passes
<1>2. CASE OpenTools
  BY <1>0, <1>2, SameQuiet, SameUnmoved DEF OpenTools, At, Quits, Passes, disk
<1>3. CASE DropBlobIndex
  BY <1>0, <1>3, SameQuiet, SameUnmoved DEF DropBlobIndex, At, Quits, Passes
<1>4. CASE AddTools
  BY <1>0, <1>4, SameQuiet, SameUnmoved DEF AddTools, At, Passes
<1> QED
  BY <1>1, <1>2, <1>3, <1>4 DEF AddTwoZeroBinariesToDB

\* RunTransaction
LEMMA TransactionKind ==
  ASSUME ProcessInv, RunTransaction
  PROVE  Quits \/ DryRunTransaction \/ Commit \/ Within
<1>0. pc \in Stages
  BY DEF ProcessInv, RunTransaction, DryRunTransaction, Commit, Abort, StuckTransaction,
         FlushTransaction, CanRun
<1>1. ASSUME StopAtQueue, live, inTxn PROVE Quits
  BY <1>0, <1>1 DEF StopAtQueue, Quits, LeavesBehind
<1>2. CASE Abort
  BY <1>0, <1>2 DEF Abort, Quits, disk
<1>3. CASE StuckTransaction
  BY <1>1, <1>3 DEF StuckTransaction, CanRun
<1>4. ASSUME NEW t \in txns, FlushTransaction(t) PROVE Quits \/ Within
  BY <1>0, <1>1, <1>4 DEF FlushTransaction, Within
<1> QED
  BY <1>2, <1>3, <1>4 DEF RunTransaction

\* Fail, FailBeforeApply, FailWhileApplying
LEMMA FailureKind ==
  ASSUME ProcessInv, Failure
  PROVE  Quits
<1>0. pc \in Stages
  BY DEF ProcessInv, TypeOK, ProcessOK, Failure, Fail, FailBeforeApply, FailWhileApplying, CanRun
<1>1. CASE Fail
  BY <1>0, <1>1 DEF Fail, Quits, disk
<1>2. CASE FailBeforeApply
  BY <1>0, <1>2 DEF FailBeforeApply, Quits, LeavesBehind
<1>3. CASE FailWhileApplying
  <2>1. PICK done \in Cuts(ops) :
          /\ db' = Apply(db, done)
          /\ txns' = txns \cup {[ops |-> ops, done |-> done, applying |-> TRUE]}
    BY <1>3 DEF FailWhileApplying
  <2>2. done \in SUBSET ops
    BY DEF Cuts
  <2>3. live /\ inTxn /\ Asserted(db, ops) /\ Exit("failed") /\ certs' = certs
    BY <1>3 DEF FailWhileApplying, CanRun
  <2> QED
    BY <1>0, <2>1, <2>2, <2>3 DEF Quits, LeavesBehind
<1> QED
  BY <1>1, <1>2, <1>3 DEF Failure

\* There are no other kinds.
LEMMA StepKinds ==
  ASSUME ProcessInv, Step \/ Failure
  PROVE  ReadsFor \/ Quits \/ Passes \/ DryRunTransaction \/ Commit \/ Within
<1>1. CASE GiveUp
  BY <1>1 DEF GiveUp, Quits, disk
<1>2. CASE At("removeCleanups") /\ Continue /\ UNCHANGED disk
  <2>1. /\ "removeCleanups" \in Stages \ {"updateController", "updateModels"}
        /\ "removeCleanups" \notin AfterModels
    BY DEF Stages, Follows, AfterModels, AfterController
  <2> QED
    BY <1>2, <2>1, SameQuiet, SameUnmoved DEF At, Passes, disk
<1>3. CASE RenameServiceToApplication
  BY <1>1, <1>3, RenameSteps, NeutralReadsFor, WritesKind
<1>4. CASE OtherSchemaUpgrades
  BY <1>4, SchemaSteps, NeutralReadsFor
<1>5. CASE RemoveCleanups
  BY <1>2, <1>5, CleanupSteps, NeutralReadsFor
<1> QED
  BY <1>3, <1>4, <1>5, PreparationKind, ControllerKind, ToolsKind, TransactionKind,
     FailureKind DEF Step

-----------------------------------------------------------------------------
(* The invariant of the refinement.                                        *)

\* The UUIDs on record after some operations are those of runs there have been.
LEMMA GivenStays ==
  ASSUME DOMAIN db = Collections, RecordedUUIDs(db) \subseteq 1..uuid,
         NEW O, GivenBy(O)
  PROVE  RecordedUUIDs(Apply(db, O)) \subseteq 1..uuid
<1>1. RecordedUUIDs(Apply(db, O)) \subseteq RecordedUUIDs(db) \cup (1..uuid)
  BY OperationsRecord DEF GivenBy
<1> QED
  BY <1>1

\* Every UUID that is or will be recorded is that of a run there has been.
LEMMA GivenStep ==
  ASSUME IdentityInv, UUIDsGiven,
         ReadsFor \/ Quits \/ Passes \/ DryRunTransaction \/ Commit \/ Within
  PROVE  UUIDsGiven'
<1>0. /\ DOMAIN db = Collections /\ uuid \in 0..MaxRuns /\ uuid \in 1..uuid
      /\ pc \in Stages /\ pc # "idle"
  <2>1. pc \in Stages /\ DOMAIN db = Collections /\ uuid \in 0..MaxRuns
    BY DEF IdentityInv, ProcessInv, TypeOK, DiskOK, ProcessOK, ReadsFor, Quits, Passes,
           DryRunTransaction, Commit, CanRun, Within
  <2>2. uuid # 0
    BY <2>1, IdleNoStage DEF UUIDsGiven
  <2> QED
    BY <2>1, <2>2, IdleNoStage, MaxRunsAssumption
<1>1. \A O, S : GivenBy(O) /\ S \in SUBSET O => GivenBy(S)
  BY DEF GivenBy
<1>2. GivenBy({})
  BY DEF GivenBy
<1>3. ASSUME NEW how, Exit(how) PROVE ops' = {} /\ uuid' = uuid
  BY <1>3 DEF Exit
<1>4. ASSUME Continue PROVE ops' = {} /\ uuid' = uuid
  BY <1>4 DEF Continue, Exit
<1>5. CASE ReadsFor
  <2>1. CASE pc = "updateController" /\ ops' = UpdateControllerOps(db, uuid)
    BY <1>0, <1>5, <2>1, UpdateControllerFounds
    DEF ReadsFor, UUIDsGiven, GivenBy, Founds, Records
  <2>2. CASE pc = "updateModels" /\ ops' = UpdateModelsOps(db, uuid, context)
    BY <1>0, <1>5, <2>2, UpdateModelsJoins
    DEF ReadsFor, UUIDsGiven, GivenBy, Joins, Records
  <2>3. CASE About(ops', Collections \ IdentityCollections)
    <3>1. \A op \in ops' : OpUUIDs(op) = {}
      BY <2>3 DEF About, OpUUIDs
    <3> QED
      BY <1>0, <1>5, <3>1 DEF ReadsFor, UUIDsGiven, GivenBy
  <2> QED
    BY <1>5, <2>1, <2>2, <2>3 DEF ReadsFor
<1>6. CASE Quits
  <2>1. ops' = {} /\ uuid' = uuid /\ \A t \in txns' : t \in txns \/ t.ops = ops
    BY <1>3, <1>6, LeftBehind DEF Quits
  <2>2. RecordedUUIDs(db') \subseteq 1..uuid
    BY <1>0, <1>1, <1>6, GivenStays, LeftBehind DEF Quits, UUIDsGiven
  <2> QED
    BY <1>0, <1>2, <2>1, <2>2 DEF UUIDsGiven, GivenBy
<1>7. CASE Passes
  BY <1>0, <1>2, <1>4, <1>7 DEF Passes, Quiet, UUIDsGiven, GivenBy
<1>8. CASE DryRunTransaction
  BY <1>0, <1>2, <1>4, <1>8 DEF DryRunTransaction, disk, UUIDsGiven, GivenBy
<1>9. CASE Commit
  <2>1. RecordedUUIDs(db') \subseteq 1..uuid
    BY <1>0, <1>9, GivenStays DEF Commit, UUIDsGiven
  <2> QED
    BY <1>0, <1>2, <1>4, <1>9, <2>1 DEF Commit, UUIDsGiven, GivenBy
<1>10. CASE Within
  <2>1. txns' \subseteq txns /\ UNCHANGED <<uuid, ops, pc>>
    BY <1>10 DEF Within, Complete
  <2>2. ASSUME NEW t \in txns, Complete(t)
        PROVE  RecordedUUIDs(db') \subseteq 1..uuid
    <3>1. GivenBy(t.ops) /\ GivenBy(t.ops \ t.done)
      BY <1>1 DEF UUIDsGiven
    <3>2. db' = db \/ db' = Apply(db, t.ops) \/ db' = Apply(db, t.ops \ t.done)
      BY <2>2 DEF Complete
    <3> QED
      BY <1>0, <3>1, <3>2, GivenStays DEF UUIDsGiven
  <2>3. RecordedUUIDs(db') \subseteq 1..uuid
    BY <1>10, <2>2 DEF Within, Quiet, UUIDsGiven
  <2> QED
    BY <2>1, <2>3 DEF UUIDsGiven, GivenBy
<1> QED
  BY <1>5, <1>6, <1>7, <1>8, <1>9, <1>10

\* updateModels has every model join the controller.
LEMMA UpdateModelsJoinAll ==
  ASSUME NEW d, NEW u, NEW ctx
  PROVE  JoinsModels(d, UpdateModelsOps(d, u, ctx))
<1> DEFINE O == UpdateModelsOps(d, u, ctx)
           joining(id) == UpdateOp("models", id, ModelUpdates(d["models"][id], u, ctx),
                                   {"server-uuid"})
<1>1. ASSUME NEW id
      PROVE  /\ joining(id).c = "models" /\ joining(id).id = id
             /\ joining(id).change = "update"
             /\ Has(joining(id).set, "controller-uuid")
  BY DEF UpdateOp, ModelUpdates, Has, ++, Field
<1>2. ASSUME NEW id, NEW op \in UpdateModelOps(d, id, u, ctx), op.c = "models"
      PROVE  op = joining(id)
  BY <1>2 DEF UpdateModelOps, InsertOp, UpdateOp
<1>3. ASSUME NEW op \in MoveOps("usermodelname", <<AdminUser, "admin">>,
                                "usermodelname", <<AdminUser, "controller">>, NoDoc)
      PROVE  op.c # "models"
  BY MoveOpsAbout DEF About
<1>4. ASSUME NEW id \in DOMAIN d["models"]
      PROVE  joining(id) \in O
  <2>1. joining(id) \in UpdateModelOps(d, id, u, ctx)
    BY DEF UpdateModelOps
  <2> HIDE DEF joining
  <2> QED
    BY <2>1 DEF UpdateModelsOps
<1>5. \A op \in O : op.c = "models" => \E id : op = joining(id)
  BY <1>2, <1>3 DEF UpdateModelsOps
<1> HIDE DEF O, joining
<1> QED
  BY <1>1, <1>4, <1>5 DEF JoinsModels, O

\* Once it has been carried out every model names a controller.
LEMMA AllModelsJoin ==
  ASSUME NEW d, DOMAIN d = Collections, NEW O, JoinsModels(d, O),
         NEW id \in DOMAIN Apply(d, O)["models"]
  PROVE  Has(Apply(d, O)["models"][id], "controller-uuid")
<1>0. "models" \in DOMAIN d
  BY DEF Collections
<1>1. id \in DOMAIN d["models"]
  BY <1>0, ApplyIDs DEF JoinsModels
<1>2. PICK op \in O : op.c = "models" /\ op.id = id /\ op.change = "update"
  BY <1>1 DEF JoinsModels
<1>3. PICK o \in O : /\ o.c = "models"
                     /\ Apply(d, O)["models"][id] = Without(d["models"][id], o.unset) ++ o.set
  BY <1>0, <1>1, <1>2, ApplyUpdate
<1>4. Has(o.set, "controller-uuid")
  BY <1>3 DEF JoinsModels
<1> QED
  BY <1>3, <1>4 DEF Has, ++

\* Every model names a controller once updateModels is done.
LEMMA JoinedStep ==
  ASSUME IdentityInv, ModelsJoined,
         ReadsFor \/ Quits \/ Passes \/ DryRunTransaction \/ Commit \/ Within
  PROVE  ModelsJoined'
<1>0. DOMAIN db = Collections /\ "models" \in Collections /\ "models" \in IdentityCollections
  BY DEF IdentityInv, ProcessInv, TypeOK, DiskOK, Collections, IdentityCollections
<1>1. "idle" \notin AfterModels \cup {"updateModels"} /\ "updateModels" \notin AfterModels
  BY DEF AfterModels, AfterController, Stages, Follows
<1>2. ASSUME Continue, pc \in Stages,
             live /\ pc \in AfterModels \cup {"updateModels"} =>
               \A id \in DOMAIN db'["models"] : Has(db'["models"][id], "controller-uuid")
      PROVE  ModelsJoined'
  <2>1. CASE NextStage(pc) = "done"
    BY <1>1, <1>2, <2>1 DEF Continue, Exit, ModelsJoined
  <2>2. CASE NextStage(pc) # "done"
    <3>1. pc' = NextStage(pc) /\ inTxn' = FALSE /\ live' = live
      BY <1>2, <2>2 DEF Continue
    <3>2. live /\ NextStage(pc) \in AfterModels => pc \in AfterModels \cup {"updateModels"}
      BY <1>2 DEF NextStage, Follows, Stages, AfterModels, AfterController
    <3> QED
      BY <1>2, <3>1, <3>2 DEF ModelsJoined
  <2> QED
    BY <2>1, <2>2
<1>3. CASE ReadsFor
  <2>1. UNCHANGED <<db, pc, live>>
    BY <1>3 DEF ReadsFor
  <2>2. pc = "updateModels" => JoinsModels(db, ops')
    BY <1>3, UpdateModelsJoinAll DEF ReadsFor, Reading
  <2>3. pc \in AfterModels => \A op \in ops' : op.c # "models"
    BY <1>0, <1>3 DEF ReadsFor, About, AfterModels, AfterController
  <2> QED
    BY <2>1, <2>2, <2>3 DEF ModelsJoined
<1>4. CASE Quits
  BY <1>1, <1>4 DEF Quits, Exit, ModelsJoined
<1>5. CASE Passes
  BY <1>2, <1>5 DEF Passes, ModelsJoined
<1>6. CASE DryRunTransaction
  <2>1. Continue /\ ~live /\ pc \in Stages
    BY <1>6 DEF DryRunTransaction, IdentityInv, ProcessInv
  <2> QED
    BY <1>2, <2>1
<1>7. CASE Commit
  <2>1. /\ Continue /\ live /\ inTxn /\ pc \in Stages
        /\ db' = Apply(db, ops)
    BY <1>7 DEF Commit, CanRun, IdentityInv, ProcessInv
  <2>2. CASE pc \in AfterModels
    <3>1. db'["models"] = db["models"]
      BY <1>0, <2>1, <2>2, ApplyElsewhere DEF ModelsJoined
    <3> QED
      BY <1>1, <1>2, <2>1, <2>2, <3>1 DEF ModelsJoined
  <2>3. CASE pc = "updateModels"
    <3>1. JoinsModels(db, ops)
      BY <2>1, <2>3 DEF ModelsJoined
    <3>2. \A id \in DOMAIN db'["models"] : Has(db'["models"][id], "controller-uuid")
      BY <1>0, <2>1, <3>1, AllModelsJoin
    <3> QED
      BY <1>2, <2>1, <3>2
  <2> QED
    BY <1>2, <2>1, <2>2, <2>3
<1>8. CASE Within
  <2>1. UNCHANGED <<pc, live, ops, inTxn>> /\ live
    BY <1>8 DEF Within
  <2>2. CASE \E t \in txns : Complete(t)
    <3>1. pc \notin AfterResume
      BY <2>1, <2>2 DEF IdentityInv, IdentityOwned, NothingPending
    <3>2. AfterModels \cup {"updateModels"} \subseteq AfterResume
      BY DEF AfterModels, AfterController, AfterResume, Stages, Follows
    <3> QED
      BY <2>1, <3>1, <3>2 DEF ModelsJoined
  <2>3. CASE pc \in AfterModels /\ db'["models"] = db["models"]
    BY <1>1, <2>1, <2>3 DEF ModelsJoined
  <2> QED
    BY <1>8, <2>2, <2>3 DEF Within
<1> QED
  BY <1>3, <1>4, <1>5, <1>6, <1>7, <1>8

\* No stage leads to removeCleanups, with which only clean-db begins.
LEMMA CleanupsStep ==
  ASSUME CleanupsOfCleanDB, ProcessInv,
         ReadsFor \/ Quits \/ Passes \/ DryRunTransaction \/ Commit \/ Within
  PROVE  CleanupsOfCleanDB'
<1>1. ASSUME Continue, pc \in Stages PROVE CleanupsOfCleanDB'
  <2>1. NextStage(pc) # "removeCleanups"
    BY <1>1 DEF NextStage, Follows, Stages
  <2> QED
    BY <1>1, <2>1 DEF Continue, Exit, CleanupsOfCleanDB
<1>2. CASE ReadsFor \/ Within
  BY <1>2 DEF ReadsFor, Within, CleanupsOfCleanDB
<1>3. CASE Quits
  BY <1>3 DEF Quits, Exit, CleanupsOfCleanDB
<1> QED
  BY <1>1, <1>2, <1>3 DEF Passes, DryRunTransaction, Commit, CanRun, ProcessInv

\* An idle process has no stage to rely on, and Start begins before all of them.
LEMMA PromiseStep ==
  ASSUME IdentityInv, PromiseInv, [Next]_vars
  PROVE  PromiseInv'
<1>1. ASSUME NEW command \in DOMAIN FirstStage, NEW forReal \in BOOLEAN,
             Start(command, forReal)
      PROVE  PromiseInv'
  <2>0. uuid \in 0..MaxRuns
    BY DEF IdentityInv, ProcessInv, TypeOK, ProcessOK
  <2>1. /\ UNCHANGED <<db, txns, ops>> /\ uuid' = uuid + 1
        /\ cmd' = command /\ pc' = FirstStage[command]
    BY <1>1 DEF Start, disk
  <2>2. 1..uuid \subseteq 1..uuid' /\ uuid' # 0
    BY <2>0, <2>1, MaxRunsAssumption
  <2>3. UUIDsGiven'
    BY <2>1, <2>2 DEF PromiseInv, UUIDsGiven, GivenBy
  <2>4. /\ pc' \in {"upgradePrecheck", "removeCleanups"}
        /\ pc' = "removeCleanups" => cmd' = "clean-db"
    BY <2>1 DEF FirstStage
  <2>5. ModelsJoined'
    BY <2>4 DEF ModelsJoined, AfterModels, AfterController
  <2> QED
    BY <2>3, <2>4, <2>5 DEF PromiseInv, CleanupsOfCleanDB
<1>2. CASE Step \/ Failure
  BY <1>2, StepKinds, GivenStep, JoinedStep, CleanupsStep DEF IdentityInv, PromiseInv
<1>3. CASE UNCHANGED vars
  BY <1>3 DEF vars, disk, PromiseInv, UUIDsGiven, GivenBy, ModelsJoined, CleanupsOfCleanDB
<1> QED
  BY <1>1, <1>2, <1>3 DEF Next, Finished

\* Initially nothing is recorded and no command runs.
LEMMA PromiseInit ==
  ASSUME Init
  PROVE  PromiseInv
<1>1. PICK s \in B7States : db = s.db /\ txns = s.txns
  BY DEF Init
<1>2. RecordedUUIDs(db) = {} /\ \A t \in txns : Neutral(t.ops)
  BY <1>1, B7Assumption
<1>3. UUIDsGiven
  BY <1>2 DEF Init, UUIDsGiven, GivenBy, Neutral
<1>4. ModelsJoined /\ CleanupsOfCleanDB
  BY DEF Init, ModelsJoined, CleanupsOfCleanDB
<1> QED
  BY <1>3, <1>4 DEF PromiseInv

-----------------------------------------------------------------------------
(* The steps of SchemaUpgrade.                                             *)

\* The UUIDs that d records are recorded for good.
LEMMA RecordedStay ==
  ASSUME NEW d, NEW e, SameUUIDs(d, e)
  PROVE  RecordedUUIDs(d) \subseteq RecordedUUIDs(e)
<1>1. ASSUME NEW c \in IdentityCollections, NEW f \in IdentityFields,
             NEW u \in FieldValues(d[c], f)
      PROVE  u \in RecordedUUIDs(e)
  <2>1. PICK id \in DOMAIN d[c] : Has(d[c][id], f) /\ u = d[c][id][f]
    BY DEF FieldValues
  <2>2. id \in DOMAIN e[c] /\ Has(e[c][id], f) /\ e[c][id][f] = u
    BY <2>1 DEF SameUUIDs
  <2> QED
    BY <2>2, FieldRecorded
<1>2. ASSUME NEW id \in DOMAIN d["permissions"], id[1] = "c"
      PROVE  id[2] \in RecordedUUIDs(e)
  BY <1>2 DEF SameUUIDs, RecordedUUIDs
<1> QED
  BY <1>1, <1>2 DEF RecordedUUIDs

\* The controller's UUID is the one on record.
LEMMA TheOnlyUUID ==
  ASSUME NEW d, NEW u, RecordedUUIDs(d) = {u}
  PROVE  TheUUID(d) = u
  BY DEF TheUUID

\* Whatever a running command does to the database gives the controller its
\* identity, has models join it, or does not concern it.
LEMMA ChangeKept ==
  ASSUME UUIDsGiven', ControllerUUIDAgrees', SameUUIDs(db, db'), uuid' = uuid
  PROVE  Promised!Change
<1>1. RecordedUUIDs(db) \subseteq RecordedUUIDs(db') /\ RecordedUUIDs(db') \subseteq 1..uuid
  BY RecordedStay DEF UUIDsGiven
<1>2. RecordedUUIDs(db') = {} \/ \E u : RecordedUUIDs(db') = {u}
  BY DEF ControllerUUIDAgrees
<1>3. \/ TheUUID(db') = TheUUID(db)
      \/ TheUUID(db) = 0 /\ TheUUID(db') \in 1..uuid
  <2>1. CASE RecordedUUIDs(db) = {}
    <3>1. TheUUID(db) = 0
      BY <2>1 DEF TheUUID
    <3>2. CASE RecordedUUIDs(db') = {}
      BY <3>1, <3>2 DEF TheUUID
    <3>3. ASSUME NEW u, RecordedUUIDs(db') = {u} PROVE TheUUID(db') \in 1..uuid
      BY <1>1, <3>3, TheOnlyUUID
    <3> QED
      BY <1>2, <3>1, <3>2, <3>3
  <2>2. CASE RecordedUUIDs(db) # {}
    <3>1. RecordedUUIDs(db) = RecordedUUIDs(db')
      BY <1>1, <1>2, <2>2
    <3> QED
      BY <3>1 DEF TheUUID
  <2> QED
    BY <2>1, <2>2
<1>4. ASSUME NEW id \in DOMAIN ModelUUIDs(db), ModelUUIDs(db)[id] # 0
      PROVE  /\ id \in DOMAIN ModelUUIDs(db')
             /\ ModelUUIDs(db')[id] = ModelUUIDs(db)[id]
  <2>1. id \in DOMAIN db["models"] /\ Has(db["models"][id], "controller-uuid")
    BY <1>4 DEF ModelUUIDs
  <2>2. /\ id \in DOMAIN db'["models"] /\ Has(db'["models"][id], "controller-uuid")
        /\ db'["models"][id]["controller-uuid"] = db["models"][id]["controller-uuid"]
    BY <2>1 DEF SameUUIDs, IdentityCollections, IdentityFields
  <2> QED
    BY <2>1, <2>2 DEF ModelUUIDs
<1>5. ASSUME NEW id \in DOMAIN ModelUUIDs(db')
      PROVE  ModelUUIDs(db')[id] \in {0, TheUUID(db')}
  <2>1. id \in DOMAIN db'["models"]
    BY DEF ModelUUIDs
  <2>2. CASE ~Has(db'["models"][id], "controller-uuid")
    BY <2>1, <2>2 DEF ModelUUIDs
  <2>3. CASE Has(db'["models"][id], "controller-uuid")
    <3>1. db'["models"][id]["controller-uuid"] \in RecordedUUIDs(db')
      BY <2>1, <2>3, FieldRecorded DEF IdentityCollections, IdentityFields
    <3>2. db'["models"][id]["controller-uuid"] = TheUUID(db')
      BY <1>2, <3>1, TheOnlyUUID
    <3> QED
      BY <2>1, <2>3, <3>2 DEF ModelUUIDs
  <2> QED
    BY <2>2, <2>3
<1> QED
  BY <1>3, <1>4, <1>5 DEF Promised!Change

\* A command that ends without having upgraded the database.
LEMMA Stops ==
  ASSUME pc # "idle", pc' = "idle", live' = live, uuid' = uuid,
         UUIDsGiven', ControllerUUIDAgrees', SameUUIDs(db, db'), ~live => db' = db,
         ~(exit' = "ok" /\ cmd' = "upgrade-db" /\ live)
  PROVE  Promised!Stop
<1>1. Promised!Change
  BY ChangeKept
<1> QED
  BY <1>1 DEF Promised!Stop

\* A command that goes on.
LEMMA GoesOn ==
  ASSUME pc # "idle", pc' # "idle", live' = live, uuid' = uuid,
         UUIDsGiven', ControllerUUIDAgrees', SameUUIDs(db, db'), ~live => db' = db
  PROVE  Promised!Proceed \/ UNCHANGED Promised!schemaVars
<1>1. CASE live
  BY <1>1, ChangeKept DEF Promised!Proceed
<1>2. CASE ~live
  BY <1>2 DEF Promised!schemaVars
<1> QED
  BY <1>1, <1>2

\* The last stage of an upgrade, past which every model has joined the run.
LEMMA Succeeds ==
  ASSUME pc = "addTools", live, pc' = "idle", db' = db, live' = live, uuid' = uuid,
         UUIDsGiven, ModelsJoined, OneRunMigrates,
         exit' = "ok", cmd' = "upgrade-db"
  PROVE  Promised!Succeed
<1>1. pc \in AfterModels /\ pc \in AfterController
  BY DEF AfterModels, AfterController, Stages, Follows
<1>2. RecordedUUIDs(db) = {uuid} /\ TheUUID(db) = uuid
  BY <1>1, TheOnlyUUID DEF OneRunMigrates
<1>3. ASSUME NEW id \in DOMAIN ModelUUIDs(db) PROVE ModelUUIDs(db)[id] = uuid
  <2>1. id \in DOMAIN db["models"] /\ Has(db["models"][id], "controller-uuid")
    BY <1>1 DEF ModelUUIDs, ModelsJoined
  <2>2. db["models"][id]["controller-uuid"] \in RecordedUUIDs(db)
    BY <2>1, FieldRecorded DEF IdentityCollections, IdentityFields
  <2> QED
    BY <1>2, <2>1, <2>2 DEF ModelUUIDs
<1> QED
  BY <1>2, <1>3 DEF Promised!Succeed, Promised!AllJoined

SchemaStep == Promised!Next \/ UNCHANGED Promised!schemaVars

\* A stage that is done.
LEMMA ContinueKept ==
  ASSUME IdentityInv, PromiseInv, PromiseInv', ControllerUUIDAgrees', OneRunMigrates,
         SameUUIDs(db, db'), ~live => db' = db, pc = "addTools" => db' = db,
         pc \in Stages, Continue
  PROVE  SchemaStep
<1>0. UUIDsGiven /\ UUIDsGiven' /\ ModelsJoined /\ CleanupsOfCleanDB
  BY DEF PromiseInv
<1>1. CASE NextStage(pc) # "done"
  <2>1. pc' = NextStage(pc) /\ UNCHANGED <<live, uuid>>
    BY <1>1 DEF Continue
  <2>2. pc # "idle" /\ pc' # "idle"
    BY <1>1, <2>1, NextStageType, IdleNoStage
  <2> QED
    BY <1>0, <2>1, <2>2, GoesOn DEF SchemaStep, Promised!Next
<1>2. CASE NextStage(pc) = "done"
  <2>1. /\ pc' = "idle" /\ exit' = "ok" /\ UNCHANGED <<cmd, live, uuid>> /\ pc # "idle"
    BY <1>2, IdleNoStage DEF Continue, Exit
  <2>2. pc = "addTools" \/ pc = "removeCleanups" \/ ~live
    BY <1>2 DEF NextStage, Follows, Stages
  <2>3. CASE pc = "addTools" /\ live /\ cmd = "upgrade-db"
    BY <1>0, <2>1, <2>3, Succeeds DEF SchemaStep, Promised!Next
  <2>4. CASE ~(live /\ cmd = "upgrade-db")
    BY <1>0, <2>1, <2>4, Stops DEF SchemaStep, Promised!Next
  <2> QED
    BY <1>0, <2>2, <2>3, <2>4 DEF CleanupsOfCleanDB
<1> QED
  BY <1>1, <1>2

\* Every step of UpgradeDB is one of SchemaUpgrade, or does not concern it.
LEMMA PromiseSimulation ==
  ASSUME IdentityInv, PromiseInv, PromiseInv', ControllerUUIDAgrees', OneRunMigrates,
         [Next]_vars
  PROVE  SchemaStep
<1>0. /\ SameUUIDs(db, db') /\ ProcessInv /\ UUIDsGiven'
      /\ ~live => db' = db
  BY IdentityStep, DryRunStep DEF Keeps, IdentityInv, PromiseInv, disk
<1>1. ASSUME NEW command \in DOMAIN FirstStage, NEW forReal \in BOOLEAN,
             Start(command, forReal)
      PROVE  SchemaStep
  <2>1. /\ pc = "idle" /\ uuid < MaxRuns /\ uuid' = uuid + 1 /\ live' = forReal /\ db' = db
        /\ pc' # "idle"
    BY <1>1 DEF Start, disk, FirstStage
  <2>2. Promised!Begin(forReal)
    BY <2>1 DEF Promised!Begin
  <2> QED
    BY <2>2 DEF SchemaStep, Promised!Next
<1>2. CASE Step \/ Failure
  <2>1. CASE ReadsFor
    BY <2>1 DEF ReadsFor, SchemaStep, Promised!schemaVars
  <2>2. CASE Quits
    <3>1. /\ pc # "idle" /\ pc' = "idle" /\ UNCHANGED <<live, uuid>> /\ exit' # "ok"
      BY <2>2, IdleNoStage DEF Quits, Exit
    <3> QED
      BY <1>0, <3>1, Stops DEF SchemaStep, Promised!Next
  <2>3. CASE Passes
    BY <1>0, <2>3, ContinueKept DEF Passes
  <2>4. CASE DryRunTransaction \/ Commit
    <3>1. Continue /\ pc \in Stages /\ inTxn
      BY <1>0, <2>4 DEF DryRunTransaction, Commit, CanRun, ProcessInv
    <3>2. pc # "addTools"
      BY <3>1 DEF IdentityInv, IdentityOwned, OpsKind, Reading, LiveStages
    <3> QED
      BY <1>0, <3>1, <3>2, ContinueKept
  <2>5. CASE Within
    <3>1. pc # "idle" /\ pc' # "idle" /\ UNCHANGED <<live, uuid>>
      BY <2>5, IdleNoStage DEF Within
    <3> QED
      BY <1>0, <3>1, GoesOn DEF SchemaStep, Promised!Next
  <2> QED
    BY <1>0, <1>2, <2>1, <2>2, <2>3, <2>4, <2>5, StepKinds
<1>3. CASE UNCHANGED vars
  BY <1>3 DEF vars, disk, SchemaStep, Promised!schemaVars
<1> QED
  BY <1>1, <1>2, <1>3 DEF Next, Finished

\* A database of beta 7 is one that nobody has upgraded.
LEMMA PromisedInit ==
  ASSUME Init
  PROVE  Promised!Init
<1>1. RecordedUUIDs(db) = {}
  BY B7Assumption DEF Init
<1>2. ASSUME NEW id \in DOMAIN ModelUUIDs(db) PROVE ModelUUIDs(db)[id] = 0
  <2>1. id \in DOMAIN db["models"]
    BY DEF ModelUUIDs
  <2>2. ~Has(db["models"][id], "controller-uuid")
    BY <1>1, <2>1, FieldRecorded DEF IdentityCollections, IdentityFields
  <2> QED
    BY <2>1, <2>2 DEF ModelUUIDs
<1> QED
  BY <1>1, <1>2 DEF Init, Promised!Init, TheUUID

-----------------------------------------------------------------------------
(* The theorems.                                                           *)

\* The UUIDs on record are those of runs there have been, and once a live
\* upgrade is past updateModels every model names a controller.
LEMMA PromiseInvariant == Spec => []PromiseInv
<1>1. Init => PromiseInv
  BY PromiseInit
<1>2. IdentityInv /\ PromiseInv /\ [Next]_vars => PromiseInv'
  BY PromiseStep
<1> QED
  BY <1>1, <1>2, IdentityInvariant, PTL DEF Spec

\* upgrade-db and clean-db keep what SchemaUpgrade promises, for every database
\* of beta 7, however many commands are given and wherever they fail: the
\* controller is given the UUID of one run, for ever; models join it and never
\* another; a dry run changes neither; and a command reports a successful live
\* upgrade only if it gave the identity itself and every model has joined it.
THEOREM PromiseKept == Spec => KeepsPromise
<1>1. Init => Promised!Init
  BY PromisedInit
<1>2. /\ IdentityInv /\ PromiseInv /\ PromiseInv' /\ ControllerUUIDAgrees' /\ OneRunMigrates
      /\ [Next]_vars
      => [Promised!Next]_Promised!schemaVars
  BY PromiseSimulation DEF SchemaStep
<1> QED
  BY <1>1, <1>2, IdentityInvariant, PromiseInvariant, UUIDsAgree, OneMigration, PTL
  DEF Spec, KeepsPromise, Promised!Spec


-----------------------------------------------------------------------------
(* Places and what transactions do to them.                                *)

\* A value stays in its place if every operation spares it.
LEMMA PlaceStays ==
  ASSUME NEW d, NEW O, NEW p, p[1] \in DOMAIN d, Filled(d, p), \A op \in O : Spares(op, p)
  PROVE  Filled(Apply(d, O), p) /\ ValueAt(Apply(d, O), p) = ValueAt(d, p)
<1> DEFINE c == p[1]
           id == p[2]
           f == p[3]
           new == Apply(d, O)[c][id]
<1>1. id \in DOMAIN d[c] /\ f \in DOMAIN d[c][id]
  BY DEF Filled, Has
<1>2. id \in DOMAIN Apply(d, O)[c]
  BY <1>1, ApplyIDs DEF Spares, Touches
<1>3. \/ new = d[c][id]
      \/ \E op \in O : /\ op.c = c /\ op.id = id /\ op.change = "update"
                       /\ new = Without(d[c][id], op.unset) ++ op.set
  BY <1>1, <1>2, ApplyDoc
<1>4. ASSUME NEW op \in O, op.c = c, op.id = id, op.change = "update",
             new = Without(d[c][id], op.unset) ++ op.set
      PROVE  f \in DOMAIN new /\ new[f] = d[c][id][f]
  <2>1. f \notin op.unset /\ f \notin DOMAIN op.set
    BY <1>4 DEF Spares, Touches
  <2> HIDE DEF new
  <2> QED
    BY <1>1, <1>4, <2>1 DEF ++, Without
<1>5. f \in DOMAIN new /\ new[f] = d[c][id][f]
  BY <1>1, <1>3, <1>4
<1> QED
  BY <1>2, <1>5 DEF Filled, Has, ValueAt

\* A place of a document that was there already is as it was, or some operation
\* wrote to it or emptied it.
LEMMA PlaceBefore ==
  ASSUME NEW d, NEW O, NEW p, p[1] \in DOMAIN d, p[2] \in DOMAIN d[p[1]],
         \A op \in O : Touches(op, p[1], p[2]) /\ op.change = "update" => p[3] \notin DOMAIN op.set,
         Filled(Apply(d, O), p)
  PROVE  Filled(d, p) /\ ValueAt(Apply(d, O), p) = ValueAt(d, p)
<1> DEFINE c == p[1]
           id == p[2]
           f == p[3]
           new == Apply(d, O)[c][id]
<1>1. id \in DOMAIN Apply(d, O)[c] /\ f \in DOMAIN new
  BY DEF Filled, Has
<1>2. \/ new = d[c][id]
      \/ \E op \in O : /\ op.c = c /\ op.id = id /\ op.change = "update"
                       /\ new = Without(d[c][id], op.unset) ++ op.set
  BY <1>1, ApplyDoc
<1>3. ASSUME NEW op \in O, op.c = c, op.id = id, op.change = "update",
             new = Without(d[c][id], op.unset) ++ op.set
      PROVE  f \in DOMAIN d[c][id] /\ new[f] = d[c][id][f]
  <2>1. f \notin DOMAIN op.set
    BY <1>3 DEF Touches
  <2> HIDE DEF new
  <2> QED
    BY <1>1, <1>3, <2>1 DEF ++, Without
<1>4. f \in DOMAIN d[c][id] /\ new[f] = d[c][id][f]
  BY <1>1, <1>2, <1>3
<1> QED
  BY <1>4 DEF Filled, Has, ValueAt

\* A document that is only ever inserted has, once it is there, what one of the
\* operations gave it, or what it had.
LEMMA PlaceMade ==
  ASSUME NEW d, NEW O, NEW p, p[1] \in DOMAIN d, NEW v,
         \A op \in O : Touches(op, p[1], p[2]) =>
           op.change = "insert" /\ Has(op.set, p[3]) /\ op.set[p[3]] = v,
         p[2] \notin DOMAIN d[p[1]], NEW o \in O, Inserts(o, p)
  PROVE  Filled(Apply(d, O), p) /\ ValueAt(Apply(d, O), p) = v
<1> DEFINE c == p[1]
           id == p[2]
           new == Apply(d, O)[c][id]
<1>1. id \in DOMAIN Apply(d, O)[c]
  BY ApplyIDs DEF Touches, Inserts
<1>2. PICK op \in O : op.c = c /\ op.id = id /\ new = op.set
  BY <1>1, ApplyDoc
<1>3. Has(op.set, p[3]) /\ op.set[p[3]] = v
  BY <1>2 DEF Touches
<1> QED
  BY <1>1, <1>2, <1>3 DEF Filled, ValueAt

-----------------------------------------------------------------------------
(* The credentials.                                                        *)

\* The credentials and the places they are saved in.
LEMMA Homes ==
  /\ \A s \in FoundCredentials \ LXDCerts :
       SavedAt(b7, s)[1] \in {"clouds", "cloudCredentials", "controllers"}
  /\ \A s \in FoundCredentials \ LXDCerts : s \in {"maas-server", "maas-oauth", "ca-cert"}
<1>1. \A s \in FoundCredentials \ LXDCerts : s \in {"maas-server", "maas-oauth", "ca-cert"}
  BY DEF FoundCredentials, Credentials, SettingsNeeded
<1>2. /\ SavedAt(b7, "maas-server")[1] = "clouds"
      /\ SavedAt(b7, "maas-oauth")[1] = "cloudCredentials"
      /\ SavedAt(b7, "ca-cert")[1] = "controllers"
  BY DEF SavedAt
<1> QED
  BY <1>1, <1>2

\* What is saved stays saved, what was found stays where and as it is until it
\* is saved.
KeepsCredentials ==
  /\ \A s \in FoundCredentials : Saved(s) => Saved(s)'
  /\ LandmarksStay' /\ SettingsAsFound' /\ CredentialsKept'

\* What careful operations do.
LEMMA CarefulKeeps ==
  ASSUME DOMAIN db = Collections, LandmarksStay, SettingsAsFound, CredentialsKept,
         NEW O, Careful(O), db' = Apply(db, O), UNCHANGED <<certs, b7>>
  PROVE  KeepsCredentials
<1>0. {"clouds", "cloudCredentials", "controllers", "models", "settings"} \subseteq DOMAIN db
  BY DEF Collections
<1>1. UNCHANGED FoundCredentials /\ \A s : UNCHANGED <<SettingAt(b7, s), SavedAt(b7, s)>>
      /\ UNCHANGED Landmarks(b7)
  BY DEF FoundCredentials
<1>2. ASSUME NEW s \in FoundCredentials, Saved(s)
      PROVE  Saved(s)'
  <2>1. CASE s \in LXDCerts
    BY <1>2, <2>1 DEF Saved
  <2>2. CASE s \notin LXDCerts
    <3> DEFINE p == SavedAt(b7, s)
    <3>1. p[1] \in DOMAIN db /\ Filled(db, p) /\ ValueAt(db, p) = ValueAt(b7, SettingAt(b7, s))
      BY <1>0, <1>2, <2>2, Homes DEF Saved, InPlace
    <3>2. \A op \in O : Spares(op, p)
      BY <2>2 DEF Careful, SavesFound, Spares
    <3> HIDE DEF p
    <3>3. Filled(db', p) /\ ValueAt(db', p) = ValueAt(db, p)
      BY <3>1, <3>2, PlaceStays
    <3> QED
      BY <2>2, <3>1, <3>3 DEF Saved, InPlace, p
  <2> QED
    BY <2>1, <2>2
<1>3. LandmarksStay'
  <2>1. \A p \in Landmarks(b7) : p[1] \in DOMAIN db
    BY <1>0 DEF Landmarks, SettingAt
  <2>2. \A p \in Landmarks(b7) : \A op \in O : Spares(op, p)
    BY DEF Careful
  <2> QED
    BY <2>1, <2>2, PlaceStays DEF LandmarksStay
<1>4. ASSUME NEW s \in FoundCredentials
      PROVE  LET p == SettingAt(b7, s)
             IN  /\ p[1] = "settings" /\ p[3] = s /\ p[1] \in DOMAIN db
                 /\ p[2] \in DOMAIN db[p[1]]
                 /\ \A op \in O : Touches(op, p[1], p[2]) => op.change # "remove"
  <2>1. SettingAt(b7, "type") \in Landmarks(b7)
    BY DEF Landmarks
  <2>2. /\ SettingAt(b7, s)[1] = SettingAt(b7, "type")[1]
        /\ SettingAt(b7, s)[2] = SettingAt(b7, "type")[2]
        /\ SettingAt(b7, s)[1] = "settings" /\ SettingAt(b7, s)[3] = s
    BY DEF SettingAt
  <2>3. Filled(db, SettingAt(b7, "type")) /\ \A op \in O : Spares(op, SettingAt(b7, "type"))
    BY <2>1 DEF LandmarksStay, Careful
  <2> QED
    BY <1>0, <2>2, <2>3 DEF Filled, Spares
<1>5. SettingsAsFound'
  <2>1. SUFFICES ASSUME NEW s \in FoundCredentials, Filled(db', SettingAt(b7, s))
                 PROVE  ValueAt(db', SettingAt(b7, s)) = ValueAt(b7, SettingAt(b7, s))
    BY <1>1 DEF SettingsAsFound, InPlace
  <2> DEFINE p == SettingAt(b7, s)
  <2>2. \A op \in O : Touches(op, p[1], p[2]) /\ op.change = "update" => p[3] \notin DOMAIN op.set
    BY <1>4 DEF Careful, RemovesSaved
  <2>3. p[1] \in DOMAIN db /\ p[2] \in DOMAIN db[p[1]] /\ Filled(db', p)
    BY <1>4, <2>1
  <2> HIDE DEF p
  <2>4. Filled(db, p) /\ ValueAt(db', p) = ValueAt(db, p)
    BY <2>2, <2>3, PlaceBefore
  <2> QED
    BY <2>4 DEF SettingsAsFound, InPlace, p
<1>6. ASSUME NEW s \in FoundCredentials
      PROVE  InPlace(SettingAt(b7, s), s)' \/ Saved(s)'
  <2>1. CASE Saved(s)
    BY <1>2, <2>1
  <2>2. CASE ~Saved(s)
    <3> DEFINE p == SettingAt(b7, s)
    <3>1. InPlace(p, s)
      BY <2>2 DEF CredentialsKept
    <3>2. \A op \in O : Spares(op, p)
      BY <1>4, <2>2 DEF Careful, RemovesSaved, Spares, Touches
    <3>3. p[1] \in DOMAIN db
      BY <1>4
    <3> HIDE DEF p
    <3>4. Filled(db', p) /\ ValueAt(db', p) = ValueAt(db, p)
      BY <3>1, <3>2, <3>3, PlaceStays DEF InPlace
    <3> QED
      BY <3>1, <3>4 DEF InPlace, p
  <2> QED
    BY <2>1, <2>2
<1>7. CredentialsKept'
  BY <1>1, <1>6 DEF CredentialsKept
<1> QED
  BY <1>2, <1>3, <1>5, <1>7 DEF KeepsCredentials

\* Operations that were careful remain so.
LEMMA CarefulStays ==
  ASSUME KeepsCredentials, b7' = b7, NEW O, Careful(O)
  PROVE  Careful(O)'
  BY DEF KeepsCredentials, Careful, RemovesSaved, SavesFound, FoundCredentials

\* The fields of the places are no transaction queues.
LEMMA PlacesOK ==
  /\ \A p \in Landmarks(b7) : p[1] \in CredentialCollections /\ p[3] # "txn-queue"
  /\ \A s \in FoundCredentials : LET p == SettingAt(b7, s) IN
       p[1] \in CredentialCollections /\ p[3] # "txn-queue"
  /\ \A s \in FoundCredentials \ LXDCerts : LET p == SavedAt(b7, s) IN
       p[1] \in CredentialCollections /\ p[3] # "txn-queue"
<1>1. \A s \in FoundCredentials : s \in LXDCerts \cup {"maas-server", "maas-oauth", "ca-cert"}
  BY DEF FoundCredentials, Credentials, SettingsNeeded
<1>2. \A s \in FoundCredentials : s # "txn-queue"
  BY <1>1 DEF LXDCerts
<1>3. /\ SavedAt(b7, "maas-server")[3] = "endpoint" /\ SavedAt(b7, "maas-oauth")[3] = "maas-oauth"
      /\ SavedAt(b7, "ca-cert")[3] = "ca-cert"
  BY DEF SavedAt
<1> QED
  BY <1>1, <1>2, <1>3, Homes DEF Landmarks, SettingAt, CredentialCollections

\* A step that leaves the documents alone, and the certificates or what they say.
LEMMA UnmovedKeeps ==
  ASSUME LandmarksStay, SettingsAsFound, CredentialsKept, Unmoved(db, db'), b7' = b7,
         \A s \in FoundCredentials \cap LXDCerts : Saved(s) => Saved(s)'
  PROVE  KeepsCredentials
<1>1. UNCHANGED FoundCredentials /\ \A s : UNCHANGED <<SettingAt(b7, s), SavedAt(b7, s)>>
      /\ UNCHANGED Landmarks(b7)
  BY DEF FoundCredentials
<1>2. \A s \in FoundCredentials : Saved(s) => Saved(s)'
  BY PlacesOK DEF Unmoved, Saved, InPlace
<1>3. LandmarksStay'
  BY <1>1, PlacesOK DEF Unmoved, LandmarksStay
<1>4. SettingsAsFound'
  BY <1>1, PlacesOK DEF Unmoved, SettingsAsFound, InPlace
<1>5. \A s \in FoundCredentials : InPlace(SettingAt(b7, s), s) => InPlace(SettingAt(b7, s), s)'
  BY PlacesOK DEF Unmoved, InPlace
<1>6. CredentialsKept'
  BY <1>1, <1>2, <1>5 DEF CredentialsKept
<1> QED
  BY <1>2, <1>3, <1>4, <1>6 DEF KeepsCredentials

-----------------------------------------------------------------------------
(* The operations of the stages are careful.                               *)

\* The documents of a model's settings are no service's.
LEMMA SettingsNoService ==
  ASSUME NEW d, NEW c, NEW m
  PROVE  ModelSettingsID(m) \notin ServiceKeyed(d, c)
  BY DEF ServiceKeyed, ModelSettingsID, IsServiceKeyID

\* Operations elsewhere, and the renaming of the settings of services.
LEMMA ElsewhereCareful ==
  ASSUME NEW d, NEW O, Elsewhere(d, O)
  PROVE  Careful(O)
<1>1. CASE About(O, Collections \ CredentialCollections)
  BY <1>1, PlacesOK DEF About, Careful, Spares, RemovesSaved, SavesFound, Touches, SettingAt,
                        CredentialCollections
<1>2. ASSUME NEW keyName, O = GlobalKeyOps(d, "settings", keyName)
      PROVE  Careful(O)
  <2>1. ASSUME NEW op \in O
        PROVE  /\ op.c = "settings"
               /\ op.change = "insert" \/ (op.change = "remove" /\ op.id \in ServiceKeyed(d, "settings"))
    BY <1>2, <2>1 DEF GlobalKeyOps, MoveOps, RemoveOp, InsertOp
  <2>2. \A p \in Landmarks(b7) : p[1] = "settings" => p[2] = ModelSettingsID(ControllerModelUUID(b7))
    BY DEF Landmarks, SettingAt
  <2> QED
    BY <2>1, <2>2, SettingsNoService, Homes DEF Careful, Spares, RemovesSaved, SavesFound, Touches
<1> QED
  BY <1>1, <1>2 DEF Elsewhere

\* What updateController finds, it finds as it was.
LEMMA SameContext ==
  ASSUME LandmarksStay
  PROVE  /\ ControllerModelUUID(db) = ControllerModelUUID(b7)
         /\ ControllerContext(db) = ControllerContext(b7)
         /\ \A s : ControllerModelSettings(db)[s] = ValueAt(db, SettingAt(b7, s))
         /\ \A s : Has(ControllerModelSettings(db), s) <=> Filled(db, SettingAt(b7, s))
<1>1. /\ Filled(db, SettingAt(b7, "type"))
      /\ ValueAt(db, SettingAt(b7, "type")) = ValueAt(b7, SettingAt(b7, "type"))
      /\ ValueAt(db, <<"controllers", <<"e">>, "model-uuid">>)
           = ValueAt(b7, <<"controllers", <<"e">>, "model-uuid">>)
      /\ ValueAt(db, <<"models", <<ControllerModelUUID(b7)>>, "owner">>)
           = ValueAt(b7, <<"models", <<ControllerModelUUID(b7)>>, "owner">>)
  BY DEF LandmarksStay, Landmarks
<1>2. ControllerModelUUID(db) = ControllerModelUUID(b7)
  BY <1>1 DEF ControllerModelUUID, ValueAt
<1>3. \A s : ControllerModelSettings(db)[s] = ValueAt(db, SettingAt(b7, s))
  BY <1>2 DEF ControllerModelSettings, ValueAt, SettingAt
<1>4. ControllerContext(db) = ControllerContext(b7)
  <2>1. ControllerModelSettings(b7)["type"] = ValueAt(b7, SettingAt(b7, "type"))
    BY DEF ControllerModelSettings, ValueAt, SettingAt
  <2>2. ControllerModel(db)["owner"] = ControllerModel(b7)["owner"]
    BY <1>1, <1>2 DEF ControllerModel, ValueAt
  <2> QED
    BY <1>1, <1>3, <2>1, <2>2 DEF ControllerContext
<1>5. \A s : Has(ControllerModelSettings(db), s) <=> Filled(db, SettingAt(b7, s))
  BY <1>1, <1>2 DEF ControllerModelSettings, Filled, Has, SettingAt
<1> QED
  BY <1>2, <1>3, <1>4, <1>5

\* The documents updateController makes of the settings it finds.
LEMMA MadeFromSettings ==
  ASSUME NEW d, NEW u
  PROVE  LET set(doc) == CopyBsonDField(doc)
             found == ControllerModelSettings(d)
             settings == set(ControllerSettings(d, u))
             cloud == set(CloudDoc(d, "maas"))
             credential == set(CredentialDoc(d, "maas", ControllerContext(d).owner))
         IN  /\ Has(settings, "ca-cert")
             /\ settings["ca-cert"] = ReadBsonDField(found, "ca-cert")
             /\ Has(cloud, "endpoint") /\ cloud["endpoint"] = found["maas-server"]
             /\ Has(credential, "maas-oauth") /\ credential["maas-oauth"] = found["maas-oauth"]
<1> DEFINE found == ControllerModelSettings(d)
           owner == ControllerContext(d).owner
<1>1. ASSUME NEW doc, NEW f \in {"ca-cert", "endpoint", "maas-oauth"}, f \in DOMAIN doc
      PROVE  Has(CopyBsonDField(doc), f) /\ CopyBsonDField(doc)[f] = doc[f]
  BY <1>1 DEF CopyBsonDField, Without, Has
<1>2. \A e, f, v : f \in DOMAIN (e ++ Field(f, v)) /\ (e ++ Field(f, v))[f] = v
  BY DEF ++, Field
<1>3. /\ "ca-cert" \in DOMAIN ControllerSettings(d, u)
      /\ ControllerSettings(d, u)["ca-cert"] = ReadBsonDField(found, "ca-cert")
  BY <1>2 DEF ControllerSettings
<1>4. /\ "maas-oauth" \in DOMAIN CredentialDoc(d, "maas", owner)
      /\ CredentialDoc(d, "maas", owner)["maas-oauth"] = found["maas-oauth"]
  BY <1>2 DEF CredentialDoc
<1>5. /\ "endpoint" \in DOMAIN CloudDoc(d, "maas")
      /\ CloudDoc(d, "maas")["endpoint"] = found["maas-server"]
  BY DEF CloudDoc
<1> QED
  BY <1>1, <1>3, <1>4, <1>5

\* updateController saves what it finds, and what it does not find any more has
\* been saved.
LEMMA FoundingCareful ==
  ASSUME LandmarksStay, SettingsAsFound, CredentialsKept,
         ControllerContext(db).cloud \in Clouds,
         HasSettingsOf(db, ControllerContext(db).cloud), NEW u
  PROVE  /\ Careful(UpdateControllerOps(db, u))
         /\ \A s \in FoundCredentials \ LXDCerts :
              \E op \in UpdateControllerOps(db, u) :
                Inserts(op, SavedAt(b7, s)) /\ op.assert = "d-"
<1> DEFINE O == UpdateControllerOps(db, u)
           cloud == ControllerContext(db).cloud
           owner == ControllerContext(db).owner
           o1 == UpdateOp("controllers", <<"e">>, Field("cloud", cloud), {})
           o2 == InsertOp("clouds", <<cloud>>, CloudDoc(db, cloud), <<>>)
           o3 == InsertOp("cloudCredentials", CredentialID(cloud, owner),
                          CredentialDoc(db, cloud, owner), <<>>)
           o4 == InsertOp("controllers", <<"controllerSettings">>,
                          ControllerSettings(db, u), <<>>)
           o5 == InsertOp("permissions", <<"c", u, "us", AdminUser>>,
                          [access |-> "superuser", object |-> <<"c", u>>], <<>>)
           o6 == InsertOp("controllerusers", <<AdminUser>>,
                          Field("object-uuid", u) ++ Field("user", AdminUser), <<>>)
<1>1. O = {o1, o2, o3, o4, o5, o6}
  BY DEF UpdateControllerOps
<1>2. /\ o1.c = "controllers" /\ o1.id = <<"e">> /\ o1.change = "update"
      /\ o1.unset = {} /\ DOMAIN o1.set = {"cloud"}
      /\ o2.c = "clouds" /\ o2.id = <<cloud>> /\ o2.set = CopyBsonDField(CloudDoc(db, cloud))
      /\ o3.c = "cloudCredentials" /\ o3.id = CredentialID(cloud, owner)
      /\ o3.set = CopyBsonDField(CredentialDoc(db, cloud, owner))
      /\ o4.c = "controllers" /\ o4.id = <<"controllerSettings">>
      /\ o4.set = CopyBsonDField(ControllerSettings(db, u))
      /\ o5.c = "permissions" /\ o6.c = "controllerusers"
      /\ \A op \in {o2, o3, o4, o5, o6} : op.change = "insert" /\ op.assert = "d-"
  BY DEF UpdateOp, InsertOp, Field
<1> HIDE DEF O, o1, o2, o3, o4, o5, o6
<1>3. cloud = ControllerContext(b7).cloud /\ owner = ControllerContext(b7).owner
      /\ cloud \in {"lxd", "maas"}
  BY SameContext DEF Clouds
<1>4. ASSUME NEW s \in FoundCredentials \ LXDCerts
      PROVE  s = "ca-cert" \/ (cloud = "maas" /\ s \in {"maas-server", "maas-oauth"})
  BY <1>3, <1>4 DEF FoundCredentials, Credentials, SettingsNeeded
<1>5. /\ SavedAt(b7, "maas-server") = <<"clouds", <<cloud>>, "endpoint">>
      /\ SavedAt(b7, "maas-oauth")
           = <<"cloudCredentials", CredentialID(cloud, owner), "maas-oauth">>
      /\ SavedAt(b7, "ca-cert") = <<"controllers", <<"controllerSettings">>, "ca-cert">>
  BY <1>3 DEF SavedAt
<1>6. ASSUME NEW op \in O, NEW p \in Landmarks(b7)
      PROVE  Spares(op, p)
  BY <1>1, <1>2 DEF Spares, Landmarks, SettingAt, Touches
<1>7. ASSUME NEW op \in O, NEW s \in FoundCredentials
      PROVE  RemovesSaved(op, s)
  BY <1>1, <1>2 DEF RemovesSaved, Touches
<1>8. ASSUME NEW op \in O, NEW s \in FoundCredentials \ LXDCerts
      PROVE  SavesFound(op, s)
  <2> DEFINE p == SavedAt(b7, s)
             now == ControllerModelSettings(db)
  <2>1. SUFFICES ASSUME Touches(op, p[1], p[2])
                 PROVE  /\ op.change = "insert"
                        /\ \/ Saved(s)
                           \/ /\ Has(op.set, p[3])
                              /\ op.set[p[3]] = ValueAt(b7, SettingAt(b7, s))
    BY DEF SavesFound
  <2>2. Has(now, s) => now[s] = ValueAt(b7, SettingAt(b7, s))
    BY SameContext DEF SettingsAsFound, InPlace
  <2>3. Has(now, s) \/ Saved(s)
    BY SameContext DEF CredentialsKept, InPlace
  <2>4. CASE s = "ca-cert"
    <3>1. op = o4
      BY <1>1, <1>2, <1>5, <2>1, <2>4 DEF Touches
    <3>2. Has(o4.set, "ca-cert") /\ o4.set["ca-cert"] = ReadBsonDField(now, "ca-cert")
      BY <1>2, MadeFromSettings
    <3> QED
      BY <1>2, <1>5, <2>2, <2>3, <2>4, <3>1, <3>2 DEF ReadBsonDField
  <2>5. CASE cloud = "maas" /\ s = "maas-server"
    <3>1. op = o2
      BY <1>1, <1>2, <1>5, <2>1, <2>5 DEF Touches
    <3>2. Has(o2.set, "endpoint") /\ o2.set["endpoint"] = now["maas-server"]
      BY <1>2, <2>5, MadeFromSettings
    <3>3. Has(now, s)
      BY <2>5 DEF HasSettingsOf, SettingsNeeded, Has
    <3> QED
      BY <1>2, <1>5, <2>2, <2>5, <3>1, <3>2, <3>3
  <2>6. CASE cloud = "maas" /\ s = "maas-oauth"
    <3>1. op = o3
      BY <1>1, <1>2, <1>5, <2>1, <2>6 DEF Touches
    <3>2. Has(o3.set, "maas-oauth") /\ o3.set["maas-oauth"] = now["maas-oauth"]
      BY <1>2, <2>6, MadeFromSettings
    <3>3. Has(now, s)
      BY <2>6 DEF HasSettingsOf, SettingsNeeded, Has
    <3> QED
      BY <1>2, <1>5, <2>2, <2>6, <3>1, <3>2, <3>3
  <2> QED
    BY <1>4, <2>4, <2>5, <2>6
<1>9. ASSUME NEW s \in FoundCredentials \ LXDCerts
      PROVE  \E op \in O : Inserts(op, SavedAt(b7, s)) /\ op.assert = "d-"
  <2>1. CASE s = "ca-cert"
    BY <1>1, <1>2, <1>5, <2>1 DEF Inserts, Touches
  <2>2. CASE s = "maas-server"
    BY <1>1, <1>2, <1>5, <2>2 DEF Inserts, Touches
  <2>3. CASE s = "maas-oauth"
    BY <1>1, <1>2, <1>5, <2>3 DEF Inserts, Touches
  <2> QED
    BY <1>4, <2>1, <2>2, <2>3
<1> QED
  BY <1>6, <1>7, <1>8, <1>9 DEF Careful, O

\* updateModels removes settings that have been saved.
LEMMA JoiningCareful ==
  ASSUME \A s \in FoundCredentials : Saved(s), NEW d, NEW u, NEW ctx
  PROVE  Careful(UpdateModelsOps(d, u, ctx))
<1> DEFINE ok(op) == \/ op.c \in {"permissions", "usermodelname"}
                     \/ /\ op.c = "models" /\ op.change = "update"
                        /\ "owner" \notin op.unset \cup DOMAIN op.set
                     \/ /\ op.c = "settings" /\ op.change = "update"
                        /\ "type" \notin op.unset \cup DOMAIN op.set
                        /\ DOMAIN op.set \cap FoundCredentials = {}
<1>1. ASSUME NEW id, NEW op \in UpdateModelOps(d, id, u, ctx)
      PROVE  ok(op)
  <2> DEFINE o1 == UpdateOp("models", id, ModelUpdates(d["models"][id], u, ctx),
                            {"server-uuid"})
             o2 == InsertOp("permissions", <<"e", id[1], "us", AdminUser>>,
                            [access |-> "admin", object |-> <<"e", id[1]>>], id)
             o3 == UpdateOp("settings", ModelSettingsID(id[1]), UpdatedSettings,
                            RemovedSettings(ctx.cloud))
  <2>1. ok(o1)
    <3>1. "owner" \notin DOMAIN ModelUpdates(d["models"][id], u, ctx)
      BY DEF ModelUpdates, ++, Field, NoDoc
    <3>2. o1.c = "models" /\ o1.change = "update" /\ o1.unset = {"server-uuid"}
          /\ o1.set = ModelUpdates(d["models"][id], u, ctx)
      BY DEF UpdateOp
    <3> QED
      BY <3>1, <3>2
  <2>2. ok(o2)
    BY DEF InsertOp
  <2>3. ok(o3)
    <3>1. DOMAIN UpdatedSettings
            = {"agent-version", "provisioner-harvest-mode", "transmit-vendor-metrics"}
      BY DEF UpdatedSettings, ++, Field
    <3>2. FoundCredentials \subseteq LXDCerts \cup {"maas-server", "maas-oauth", "ca-cert"}
      BY DEF FoundCredentials, Credentials, SettingsNeeded
    <3>3. "type" \notin RemovedSettings(ctx.cloud)
      BY DEF RemovedSettings, LXDCerts
    <3>4. o3.c = "settings" /\ o3.change = "update" /\ o3.set = UpdatedSettings
          /\ o3.unset = RemovedSettings(ctx.cloud)
      BY DEF UpdateOp
    <3> QED
      BY <3>1, <3>2, <3>3, <3>4 DEF LXDCerts
  <2> HIDE DEF ok, o1, o2, o3
  <2> QED
    BY <1>1, <2>1, <2>2, <2>3 DEF UpdateModelOps, o1, o2, o3
<1>2. \A op \in MoveOps("usermodelname", <<AdminUser, "admin">>,
                        "usermodelname", <<AdminUser, "controller">>, NoDoc) : ok(op)
  BY MoveOpsAbout DEF About
<1>3. \A op \in UpdateModelsOps(d, u, ctx) : ok(op)
  BY <1>1, <1>2 DEF UpdateModelsOps
<1>4. ASSUME NEW op, ok(op)
      PROVE  /\ \A p \in Landmarks(b7) : Spares(op, p)
             /\ \A s \in FoundCredentials : RemovesSaved(op, s)
             /\ \A s \in FoundCredentials \ LXDCerts : SavesFound(op, s)
  <2>1. \A p \in Landmarks(b7) : Spares(op, p)
    BY <1>4 DEF Spares, Touches, Landmarks, SettingAt
  <2>2. \A s \in FoundCredentials : RemovesSaved(op, s)
    BY <1>4 DEF RemovesSaved, Touches
  <2>3. \A s \in FoundCredentials \ LXDCerts : SavesFound(op, s)
    BY <1>4, Homes DEF SavesFound, Touches
  <2> QED
    BY <2>1, <2>2, <2>3
<1> QED
  BY <1>3, <1>4 DEF Careful

-----------------------------------------------------------------------------
(* The steps.                                                              *)

\* Any part of careful operations is careful.
LEMMA CarefulPart ==
  ASSUME NEW O, Careful(O), NEW S \in SUBSET O
  PROVE  Careful(S)
  BY DEF Careful

\* Once a stage is done, the next one relies on what is saved by then.
LEMMA CredentialsGoOn ==
  ASSUME CredentialsInv, KeepsCredentials, b7' = b7, pc \in Stages, Continue,
         txns' \subseteq txns,
         live /\ pc = "updateController" => \A s \in FoundCredentials : Saved(s)'
  PROVE  CredentialsInv'
<1>1. inTxn' = FALSE /\ live' = live /\ (pc' = NextStage(pc) \/ pc' = "idle")
  BY DEF Continue, Exit
<1>2. FoundCredentials' = FoundCredentials
  BY DEF FoundCredentials
<1>3. \A t \in txns' : Careful(t.ops)'
  BY CarefulStays DEF CredentialsInv, AllCareful
<1>4. SavedInTime'
  <2>1. "idle" \notin AfterController
    BY DEF AfterController, Stages, Follows
  <2>2. live /\ pc' \in AfterController => pc \in AfterController \cup {"updateController"}
    BY <1>1, <2>1, StagesBefore
  <2> QED
    BY <1>1, <1>2, <2>2 DEF CredentialsInv, SavedInTime, KeepsCredentials
<1> QED
  BY <1>1, <1>3, <1>4 DEF CredentialsInv, KeepsCredentials, AllCareful, SavesInTime

\* A command that ends has at most left a transaction behind that is careful.
LEMMA CredentialsEnd ==
  ASSUME CredentialsInv, KeepsCredentials, b7' = b7, NEW how, Exit(how),
         \A t \in txns' : t \in txns \/ (live /\ inTxn /\ t.ops = ops)
  PROVE  CredentialsInv'
<1>1. pc' = "idle" /\ inTxn' = FALSE
  BY DEF Exit
<1>2. \A t \in txns' : Careful(t.ops)
  BY DEF CredentialsInv, AllCareful
<1>3. \A t \in txns' : Careful(t.ops)'
  BY <1>2, CarefulStays
<1>4. "idle" \notin AfterController
  BY DEF AfterController, Stages, Follows
<1> QED
  BY <1>1, <1>3, <1>4 DEF CredentialsInv, KeepsCredentials, AllCareful, SavesInTime, SavedInTime

\* A step within a stage.
LEMMA CredentialsWithin ==
  ASSUME CredentialsInv, KeepsCredentials, UNCHANGED <<pc, live, ops, inTxn, b7>>,
         txns' \subseteq txns
  PROVE  CredentialsInv'
<1>1. FoundCredentials' = FoundCredentials /\ \A s : SavedAt(b7, s)' = SavedAt(b7, s)
  BY DEF FoundCredentials
<1>2. \A t \in txns' : Careful(t.ops)'
  BY CarefulStays DEF CredentialsInv, AllCareful
<1>3. live' /\ inTxn' => Careful(ops)'
  <2>1. SUFFICES ASSUME live, inTxn PROVE Careful(ops)'
    OBVIOUS
  <2>2. Careful(ops)
    BY <2>1 DEF CredentialsInv, AllCareful
  <2> QED
    BY <2>2 DEF KeepsCredentials, Careful, RemovesSaved, SavesFound, FoundCredentials
<1>4. SavesInTime'
  BY <1>1 DEF CredentialsInv, SavesInTime, KeepsCredentials
<1>5. SavedInTime'
  BY <1>1 DEF CredentialsInv, SavedInTime, KeepsCredentials
<1> QED
  BY <1>2, <1>3, <1>4, <1>5 DEF CredentialsInv, KeepsCredentials, AllCareful

\* updateController writes the certificates as it finds them.
LEMMA CertsSaved ==
  ASSUME LandmarksStay, SettingsAsFound, SavesCerts, b7' = b7, NEW s \in FoundCredentials \cap LXDCerts
  PROVE  (live \/ Saved(s)) => Saved(s)'
<1> DEFINE now == ControllerModelSettings(db)
<1>1. ControllerContext(db).cloud = "lxd"
  BY SameContext DEF FoundCredentials, Credentials, SettingsNeeded, LXDCerts, SavesCerts, Clouds
<1>2. CASE ~live
  BY <1>2 DEF SavesCerts, Saved
<1>3. CASE live
  <2>1. certs' = [c \in LXDCerts |-> now[c]] /\ Has(now, s)
    BY <1>1, <1>3 DEF SavesCerts, LXDCertFiles, HasSettingsOf, SettingsNeeded, Has
  <2>2. now[s] = ValueAt(b7, SettingAt(b7, s))
    BY <2>1, SameContext DEF SettingsAsFound, InPlace
  <2>3. Has(certs', s) /\ certs'[s] = ValueAt(b7, SettingAt(b7, s))
    BY <2>1, <2>2 DEF Has
  <2> QED
    BY <2>3 DEF Saved
<1> QED
  BY <1>2, <1>3

\* A stage that reads.
LEMMA CredentialsRead ==
  ASSUME CredentialsInv, ReadsFor
  PROVE  CredentialsInv'
<1>0. /\ LandmarksStay /\ SettingsAsFound /\ CredentialsKept
      /\ UNCHANGED <<db, txns, pc, live, b7>> /\ inTxn'
      /\ FoundCredentials' = FoundCredentials /\ \A s : SavedAt(b7, s)' = SavedAt(b7, s)
  BY DEF CredentialsInv, ReadsFor, FoundCredentials
<1>1. \A s \in FoundCredentials \cap LXDCerts : Saved(s) => Saved(s)'
  BY <1>0, CertsSaved DEF ReadsFor, Saved
<1>2. KeepsCredentials
  BY <1>0, <1>1, SameUnmoved, UnmovedKeeps
<1>3. \A t \in txns' : Careful(t.ops)'
  BY <1>0, <1>2, CarefulStays DEF CredentialsInv, AllCareful
<1>4. SavedInTime'
  BY <1>0, <1>2 DEF CredentialsInv, SavedInTime, KeepsCredentials
<1>5. PICK O : O = ops'
  OBVIOUS
<1>6. live => Careful(O)
  <2>1. CASE pc = "updateController" /\ O = UpdateControllerOps(db, uuid) /\ SavesCerts
    BY <1>0, <2>1, FoundingCareful DEF SavesCerts
  <2>2. CASE pc = "updateModels" /\ O = UpdateModelsOps(db, uuid, context)
    <3>1. "updateModels" \in AfterController
      BY DEF AfterController, Stages, Follows
    <3> QED
      BY <2>2, <3>1, JoiningCareful DEF CredentialsInv, SavedInTime
  <2>3. CASE Elsewhere(db, O)
    BY <2>3, ElsewhereCareful
  <2> QED
    BY <1>5, <2>1, <2>2, <2>3 DEF ReadsFor
<1>7. live => Careful(O)'
  BY <1>0, <1>2, <1>6, CarefulStays
<1>8. live' /\ inTxn' => Careful(ops)'
  BY <1>0, <1>5, <1>7 DEF Careful
<1>9. SavesInTime'
  <2>1. SUFFICES ASSUME live, pc = "updateController", NEW s \in FoundCredentials
                 PROVE  \/ Saved(s)'
                        \/ /\ s \notin LXDCerts
                           /\ \E op \in ops' : Inserts(op, SavedAt(b7, s)) /\ op.assert = "d-"
    BY <1>0 DEF SavesInTime
  <2>2. pc \notin Reading
    BY <2>1 DEF Reading
  <2>3. ops' = UpdateControllerOps(db, uuid) /\ SavesCerts
    BY <2>1, <2>2 DEF ReadsFor
  <2>4. CASE s \in LXDCerts
    BY <1>0, <2>1, <2>3, <2>4, CertsSaved
  <2>5. CASE s \notin LXDCerts
    BY <1>0, <2>3, <2>5, FoundingCareful DEF SavesCerts
  <2> QED
    BY <2>4, <2>5
<1> QED
  BY <1>2, <1>3, <1>4, <1>8, <1>9 DEF CredentialsInv, KeepsCredentials, AllCareful

\* The transaction of updateController has saved what was not saved before.
LEMMA CommitSaves ==
  ASSUME CredentialsInv, DOMAIN db = Collections, KeepsCredentials, b7' = b7, inTxn, live,
         pc = "updateController", Asserted(db, ops), db' = Apply(db, ops),
         NEW s \in FoundCredentials
  PROVE  Saved(s)'
<1>1. CASE Saved(s)
  BY <1>1 DEF KeepsCredentials
<1>2. CASE ~Saved(s)
  <2> DEFINE p == SavedAt(b7, s)
             v == ValueAt(b7, SettingAt(b7, s))
  <2>1. PICK o \in ops : Inserts(o, p) /\ o.assert = "d-" /\ s \notin LXDCerts
    BY <1>2 DEF CredentialsInv, SavesInTime
  <2>2. p[2] \notin DOMAIN db[p[1]]
    BY <2>1 DEF Asserted, Inserts, Touches
  <2>3. \A op \in ops : Touches(op, p[1], p[2]) =>
          op.change = "insert" /\ Has(op.set, p[3]) /\ op.set[p[3]] = v
    BY <1>2, <2>1 DEF CredentialsInv, AllCareful, Careful, SavesFound
  <2>4. p[1] \in DOMAIN db
    BY <2>1, Homes DEF Collections
  <2> HIDE DEF p, v
  <2>5. Filled(db', p) /\ ValueAt(db', p) = v
    BY <2>1, <2>2, <2>3, <2>4, PlaceMade
  <2> QED
    BY <2>1, <2>5 DEF Saved, InPlace, p, v
<1> QED
  BY <1>1, <1>2

\* The steps of a running command.
LEMMA CredentialsStage ==
  ASSUME CredentialsInv, ProcessInv,
         ReadsFor \/ Quits \/ Passes \/ DryRunTransaction \/ Commit \/ Within
  PROVE  CredentialsInv'
<1>0. /\ DOMAIN db = Collections
      /\ LandmarksStay /\ SettingsAsFound /\ CredentialsKept
      /\ \A t \in txns : Careful(t.ops)
      /\ live /\ inTxn => Careful(ops)
  BY DEF CredentialsInv, AllCareful, ProcessInv, TypeOK, DiskOK
<1>a. ASSUME UNCHANGED <<certs, b7>>, Unmoved(db, db')
      PROVE  KeepsCredentials
  BY <1>0, <1>a, UnmovedKeeps DEF Saved
<1>b. ASSUME Continue PROVE b7' = b7
  BY <1>b DEF Continue, Exit
<1>1. CASE ReadsFor
  BY <1>1, CredentialsRead
<1>2. CASE Quits
  <2>1. PICK how : Exit(how)
    BY <1>2 DEF Quits
  <2>2. b7' = b7 /\ certs' = certs
    BY <1>2, <2>1 DEF Exit, Quits
  <2>3. KeepsCredentials
    <3>1. CASE db' = db
      BY <1>a, <2>2, <3>1, SameUnmoved
    <3>2. CASE live /\ inTxn /\ \E done \in SUBSET ops : db' = Apply(db, done)
      <4>1. PICK done \in SUBSET ops : db' = Apply(db, done)
        BY <3>2
      <4>2. Careful(done)
        BY <1>0, <3>2, CarefulPart
      <4> QED
        BY <1>0, <2>2, <4>1, <4>2, CarefulKeeps
    <3> QED
      BY <1>2, <3>1, <3>2, LeftBehind DEF Quits
  <2>4. \A t \in txns' : t \in txns \/ (live /\ inTxn /\ t.ops = ops)
    BY <1>2, LeftBehind DEF Quits
  <2> QED
    BY <2>1, <2>2, <2>3, <2>4, CredentialsEnd
<1>3. CASE Passes
  BY <1>a, <1>b, <1>3, CredentialsGoOn DEF Passes
<1>4. CASE DryRunTransaction
  BY <1>a, <1>b, <1>4, SameUnmoved, CredentialsGoOn DEF DryRunTransaction, disk, ProcessInv
<1>5. CASE Commit
  <2>1. /\ live /\ inTxn /\ pc \in Stages /\ Continue /\ Asserted(db, ops)
        /\ db' = Apply(db, ops) /\ UNCHANGED <<txns, certs, b7>>
    BY <1>b, <1>5 DEF Commit, CanRun, ProcessInv
  <2>2. KeepsCredentials
    BY <1>0, <2>1, CarefulKeeps
  <2>3. pc = "updateController" => \A s \in FoundCredentials : Saved(s)'
    BY <1>0, <2>1, <2>2, CommitSaves
  <2> QED
    BY <2>1, <2>2, <2>3, CredentialsGoOn
<1>6. CASE Within
  <2>1. UNCHANGED <<pc, live, ops, inTxn, b7>>
    BY <1>6 DEF Within
  <2>2. ASSUME NEW t \in txns, Complete(t) PROVE CredentialsInv'
    <3>1. certs' = certs /\ txns' \subseteq txns
      BY <2>2 DEF Complete
    <3>2. Careful(t.ops) /\ Careful(t.ops \ t.done)
      BY <1>0, CarefulPart
    <3>3. db' = db \/ db' = Apply(db, t.ops) \/ db' = Apply(db, t.ops \ t.done)
      BY <2>2 DEF Complete
    <3>4. KeepsCredentials
      BY <1>0, <1>a, <2>1, <3>1, <3>2, <3>3, SameUnmoved, CarefulKeeps
    <3> QED
      BY <2>1, <3>1, <3>4, CredentialsWithin
  <2>3. CASE Unmoved(db, db') /\ UNCHANGED <<txns, certs>>
    BY <1>a, <2>1, <2>3, CredentialsWithin
  <2> QED
    BY <1>6, <2>2, <2>3 DEF Within
<1> QED
  BY <1>1, <1>2, <1>3, <1>4, <1>5, <1>6

\* Every step.
LEMMA CredentialsStep ==
  ASSUME CredentialsInv, ProcessInv, [Next]_vars
  PROVE  CredentialsInv'
<1>1. ASSUME UNCHANGED <<disk, b7>> PROVE KeepsCredentials /\ UNCHANGED <<txns, certs>>
  BY <1>1, SameUnmoved, UnmovedKeeps DEF disk, CredentialsInv, Saved
<1>2. ASSUME NEW command \in DOMAIN FirstStage, NEW forReal \in BOOLEAN,
             Start(command, forReal)
      PROVE  CredentialsInv'
  <2>1. /\ KeepsCredentials /\ txns' = txns /\ b7' = b7 /\ inTxn' = inTxn /\ ~inTxn
        /\ pc' \in {"upgradePrecheck", "removeCleanups"}
    BY <1>1, <1>2, IdleNoStage DEF Start, FirstStage, ProcessInv
  <2>2. pc' \notin AfterController
    BY <2>1 DEF AfterController
  <2>3. \A t \in txns' : Careful(t.ops)'
    BY <2>1, CarefulStays DEF CredentialsInv, AllCareful
  <2> QED
    BY <2>1, <2>2, <2>3 DEF CredentialsInv, KeepsCredentials, AllCareful, SavesInTime, SavedInTime
<1>3. CASE Step \/ Failure
  BY <1>3, StepKinds, CredentialsStage
<1>4. CASE UNCHANGED vars
  BY <1>1, <1>4, CredentialsWithin DEF vars
<1> QED
  BY <1>2, <1>3, <1>4 DEF Next, Finished

\* What the agents of beta 7 left unfinished is careful.
LEMMA CredentialsInit ==
  ASSUME Init
  PROVE  CredentialsInv
<1>1. PICK s \in B7States : db = s.db /\ txns = s.txns /\ b7 = s.db
  BY DEF Init
<1>2. /\ \A p \in Landmarks(b7) : Filled(b7, p)
      /\ \A t \in txns : \A op \in t.ops :
           /\ \A p \in Landmarks(b7) : Spares(op, p)
           /\ \A name \in Credentials(ControllerContext(b7).cloud) : Spares(op, SettingAt(b7, name))
           /\ \A name \in Credentials(ControllerContext(b7).cloud) \ LXDCerts :
                ~Touches(op, SavedAt(b7, name)[1], SavedAt(b7, name)[2])
  BY <1>1, ControllerAssumption
<1>3. LandmarksStay /\ SettingsAsFound /\ CredentialsKept
  BY <1>1, <1>2 DEF LandmarksStay, SettingsAsFound, CredentialsKept, InPlace, FoundCredentials
<1>4. ASSUME NEW t \in txns PROVE Careful(t.ops)
  BY <1>2 DEF Careful, RemovesSaved, SavesFound, FoundCredentials, Spares, SettingAt
<1> QED
  BY <1>3, <1>4, IdleNoStage DEF Init, CredentialsInv, AllCareful, SavesInTime, SavedInTime, AfterController

\* What the settings of the controller model, the saved documents and files, and
\* the pending transactions say of the credentials always fits together.
THEOREM CredentialsInvariant == Spec => []CredentialsInv
<1>1. Init => CredentialsInv
  BY CredentialsInit
<1>2. CredentialsInv /\ ProcessInv /\ [Next]_vars => CredentialsInv'
  BY CredentialsStep
<1> QED
  BY <1>1, <1>2, ProcessInvariant, PTL DEF Spec

\* Whatever commands are given and wherever they fail, every credential that the
\* settings of the controller model had is still there or is saved where 2.0
\* and LXD look for it, with the same value.
THEOREM CredentialsAreKept == Spec => []CredentialsKept
<1>1. CredentialsInv => CredentialsKept
  BY DEF CredentialsInv
<1> QED
  BY <1>1, CredentialsInvariant, PTL
=============================================================================
