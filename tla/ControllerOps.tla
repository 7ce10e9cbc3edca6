----------------------------- MODULE ControllerOps -----------------------------
(***************************************************************************)
(* The transactions with which upgrade-db gives the controller its         *)
(* identity, its cloud and its credential (updateController), and tells    *)
(* every model about them (updateModels). Each operator maps the documents *)
(* a stage reads to the operations it hands to RunTransaction.             *)
(***************************************************************************)
EXTENDS MgoTxn

\* The cloud types upgrade-db knows.
Clouds == {"lxd", "maas"}

LXDCerts == {"client-cert", "client-key", "server-cert"}

AdminUser == "admin@local"

-----------------------------------------------------------------------------
(* updateController                                                        *)

ControllerModelUUID(d) == d["controllers"][<<"e">>]["model-uuid"]

ModelSettingsID(m) == <<m, "e">>

\* The three documents updateController cannot do without.
FindsController(d) ==
  LET m == ControllerModelUUID(d)
  IN  /\ <<"stateServingInfo">> \in DOMAIN d["controllers"]
      /\ <<m>> \in DOMAIN d["models"]
      /\ ModelSettingsID(m) \in DOMAIN d["settings"]

ControllerModel(d) == d["models"][<<ControllerModelUUID(d)>>]
ControllerModelSettings(d) == d["settings"][ModelSettingsID(ControllerModelUUID(d))]

\* What the stages after updateController need of it (dbUpgradeContext).
ControllerContext(d) ==
  [cloud |-> ControllerModelSettings(d)["type"],
   owner |-> ControllerModel(d)["owner"]]

CredentialID(cloud, owner) == <<cloud, owner, cloud>>

\* The type assertions on the settings that panic when a setting is gone.
SettingsNeeded(cloud) ==
  IF cloud = "lxd" THEN LXDCerts ELSE {"maas-server", "maas-oauth"}

HasSettingsOf(d, cloud) ==
  SettingsNeeded(cloud) \subseteq DOMAIN ControllerModelSettings(d)

\* The settings of the controller model that are saved elsewhere before they are
\* removed.
Credentials(cloud) == SettingsNeeded(cloud) \cup {"ca-cert"}

SettingAt(d, name) == <<"settings", ModelSettingsID(ControllerModelUUID(d)), name>>

\* The documents that hold the credentials afterwards; the LXD certificates
\* become files.
SavedAt(d, name) ==
  LET ctx == ControllerContext(d)
  IN  CASE name = "maas-server" -> <<"clouds", <<ctx.cloud>>, "endpoint">>
        [] name = "maas-oauth" ->
             <<"cloudCredentials", CredentialID(ctx.cloud, ctx.owner), "maas-oauth">>
        [] name = "ca-cert" -> <<"controllers", <<"controllerSettings">>, "ca-cert">>

\* What updateController finds the controller model, its owner and its cloud by.
Landmarks(d) ==
  {<<"controllers", <<"e">>, "model-uuid">>,
   <<"models", <<ControllerModelUUID(d)>>, "owner">>,
   SettingAt(d, "type")}

\* A mistake: one of the three files is forgotten.
LXDCertFilesButOne(d) ==
  [s \in LXDCerts \ {"server-cert"} |-> ControllerModelSettings(d)[s]]

\* The files writeLXDCerts leaves under /etc/juju, by the setting they hold.
LXDCertFiles(d) == [s \in LXDCerts |-> ControllerModelSettings(d)[s]]

CloudDoc(d, cloud) ==
  IF cloud = "lxd"
  THEN [name |-> cloud, type |-> cloud, regions |-> {"localhost"}]
  ELSE [name |-> cloud, type |-> cloud,
        endpoint |-> ControllerModelSettings(d)["maas-server"]]

CredentialDoc(d, cloud, owner) ==
  LET base == [owner |-> owner, cloud |-> cloud, name |-> cloud]
  IN  IF cloud = "lxd"
      THEN base ++ Field("auth-type", "empty")
      ELSE base ++ Field("auth-type", "oauth1")
                ++ Field("maas-oauth", ControllerModelSettings(d)["maas-oauth"])

\* A mistake: the CA certificate is not copied from the settings of the model.
ControllerSettingsNoCert(d, uuid) ==
  LET info == d["controllers"][<<"stateServingInfo">>]
  IN  Field("controller-uuid", uuid)
        ++ Field("api-port", ReadBsonDField(info, "apiport"))
        ++ Field("state-port", ReadBsonDField(info, "stateport"))

ControllerSettings(d, uuid) ==
  LET info == d["controllers"][<<"stateServingInfo">>]
  IN  Field("controller-uuid", uuid)
        ++ Field("api-port", ReadBsonDField(info, "apiport"))
        ++ Field("state-port", ReadBsonDField(info, "stateport"))
        ++ Field("ca-cert", ReadBsonDField(ControllerModelSettings(d), "ca-cert"))

UpdateControllerOps(d, uuid) ==
  LET cloud == ControllerContext(d).cloud
      owner == ControllerContext(d).owner
      cred  == CredentialID(cloud, owner)
      perm  == <<"c", uuid, "us", AdminUser>>
      once(c, id, doc) == InsertOp(c, id, doc, <<>>)
  IN  {UpdateOp("controllers", <<"e">>, Field("cloud", cloud), {}),
       once("clouds", <<cloud>>, CloudDoc(d, cloud)),
       once("cloudCredentials", cred, CredentialDoc(d, cloud, owner)),
       once("controllers", <<"controllerSettings">>, ControllerSettings(d, uuid)),
       once("permissions", perm,
            [access |-> "superuser", object |-> <<"c", uuid>>]),
       once("controllerusers", <<AdminUser>>,
            Field("object-uuid", uuid) ++ Field("user", AdminUser))}

-----------------------------------------------------------------------------
(* updateModels                                                            *)

RemovedSettings(cloud) ==
  {"admin-secret", "api-port", "bootstrap-addresses-delay",
   "bootstrap-retry-delay", "bootstrap-timeout", "ca-cert", "ca-private-key",
   "controller-uuid", "lxc-clone-aufs", "prefer-ipv6",
   "set-numa-control-policy", "state-port", "tools-metadata-url"}
  \cup (IF cloud = "lxd"
        THEN LXDCerts \cup {"namespace", "remote-url"}
        ELSE {"maas-server", "maas-oauth", "maas-agent-name"})

UpdatedSettings ==
  Field("agent-version", "2.0.0")
    ++ Field("provisioner-harvest-mode", "destroyed")
    ++ Field("transmit-vendor-metrics", "true")

ModelUpdates(doc, uuid, ctx) ==
  Field("cloud", ctx.cloud)
    ++ Field("cloud-credential", CredentialID(ctx.cloud, ctx.owner))
    ++ Field("controller-uuid", uuid)
    ++ (IF GetStringField(doc, "name") = "admin"
        THEN Field("name", "controller") ELSE NoDoc)

\* One model: its document, the admin's permission on it, its settings.
UpdateModelOps(d, id, uuid, ctx) ==
  {UpdateOp("models", id, ModelUpdates(d["models"][id], uuid, ctx), {"server-uuid"}),
   InsertOp("permissions", <<"e", id[1], "us", AdminUser>>,
            [access |-> "admin", object |-> <<"e", id[1]>>], id),
   UpdateOp("settings", ModelSettingsID(id[1]), UpdatedSettings,
            RemovedSettings(ctx.cloud))}

UpdateModelsOps(d, uuid, ctx) ==
  (UNION {UpdateModelOps(d, id, uuid, ctx) : id \in DOMAIN d["models"]})
  \cup MoveOps("usermodelname", <<AdminUser, "admin">>,
               "usermodelname", <<AdminUser, "controller">>, NoDoc)

-----------------------------------------------------------------------------
(* Where the database records the UUID of its controller: in every model,  *)
(* in the controller settings, in the admin's entry of controllerusers and *)
(* in the id of the admin's permission on the controller.                  *)

IdentityCollections == {"models", "controllers", "controllerusers", "permissions"}

IdentityFields == {"controller-uuid", "object-uuid"}

FieldValues(docs, f) == {docs[id][f] : id \in {i \in DOMAIN docs : Has(docs[i], f)}}

RecordedUUIDs(d) ==
  (UNION {FieldValues(d[c], f) : c \in IdentityCollections, f \in IdentityFields})
  \cup {id[2] : id \in {i \in DOMAIN d["permissions"] : i[1] = "c"}}

\* The controller UUIDs an operation may add to the database.
OpUUIDs(op) ==
  IF op.c \notin IdentityCollections THEN {}
  ELSE {op.set[f] : f \in IdentityFields \cap DOMAIN op.set}
       \cup (IF op.c = "permissions" /\ op.id[1] = "c" THEN {op.id[2]} ELSE {})

\* The operation takes no controller UUID away.
KeepsUUIDs(op) ==
  op.c \in IdentityCollections =>
    op.change # "remove" /\ op.unset \cap IdentityFields = {}

\* The operation that makes the controller settings.
IsFounding(op) ==
  op.c = "controllers" /\ op.id = <<"controllerSettings">> /\ op.change = "insert"

\* The operations have nothing to do with the identity of the controller.
Neutral(O) ==
  \A op \in O : OpUUIDs(op) = {} /\ KeepsUUIDs(op) /\ ~IsFounding(op)
=============================================================================
