------------------------------- MODULE SchemaOps -------------------------------
(***************************************************************************)
(* The transactions of otherSchemaUpgrades and updateAgentTools, and the   *)
(* one of clean-db. Each operator maps the documents a stage reads to the  *)
(* operations it hands to RunTransaction.                                  *)
(***************************************************************************)
EXTENDS RenameOps

AgentVersion == "2.0.0-xenial-amd64"

UpgradeCharmsOps(d) ==
  UpdateAllOps(d, "charms", LAMBDA doc : Field("life", 0), {})

UpgradeUsersOps(d) ==
  UpdateAllOps(d, "users", LAMBDA doc : NoDoc, {"deactivated"})

\* A mistake: the users of the controller are taken for those of the models,
\* and the object they have access to is taken for the old field.
UpgradeControllerUsersOps(d) ==
  UpdateAllOps(d, "controllerusers", LAMBDA doc : NoDoc, {"access", "object-uuid"})

UpgradeModelUsersOps(d) ==
  UpdateAllOps(d, "modelusers",
               LAMBDA doc : Field("object-uuid", ReadBsonDField(doc, "model-uuid")),
               {"access"})

ContainersWithoutLXC(doc) ==
  Field("supportedcontainers", doc["supportedcontainers"] \ {"lxc"})

UpgradeMachinesOps(d) == UpdateAllOps(d, "machines", ContainersWithoutLXC, {})

-----------------------------------------------------------------------------
(* upgradeCloudImageMetadata strips the model from the id. model-uuid is   *)
(* meant to go too, but the result of removeBsonDField is dropped.         *)

UpgradeCloudImageMetadataOps(d) ==
  UNION {MoveOps("cloudimagemetadata", id, "cloudimagemetadata", LocalID(id),
                 CopyBsonDField(d["cloudimagemetadata"][id]))
           : id \in {i \in DOMAIN d["cloudimagemetadata"] : Splits(i)}}

-----------------------------------------------------------------------------
(* upgradeSpaces, upgradeSubnets, upgradeLinkLayerDevices and              *)
(* upgradeIPAddresses: a provider id loses its model prefix and is         *)
(* reserved in providerIDs under the kind of the entity.                   *)

Provided == {"spaces", "subnets", "linklayerdevices", "ip.addresses"}

HasModelPrefix(doc) ==
  /\ Has(doc, "providerid")
  /\ doc["providerid"] # <<>>
  /\ ModelOf(doc["providerid"]) = GetStringField(doc, "model-uuid")

Prefixed(d, c) == {id \in DOMAIN d[c] : HasModelPrefix(d[c][id])}

\* A mistake: the kind is that of the stage which the code was copied from.
ProviderIDOpsOfSubnets(d, c, kind) ==
  UNION {LET m == d[c][id]["model-uuid"]
         IN  {UpdateOp(c, id, Field("providerid", LocalID(d[c][id]["providerid"])), {}),
              InsertOp("providerIDs", DocID(m, <<"subnet">> \o LocalID(d[c][id]["providerid"])),
                       Field("model-uuid", m), id)}
           : id \in Prefixed(d, c)}

\* Without its prefix the provider id has none.
PrefixedOnce(doc) ==
  HasModelPrefix(doc) => ~HasModelPrefix(doc ++ Field("providerid", LocalID(doc["providerid"])))

\* The operation leaves provider ids as they are.
SparesProviderIDs(op) ==
  op.c \in Provided =>
    /\ op.change = "insert" => PrefixedOnce(op.set)
    /\ op.change = "update" =>
         {"providerid", "model-uuid"} \cap (op.unset \cup DOMAIN op.set) = {}

ProviderIDOps(d, c, kind) ==
  UNION {LET doc        == d[c][id]
             providerID == LocalID(doc["providerid"])
             m          == doc["model-uuid"]
         IN  {UpdateOp(c, id, Field("providerid", providerID), {}),
              InsertOp("providerIDs", DocID(m, <<kind>> \o providerID),
                       Field("model-uuid", m), id)}
           : id \in Prefixed(d, c)}

-----------------------------------------------------------------------------
UpdateAgentToolsOps(d) ==
  LET version == Field("tools.version", AgentVersion)
  IN  UpdateAllOps(d, "machines", LAMBDA doc : version, {})
      \cup UpdateAllOps(d, "units", LAMBDA doc : version, {})

RemoveCleanupsOps(d) == {RemoveAnyOp("cleanups", id) : id \in DOMAIN d["cleanups"]}
=============================================================================
