------------------------------- MODULE RenameOps -------------------------------
(***************************************************************************)
(* The transactions of renameServiceToApplication: every service becomes   *)
(* an application, and every document that names a service, in its id or   *)
(* in a field, names the application instead. Each operator maps the       *)
(* documents a stage reads to the operations it hands to RunTransaction.   *)
(***************************************************************************)
EXTENDS MgoTxn, Functions

UpdateAllOps(d, c, set(_), unset) ==
  {UpdateOp(c, id, set(d[c][id]), unset) : id \in DOMAIN d[c]}

-----------------------------------------------------------------------------
(* moveDocsFromServicesToApplications                                      *)

OldConstraintID(id) == DocID(ModelOf(id), <<"s", LocalID(id)[1]>>)

NewConstraintID(id, charm) == DocID(ModelOf(id), <<"asc", LocalID(id)[1], charm>>)

\* The counters of the charm, of the application's settings and of its storage
\* constraints, all kept in the one refcounts collection.
RefCountKeys(id, charm) ==
  {DocID(ModelOf(id), <<"c", charm>>),
   DocID(ModelOf(id), <<"a", LocalID(id)[1], charm>>),
   NewConstraintID(id, charm)}

CharmURL(doc) == GetStringField(doc, "charmurl")

KeysOf(d, id) == RefCountKeys(id, CharmURL(d["services"][id]))

\* A mistake: what was counted for another service of the same charm is lost.
RefCountsOfOneService(d) ==
  LET services == DOMAIN d["services"]
      user(key) == CHOOSE id \in services : key \in KeysOf(d, id)
  IN  [key \in UNION {KeysOf(d, id) : id \in services} |->
         1 + GetIntField(d["services"][user(key)], "unitcount")]

\* The reference counts of the services in d: one for the application itself
\* and one for each of its units.
RefCounts(d) ==
  LET services == DOMAIN d["services"]
      weight   == [id \in services |-> 1 + GetIntField(d["services"][id], "unitcount")]
      keys     == UNION {KeysOf(d, id) : id \in services}
  IN  [key \in keys |->
         SumFunctionOnSet(weight, {id \in services : key \in KeysOf(d, id)})]

ServicesSplit(d) == \A id \in DOMAIN d["services"] : Splits(id)

FindsStorageConstraints(d) ==
  \A id \in DOMAIN d["services"] : OldConstraintID(id) \in DOMAIN d["storageconstraints"]

\* A mistake: what is said of the service is put where its storage constraints go.
MoveServiceOpsTwice(d, id) ==
  LET doc == RemoveBsonDField(CopyBsonDField(d["services"][id]), "ownertag")
  IN  MoveOps("services", id, "applications", id, doc)
      \cup MoveOps("storageconstraints", OldConstraintID(id), "storageconstraints",
                   NewConstraintID(id, CharmURL(doc)), doc)

\* One service: the document moves, and so do its storage constraints.
MoveServiceOps(d, id) ==
  LET doc   == RemoveBsonDField(CopyBsonDField(d["services"][id]), "ownertag")
      oldID == OldConstraintID(id)
  IN  MoveOps("services", id, "applications", id, doc)
      \cup MoveOps("storageconstraints", oldID, "storageconstraints",
                   NewConstraintID(id, CharmURL(doc)), d["storageconstraints"][oldID])

RefCountDoc(d, key) ==
  Field("model-uuid", ModelOf(key)) ++ Field("refcount", RefCounts(d)[key])

MoveServicesOps(d) ==
  (UNION {MoveServiceOps(d, id) : id \in DOMAIN d["services"]})
  \cup {InsertOp("refcounts", key, RefCountDoc(d, key), <<>>) : key \in DOMAIN RefCounts(d)}

-----------------------------------------------------------------------------
(* updateUnits, updateModelEntityRefs, updateRelations, updateResources    *)

WorkloadStatusID(doc) ==
  <<ReadBsonDField(doc, "model-uuid"), "u", ReadBsonDField(doc, "name"),
    "charm", "sat", "workload-version">>

\* A mistake: the collection of the statuses is misspelt.
UpdateUnitsOpsInStatus(d) ==
  UpdateAllOps(d, "units",
               LAMBDA doc : Field("application", ReadBsonDField(doc, "service")),
               {"ports", "privateaddress", "publicaddress", "service"})
  \cup {InsertOp("status", WorkloadStatusID(d["units"][id]),
                 [status |-> "unknown", updated |-> "now"], id)
          : id \in DOMAIN d["units"]}

UpdateUnitsOps(d) ==
  UpdateAllOps(d, "units",
               LAMBDA doc : Field("application", ReadBsonDField(doc, "service")),
               {"ports", "privateaddress", "publicaddress", "service"})
  \cup {InsertOp("statuses", WorkloadStatusID(d["units"][id]),
                 [status |-> "unknown", updated |-> "now"], id)
          : id \in DOMAIN d["units"]}

UpdateModelEntityRefsOps(d) ==
  UpdateAllOps(d, "modelEntityRefs",
               LAMBDA doc : Field("applications", ReadBsonDField(doc, "services")),
               {"services"})

\* A mistake: the old name is removed before it is read.
RenamedEndpointTooLate(ep) ==
  LET shorter == Without(ep, {"servicename"})
  IN  shorter ++ Field("applicationname", ReadBsonDField(shorter, "servicename"))

RenamedEndpoint(ep) ==
  Without(ep, {"servicename"})
    ++ Field("applicationname", ReadBsonDField(ep, "servicename"))

RenamedEndpoints(doc) ==
  Field("endpoints", [i \in DOMAIN doc["endpoints"] |-> RenamedEndpoint(doc["endpoints"][i])])

UpdateRelationsOps(d) == UpdateAllOps(d, "relations", RenamedEndpoints, {})

\* A mistake: the field of the other collections is read.
UpdateResourcesOpsFromName(d) ==
  UpdateAllOps(d, "resources",
               LAMBDA doc : Field("application-id", ReadBsonDField(doc, "servicename")),
               {"service-id", "env-uuid"})

UpdateResourcesOps(d) ==
  UpdateAllOps(d, "resources",
               LAMBDA doc : Field("application-id", ReadBsonDField(doc, "service-id")),
               {"service-id", "env-uuid"})

-----------------------------------------------------------------------------
(* updateLeases: the id of a lease is <<model, type, namespace>>, followed *)
(* by its name if it has one.                                              *)

RenamedLease(doc) == GetStringField(doc, "namespace") = "application-leadership"

ServiceLeases(d) ==
  {id \in DOMAIN d["leases"] :
     GetStringField(d["leases"][id], "namespace") = "service-leadership"}

NewLeaseID(doc) ==
  LET name == GetStringField(doc, "name")
  IN  <<GetStringField(doc, "model-uuid"), GetStringField(doc, "type"),
        "application-leadership">> \o (IF name = "" THEN <<>> ELSE <<name>>)

UpdateLeasesOps(d) ==
  UNION {LET doc == ReplaceBsonDField(CopyBsonDField(d["leases"][id]),
                                      "namespace", "application-leadership")
         IN  MoveOps("leases", id, "leases", NewLeaseID(doc), doc)
           : id \in ServiceLeases(d)}

-----------------------------------------------------------------------------
(* updateSequences: the name of a sequence is the tag it counts for, here  *)
(* the tuple <<kind, id>>. ParseServiceTag accepts the tags of services.   *)

IsServiceTag(tag) == tag[1] = "service"

ApplicationTag(tag) == <<"application", tag[2]>>

ServiceSequences(d) ==
  {id \in DOMAIN d["sequence"] : Has(d["sequence"][id], "name")
                                  /\ IsServiceTag(d["sequence"][id]["name"])}

UpdateSequencesOps(d) ==
  UNION {LET tag == ApplicationTag(d["sequence"][id]["name"])
             doc == ReplaceBsonDField(CopyBsonDField(d["sequence"][id]), "name", tag)
         IN  MoveOps("sequence", id, "sequence",
                     DocID(GetStringField(doc, "model-uuid"), tag), doc)
           : id \in ServiceSequences(d)}

-----------------------------------------------------------------------------
(* updateCollectionIDGlobalKey, for annotations, constraints,              *)
(* endpointbindings, settings and statuses; updateStatusHistoryCollection  *)
(* renames the key field of one document at a time, without a transaction. *)

GlobalKeyed == {"annotations", "constraints", "endpointbindings", "settings", "statuses"}

IsServiceKey(key) == key[1] = "s"

NewKey(key) == [key EXCEPT ![1] = "a"]

\* The same of ids, where the key stands behind the model.
IsServiceKeyID(id) == 2 \in DOMAIN id /\ id[2] = "s"

NewKeyID(id) == [id EXCEPT ![2] = "a"]

ServiceKeyed(d, c) == {id \in DOMAIN d[c] : IsServiceKeyID(id)}

\* The field of a document of c that holds the key once more.
KeyName(c) == IF c = "annotations" THEN "globalkey" ELSE ""

\* A mistake: the documents are copied and not moved.
GlobalKeyCopies(d, c, keyName) ==
  {InsertOp(c, NewKeyID(id), ReplaceBsonDField(d[c][id], keyName, NewKey(LocalID(id))), id)
     : id \in ServiceKeyed(d, c)}

\* removeBsonDField returns the shortened document and its result is dropped,
\* so env-uuid stays in the data that is inserted.
GlobalKeyOps(d, c, keyName) ==
  UNION {LET newKey == NewKey(LocalID(id))
             doc    == ReplaceBsonDField(CopyBsonDField(d[c][id]), keyName, newKey)
         IN  MoveOps(c, id, c, NewKeyID(id), doc)
           : id \in ServiceKeyed(d, c)}

StaleHistory(d) ==
  {id \in DOMAIN d["statuseshistory"] :
     IsServiceKey(d["statuseshistory"][id]["globalkey"])}

HistoryUpdate(d, id) ==
  UpdateOp("statuseshistory", id,
           Field("globalkey", NewKey(d["statuseshistory"][id]["globalkey"])), {})

-----------------------------------------------------------------------------
(* The documents juju keeps of a service (keyed by "s") or an application  *)
(* (keyed by "a") besides its own.                                         *)

ApplicationKeyed == {"constraints", "endpointbindings", "settings", "statuses"}

KeyedDoc(c, letter, id, charm) ==
  IF c = "settings" THEN <<Head(id), letter, id[2], charm>> ELSE <<Head(id), letter, id[2]>>

ServicesComplete(d) ==
  \A id \in DOMAIN d["services"] : \A c \in ApplicationKeyed :
    KeyedDoc(c, "s", id, CharmURL(d["services"][id])) \in DOMAIN d[c]

\* The operation makes and removes no service, and leaves its charm and its
\* documents to it.
SparesServices(op) ==
  /\ op.c # "applications"
  /\ op.c = "services" =>
       op.change = "update" /\ "charmurl" \notin op.unset \cup DOMAIN op.set
  /\ op.c \in ApplicationKeyed /\ op.change = "remove" => ~IsServiceKeyID(op.id)
=============================================================================
