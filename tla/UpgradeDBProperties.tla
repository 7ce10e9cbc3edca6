-------------------------- MODULE UpgradeDBProperties --------------------------
(***************************************************************************)
(* What upgrade-db and clean-db promise, whatever commands are given in    *)
(* whatever order and wherever they fail.                                  *)
(***************************************************************************)
EXTENDS UpgradeDB

\* What survives the process: no operation names an unknown collection.
DiskOK ==
  /\ DOMAIN db = Collections
  /\ \A t \in txns : /\ t.done \subseteq t.ops
                     /\ t.applying \in BOOLEAN
                     /\ \A op \in t.ops : op.c \in Collections
  /\ DOMAIN certs \subseteq LXDCerts
  /\ indexes \subseteq {"b7", "2.0", "blobstore"}
  /\ tools \subseteq {"2.0-beta7", AgentVersion}

\* The process.
ProcessOK ==
  /\ pc \in Stages \cup {"idle"}
  /\ cmd \in DOMAIN FirstStage
  /\ live \in BOOLEAN
  /\ uuid \in 0..MaxRuns
  /\ context.cloud \in Clouds \cup {""}
  /\ \A op \in ops : op.c \in Collections
  /\ inTxn \in BOOLEAN
  /\ exit \in {"none", "running", "ok", "error", "aborted", "panic", "failed"}

\* Every variable of the database, of the disk and of the process has its type.
TypeOK == DiskOK /\ ProcessOK

-----------------------------------------------------------------------------
(* The identity of the controller.                                         *)

\* All the documents that name the controller name the same one, and no model
\* names a controller that has no settings: upgrade-agents takes the UUID of
\* the first model it finds (ControllerUUID in db.go) for all of them.
ControllerUUIDAgrees ==
  /\ \A u, v \in RecordedUUIDs(db) : u = v
  /\ FieldValues(db["models"], "controller-uuid")
       \subseteq FieldValues(db["controllers"], "controller-uuid")

\* The documents of d that name a controller name the same one in e.
SameUUIDs(d, e) ==
  /\ \A c \in IdentityCollections : \A id \in DOMAIN d[c] : \A f \in IdentityFields :
       Has(d[c][id], f) => /\ id \in DOMAIN e[c]
                           /\ Has(e[c][id], f)
                           /\ e[c][id][f] = d[c][id][f]
  /\ \A id \in DOMAIN d["permissions"] : id[1] = "c" => id \in DOMAIN e["permissions"]

\* A document that names a controller names it for good: no later run replaces
\* its UUID by the one it generated (upgradedb.go:114), and no transaction of
\* an earlier run that is completed late puts an older one back.
UUIDIsPermanent == [][SameUUIDs(db, db')]_vars

AfterController ==
  Stages \ {"upgradePrecheck", "repairTxnQueue", "resumeTransactions",
            "clearModelQueues", "dropIndexes", "updateController", "removeCleanups"}

\* Only one run ever migrates documents: a live run past updateController is
\* the run whose UUID the database records, so the documents cannot have been
\* left half migrated by an earlier one.
OneRunMigrates ==
  live /\ pc \in AfterController => RecordedUUIDs(db) = {uuid}

\* A transaction of upgrade-db is refused, and a missing setting panics, only
\* in a run that finds the upgrade begun by an earlier one; a first run is
\* never stopped half-way by its own assertions.
OnlyRepeatedRunsAbort ==
  exit \in {"aborted", "panic"} =>
    RecordedUUIDs(db) # {} /\ uuid \notin RecordedUUIDs(db)

-----------------------------------------------------------------------------
(* Nothing is lost on the way.                                             *)

\* Some transaction has been carried out in part.
HalfApplied == \E t \in txns : t.applying

\* The credentials that the settings of the controller model had.
FoundCredentials ==
  {s \in Credentials(ControllerContext(b7).cloud) : Filled(b7, SettingAt(b7, s))}

\* The setting that was found as s is in the place p.
InPlace(p, s) == Filled(db, p) /\ ValueAt(db, p) = ValueAt(b7, SettingAt(b7, s))

\* It is in the file or the document that it is to be found in afterwards.
Saved(s) ==
  IF s \in LXDCerts
  THEN Has(certs, s) /\ certs[s] = ValueAt(b7, SettingAt(b7, s))
  ELSE InPlace(SavedAt(b7, s), s)

\* updateModels removes the credentials from the settings of the models: by
\* then updateController has saved those of the controller model elsewhere,
\* the LXD certificates on disk, the MAAS credential and the CA certificate in
\* the database. They are never in neither place.
CredentialsKept == \A s \in FoundCredentials : InPlace(SettingAt(b7, s), s) \/ Saved(s)

\* The document that mv moves is in exactly one of its two places, with what it
\* said, save for the fields a move rewrites.
OneHome(mv) ==
  /\ (mv.old \in DOMAIN db[mv.from]) # (mv.new \in DOMAIN db[mv.to])
  /\ LET doc == IF mv.old \in DOMAIN db[mv.from] THEN db[mv.from][mv.old] ELSE db[mv.to][mv.new]
     IN  Alike(doc, b7[mv.from][mv.old], mv.counted \cup mv.rewritten)

\* Between transactions every document that the upgrade moves is in exactly
\* one place: where the agents of beta 7 look for it or where those of 2.0 do.
\* Only a transaction carried out in part may have it in both or in neither.
EveryDocumentHasOneHome == ~HalfApplied => \A mv \in Moves(b7) : OneHome(mv)

-----------------------------------------------------------------------------
(* Documents that refer to each other.                                     *)

Exists(d, m, app) == <<m, app>> \in DOMAIN d["services"] \cup DOMAIN d["applications"]

\* Between transactions every unit, relation, resource and reference of a
\* model names a service or application that exists, whichever of the two the
\* stages have got to.
ReferencesResolve ==
  ~HalfApplied =>
    \A c \in Referring : \A id \in DOMAIN db[c] :
      \A app \in NamedIn(c, db[c][id]) : Exists(db, Head(id), app)

\* The service or application that the unit u belongs to.
ServiceOf(u, doc) == <<Head(u), Renamed(doc, "service", "application")>>

UnitsOf(d, id) == {u \in DOMAIN d["units"] : ServiceOf(u, d["units"][u]) = id}

UsersOf(d, key) ==
  {id \in DOMAIN d["applications"] :
     key \in RefCountKeys(id, CharmURL(d["applications"][id]))}

\* Once the services are applications, every charm, application settings and
\* storage constraints document is counted once for each application that
\* uses it and once for each unit there is of them, also the units a pending
\* transaction of the agents was adding when they were stopped.
RefcountsMatch ==
  ~HalfApplied /\ DOMAIN db["applications"] # {} =>
    /\ DOMAIN db["refcounts"] =
         UNION {RefCountKeys(id, CharmURL(db["applications"][id]))
                  : id \in DOMAIN db["applications"]}
    /\ \A key \in DOMAIN db["refcounts"] :
         db["refcounts"][key]["refcount"] =
           Cardinality(UsersOf(db, key))
           + Cardinality(UNION {UnitsOf(db, id) : id \in UsersOf(db, key)})

-----------------------------------------------------------------------------
(* What success means.                                                     *)

\* Every model belongs to the controller and its cloud.
IdentityGiven ==
  /\ RecordedUUIDs(db) = {uuid}
  /\ \A id \in DOMAIN db["models"] :
       /\ Has(db["models"][id], "controller-uuid")
       /\ <<db["models"][id]["cloud"]>> \in DOMAIN db["clouds"]
       /\ db["models"][id]["cloud-credential"] \in DOMAIN db["cloudCredentials"]

\* No document of a collection of d has one of the fields.
NoneHas(d, c, fields) == \A id \in DOMAIN d[c] : DOMAIN d[c][id] \cap fields = {}

\* Every endpoint of a relation names an application, and none a service.
EndpointsRenamed(d) ==
  \A id \in DOMAIN d["relations"] :
    /\ Has(d["relations"][id], "endpoints")
    /\ \A i \in DOMAIN d["relations"][id]["endpoints"] :
         LET ep == d["relations"][id]["endpoints"][i]
         IN  Has(ep, "applicationname") /\ ~Has(ep, "servicename")

\* No document speaks of services, in its id or in a field.
NoServiceLeft ==
  /\ \A c \in {"services", "settingsrefs", "ipaddresses"} : DOMAIN db[c] = {}
  /\ \A c \in GlobalKeyed : ServiceKeyed(db, c) = {}
  /\ StaleHistory(db) = {}
  /\ ServiceLeases(db) = {}
  /\ ServiceSequences(db) = {}
  /\ NoneHas(db, "units", {"service", "ports", "privateaddress", "publicaddress"})
  /\ NoneHas(db, "modelEntityRefs", {"services"})
  /\ NoneHas(db, "resources", {"service-id", "env-uuid"})
  /\ EndpointsRenamed(db)

\* Every document that the upgrade moves is where the agents of 2.0 look for it,
\* with what it said.
EverythingMoved == \A mv \in Moves(b7) : AtNew(b7, db, mv)

CharmsAlive(d) ==
  \A id \in DOMAIN d["charms"] : Has(d["charms"][id], "life") /\ d["charms"][id]["life"] = 0

\* The access of a user is that of the permissions, and the object is the model.
UsersOfObjects(d) ==
  \A id \in DOMAIN d["modelusers"] :
    LET doc == d["modelusers"][id]
    IN  /\ Has(doc, "object-uuid")
        /\ doc["object-uuid"] = ReadBsonDField(doc, "model-uuid")
        /\ ~Has(doc, "access")

LXCGone(d) ==
  \A id \in DOMAIN d["machines"] :
    /\ Has(d["machines"][id], "supportedcontainers")
    /\ "lxc" \notin d["machines"][id]["supportedcontainers"]

\* Charms, users, model users and machines say what 2.0 has them say.
OthersRenewed ==
  /\ CharmsAlive(db)
  /\ NoneHas(db, "users", {"deactivated"})
  /\ UsersOfObjects(db)
  /\ LXCGone(db)

\* Every application has the documents state.AddApplication of 2.0 makes.
ApplicationsComplete ==
  \A id \in DOMAIN db["applications"] :
    LET m     == Head(id)
        app   == id[2]
        charm == CharmURL(db["applications"][id])
    IN  /\ <<m, "a", app, charm>> \in DOMAIN db["settings"]
        /\ <<m, "a", app>> \in DOMAIN db["statuses"]
        /\ <<m, "a", app>> \in DOMAIN db["constraints"]
        /\ <<m, "a", app>> \in DOMAIN db["endpointbindings"]
        /\ NewConstraintID(id, charm) \in DOMAIN db["storageconstraints"]

\* Every machine and unit is to run the 2.0 agent, the binary is in store, the
\* indexes are those of 2.0, every unit has a status of its workload version, and
\* what the provider knows by an id has it without the prefix of the model.
AgentsReady ==
  /\ AgentVersion \in tools
  /\ {"2.0", "blobstore"} \subseteq indexes
  /\ \A c \in {"machines", "units"} : \A id \in DOMAIN db[c] :
       GetStringField(db[c][id], "tools.version") = AgentVersion
  /\ \A id \in DOMAIN db["units"] :
       WorkloadStatusID(db["units"][id]) \in DOMAIN db["statuses"]
  /\ \A c \in {"spaces", "subnets", "linklayerdevices", "ip.addresses"} :
       Prefixed(db, c) = {}

\* When a live upgrade-db reports success, the work of each stage from updateModels
\* on is done, also when earlier commands failed in any of them: each has left its
\* mark in the documents it is to rewrite, and no later one has undone it. Of the settings of the models
\* nothing is said here (CredentialsKept does), nor of the queues and the indexes
\* of beta 7 that the stages before updateController clear away.
OkMeansUpgraded ==
  exit = "ok" /\ cmd = "upgrade-db" /\ live =>
    /\ txns = {}
    /\ IdentityGiven
    /\ NoServiceLeft
    /\ EverythingMoved
    /\ OthersRenewed
    /\ ApplicationsComplete
    /\ AgentsReady

-----------------------------------------------------------------------------
(* Steps.                                                                  *)

\* Without --live no command changes anything that outlives the process:
\* "Do for real, not just dry-run" (command.go:52).
DryRunChangesNothing == [][~live => UNCHANGED disk]_vars

\* Every command comes to an end, even one that finds transactions of others
\* to complete or a database it cannot upgrade.
EveryCommandEnds == (pc # "idle") ~> (pc = "idle")

-----------------------------------------------------------------------------
(* What the README and the comments say of a successful upgrade.           *)

Succeeded == exit = "ok" /\ cmd = "upgrade-db" /\ live

\* README.md:53-55,59-61: the endpoint bindings lose their env-uuid, and the
\* image metadata, which becomes global, its model-uuid.
MovedDocsLoseUUIDs ==
  Succeeded =>
    /\ NoneHas(db, "endpointbindings", {"env-uuid"})
    /\ NoneHas(db, "cloudimagemetadata", {"model-uuid"})

\* README.md:53-54: the image metadata of every model becomes global, so the
\* run that takes over the database does not stop, other than by a failure from
\* outside, with metadata still under the id of a model.
ImageMetadataBecomesGlobal ==
  exit \in {"ok", "aborted"} /\ live /\ uuid \in RecordedUUIDs(db) =>
    \A id \in DOMAIN db["cloudimagemetadata"] : <<ModelOf(id)>> \notin DOMAIN db["models"]

\* upgradedb.go:195: all cleanups have been executed before the upgrade, so
\* none is left for agents that no longer know its documents.
NoCleanupLeft == Succeeded => DOMAIN db["cleanups"] = {}
=============================================================================
