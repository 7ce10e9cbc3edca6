------------------------ MODULE UpgradeDocuments_proofs ------------------------
(***************************************************************************)
(* What becomes of the documents of beta 7, for every database of it and   *)
(* however often upgrade-db is killed: whom they name; that the database   *)
(* refuses no transaction of a first run; that the reference counts which  *)
(* moveServices makes are those of the applications and their units; and   *)
(* where a cleanup comes from that is left.                                *)
(***************************************************************************)
EXTENDS UpgradeSuccess_proofs, UpgradeDBCounts, WellFoundedInduction

-----------------------------------------------------------------------------
(* What an operation does to the names in a document.                      *)

\* Whom a document names is said by these fields alone.
LEMMA SameNames ==
  ASSUME NEW c \in Referring, NEW doc, NEW other,
         \/ \A f \in Naming[c] : /\ Has(doc, f) <=> Has(other, f)
                                 /\ Has(doc, f) => doc[f] = other[f]
         \/ /\ Has(doc, NewName[c]) /\ Has(other, NewName[c])
            /\ doc[NewName[c]] = other[NewName[c]]
  PROVE  NamedIn(c, doc) = NamedIn(c, other) /\ (SaysServices(c, doc) <=> SaysServices(c, other))
<1>1. CASE c = "units"
  <2>1. NewName[c] = "application" /\ Naming[c] = {"service", "application"}
    BY <1>1 DEF NewName, Naming
  <2> QED
    BY <1>1, <2>1 DEF NamedIn, Renamed, ReadBsonDField, SaysServices
<1>2. CASE c = "resources"
  <2>1. NewName[c] = "application-id" /\ Naming[c] = {"service-id", "application-id"}
    BY <1>2 DEF NewName, Naming
  <2> QED
    BY <1>2, <2>1 DEF NamedIn, Renamed, ReadBsonDField, SaysServices
<1>3. CASE c = "modelEntityRefs"
  <2>1. NewName[c] = "applications" /\ Naming[c] = {"services", "applications"}
    BY <1>3 DEF NewName, Naming
  <2> QED
    BY <1>3, <2>1 DEF NamedIn, Renamed, ReadBsonDField, SaysServices
<1>4. CASE c = "relations"
  <2>1. NewName[c] = "endpoints" /\ Naming[c] = {"endpoints"}
    BY <1>4 DEF NewName, Naming
  <2>2. ReadBsonDField(doc, "endpoints") = ReadBsonDField(other, "endpoints")
    BY <2>1 DEF ReadBsonDField
  <2>3. NamedIn(c, doc) = NamedIn(c, other)
    BY <1>4, <2>2 DEF NamedIn
  <2>4. SaysServices(c, doc) <=> SaysServices(c, other)
    BY <1>4, <2>1 DEF SaysServices
  <2> QED
    BY <2>3, <2>4
<1> QED
  BY <1>1, <1>2, <1>3, <1>4 DEF Referring, NewName

\* An update leaves the names alone or writes new ones.
LEMMA UpdatedNames ==
  ASSUME NEW d, NEW op, op.c \in Referring, op.change = "update", KeepsNames(d, op), NEW doc
  PROVE  LET new == Without(doc, op.unset) ++ op.set
         IN  /\ NamesServices(d, op.c, op.id, doc) => NamesServices(d, op.c, op.id, new)
             /\ SaysServices(op.c, doc) /\ SaysServices(op.c, op.set) => SaysServices(op.c, new)
<1> DEFINE new == Without(doc, op.unset) ++ op.set
<1>1. \A f : /\ Has(new, f) <=> Has(op.set, f) \/ (Has(doc, f) /\ f \notin op.unset)
             /\ Has(op.set, f) => new[f] = op.set[f]
             /\ Has(doc, f) /\ f \notin op.unset \cup DOMAIN op.set => new[f] = doc[f]
  BY DEF ++, Without, Has
<1> HIDE DEF new
<1>2. CASE Naming[op.c] \cap (op.unset \cup DOMAIN op.set) = {}
  <2>1. \A f \in Naming[op.c] : (Has(new, f) <=> Has(doc, f)) /\ (Has(new, f) => new[f] = doc[f])
    BY <1>1, <1>2 DEF Has
  <2> QED
    BY <2>1, SameNames DEF NamesServices, new, Naming, Referring, NewName
<1>3. CASE Has(op.set, NewName[op.c]) /\ NamesServices(d, op.c, op.id, op.set)
  <2>1. Has(new, NewName[op.c]) /\ new[NewName[op.c]] = op.set[NewName[op.c]]
    BY <1>1, <1>3
  <2> QED
    BY <1>3, <2>1, SameNames DEF NamesServices, new, NewName
<1> QED
  BY <1>2, <1>3 DEF KeepsNames

\* So do the operations of a transaction.
LEMMA NamesAfter ==
  ASSUME NEW d, NEW O, KeepNames(O), Referring \subseteq DOMAIN d
  PROVE  /\ NamesKnown(d) => NamesKnown(Apply(d, O))
         /\ RenameNothing(O) => \A c \in Referring : Unrenamed(d, c) => Unrenamed(Apply(d, O), c)
<1> DEFINE e == Apply(d, O)
<1>1. ASSUME NEW c \in Referring, NEW id \in DOMAIN e[c]
      PROVE  \/ id \in DOMAIN d[c] /\ e[c][id] = d[c][id]
             \/ /\ id \in DOMAIN d[c]
                /\ \E op \in O : /\ op.c = c /\ op.id = id /\ op.change = "update"
                                 /\ e[c][id] = Without(d[c][id], op.unset) ++ op.set
             \/ \E op \in O : /\ op.c = c /\ op.id = id /\ op.change = "insert"
                              /\ e[c][id] = op.set
  BY ApplyDoc
<1> HIDE DEF e
<1>2. ASSUME NamesKnown(d), NEW c \in Referring, NEW id \in DOMAIN e[c]
      PROVE  NamesServices(b7, c, id, e[c][id])
  <2>1. ASSUME id \in DOMAIN d[c] PROVE NamesServices(b7, c, id, d[c][id])
    BY <1>2, <2>1 DEF NamesKnown
  <2>2. \A op \in O : KeepsNames(b7, op)
    BY DEF KeepNames
  <2>3. \A op \in O : op.c = c /\ op.change = "insert" => NamesServices(b7, c, op.id, op.set)
    BY <2>2 DEF KeepsNames
  <2> QED
    BY <1>1, <2>1, <2>2, <2>3, UpdatedNames
<1>3. ASSUME RenameNothing(O), NEW c \in Referring, Unrenamed(d, c), NEW id \in DOMAIN e[c]
      PROVE  SaysServices(c, e[c][id])
  <2>1. ASSUME id \in DOMAIN d[c] PROVE SaysServices(c, d[c][id])
    BY <1>3, <2>1 DEF Unrenamed
  <2>2. \A op \in O : KeepsNames(b7, op) /\ (op.c = c => SaysServices(c, op.set))
    BY <1>3 DEF KeepNames, RenameNothing
  <2> QED
    BY <1>1, <2>1, <2>2, UpdatedNames
<1> QED
  BY <1>2, <1>3 DEF NamesKnown, Unrenamed, e

\* Where no document of these collections changes, nothing is said of services.
LEMMA NamesStay ==
  ASSUME NEW d, NEW e, \A c \in Referring : e[c] = d[c]
  PROVE  /\ NamesKnown(d) => NamesKnown(e)
         /\ \A c \in Referring : Unrenamed(d, c) => Unrenamed(e, c)
  BY DEF NamesKnown, Unrenamed

-----------------------------------------------------------------------------
(* The transactions of the stages.                                         *)

\* Operations on other collections.
LEMMA ElsewhereNames ==
  ASSUME NEW O, NEW cs, About(O, cs), cs \cap Referring = {}
  PROVE  KeepNames(O) /\ RenameNothing(O)
  BY DEF About, KeepNames, KeepsNames, RenameNothing

\* A stage that renames what the documents of a collection say.
LEMMA RenamerNames ==
  ASSUME NEW d, NamesKnown(d)
  PROVE  /\ Unrenamed(d, "units") => KeepNames(UpdateUnitsOps(d))
         /\ Unrenamed(d, "resources") => KeepNames(UpdateResourcesOps(d))
         /\ Unrenamed(d, "modelEntityRefs") => KeepNames(UpdateModelEntityRefsOps(d))
         /\ Unrenamed(d, "relations") => KeepNames(UpdateRelationsOps(d))
<1> USE DEF Referring, NewName
<1>1. ASSUME Unrenamed(d, "units"), NEW op \in UpdateUnitsOps(d)
      PROVE  KeepsNames(b7, op)
  <2>1. CASE op.c = "units"
    <3>1. PICK id \in DOMAIN d["units"] :
            /\ op.id = id /\ op.change = "update"
            /\ op.set = Field("application", ReadBsonDField(d["units"][id], "service"))
      BY <2>1 DEF UpdateUnitsOps, UpdateAllOps, UpdateOp, InsertOp
    <3>2. NamedIn("units", d["units"][id]) = NamedIn("units", op.set)
      BY <1>1, <3>1 DEF Unrenamed, SaysServices, NamedIn, Renamed, Field, Has
    <3> QED
      BY <2>1, <3>1, <3>2 DEF NamesKnown, NamesServices, KeepsNames, Has, Field
  <2> QED
    BY <2>1, UpdateAllAbout DEF About, KeepsNames
<1>2. ASSUME Unrenamed(d, "resources"), NEW op \in UpdateResourcesOps(d)
      PROVE  KeepsNames(b7, op)
  <2>1. PICK id \in DOMAIN d["resources"] :
          /\ op.c = "resources" /\ op.id = id /\ op.change = "update"
          /\ op.set = Field("application-id", ReadBsonDField(d["resources"][id], "service-id"))
    BY <1>2 DEF UpdateResourcesOps, UpdateAllOps, UpdateOp
  <2>2. NamedIn("resources", d["resources"][id]) = NamedIn("resources", op.set)
    BY <1>2, <2>1 DEF Unrenamed, SaysServices, NamedIn, Renamed, Field, Has
  <2> QED
    BY <2>1, <2>2 DEF NamesKnown, NamesServices, KeepsNames, Has, Field
<1>3. ASSUME Unrenamed(d, "modelEntityRefs"), NEW op \in UpdateModelEntityRefsOps(d)
      PROVE  KeepsNames(b7, op)
  <2>1. PICK id \in DOMAIN d["modelEntityRefs"] :
          /\ op.c = "modelEntityRefs" /\ op.id = id /\ op.change = "update"
          /\ op.set = Field("applications", ReadBsonDField(d["modelEntityRefs"][id], "services"))
    BY <1>3 DEF UpdateModelEntityRefsOps, UpdateAllOps, UpdateOp
  <2>2. NamedIn("modelEntityRefs", d["modelEntityRefs"][id]) = NamedIn("modelEntityRefs", op.set)
    BY <1>3, <2>1 DEF Unrenamed, SaysServices, NamedIn, Renamed, Field, Has
  <2> QED
    BY <2>1, <2>2 DEF NamesKnown, NamesServices, KeepsNames, Has, Field
<1>4. ASSUME Unrenamed(d, "relations"), NEW op \in UpdateRelationsOps(d)
      PROVE  KeepsNames(b7, op)
  <2>1. PICK id \in DOMAIN d["relations"] :
          /\ op.c = "relations" /\ op.id = id /\ op.change = "update"
          /\ op.set = RenamedEndpoints(d["relations"][id])
    BY <1>4 DEF UpdateRelationsOps, UpdateAllOps, UpdateOp
  <2> DEFINE endpoints == d["relations"][id]["endpoints"]
  <2>2. /\ Has(op.set, "endpoints")
        /\ op.set["endpoints"] = [i \in DOMAIN endpoints |-> RenamedEndpoint(endpoints[i])]
    BY <2>1 DEF RenamedEndpoints, Field, Has
  <2>3. \A ep : Renamed(RenamedEndpoint(ep), "servicename", "applicationname")
                  = ReadBsonDField(ep, "servicename")
    BY DEF RenamedEndpoint, Renamed, Has, ++, Field, Without
  <2>4. Has(d["relations"][id], "endpoints")
    BY <2>1 DEF NamesKnown, NamesServices
  <2>5. \A i \in DOMAIN endpoints :
          Renamed(endpoints[i], "servicename", "applicationname")
            = ReadBsonDField(endpoints[i], "servicename")
    BY <1>4, <2>1, <2>4 DEF Unrenamed, SaysServices, Renamed
  <2>6. NamedIn("relations", d["relations"][id])
          = {Renamed(endpoints[i], "servicename", "applicationname") : i \in DOMAIN endpoints}
    BY <2>4 DEF NamedIn, ReadBsonDField
  <2>7. NamedIn("relations", op.set)
          = {Renamed(RenamedEndpoint(endpoints[i]), "servicename", "applicationname")
               : i \in DOMAIN endpoints}
    BY <2>2 DEF NamedIn, ReadBsonDField
  <2>8. NamedIn("relations", d["relations"][id]) = NamedIn("relations", op.set)
    BY <2>3, <2>5, <2>6, <2>7
  <2> QED
    BY <2>1, <2>2, <2>8 DEF NamesKnown, NamesServices, KeepsNames
<1> QED
  BY <1>1, <1>2, <1>3, <1>4 DEF KeepNames

\* updateAgentTools names nobody.
LEMMA ToolsNames ==
  ASSUME NEW d
  PROVE  KeepNames(UpdateAgentToolsOps(d))
<1> SUFFICES ASSUME NEW op \in UpdateAgentToolsOps(d), op.c \in Referring
             PROVE  KeepsNames(b7, op)
  BY DEF KeepNames, KeepsNames
<1>1. op.change = "update" /\ op.unset = {} /\ DOMAIN op.set = {"tools.version"}
  BY DEF UpdateAgentToolsOps, UpdateAllOps, UpdateOp, Field
<1>2. "tools.version" \notin Naming[op.c]
  BY DEF Naming, Referring, NewName
<1> QED
  BY <1>1, <1>2 DEF KeepsNames

\* The stages that write these collections.
LEMMA OtherNames ==
  ASSUME NEW s \in AfterController,
         s \notin {"updateUnits", "updateResources", "updateModelEntityRefs", "updateRelations",
                   "updateAgentTools"}
  PROVE  Writes[s] \cap Referring = {}
<1>1. AfterController = DOMAIN Writes
  BY DEF AfterController, Stages, Follows, Writes
<1>2. Referring = {"units", "resources", "modelEntityRefs", "relations"}
  BY DEF Referring, NewName
<1> HIDE DEF Referring, AfterController
<1> QED
  BY <1>1, <1>2 DEF Writes

\* The transaction of a live upgrade names services that were found.
LEMMA StageNames ==
  ASSUME ReadFor, pc \in AfterController \ Writing, NamesKnown(db),
         \A c \in Referring : RenamedBy[c] = pc => Unrenamed(db, c)
  PROVE  KeepNames(ops)
<1>0. About(ops, Writes[pc])
  BY OpsAbout
<1>1. CASE pc = "updateUnits"
  BY <1>1, RenamerNames DEF ReadFor, RenamedBy, Referring, NewName
<1>2. CASE pc = "updateResources"
  BY <1>2, RenamerNames DEF ReadFor, RenamedBy, Referring, NewName
<1>3. CASE pc = "updateModelEntityRefs"
  BY <1>3, RenamerNames DEF ReadFor, RenamedBy, Referring, NewName
<1>4. CASE pc = "updateRelations"
  BY <1>4, RenamerNames DEF ReadFor, RenamedBy, Referring, NewName
<1>5. CASE pc = "updateAgentTools"
  BY <1>5, ToolsNames DEF ReadFor
<1>6. CASE pc \notin {"updateUnits", "updateResources", "updateModelEntityRefs", "updateRelations",
                      "updateAgentTools"}
  <2>1. Writes[pc] \cap Referring = {}
    BY <1>6, OtherNames
  <2> QED
    BY <1>0, <2>1, ElsewhereNames
<1> QED
  BY <1>1, <1>2, <1>3, <1>4, <1>5, <1>6

\* The transaction of a running command keeps the names, and renames nothing before a
\* controller is recorded.
LEMMA OpsNames ==
  ASSUME IdentityInv, OneRunMigrates, Running, InHand, CleansOnly, NamesKnown(db), NamesWait,
         live, inTxn
  PROVE  KeepNames(ops) /\ (RenameNothing(ops) \/ RecordedUUIDs(db) # {})
<1>1. pc \in Transacting /\ (pc # "removeCleanups" => ReadFor)
  BY DEF Running, InHand
<1>2. CASE pc = "updateController"
  <2>1. ops = UpdateControllerOps(db, uuid)
    BY <1>1, <1>2 DEF ReadFor
  <2>2. {"controllers", "clouds", "cloudCredentials", "permissions", "controllerusers"}
          \cap Referring = {}
    BY DEF Referring, NewName
  <2> QED
    BY <2>1, <2>2, ControllerAbout, ElsewhereNames
<1>3. CASE pc = "removeCleanups"
  <2>1. About(ops, {"cleanups"}) /\ {"cleanups"} \cap Referring = {}
    BY <1>3 DEF CleansOnly, About, Referring, NewName
  <2> QED
    BY <2>1, ElsewhereNames
<1>4. CASE pc \in AfterController \ Writing
  <2>1. RecordedUUIDs(db) # {}
    BY <1>4 DEF OneRunMigrates
  <2>2. ReadFor /\ Done("updateController") /\ ~Done(pc)
    BY <1>1, <1>4, LateDone DEF AfterController
  <2> QED
    BY <1>4, <2>1, <2>2, StageNames DEF NamesWait
<1> QED
  BY <1>1, <1>2, <1>3, <1>4 DEF Transacting

-----------------------------------------------------------------------------
(* The steps of the upgrade.                                               *)

\* Where a step leaves the database, if it changes what is said of services.
LEMMA NamesGoOn ==
  ASSUME NamesKept, NothingRenamed, b7' = b7,
         NamesKnown(db'),
         \A t \in txns' : t \in txns \/ (KeepNames(t.ops) /\ (RenameNothing(t.ops) \/ RecordedUUIDs(db) # {})),
         RecordedUUIDs(db) \subseteq RecordedUUIDs(db'),
         RecordedUUIDs(db) = {} => \A c \in Referring : Unrenamed(db, c) => Unrenamed(db', c)
  PROVE  NamesKept' /\ NothingRenamed'
<1>1. NamesKept'
  BY DEF NamesKept, NamesKnown, KeepNames
<1>2. NothingRenamed'
  BY DEF NothingRenamed, RenameNothing, Unrenamed
<1> QED
  BY <1>1, <1>2

\* Emptying transaction queues changes nobody's name.
LEMMA ClearNames ==
  ASSUME NEW d, NEW c, NEW ids, Referring \subseteq DOMAIN d
  PROVE  LET e == ClearQueues(d, c, ids)
         IN  /\ NamesKnown(d) => NamesKnown(e)
             /\ \A r \in Referring : Unrenamed(d, r) => Unrenamed(e, r)
<1> DEFINE e == ClearQueues(d, c, ids)
<1>1. ASSUME NEW r \in Referring
      PROVE  /\ DOMAIN e[r] = DOMAIN d[r]
             /\ \A id \in DOMAIN d[r] :
                  e[r][id] = d[r][id] \/ e[r][id] = d[r][id] ++ Field("txn-queue", {})
  <2>1. \/ e[r] = d[r]
        \/ e[r] = [i \in DOMAIN d[r] |->
                     IF i \in ids THEN d[r][i] ++ Field("txn-queue", {}) ELSE d[r][i]]
    BY DEF ClearQueues
  <2> HIDE DEF e
  <2> QED
    BY <2>1
<1> HIDE DEF e
<1>2. ASSUME NEW r \in Referring, NEW doc
      PROVE  /\ NamedIn(r, doc ++ Field("txn-queue", {})) = NamedIn(r, doc)
             /\ SaysServices(r, doc ++ Field("txn-queue", {})) <=> SaysServices(r, doc)
             /\ r = "relations" /\ Has(doc, "endpoints") =>
                  Has(doc ++ Field("txn-queue", {}), "endpoints")
  <2>1. \A f : f # "txn-queue" =>
          /\ Has(doc ++ Field("txn-queue", {}), f) <=> Has(doc, f)
          /\ Has(doc, f) => (doc ++ Field("txn-queue", {}))[f] = doc[f]
    BY DEF ++, Field, Has
  <2>2. "txn-queue" \notin Naming[r]
    BY DEF Naming, Referring, NewName
  <2> QED
    BY <2>1, <2>2, SameNames
<1>3. ASSUME NEW r \in Referring, NEW id \in DOMAIN d[r]
      PROVE  /\ NamesServices(b7, r, id, d[r][id]) => NamesServices(b7, r, id, e[r][id])
             /\ SaysServices(r, d[r][id]) => SaysServices(r, e[r][id])
  BY <1>1, <1>2 DEF NamesServices
<1>4. NamesKnown(d) => NamesKnown(e)
  BY <1>1, <1>3 DEF NamesKnown
<1>5. \A r \in Referring : Unrenamed(d, r) => Unrenamed(e, r)
  BY <1>1, <1>3 DEF Unrenamed
<1> QED
  BY <1>4, <1>5 DEF e

\* The stages that write without a transaction do not write these collections.
LEMMA WritersNames ==
  ASSUME ProcessInv, StageRenames \/ StageFinishes
  PROVE  txns' = txns /\ \A c \in Referring : db'[c] = db[c]
<1>0. /\ DOMAIN db = Collections /\ Referring \subseteq Collections
      /\ "statuseshistory" \notin Referring
      /\ \A s \in DOMAIN Drops : Drops[s] \notin Referring
  BY DEF ProcessInv, TypeOK, DiskOK, Collections, Referring, NewName, Drops
<1>1. CASE StageRenames
  <2>1. \A id : About({HistoryUpdate(db, id)}, {"statuseshistory"})
    BY SchemaAbout
  <2> QED
    BY <1>0, <1>1, <2>1, ApplyElsewhere DEF StageRenames, About
<1>2. CASE StageFinishes
  BY <1>0, <1>2 DEF StageFinishes
<1> QED
  BY <1>1, <1>2

\* What the database and the pending transactions say of services.
LEMMA NamesKeptStep ==
  ASSUME IdentityInv, OneRunMigrates, Running, InHand, CleansOnly, ReferencesInv,
         RecordedUUIDs(db) \subseteq RecordedUUIDs(db'),
         \/ StageReads \/ Quits \/ StagePrepares \/ StageCompletes
         \/ StageRenames \/ StageFinishes \/ DryRunTransaction \/ Commit
  PROVE  NamesKept' /\ NothingRenamed'
<1>0. /\ NamesKept /\ NothingRenamed /\ NamesWait /\ NamesKnown(db) /\ ProcessInv
      /\ Referring \subseteq DOMAIN db
  BY DEF IdentityInv, ReferencesInv, NamesKept, ProcessInv, TypeOK, DiskOK, Collections,
         Referring, NewName
<1>1. b7' = b7
  BY DEF StageReads, Quits, StagePrepares, StageCompletes, StageRenames, StageFinishes,
         DryRunTransaction, Commit, Continue, Exit
<1>2. ASSUME live, inTxn
      PROVE  KeepNames(ops) /\ (RenameNothing(ops) \/ RecordedUUIDs(db) # {})
  BY <1>0, <1>2, OpsNames
<1>3. CASE UNCHANGED <<db, txns>>
  BY <1>0, <1>1, <1>3, NamesGoOn
<1>4. CASE live /\ inTxn /\ LeavesBehind
  <2>1. \A t \in txns' : t \in txns \/ t.ops = ops
    BY <1>4 DEF LeavesBehind, Recorded
  <2>2. db' = db \/ \E S \in SUBSET ops : db' = Apply(db, S)
    BY <1>4 DEF LeavesBehind, Cuts
  <2>3. \A S \in SUBSET ops : KeepNames(S) /\ (RenameNothing(ops) => RenameNothing(S))
    BY <1>2, <1>4 DEF KeepNames, RenameNothing
  <2> QED
    BY <1>0, <1>1, <1>2, <1>4, <2>1, <2>2, <2>3, NamesAfter, NamesGoOn
<1>5. CASE StageRenames \/ StageFinishes
  BY <1>0, <1>1, <1>5, WritersNames, NamesStay, NamesGoOn
<1>6. CASE StageCompletes
  <2>1. PICK t \in txns : Complete(t)
    BY <1>6 DEF StageCompletes
  <2>2. txns' \subseteq txns /\ (db' = db \/ \E S \in SUBSET t.ops : db' = Apply(db, S))
    BY <2>1 DEF Complete
  <2>3. \A S \in SUBSET t.ops : KeepNames(S) /\ (RenameNothing(t.ops) => RenameNothing(S))
    BY <1>0 DEF NamesKept, KeepNames, RenameNothing
  <2>4. RecordedUUIDs(db) = {} => RenameNothing(t.ops)
    BY <1>0 DEF NothingRenamed
  <2> QED
    BY <1>0, <1>1, <2>2, <2>3, <2>4, NamesAfter, NamesGoOn
<1>7. CASE StagePrepares
  BY <1>0, <1>1, <1>7, ClearNames, NamesGoOn DEF StagePrepares
<1>8. CASE Commit
  <2>1. live /\ inTxn /\ txns' = txns /\ db' = Apply(db, ops)
    BY <1>8 DEF Commit, CanRun
  <2> QED
    BY <1>0, <1>1, <1>2, <2>1, NamesAfter, NamesGoOn
<1>9. StageReads \/ DryRunTransaction => UNCHANGED <<db, txns>>
  BY DEF StageReads, DryRunTransaction, disk
<1>10. Quits => UNCHANGED <<db, txns>> \/ (live /\ inTxn /\ LeavesBehind)
  BY DEF Quits
<1> QED
  BY <1>3, <1>4, <1>5, <1>6, <1>7, <1>8, <1>9, <1>10

\* The names wait where nothing is done that renames, and where nothing is renamed.
LEMMA StoppedNames ==
  ASSUME IdentityInv, CleanupsOfCleanDB, Running,
         \/ Quits \/ DryRunTransaction \/ (StageFinishes /\ ~live)
         \/ StagePrepares \/ StageCompletes \/ (Commit /\ pc = "removeCleanups")
  PROVE  NamesWait'
<1> SUFFICES ~Done("updateController")'
  BY DEF NamesWait
<1>1. CASE Quits
  <2>1. pc' = "idle" /\ ~Succeeded'
    BY <1>1 DEF Quits, Exit, Succeeded
  <2> QED
    BY <2>1, EarlyNothing
<1>2. CASE DryRunTransaction \/ (StageFinishes /\ ~live)
  <2>1. ~live'
    BY <1>2 DEF DryRunTransaction, StageFinishes, Continue, Exit
  <2> QED
    BY <2>1, EarlyNothing
<1>3. CASE StagePrepares \/ (Commit /\ pc = "removeCleanups")
  <2>1. Continue /\ pc \in Stages \ (AfterController \cup {"updateController"})
    BY <1>3 DEF StagePrepares, Commit, Stages, Follows, AfterController
  <2> QED
    BY <2>1, StillEarly, EarlyNothing
<1>4. CASE StageCompletes
  <2>1. /\ live /\ pc \in Stages /\ UNCHANGED <<pc, exit>> /\ txns # {}
    BY <1>4 DEF StageCompletes
  <2>2. pc \notin AfterResume
    BY <2>1 DEF IdentityInv, IdentityOwned, NothingPending
  <2>3. pc \notin AfterController /\ exit = "running"
    BY <2>1, <2>2, IdleNoStage DEF AfterResume, AfterController, Running
  <2> QED
    BY <2>1, <2>3, EarlyNothing
<1> QED
  BY <1>1, <1>2, <1>3, <1>4

\* updateController renames nothing.
LEMMA ControllerNames ==
  ASSUME IdentityInv, Running, InHand, NothingRenamed, Commit, pc = "updateController"
  PROVE  NamesWait'
<1> DEFINE written == {"controllers", "clouds", "cloudCredentials", "permissions", "controllerusers"}
<1>1. ops = UpdateControllerOps(db, uuid) /\ db' = Apply(db, ops)
  BY DEF Commit, CanRun, InHand, ReadFor
<1>2. Referring \subseteq DOMAIN db /\ Referring \cap written = {}
  BY DEF IdentityInv, ProcessInv, TypeOK, DiskOK, Collections, Referring, NewName
<1>3. \A c \in Referring : db'[c] = db[c]
  <2>1. About(ops, written)
    BY <1>1, ControllerAbout
  <2> QED
    BY <1>1, <1>2, <2>1, ApplyElsewhere DEF About
<1>4. \A c \in Referring : Unrenamed(db, c)
  BY FirstToRecord DEF NothingRenamed
<1> QED
  BY <1>3, <1>4, NamesStay DEF NamesWait

\* Who writes a collection that names services.
LEMMA RenamersWrite ==
  ASSUME NEW s \in AfterController, NEW c \in Referring, c \in Writes[s]
  PROVE  RenamedBy[c] = s \/ (c = "units" /\ s = "updateAgentTools")
<1>1. c \in {"units", "resources", "modelEntityRefs", "relations"}
  BY DEF Referring, NewName
<1>2. s \in {"updateUnits", "updateResources", "updateModelEntityRefs", "updateRelations",
             "updateAgentTools"}
  BY OtherNames
<1> QED
  BY <1>1, <1>2 DEF Writes, RenamedBy

\* A late stage renames what is its own.
LEMMA LateNames ==
  ASSUME ProcessInv, CleanupsOfCleanDB, Running, NamesWait, LateStep
  PROVE  NamesWait'
<1>1. live /\ Continue /\ pc \in AfterController /\ pc \in Stages
  BY DEF LateStep, Commit, StageFinishes, AfterController
<1>2. "updateController" \in Stages /\ \A c \in Referring : RenamedBy[c] \in Stages
  BY DEF Stages, Follows, Referring, NewName, RenamedBy
<1>3. CASE \A s \in Stages : ~Done(s)'
  BY <1>2, <1>3 DEF NamesWait
<1>4. CASE \A s \in Stages : Done(s)' <=> Done(s) \/ s = pc
  <2>1. ASSUME NEW c \in Referring, ~Done(RenamedBy[c])'
        PROVE  Unrenamed(db', c)
    <3>1. ~Done(RenamedBy[c]) /\ RenamedBy[c] # pc
      BY <1>2, <1>4, <2>1
    <3>2. Unrenamed(db, c)
      BY <1>1, <3>1, LateDone DEF NamesWait
    <3>3. c \notin Writes[pc]
      <4>1. RenamedBy[c] # pc /\ ~(c = "units" /\ pc = "updateAgentTools")
        <5>1. RenamedBy["units"] = "updateUnits" /\ Rank["updateAgentTools"] > Rank["updateUnits"]
          BY DEF RenamedBy, Rank
        <5> QED
          BY <1>1, <1>2, <3>1, <5>1, LateDone
      <4> QED
        BY <1>1, <4>1, RenamersWrite
    <3>4. c \in Collections
      BY DEF Collections, Referring, NewName
    <3>5. db'[c] = db[c]
      BY <3>3, <3>4, WritesOnly
    <3> QED
      BY <3>2, <3>5 DEF Unrenamed
  <2> QED
    BY <2>1 DEF NamesWait
<1> QED
  BY <1>1, <1>3, <1>4, DoneNext

\* What a running command relies on.
LEMMA NamesWaitStep ==
  ASSUME IdentityInv, CleanupsOfCleanDB, Running, InHand, ReferencesInv,
         \/ StageReads \/ Quits \/ StagePrepares \/ StageCompletes
         \/ StageRenames \/ StageFinishes \/ DryRunTransaction \/ Commit
  PROVE  NamesWait'
<1>0. ProcessInv /\ NothingRenamed /\ NamesWait
  BY DEF IdentityInv, ReferencesInv
<1>1. CASE StageReads \/ StageRenames
  <2>1. UNCHANGED <<pc, cmd, live, exit>>
    BY <1>1 DEF StageReads, StageRenames
  <2>2. \A s : Done(s)' <=> Done(s)
    BY <2>1 DEF Done, Progress, Succeeded
  <2>3. \A c \in Referring : db'[c] = db[c]
    BY <1>0, <1>1, WritersNames DEF StageReads
  <2> QED
    BY <1>0, <2>2, <2>3, NamesStay DEF NamesWait
<1>2. CASE StageFinishes /\ live
  <2>1. LateStep
    BY <1>2 DEF LateStep, StageFinishes, Writing, AfterController, Stages, Follows
  <2> QED
    BY <1>0, <2>1, LateNames
<1>3. CASE Commit
  <2>1. pc \in Transacting /\ live /\ inTxn
    BY <1>3 DEF Commit, CanRun, Running
  <2>2. CASE pc \in AfterController \ Writing
    <3>1. LateStep
      BY <1>3, <2>1, <2>2 DEF LateStep, InHand, AfterController
    <3> QED
      BY <1>0, <3>1, LateNames
  <2> QED
    BY <1>0, <1>3, <2>1, <2>2, ControllerNames, StoppedNames DEF Transacting
<1> QED
  BY <1>1, <1>2, <1>3, StoppedNames

\* Every step keeps the invariant.
LEMMA ReferencesStep ==
  ASSUME IdentityInv, PromiseInv, OneRunMigrates, StagesInv, HomesInv, ReferencesInv, [Next]_vars
  PROVE  ReferencesInv'
<1>0. /\ ProcessInv /\ Running /\ InHand /\ CleanupsOfCleanDB /\ CleansOnly
      /\ NamesKept /\ NothingRenamed /\ NamesWait
  BY DEF IdentityInv, HomesInv, HomesWait, StagesInv, PromiseInv, ReferencesInv
<1>1. ASSUME NEW command \in DOMAIN FirstStage, NEW forReal \in BOOLEAN,
             Start(command, forReal)
      PROVE  ReferencesInv'
  <2>1. UNCHANGED <<db, txns, b7>> /\ exit' = "running" /\ pc' \in Stages \ AfterController
    BY <1>1 DEF Start, disk, FirstStage, AfterController, Stages, Follows
  <2>2. NamesKept' /\ NothingRenamed'
    BY <1>0, <2>1, NamesGoOn DEF NamesKept
  <2>3. NamesWait'
    BY <2>1, EarlyNothing DEF NamesWait
  <2> QED
    BY <2>2, <2>3 DEF ReferencesInv
<1>2. CASE Step \/ Failure
  <2>1. \/ StageReads \/ Quits \/ StagePrepares \/ StageCompletes
        \/ StageRenames \/ StageFinishes \/ DryRunTransaction \/ Commit
    BY <1>0, <1>2, StageKinds
  <2>2. RecordedUUIDs(db) \subseteq RecordedUUIDs(db')
    <3>1. SameUUIDs(db, db')
      BY <1>2, IdentityStep DEF Keeps, Next
    <3> QED
      BY <3>1, RecordedStay
  <2> QED
    BY <1>0, <2>1, <2>2, NamesKeptStep, NamesWaitStep DEF ReferencesInv
<1>3. CASE UNCHANGED vars
  <2>1. UNCHANGED <<db, txns, pc, cmd, live, exit, b7>>
    BY <1>3 DEF vars, disk
  <2>2. \A s : Done(s)' <=> Done(s)
    BY <2>1 DEF Done, Progress, Succeeded
  <2>3. NamesKept' /\ NothingRenamed'
    BY <1>0, <2>1, NamesGoOn DEF NamesKept
  <2>4. NamesWait'
    BY <1>0, <2>1, <2>2 DEF NamesWait, Unrenamed
  <2> QED
    BY <2>3, <2>4 DEF ReferencesInv
<1> QED
  BY <1>1, <1>2, <1>3 DEF Next, Finished

\* Initially every document names what beta 7 had it name.
LEMMA ReferencesInit ==
  ASSUME Init
  PROVE  ReferencesInv
<1>1. PICK s \in B7States : db = s.db /\ txns = s.txns /\ b7 = s.db
  BY DEF Init
<1>2. ~live
  BY DEF Init
<1>3. NamesKept
  BY <1>1, ReferencesAssumption DEF NamesKept, NamesKnown, KeepNames
<1>4. NothingRenamed
  BY <1>1, ReferencesAssumption DEF NothingRenamed, Unrenamed, RenameNothing
<1>5. NamesWait
  BY <1>2 DEF NamesWait, Done
<1> QED
  BY <1>3, <1>4, <1>5 DEF ReferencesInv

\* Every document that names services names some that were found, in the words of
\* beta 7 until the stage that renames them.
THEOREM ReferencesInvariant == Spec => []ReferencesInv
<1>1. IdentityInv /\ PromiseInv /\ OneRunMigrates /\ StagesInv /\ HomesInv /\ ReferencesInv
        /\ [Next]_vars => ReferencesInv'
  BY ReferencesStep
<1> QED
  BY <1>1, ReferencesInit, IdentityInvariant, PromiseInvariant, OneMigration, StagesInvariant,
     HomesInvariant, PTL DEF Spec

\* Unless a transaction is half carried out, every unit, relation, resource and
\* reference of a model names a service or an application that there is.
THEOREM ReferencesAlwaysResolve == Spec => []ReferencesResolve
<1>1. HomesInv /\ ReferencesInv => ReferencesResolve
  <2> SUFFICES ASSUME HomesInv, ReferencesInv, ~HalfApplied,
                      NEW c \in Referring, NEW id \in DOMAIN db[c],
                      NEW app \in NamedIn(c, db[c][id])
               PROVE  Exists(db, Head(id), app)
    BY DEF ReferencesResolve
  <2> DEFINE found == <<ModelOf(id), app>>
             mv    == Move("services", found, "applications", found, {"ownertag"}, {"unitcount"})
  <2>1. found \in DOMAIN b7["services"]
    BY DEF ReferencesInv, NamesKept, NamesKnown, NamesServices
  <2>2. mv \in Moves(b7)
    BY <2>1 DEF Moves, ServiceMoves
  <2>3. AtOld(b7, db, mv) \/ AtNew(b7, db, mv)
    BY <2>2 DEF HomesInv, HomesKept, EachHasAHome, Moving, HalfApplied
  <2>4. found \in DOMAIN db["services"] \cup DOMAIN db["applications"]
    BY <2>3 DEF AtOld, AtNew, Move
  <2>5. found = <<Head(id), app>>
    BY DEF ModelOf
  <2> QED
    BY <2>4, <2>5 DEF Exists
<1> QED
  BY <1>1, HomesInvariant, ReferencesInvariant, PTL

-----------------------------------------------------------------------------
(* What the assertions of the stages depend on.                            *)

\* The collections that the assertions of a stage are about.
Claims(stage) == IF stage \in Reserving THEN Provided \cup {"providerIDs"} ELSE Writes[stage]

\* Which of the forms of Fit applies.
LEMMA FitMeans ==
  ASSUME NEW d
  PROVE  /\ Fit(d, "updateModels") <=> ModelsFit(d)
         /\ Fit(d, "moveServices") <=> ServicesFit(d)
         /\ Fit(d, "updateUnits") <=> UnitsFit(d)
         /\ \A s \in Reserving : Fit(d, s) <=> ProvidersFit(d)
         /\ Fit(d, "updateSequences") <=> Asserted(d, UpdateSequencesOps(d))
         /\ Fit(d, "updateLeases") <=> Asserted(d, UpdateLeasesOps(d))
         /\ Fit(d, "upgradeCloudImageMetadata") <=> Asserted(d, UpgradeCloudImageMetadataOps(d))
         /\ \A c \in GlobalKeyed : Fit(d, c) <=> Asserted(d, GlobalKeyOps(d, c, KeyName(c)))
  BY DEF Fit, Reserving, Rekeying, GlobalKeyed

\* Assertions about a collection are a matter of that collection alone.
LEMMA SameAsserted ==
  ASSUME NEW d, NEW e, NEW cs, \A c \in cs : d[c] = e[c], NEW O, About(O, cs), Asserted(d, O)
  PROVE  Asserted(e, O)
  BY DEF About, Asserted

LEMMA FitSame ==
  ASSUME NEW d, NEW e, NEW s \in Claiming, \A c \in Claims(s) : d[c] = e[c], Fit(d, s)
  PROVE  Fit(e, s)
<1> USE FitMeans
<1>1. CASE s = "updateModels"
  <2>1. \A c \in {"models", "permissions", "settings", "usermodelname"} : d[c] = e[c]
    BY <1>1 DEF Claims, Reserving, Writes
  <2> QED
    BY <1>1, <2>1 DEF ModelsFit
<1>2. CASE s = "moveServices"
  <2>1. \A c \in {"services", "applications", "storageconstraints", "refcounts"} : d[c] = e[c]
    BY <1>2 DEF Claims, Reserving, Writes
  <2> QED
    BY <1>2, <2>1 DEF ServicesFit
<1>3. CASE s = "updateUnits"
  <2>1. \A c \in {"units", "statuses"} : d[c] = e[c]
    BY <1>3 DEF Claims, Reserving, Writes
  <2> QED
    BY <1>3, <2>1 DEF UnitsFit
<1>4. CASE s \in Reserving
  <2>1. \A c \in Provided : d[c] = e[c] /\ Prefixed(d, c) = Prefixed(e, c)
    BY <1>4 DEF Claims, Prefixed
  <2>2. d["providerIDs"] = e["providerIDs"]
    BY <1>4 DEF Claims
  <2>3. ProvidersFit(d)
    BY <1>4
  <2>4. ProvidersFit(e)
    BY <2>1, <2>2, <2>3 DEF ProvidersFit
  <2> QED
    BY <1>4, <2>4
<1>5. CASE s = "updateSequences"
  <2>1. d["sequence"] = e["sequence"]
    BY <1>5 DEF Claims, Reserving, Writes
  <2>2. UpdateSequencesOps(e) = UpdateSequencesOps(d)
    BY <2>1 DEF UpdateSequencesOps, ServiceSequences
  <2> QED
    BY <1>5, <2>1, <2>2, RekeyAbout, SameAsserted
<1>6. CASE s = "updateLeases"
  <2>1. d["leases"] = e["leases"]
    BY <1>6 DEF Claims, Reserving, Writes
  <2>2. UpdateLeasesOps(e) = UpdateLeasesOps(d)
    BY <2>1 DEF UpdateLeasesOps, ServiceLeases
  <2> QED
    BY <1>6, <2>1, <2>2, RekeyAbout, SameAsserted
<1>7. CASE s = "upgradeCloudImageMetadata"
  <2>1. d["cloudimagemetadata"] = e["cloudimagemetadata"]
    BY <1>7 DEF Claims, Reserving, Writes
  <2>2. UpgradeCloudImageMetadataOps(e) = UpgradeCloudImageMetadataOps(d)
    BY <2>1 DEF UpgradeCloudImageMetadataOps
  <2> QED
    BY <1>7, <2>1, <2>2, RekeyAbout, SameAsserted
<1>8. CASE s \in GlobalKeyed
  <2>1. s \in Claims(s)
    <3>1. /\ "annotations" \in Writes["annotations"] /\ "constraints" \in Writes["constraints"]
          /\ "endpointbindings" \in Writes["endpointbindings"]
          /\ "settings" \in Writes["settings"] /\ "statuses" \in Writes["statuses"]
      BY DEF Writes
    <3>2. s \notin Reserving
      BY <1>8 DEF Reserving, GlobalKeyed
    <3>3. s \in Writes[s]
      <4> HIDE DEF Writes
      <4> QED
        BY <1>8, <3>1 DEF GlobalKeyed
    <3> QED
      BY <3>2, <3>3 DEF Claims
  <2>2. d[s] = e[s]
    BY <2>1
  <2>3. GlobalKeyOps(e, s, KeyName(s)) = GlobalKeyOps(d, s, KeyName(s))
    BY <2>2 DEF GlobalKeyOps, ServiceKeyed
  <2>4. Asserted(d, GlobalKeyOps(d, s, KeyName(s)))
    BY <1>8
  <2>5. About(GlobalKeyOps(d, s, KeyName(s)), {s})
    BY RekeyAbout
  <2>6. Asserted(e, GlobalKeyOps(d, s, KeyName(s)))
    BY <2>2, <2>4, <2>5, SameAsserted
  <2> QED
    BY <1>8, <2>3, <2>6
<1> QED
  BY <1>1, <1>2, <1>3, <1>4, <1>5, <1>6, <1>7, <1>8 DEF Claiming

\* An id with the key of a service or an application.
KeyedID(id) == 2 \in DOMAIN id /\ id[2] \in {"s", "a"}

\* The key of a service becomes that of an application.
LEMMA NewKeyed ==
  ASSUME NEW id, IsServiceKeyID(id)
  PROVE  KeyedID(id) /\ KeyedID(NewKeyID(id))
  BY DEF IsServiceKeyID, KeyedID, NewKeyID

\* The assertions about keys depend on no documents but those with such keys.
LEMMA KeyFit ==
  ASSUME NEW d, NEW e, NEW c \in GlobalKeyed,
         \A id : KeyedID(id) => /\ id \in DOMAIN d[c] <=> id \in DOMAIN e[c]
                                /\ id \in DOMAIN d[c] => d[c][id] = e[c][id],
         Fit(d, c)
  PROVE  Fit(e, c)
<1> DEFINE O == GlobalKeyOps(d, c, KeyName(c))
<1>1. ServiceKeyed(e, c) = ServiceKeyed(d, c)
      /\ \A id \in ServiceKeyed(d, c) : d[c][id] = e[c][id]
  BY NewKeyed DEF ServiceKeyed
<1>2. GlobalKeyOps(e, c, KeyName(c)) = O
  BY <1>1 DEF GlobalKeyOps
<1>3. Asserted(d, O)
  BY FitMeans
<1>4. ASSUME NEW op \in O
      PROVE  op.c = c /\ KeyedID(op.id)
  <2>1. PICK id \in ServiceKeyed(d, c) :
          op.c = c /\ (op.id = id \/ op.id = NewKeyID(id))
    BY DEF GlobalKeyOps, MoveOps, RemoveOp, InsertOp
  <2> QED
    BY <2>1, NewKeyed DEF ServiceKeyed
<1> HIDE DEF O
<1>5. Asserted(e, O)
  BY <1>3, <1>4 DEF Asserted
<1> QED
  BY <1>2, <1>5, FitMeans

-----------------------------------------------------------------------------
(* What leaves the claims of the stages alone.                             *)

\* Where no operation touches a document, it is as it was.
LEMMA UntouchedDoc ==
  ASSUME NEW d, NEW O, NEW c \in DOMAIN d, NEW id, \A op \in O : ~Touches(op, c, id)
  PROVE  /\ id \in DOMAIN d[c] <=> id \in DOMAIN Apply(d, O)[c]
         /\ id \in DOMAIN d[c] => d[c][id] = Apply(d, O)[c][id]
<1>1. id \in DOMAIN d[c] <=> id \in DOMAIN Apply(d, O)[c]
  BY ApplyIDs DEF Touches
<1>2. ASSUME id \in DOMAIN d[c]
      PROVE  d[c][id] = Apply(d, O)[c][id]
  BY <1>1, <1>2, ApplyDoc DEF Touches
<1> QED
  BY <1>1, <1>2

\* Operations on no keys of services and applications leave the assertions about
\* them as they are.
LEMMA UnkeyedFit ==
  ASSUME NEW d, DOMAIN d = Collections, NEW O, NEW c \in GlobalKeyed,
         \A op \in O : op.c = c => ~KeyedID(op.id),
         Fit(d, c)
  PROVE  Fit(Apply(d, O), c)
<1> DEFINE e == Apply(d, O)
<1>1. c \in DOMAIN d
  BY DEF GlobalKeyed, Collections
<1>2. ASSUME NEW id, KeyedID(id)
      PROVE  /\ id \in DOMAIN d[c] <=> id \in DOMAIN e[c]
             /\ id \in DOMAIN d[c] => d[c][id] = e[c][id]
  <2>1. \A op \in O : ~Touches(op, c, id)
    BY <1>2 DEF Touches
  <2> QED
    BY <1>1, <2>1, UntouchedDoc
<1> HIDE DEF e
<1>3. Fit(e, c)
  BY <1>2, KeyFit
<1> QED
  BY <1>3 DEF e

\* Updates that leave two fields alone.
LEMMA FieldsSpared ==
  ASSUME NEW doc, NEW set, NEW unset, NEW f, f \notin unset \cup DOMAIN set
  PROVE  LET new == Without(doc, unset) ++ set
         IN  /\ Has(new, f) <=> Has(doc, f)
             /\ Has(doc, f) => new[f] = doc[f]
  BY DEF Has, Without, ++

LEMMA CharmSpared ==
  ASSUME NEW doc, NEW set, NEW unset, "charmurl" \notin unset \cup DOMAIN set
  PROVE  CharmURL(Without(doc, unset) ++ set) = CharmURL(doc)
  BY DEF CharmURL, GetStringField, Has, Without, ++

\* What the agents were doing takes nothing from the stages.
LEMMA UnobtrusiveModels ==
  ASSUME NEW d, DOMAIN d = Collections, NEW O, \A op \in O : Unobtrusive(op), ModelsFit(d)
  PROVE  ModelsFit(Apply(d, O))
<1> DEFINE e == Apply(d, O)
<1>0. {"models", "settings", "permissions", "usermodelname"} \subseteq DOMAIN d
  BY DEF Collections
<1>1. e["models"] = d["models"] /\ e["usermodelname"] = d["usermodelname"]
  BY <1>0, ApplyElsewhere DEF Unobtrusive
<1>2. \A id \in DOMAIN d["settings"] : id \in DOMAIN e["settings"]
  BY <1>0, ApplyIDs DEF Unobtrusive
<1>3. \A id \in DOMAIN e["permissions"] : id \in DOMAIN d["permissions"] \/ id[1] # "e"
  BY <1>0, ApplyIDs DEF Unobtrusive
<1> HIDE DEF e
<1>4. \A m : <<"e", m, "us", AdminUser>>[1] = "e"
  OBVIOUS
<1>5. ModelsFit(e)
  BY <1>1, <1>2, <1>3, <1>4 DEF ModelsFit
<1> QED
  BY <1>5 DEF e

LEMMA UnobtrusiveServices ==
  ASSUME NEW d, DOMAIN d = Collections, NEW O, \A op \in O : Unobtrusive(op), ServicesFit(d)
  PROVE  ServicesFit(Apply(d, O))
<1> DEFINE e == Apply(d, O)
<1>0. {"services", "applications", "storageconstraints", "refcounts"} \subseteq DOMAIN d
  BY DEF Collections
<1>1. /\ e["applications"] = d["applications"] /\ e["refcounts"] = d["refcounts"]
      /\ e["storageconstraints"] = d["storageconstraints"]
  BY <1>0, ApplyElsewhere DEF Unobtrusive, SparesServices
<1>2. ASSUME NEW id \in DOMAIN e["services"]
      PROVE  id \in DOMAIN d["services"] /\ CharmURL(e["services"][id]) = CharmURL(d["services"][id])
  <2>1. id \in DOMAIN d["services"]
    BY <1>0, ApplyIDs DEF Unobtrusive, SparesServices
  <2>2. \/ e["services"][id] = d["services"][id]
        \/ \E op \in O : /\ op.c = "services"
                         /\ e["services"][id] = Without(d["services"][id], op.unset) ++ op.set
    BY <1>0, <2>1, ApplyDoc
  <2> HIDE DEF e
  <2>3. ASSUME NEW op \in O, op.c = "services",
               e["services"][id] = Without(d["services"][id], op.unset) ++ op.set
        PROVE  CharmURL(e["services"][id]) = CharmURL(d["services"][id])
    <3>1. "charmurl" \notin op.unset \cup DOMAIN op.set
      BY <2>3 DEF Unobtrusive, SparesServices
    <3> QED
      BY <2>3, <3>1, CharmSpared
  <2>4. CharmURL(e["services"][id]) = CharmURL(d["services"][id])
    BY <2>2, <2>3
  <2> QED
    BY <2>1, <2>4
<1> HIDE DEF e
<1>3. ServicesFit(e)
  BY <1>1, <1>2 DEF ServicesFit
<1> QED
  BY <1>3 DEF e

LEMMA UnobtrusiveUnits ==
  ASSUME NEW d, DOMAIN d = Collections, NEW O, \A op \in O : Unobtrusive(op), UnitsFit(d)
  PROVE  UnitsFit(Apply(d, O))
<1> DEFINE e == Apply(d, O)
<1>0. {"units", "statuses"} \subseteq DOMAIN d
  BY DEF Collections
<1>1. \A id \in DOMAIN e["statuses"] : 6 \notin DOMAIN id
  BY <1>0, ApplyIDs DEF Unobtrusive, UnitsFit
<1>2. ASSUME NEW id \in DOMAIN e["units"]
      PROVE  KeptByName(id, e["units"][id])
  <2>1. CASE id \in DOMAIN d["units"] /\ e["units"][id] = d["units"][id]
    BY <2>1 DEF UnitsFit
  <2>2. ASSUME id \in DOMAIN d["units"], NEW op \in O, op.c = "units", op.change = "update",
               e["units"][id] = Without(d["units"][id], op.unset) ++ op.set
        PROVE  KeptByName(id, e["units"][id])
    <3>1. \A f \in {"model-uuid", "name"} : f \notin op.unset \cup DOMAIN op.set
      BY <2>2 DEF Unobtrusive
    <3>2. KeptByName(id, d["units"][id])
      BY <2>2 DEF UnitsFit
    <3> HIDE DEF e
    <3> QED
      BY <2>2, <3>1, <3>2, FieldsSpared DEF KeptByName
  <2>3. ASSUME NEW op \in O, op.c = "units", op.id = id, op.change = "insert",
               e["units"][id] = op.set
        PROVE  KeptByName(id, e["units"][id])
    BY <2>3 DEF Unobtrusive
  <2> QED
    BY <1>0, <2>1, <2>2, <2>3, ApplyDoc
<1> HIDE DEF e
<1>3. UnitsFit(e)
  BY <1>1, <1>2 DEF UnitsFit
<1> QED
  BY <1>3 DEF e

LEMMA UnobtrusiveFit ==
  ASSUME NEW d, DOMAIN d = Collections, NEW O, \A op \in O : Unobtrusive(op),
         NEW s \in Claiming, Fit(d, s)
  PROVE  Fit(Apply(d, O), s)
<1>1. CASE s = "updateModels"
  BY <1>1, FitMeans, UnobtrusiveModels
<1>2. CASE s = "moveServices"
  BY <1>2, FitMeans, UnobtrusiveServices
<1>3. CASE s = "updateUnits"
  BY <1>3, FitMeans, UnobtrusiveUnits
<1>4. CASE s \in GlobalKeyed
  <2>1. \A op \in O : op.c = s => ~KeyedID(op.id)
    BY <1>4 DEF Unobtrusive, KeyedID
  <2> QED
    BY <1>4, <2>1, UnkeyedFit
<1>5. CASE s \in Reserving \cup {"updateSequences", "updateLeases", "upgradeCloudImageMetadata"}
  <2>1. Claims(s) \subseteq {"sequence", "leases", "cloudimagemetadata", "providerIDs"} \cup Provided
    BY <1>5 DEF Claims, Reserving, Writes
  <2>2. Claims(s) \subseteq DOMAIN d
    BY <2>1 DEF Provided, Collections
  <2>3. \A c \in Claims(s) : \A op \in O : op.c # c
    BY <2>1 DEF Unobtrusive
  <2>4. \A c \in Claims(s) : d[c] = Apply(d, O)[c]
    BY <2>2, <2>3, ApplyElsewhere
  <2> QED
    BY <2>4, FitSame
<1> QED
  BY <1>1, <1>2, <1>3, <1>4, <1>5 DEF Claiming

\* Emptying transaction queues takes nothing from them either.
LEMMA ClearFit ==
  ASSUME NEW d, NEW c \in {"controllers", "models"}, NEW ids, NEW s \in Claiming, Fit(d, s),
         DOMAIN d = Collections
  PROVE  Fit(ClearQueues(d, c, ids), s)
<1> DEFINE e == ClearQueues(d, c, ids)
<1>1. /\ \A k \in Collections \ {c} : e[k] = d[k]
      /\ DOMAIN e[c] = DOMAIN d[c]
  BY DEF ClearQueues, Collections
<1> HIDE DEF e
<1>2. CASE s = "updateModels"
  <2>1. DOMAIN e["models"] = DOMAIN d["models"]
        /\ \A k \in {"settings", "permissions", "usermodelname"} : e[k] = d[k]
    BY <1>1 DEF Collections
  <2>2. ModelsFit(d)
    BY <1>2, FitMeans
  <2>3. ModelsFit(e)
    BY <2>1, <2>2 DEF ModelsFit
  <2> QED
    BY <1>2, <2>3, FitMeans DEF e
<1>3. CASE s # "updateModels"
  <2>1. Claims(s) \subseteq Collections \ {"controllers", "models"}
    <3>1. CASE s \in Reserving
      BY <3>1 DEF Claims, Provided, Collections
    <3>2. CASE s \in {"moveServices", "updateUnits", "updateSequences", "updateLeases",
                      "upgradeCloudImageMetadata"}
      BY <3>2 DEF Claims, Reserving, Writes, Collections
    <3>3. CASE s \in GlobalKeyed
      <4>1. /\ Writes["annotations"] = {"annotations"} /\ Writes["constraints"] = {"constraints"}
            /\ Writes["endpointbindings"] = {"endpointbindings"}
            /\ Writes["settings"] = {"settings"} /\ Writes["statuses"] = {"statuses"}
        BY DEF Writes
      <4> QED
        BY <3>3, <4>1 DEF Claims, Reserving, GlobalKeyed, Collections
    <3> QED
      BY <1>3, <3>1, <3>2, <3>3 DEF Claiming
  <2>2. \A k \in Claims(s) : d[k] = e[k]
    BY <1>1, <2>1
  <2> QED
    BY <2>2, FitSame DEF e
<1> QED
  BY <1>2, <1>3

-----------------------------------------------------------------------------
(* What a late stage leaves to those after it.                             *)

\* The stages that write the collections which the assertions are about.
LEMMA Claimants ==
  ASSUME NEW s \in AfterController
  PROVE  /\ "refcounts" \in Writes[s] => s = "moveServices"
         /\ "sequence" \in Writes[s] => s = "updateSequences"
         /\ "leases" \in Writes[s] => s = "updateLeases"
         /\ "cloudimagemetadata" \in Writes[s] => s = "upgradeCloudImageMetadata"
         /\ "providerIDs" \in Writes[s] => s \in Reserving
         /\ "annotations" \in Writes[s] => s = "annotations"
<1>0. AfterController = DOMAIN Writes
  BY DEF AfterController, Stages, Follows, Writes
<1> HIDE DEF AfterController
<1>1. CASE s \in {"updateModels", "moveServices", "updateUnits", "upgradeMachines", "updateAgentTools"}
  BY <1>1 DEF Writes
<1>2. CASE s \in {"updateSequences", "updateLeases", "updateModelEntityRefs", "updateResources",
                  "updateRelations"}
  BY <1>2 DEF Writes
<1>3. CASE s \in GlobalKeyed
  BY <1>3 DEF Writes, GlobalKeyed
<1>4. CASE s \in {"statusHistory", "dropServices", "dropSettingsRefs", "dropIPAddresses"}
  BY <1>4 DEF Writes
<1>5. CASE s \in Reserving
  BY <1>5 DEF Writes, Reserving
<1>6. CASE s \in {"upgradeCharms", "upgradeUsers", "upgradeModelUsers", "upgradeCloudImageMetadata",
                  "reopenState", "openTools", "dropBlobIndex", "addTools"}
  BY <1>6 DEF Writes
<1> QED
  BY <1>0, <1>1, <1>2, <1>3, <1>4, <1>5, <1>6 DEF Writes, GlobalKeyed, Reserving

\* Where a stage writes what a later one claims.
LEMMA ClaimsApart ==
  ASSUME NEW s \in Claiming, NEW p \in AfterController, Rank[p] < Rank[s],
         NEW c \in Claims(s), c \in Writes[p]
  PROVE  \/ s = "settings" /\ p = "updateModels"
         \/ s = "statuses" /\ p = "updateUnits"
         \/ s \in Reserving /\ p \in Reserving
<1>0. /\ p \in Stages /\ Rank[p] \in 7..37
      /\ Rank["updateModels"] = 7 /\ Rank["moveServices"] = 8 /\ Rank["updateUnits"] = 9
      /\ Rank["dropServices"] = 21 /\ Rank["updateAgentTools"] = 33
  BY Ranks, LateRanks DEF AfterController, Rank
<1>1. s # "updateModels"
  BY <1>0
<1>2. s # "moveServices"
  BY <1>0, Writers, Claimants DEF Claims, Reserving, Writes
<1>3. CASE s = "updateUnits"
  <2>1. c \in {"units", "statuses"}
    BY <1>3 DEF Claims, Reserving, Writes
  <2>2. "statuses" \in ApplicationKeyed
    BY DEF ApplicationKeyed
  <2>3. Rank["statuses"] = 19
    BY DEF Rank
  <2> QED
    BY <1>0, <1>3, <2>1, <2>2, <2>3, Writers
<1>4. CASE s \in {"updateSequences", "updateLeases", "upgradeCloudImageMetadata"}
  <2>1. \/ s = "updateSequences" /\ c = "sequence"
        \/ s = "updateLeases" /\ c = "leases"
        \/ s = "upgradeCloudImageMetadata" /\ c = "cloudimagemetadata"
    BY <1>4 DEF Claims, Reserving, Writes
  <2> QED
    BY <1>0, <2>1, Claimants
<1>5. CASE s \in GlobalKeyed
  <2>1. c = s
    <3>1. /\ Writes["annotations"] = {"annotations"} /\ Writes["constraints"] = {"constraints"}
          /\ Writes["endpointbindings"] = {"endpointbindings"}
          /\ Writes["settings"] = {"settings"} /\ Writes["statuses"] = {"statuses"}
      BY DEF Writes
    <3>2. s \notin Reserving
      BY <1>5 DEF Reserving, GlobalKeyed
    <3>3. Writes[s] = {s}
      BY <1>5, <3>1 DEF GlobalKeyed
    <3> QED
      BY <3>2, <3>3 DEF Claims
  <2>2. s = "annotations" \/ s \in ApplicationKeyed
    BY <1>5 DEF GlobalKeyed, ApplicationKeyed
  <2>3. s # p
    BY <1>0
  <2> QED
    BY <2>1, <2>2, <2>3, Writers, Claimants
<1>6. CASE s \in Reserving
  <2>1. c \in Provided \cup {"providerIDs"}
    BY <1>6 DEF Claims
  <2>2. \A k \in Provided : StageOf(k) \in Reserving
    BY StagesOf DEF Provided, Reserving
  <2> QED
    BY <1>6, <2>1, <2>2, Writers, Claimants
<1> QED
  BY <1>1, <1>2, <1>3, <1>4, <1>5, <1>6 DEF Claiming

\* What updateModels and updateUnits do to settings and statuses is about no service.
LEMMA ModelsUnkeyed ==
  ASSUME NEW d, NEW u, NEW ctx, NEW op \in UpdateModelsOps(d, u, ctx), op.c = "settings"
  PROVE  ~KeyedID(op.id)
<1>1. CASE op \in MoveOps("usermodelname", <<AdminUser, "admin">>,
                          "usermodelname", <<AdminUser, "controller">>, NoDoc)
  BY <1>1, MoveOpsAbout DEF About
<1>2. ASSUME NEW id, op \in UpdateModelOps(d, id, u, ctx)
      PROVE  ~KeyedID(op.id)
  <2>1. op.id = ModelSettingsID(id[1])
    BY <1>2 DEF UpdateModelOps, UpdateOp, InsertOp
  <2> QED
    BY <2>1 DEF KeyedID, ModelSettingsID
<1> QED
  BY <1>1, <1>2 DEF UpdateModelsOps

LEMMA UnitsUnkeyed ==
  ASSUME NEW d, NEW op \in UpdateUnitsOps(d), op.c = "statuses"
  PROVE  ~KeyedID(op.id)
<1>1. \E id : op.id = WorkloadStatusID(d["units"][id])
  BY DEF UpdateUnitsOps, UpdateAllOps, UpdateOp, InsertOp
<1> QED
  BY <1>1 DEF WorkloadStatusID, KeyedID

\* Each of the stages that reserve ids does so for one collection.
LEMMA ReservesFor ==
  ASSUME ReadFor, pc \in Reserving
  PROVE  \E c \in Provided : StageOf(c) = pc /\ ops = ProviderIDOps(db, c, Kind(c))
<1>1. CASE pc = "upgradeSpaces"
  <2>1. ops = ProviderIDOps(db, "spaces", "space") /\ Kind("spaces") = "space"
    BY <1>1 DEF ReadFor, Kind
  <2> QED
    BY <1>1, <2>1, StagesOf DEF Provided
<1>2. CASE pc = "upgradeSubnets"
  <2>1. ops = ProviderIDOps(db, "subnets", "subnet") /\ Kind("subnets") = "subnet"
    BY <1>2 DEF ReadFor, Kind
  <2> QED
    BY <1>2, <2>1, StagesOf DEF Provided
<1>3. CASE pc = "upgradeLinkLayerDevices"
  <2>1. /\ ops = ProviderIDOps(db, "linklayerdevices", "linklayerdevice")
        /\ Kind("linklayerdevices") = "linklayerdevice"
    BY <1>3 DEF ReadFor, Kind
  <2> QED
    BY <1>3, <2>1, StagesOf DEF Provided
<1>4. CASE pc = "upgradeIPAddresses"
  <2>1. ops = ProviderIDOps(db, "ip.addresses", "address") /\ Kind("ip.addresses") = "address"
    BY <1>4 DEF ReadFor, Kind
  <2> QED
    BY <1>4, <2>1, StagesOf DEF Provided
<1> QED
  BY <1>1, <1>2, <1>3, <1>4 DEF Reserving

\* What they do to each entity.
LEMMA ReservesWhat ==
  ASSUME NEW d, NEW c \in Provided, NEW op \in ProviderIDOps(d, c, Kind(c))
  PROVE  \/ op.c = c /\ op.change = "update" /\ op.assert = "d+" /\ op.id \in Prefixed(d, c)
         \/ /\ op.c = "providerIDs" /\ op.change = "insert" /\ op.assert = "d-"
            /\ \E id \in Prefixed(d, c) :
                 /\ op.id = ReservedID(c, d[c][id])
                 /\ op = InsertOp("providerIDs", ReservedID(c, d[c][id]),
                                  Field("model-uuid", d[c][id]["model-uuid"]), id)
  BY DEF ProviderIDOps, ReservedID, UpdateOp, InsertOp

\* One of them reserves no id that another one will.
LEMMA ReservingFit ==
  ASSUME ProcessInv, Running, ProviderIDsWait, LateStep, pc \in Reserving, ProvidersFit(db)
  PROVE  ProvidersFit(db')
<1>1. /\ pc \notin Writing /\ Commit /\ ReadFor /\ db' = Apply(db, ops)
      /\ live /\ pc \in AfterController
  BY DEF LateStep, Reserving, Writing, Commit, StageFinishes
<1>2. PICK cp \in Provided : StageOf(cp) = pc /\ ops = ProviderIDOps(db, cp, Kind(cp))
  BY <1>1, ReservesFor
<1>3. Prefixed(db', cp) = {}
  <2>1. cp \in Renewed
    BY DEF Renewed
  <2>2. Done("updateController") /\ ~Done(pc)
    BY <1>1, LateDone
  <2>3. IsNew(db', cp)
    BY <1>2, <2>1, <2>2, MadeNew
  <2> QED
    BY <2>3, NewMeans
<1>4. /\ Provided \subseteq DOMAIN db /\ "providerIDs" \in DOMAIN db /\ "providerIDs" \notin Provided
      /\ "providerIDs" \in Collections
  BY DEF ProcessInv, TypeOK, DiskOK, Provided, Collections
<1>5. ASSUME NEW c \in Provided, NEW id \in Prefixed(db', c)
      PROVE  /\ c # cp /\ db'[c] = db[c] /\ id \in Prefixed(db, c)
             /\ ReservedID(c, db'[c][id]) \notin DOMAIN db'["providerIDs"]
  <2>1. c # cp
    BY <1>3, <1>5
  <2>2. \A op \in ops : op.c # c
    BY <1>2, <1>4, <2>1, ReservesWhat
  <2>3. db'[c] = db[c]
    BY <1>1, <1>4, <2>2, ApplyElsewhere
  <2>4. id \in Prefixed(db, c)
    BY <2>3, <1>5 DEF Prefixed
  <2>5. ASSUME ReservedID(c, db[c][id]) \in DOMAIN db'["providerIDs"]
        PROVE  FALSE
    <3>1. ReservedID(c, db[c][id]) \notin DOMAIN db["providerIDs"]
      BY <2>4 DEF ProvidersFit
    <3>2. PICK op \in ops : op.c = "providerIDs" /\ op.id = ReservedID(c, db[c][id])
      BY <1>1, <1>4, <2>5, <3>1, ApplyIDs
    <3>3. PICK other \in Prefixed(db, cp) : op.id = ReservedID(cp, db[cp][other])
      BY <1>2, <1>4, <3>2, ReservesWhat
    <3>4. ReservedID(c, db[c][id]) = ReservedID(cp, db[cp][other])
      BY <3>2, <3>3
    <3>5. ReservedID(c, db[c][id]) = ReservedID(cp, db[cp][other]) => c = cp
      BY <2>4 DEF ProvidersFit
    <3> QED
      BY <2>1, <3>4, <3>5
  <2> QED
    BY <2>1, <2>3, <2>4, <2>5
<1> QED
  BY <1>5 DEF ProvidersFit

\* A late stage leaves to each stage after it what that claims.
LEMMA LateFit ==
  ASSUME ProcessInv, Running, ProviderIDsWait, LateStep,
         NEW s \in Claiming, s \in Stages, s # pc, ~Done(s), Fit(db, s)
  PROVE  Fit(db', s)
<1>0. live /\ pc \in AfterController /\ pc \in Stages /\ DOMAIN db = Collections
  BY DEF LateStep, AfterController, ProcessInv, TypeOK, DiskOK
<1>1. Rank[pc] < Rank[s]
  <2>1. ~(Rank[pc] > Rank[s]) /\ Rank[pc] # Rank[s]
    BY <1>0, LateDone, RanksDiffer
  <2> QED
    BY <1>0, <2>1, Ranks
<1>2. pc \notin Writing => ReadFor /\ db' = Apply(db, ops)
  BY DEF LateStep, StageFinishes, Commit
<1>3. CASE s = "settings" /\ pc = "updateModels"
  <2>1. ops = UpdateModelsOps(db, uuid, context) /\ db' = Apply(db, ops)
    BY <1>2, <1>3 DEF Writing, ReadFor
  <2>2. \A op \in ops : op.c = s => ~KeyedID(op.id)
    BY <1>3, <2>1, ModelsUnkeyed
  <2> QED
    BY <1>0, <1>3, <2>1, <2>2, UnkeyedFit DEF GlobalKeyed
<1>4. CASE s = "statuses" /\ pc = "updateUnits"
  <2>1. ops = UpdateUnitsOps(db) /\ db' = Apply(db, ops)
    BY <1>2, <1>4 DEF Writing, ReadFor
  <2>2. \A op \in ops : op.c = s => ~KeyedID(op.id)
    BY <1>4, <2>1, UnitsUnkeyed
  <2> QED
    BY <1>0, <1>4, <2>1, <2>2, UnkeyedFit DEF GlobalKeyed
<1>5. CASE s \in Reserving /\ pc \in Reserving
  BY <1>5, FitMeans, ReservingFit
<1>6. CASE \A c \in Claims(s) : c \notin Writes[pc]
  <2>1. Claims(s) \subseteq Collections
    <3>1. CASE s \in Reserving
      BY <3>1 DEF Claims, Provided, Collections
    <3>2. CASE s \notin Reserving
      <4>1. ASSUME s \in {"updateModels", "moveServices", "updateUnits", "updateSequences",
                         "updateLeases", "upgradeCloudImageMetadata"}
            PROVE  Writes[s] \subseteq Collections
        BY <4>1 DEF Writes, Collections
      <4>2. ASSUME s \in GlobalKeyed
            PROVE  Writes[s] \subseteq Collections
        BY <4>2 DEF GlobalKeyed, Writes, Collections
      <4> QED
        BY <3>2, <4>1, <4>2 DEF Claims, Claiming
    <3> QED
      BY <3>1, <3>2
  <2>2. \A c \in Claims(s) : db[c] = db'[c]
    BY <1>6, <2>1, WritesOnly
  <2> QED
    BY <2>2, FitSame
<1> QED
  BY <1>0, <1>1, <1>3, <1>4, <1>5, <1>6, ClaimsApart

-----------------------------------------------------------------------------
(* The transaction of a stage that fits is not refused.                    *)

\* Updates of documents that are there.
LEMMA UpdatesAsserted ==
  ASSUME NEW d
  PROVE  /\ Asserted(d, UpdateModelEntityRefsOps(d)) /\ Asserted(d, UpdateRelationsOps(d))
         /\ Asserted(d, UpdateResourcesOps(d)) /\ Asserted(d, UpgradeCharmsOps(d))
         /\ Asserted(d, UpgradeUsersOps(d)) /\ Asserted(d, UpgradeModelUsersOps(d))
         /\ Asserted(d, UpgradeMachinesOps(d)) /\ Asserted(d, UpdateAgentToolsOps(d))
<1> USE DEF Asserted, UpdateAllOps, UpdateOp
<1>1. Asserted(d, UpdateModelEntityRefsOps(d)) /\ Asserted(d, UpdateRelationsOps(d))
  BY DEF UpdateModelEntityRefsOps, UpdateRelationsOps
<1>2. Asserted(d, UpdateResourcesOps(d)) /\ Asserted(d, UpgradeCharmsOps(d))
  BY DEF UpdateResourcesOps, UpgradeCharmsOps
<1>3. Asserted(d, UpgradeUsersOps(d)) /\ Asserted(d, UpgradeModelUsersOps(d))
  BY DEF UpgradeUsersOps, UpgradeModelUsersOps
<1>4. Asserted(d, UpgradeMachinesOps(d)) /\ Asserted(d, UpdateAgentToolsOps(d))
  BY DEF UpgradeMachinesOps, UpdateAgentToolsOps
<1> QED
  BY <1>1, <1>2, <1>3, <1>4

\* One permission for each model.
LEMMA ModelsAsserted ==
  ASSUME NEW d, ModelsFit(d), NEW u, NEW ctx
  PROVE  Asserted(d, UpdateModelsOps(d, u, ctx))
<1> DEFINE O      == UpdateModelsOps(d, u, ctx)
           rename == MoveOps("usermodelname", <<AdminUser, "admin">>,
                             "usermodelname", <<AdminUser, "controller">>, NoDoc)
           perm(id) == InsertOp("permissions", <<"e", id[1], "us", AdminUser>>,
                                [access |-> "admin", object |-> <<"e", id[1]>>], id)
<1>1. ASSUME NEW op \in O, op.c # "usermodelname"
      PROVE  \E id \in DOMAIN d["models"] : op \in UpdateModelOps(d, id, u, ctx)
  <2>1. op \notin rename
    BY <1>1, MoveOpsAbout DEF About
  <2> QED
    BY <2>1 DEF UpdateModelsOps
<1>2. ASSUME NEW op \in O, op.c = "usermodelname"
      PROVE  op \in rename
  <2>1. \A id : About(UpdateModelOps(d, id, u, ctx), {"models", "permissions", "settings"})
    BY DEF About, UpdateModelOps, UpdateOp, InsertOp
  <2> HIDE DEF rename
  <2>2. op \in rename \/ \E id : op \in UpdateModelOps(d, id, u, ctx)
    BY DEF UpdateModelsOps, rename
  <2> QED
    BY <1>2, <2>1, <2>2 DEF About
<1>3. ASSUME NEW id \in DOMAIN d["models"], NEW op \in UpdateModelOps(d, id, u, ctx)
      PROVE  \/ op.c = "models" /\ op.id = id /\ op.assert = "d+"
             \/ op = perm(id)
             \/ op.c = "settings" /\ op.id = ModelSettingsID(id[1]) /\ op.assert = "d+"
  <2>1. \/ op = UpdateOp("models", id, ModelUpdates(d["models"][id], u, ctx), {"server-uuid"})
        \/ op = perm(id)
        \/ op = UpdateOp("settings", ModelSettingsID(id[1]), UpdatedSettings,
                         RemovedSettings(ctx.cloud))
    BY DEF UpdateModelOps
  <2> HIDE DEF perm
  <2> QED
    BY <2>1 DEF UpdateOp
<1>4. \A id : /\ perm(id).c = "permissions" /\ perm(id).id = <<"e", id[1], "us", AdminUser>>
              /\ perm(id).assert = "d-"
  BY DEF InsertOp
<1>5. \A op \in rename :
        \/ op = RemoveOp("usermodelname", <<AdminUser, "admin">>)
        \/ op = InsertOp("usermodelname", <<AdminUser, "controller">>, NoDoc, <<AdminUser, "admin">>)
  BY DEF MoveOps
<1> HIDE DEF O, rename, perm
<1>6. ASSUME NEW op \in O, op.c # "usermodelname"
      PROVE  /\ op.assert = "d+" => op.id \in DOMAIN d[op.c]
             /\ op.assert = "d-" => /\ op.id \notin DOMAIN d[op.c]
                                    /\ \A q \in O \ {op} : ~Touches(q, op.c, op.id)
  <2>1. PICK id \in DOMAIN d["models"] : op \in UpdateModelOps(d, id, u, ctx)
    BY <1>1, <1>6
  <2>2. /\ id = <<id[1]>>
        /\ ModelSettingsID(id[1]) \in DOMAIN d["settings"]
        /\ <<"e", id[1], "us", AdminUser>> \notin DOMAIN d["permissions"]
    BY DEF ModelsFit
  <2>3. CASE op = perm(id)
    <3>1. ASSUME NEW q \in O \ {op}, Touches(q, "permissions", <<"e", id[1], "us", AdminUser>>)
          PROVE  FALSE
      <4>1. q.c = "permissions" /\ q.id = <<"e", id[1], "us", AdminUser>>
        BY <3>1 DEF Touches
      <4>2. PICK other \in DOMAIN d["models"] : q \in UpdateModelOps(d, other, u, ctx)
        BY <1>1, <4>1
      <4>3. q = perm(other)
        BY <1>3, <4>1, <4>2
      <4>4. <<"e", other[1], "us", AdminUser>> = <<"e", id[1], "us", AdminUser>>
        BY <1>4, <4>1, <4>3
      <4>5. other[1] = id[1]
        BY <4>4
      <4>6. other = <<other[1]>>
        BY DEF ModelsFit
      <4>7. other = id
        BY <2>2, <4>5, <4>6
      <4> QED
        BY <2>3, <4>3, <4>7
    <3> QED
      BY <1>4, <2>2, <2>3, <3>1
  <2> QED
    BY <1>3, <2>1, <2>2, <2>3
<1>7. ASSUME NEW op \in O, op.c = "usermodelname"
      PROVE  /\ op.assert = "d+" => op.id \in DOMAIN d[op.c]
             /\ op.assert = "d-" => /\ op.id \notin DOMAIN d[op.c]
                                    /\ \A q \in O \ {op} : ~Touches(q, op.c, op.id)
  <2>1. CASE op = RemoveOp("usermodelname", <<AdminUser, "admin">>)
    BY <2>1 DEF RemoveOp, ModelsFit
  <2>2. CASE op = InsertOp("usermodelname", <<AdminUser, "controller">>, NoDoc, <<AdminUser, "admin">>)
    <3>1. ASSUME NEW q \in O \ {op}, Touches(q, op.c, op.id)
          PROVE  FALSE
      <4>1. q \in rename /\ q.id = <<AdminUser, "controller">>
        BY <1>2, <1>7, <2>2, <3>1 DEF Touches, InsertOp
      <4>2. q = RemoveOp("usermodelname", <<AdminUser, "admin">>)
        BY <1>5, <2>2, <3>1, <4>1
      <4>3. <<AdminUser, "admin">> # <<AdminUser, "controller">>
        OBVIOUS
      <4> QED
        BY <4>1, <4>2, <4>3 DEF RemoveOp
    <3> QED
      BY <1>7, <2>2, <3>1 DEF InsertOp, ModelsFit
  <2> QED
    BY <1>2, <1>5, <1>7, <2>1, <2>2
<1>8. Asserted(d, O)
  BY <1>6, <1>7 DEF Asserted
<1> QED
  BY <1>8 DEF O

\* One status of the workload version for each unit.
LEMMA UnitsAsserted ==
  ASSUME NEW d, UnitsFit(d)
  PROVE  Asserted(d, UpdateUnitsOps(d))
<1> DEFINE O == UpdateUnitsOps(d)
           version(id) == InsertOp("statuses", WorkloadStatusID(d["units"][id]),
                                   [status |-> "unknown", updated |-> "now"], id)
<1>1. ASSUME NEW op \in O
      PROVE  \/ op.c = "units" /\ op.assert = "d+" /\ op.id \in DOMAIN d["units"]
             \/ \E id \in DOMAIN d["units"] : op = version(id)
  BY DEF UpdateUnitsOps, UpdateAllOps, UpdateOp
<1>2. \A id : /\ version(id).c = "statuses" /\ version(id).assert = "d-"
              /\ version(id).id = WorkloadStatusID(d["units"][id])
  BY DEF InsertOp
<1>3. ASSUME NEW id \in DOMAIN d["units"]
      PROVE  /\ WorkloadStatusID(d["units"][id]) =
                  <<id[1], "u", id[2], "charm", "sat", "workload-version">>
             /\ id = <<id[1], id[2]>>
  BY DEF UnitsFit, KeptByName, WorkloadStatusID, ReadBsonDField
<1> HIDE DEF O, version
<1>4. ASSUME NEW op \in O, NEW id \in DOMAIN d["units"], op = version(id)
      PROVE  op.id \notin DOMAIN d["statuses"] /\ \A q \in O \ {op} : ~Touches(q, "statuses", op.id)
  <2>1. op.id = <<id[1], "u", id[2], "charm", "sat", "workload-version">>
    BY <1>2, <1>3, <1>4
  <2>2. op.id \notin DOMAIN d["statuses"]
    BY <2>1 DEF UnitsFit
  <2>3. ASSUME NEW q \in O \ {op}, q.c = "statuses", q.id = op.id
        PROVE  FALSE
    <3>1. PICK other \in DOMAIN d["units"] : q = version(other)
      BY <1>1, <2>3
    <3>2. q.id = <<other[1], "u", other[2], "charm", "sat", "workload-version">>
      BY <1>2, <1>3, <3>1
    <3>3. other[1] = id[1] /\ other[2] = id[2]
      BY <2>1, <2>3, <3>2
    <3>4. other = id
      BY <1>3, <3>3
    <3> QED
      BY <1>4, <3>1, <3>4
  <2> QED
    BY <2>2, <2>3 DEF Touches
<1>5. Asserted(d, O)
  BY <1>1, <1>2, <1>4 DEF Asserted
<1> QED
  BY <1>5 DEF O

\* One reservation for each entity.
LEMMA ProvidersAsserted ==
  ASSUME NEW d, ProvidersFit(d), NEW c \in Provided
  PROVE  Asserted(d, ProviderIDOps(d, c, Kind(c)))
<1> DEFINE O == ProviderIDOps(d, c, Kind(c))
           reservation(id) == InsertOp("providerIDs", ReservedID(c, d[c][id]),
                                       Field("model-uuid", d[c][id]["model-uuid"]), id)
<1>1. ASSUME NEW op \in O
      PROVE  \/ op.c = c /\ op.assert = "d+" /\ op.id \in DOMAIN d[c]
             \/ \E id \in Prefixed(d, c) : op = reservation(id)
  BY ReservesWhat DEF Prefixed
<1>2. \A id : /\ reservation(id).c = "providerIDs" /\ reservation(id).assert = "d-"
              /\ reservation(id).id = ReservedID(c, d[c][id])
  BY DEF InsertOp
<1>3. c # "providerIDs"
  BY DEF Provided
<1> HIDE DEF O, reservation
<1>4. ASSUME NEW op \in O, NEW id \in Prefixed(d, c), op = reservation(id)
      PROVE  op.id \notin DOMAIN d["providerIDs"] /\ \A q \in O \ {op} : ~Touches(q, "providerIDs", op.id)
  <2>1. op.id = ReservedID(c, d[c][id])
    BY <1>2, <1>4
  <2>2. ASSUME NEW q \in O \ {op}, q.c = "providerIDs", q.id = op.id
        PROVE  FALSE
    <3>1. PICK other \in Prefixed(d, c) : q = reservation(other)
      BY <1>1, <1>3, <2>2
    <3>2. ReservedID(c, d[c][other]) = ReservedID(c, d[c][id])
      BY <1>2, <2>1, <2>2, <3>1
    <3>3. ReservedID(c, d[c][other]) = ReservedID(c, d[c][id]) => other = id
      BY DEF ProvidersFit
    <3>4. other = id
      BY <3>2, <3>3
    <3> QED
      BY <1>4, <3>1, <3>4
  <2> QED
    BY <2>1, <2>2 DEF Touches, ProvidersFit
<1>5. Asserted(d, O)
  BY <1>1, <1>2, <1>4 DEF Asserted
<1> QED
  BY <1>5 DEF O

\* A sequence of one element put before one of three, and before one of two.
LEMMA OneBefore ==
  /\ \A a, x, y, z : LET s == <<a>> \o <<x, y, z>>
                     IN  s[1] = a /\ s[2] = x /\ s[3] = y
  /\ \A a, x, y : (<<a>> \o <<x, y>>)[2] = x
<1>1. ASSUME NEW a, NEW x, NEW y, NEW z
      PROVE  /\ (<<a>> \o <<x, y, z>>)[1] = a
             /\ (<<a>> \o <<x, y, z>>)[2] = x
             /\ (<<a>> \o <<x, y, z>>)[3] = y
  OBVIOUS
<1>2. ASSUME NEW a, NEW x, NEW y
      PROVE  (<<a>> \o <<x, y>>)[2] = x
  OBVIOUS
<1> QED
  BY <1>1, <1>2

\* The ids that the documents of a service go by name it.
LEMMA ConstraintIDs ==
  ASSUME NEW id, id = <<id[1], id[2]>>, NEW charm
  PROVE  /\ NewConstraintID(id, charm)[1] = id[1] /\ NewConstraintID(id, charm)[3] = id[2]
         /\ NewConstraintID(id, charm)[2] = "asc" /\ OldConstraintID(id)[2] = "s"
<1>1. \A x, y : Head(<<x, y>>) = x /\ Tail(<<x, y>>) = <<y>>
  OBVIOUS
<1>2. ModelOf(id) = id[1] /\ LocalID(id)[1] = id[2]
  BY <1>1 DEF ModelOf, LocalID
<1>3. /\ NewConstraintID(id, charm) = <<id[1]>> \o <<"asc", id[2], charm>>
      /\ OldConstraintID(id) = <<id[1]>> \o <<"s", id[2]>>
  BY <1>2 DEF NewConstraintID, OldConstraintID, DocID
<1> QED
  BY <1>3, OneBefore

\* One application and one set of storage constraints for each service.
LEMMA ServicesAsserted ==
  ASSUME NEW d, ServicesFit(d)
  PROVE  Asserted(d, MoveServicesOps(d))
<1> DEFINE O         == MoveServicesOps(d)
           doc(id)   == RemoveBsonDField(CopyBsonDField(d["services"][id]), "ownertag")
           old(id)   == OldConstraintID(id)
           new(id)   == NewConstraintID(id, CharmURL(doc(id)))
           moved(id) == d["storageconstraints"][old(id)]
           made(id)  == InsertOp("applications", id, doc(id), id)
           kept(id)  == InsertOp("storageconstraints", new(id), moved(id), old(id))
           count(key) == InsertOp("refcounts", key, RefCountDoc(d, key), <<>>)
<1>1. ASSUME NEW id \in DOMAIN d["services"]
      PROVE  /\ id = <<id[1], id[2]>> /\ id \notin DOMAIN d["applications"]
             /\ old(id) \in DOMAIN d["storageconstraints"]
             /\ new(id) \notin DOMAIN d["storageconstraints"]
             /\ new(id)[1] = id[1] /\ new(id)[2] = "asc" /\ new(id)[3] = id[2]
             /\ old(id)[2] = "s"
  <2>1. CharmURL(doc(id)) = CharmURL(d["services"][id])
    BY DEF CharmURL, GetStringField, Has, RemoveBsonDField, CopyBsonDField, Without
  <2>2. /\ id = <<id[1], id[2]>> /\ id \notin DOMAIN d["applications"]
        /\ old(id) \in DOMAIN d["storageconstraints"]
        /\ NewConstraintID(id, CharmURL(d["services"][id])) \notin DOMAIN d["storageconstraints"]
    BY DEF ServicesFit
  <2> HIDE DEF doc
  <2> QED
    BY <2>1, <2>2, ConstraintIDs
<1>2. ASSUME NEW op \in O
      PROVE  \/ \E id \in DOMAIN d["services"] :
                  \/ op = RemoveOp("services", id)
                  \/ op = made(id)
                  \/ op = RemoveOp("storageconstraints", old(id))
                  \/ op = kept(id)
             \/ \E key : op = count(key)
  <2>1. CASE \E key : op = count(key)
    BY <2>1
  <2>2. ASSUME NEW id \in DOMAIN d["services"], op \in MoveServiceOps(d, id)
        PROVE  \/ op = RemoveOp("services", id)
               \/ op = made(id)
               \/ op = RemoveOp("storageconstraints", old(id))
               \/ op = kept(id)
    BY <2>2 DEF MoveServiceOps, MoveOps
  <2> QED
    BY <2>1, <2>2 DEF MoveServicesOps
<1>3. /\ \A id : /\ made(id).c = "applications" /\ made(id).id = id /\ made(id).assert = "d-"
                 /\ kept(id).c = "storageconstraints" /\ kept(id).id = new(id)
                 /\ kept(id).assert = "d-"
      /\ \A key : count(key).c = "refcounts" /\ count(key).id = key /\ count(key).assert = "d-"
  BY DEF InsertOp
<1>4. \A c, id : RemoveOp(c, id).c = c /\ RemoveOp(c, id).id = id /\ RemoveOp(c, id).assert = "d+"
  BY DEF RemoveOp
<1> HIDE DEF O, doc, old, new, moved, made, kept, count
<1>5. ASSUME NEW op \in O, op.assert = "d+"
      PROVE  op.id \in DOMAIN d[op.c]
  BY <1>1, <1>2, <1>3, <1>4, <1>5
<1>6. ASSUME NEW op \in O, op.assert = "d-"
      PROVE  op.id \notin DOMAIN d[op.c]
  BY <1>1, <1>2, <1>3, <1>4, <1>6 DEF ServicesFit
<1>7. ASSUME NEW op \in O, NEW q \in O, op.assert = "d-", Touches(q, op.c, op.id)
      PROVE  q = op
  <2>0. q.c = op.c /\ q.id = op.id
    BY <1>7 DEF Touches
  <2>1. CASE \E key : op = count(key)
    BY <1>2, <1>3, <1>4, <2>0, <2>1
  <2>2. ASSUME NEW id \in DOMAIN d["services"], op = made(id)
        PROVE  q = op
    BY <1>2, <1>3, <1>4, <2>0, <2>2
  <2>3. ASSUME NEW id \in DOMAIN d["services"], op = kept(id)
        PROVE  q = op
    <3>1. q.c = "storageconstraints" /\ q.id = new(id)
      BY <1>3, <2>0, <2>3
    <3>2. PICK other \in DOMAIN d["services"] : q = RemoveOp("storageconstraints", old(other)) \/ q = kept(other)
      BY <1>2, <1>3, <1>4, <3>1
    <3>3. q.id # old(other)
      BY <1>1, <3>1
    <3>4. q = kept(other) /\ new(other) = new(id)
      BY <1>3, <1>4, <3>1, <3>2, <3>3
    <3>5. other[1] = id[1] /\ other[2] = id[2]
      BY <1>1, <3>4
    <3>6. other = id
      BY <1>1, <3>5
    <3> QED
      BY <2>3, <3>4, <3>6
  <2> QED
    BY <1>2, <1>4, <1>7, <2>1, <2>2, <2>3
<1>8. Asserted(d, O)
  BY <1>5, <1>6, <1>7 DEF Asserted
<1> QED
  BY <1>8 DEF O

\* Every late stage.
LEMMA FitAsserted ==
  ASSUME ReadFor, pc \in AfterController \ Writing, pc \in Claiming => Fit(db, pc)
  PROVE  Asserted(db, ops)
<1> USE FitMeans
<1>1. CASE pc = "updateModels"
  BY <1>1, ModelsAsserted DEF ReadFor, Claiming
<1>2. CASE pc = "moveServices"
  BY <1>2, ServicesAsserted DEF ReadFor, Claiming
<1>3. CASE pc = "updateUnits"
  BY <1>3, UnitsAsserted DEF ReadFor, Claiming
<1>4. CASE pc \in Reserving
  <2>1. PICK c \in Provided : ops = ProviderIDOps(db, c, Kind(c))
    BY <1>4, ReservesFor
  <2>2. ProvidersFit(db)
    BY <1>4 DEF Claiming
  <2> QED
    BY <2>1, <2>2, ProvidersAsserted
<1>5. CASE pc \in {"updateSequences", "updateLeases", "upgradeCloudImageMetadata"}
  BY <1>5 DEF ReadFor, Claiming
<1>6. CASE pc \in GlobalKeyed
  BY <1>6 DEF ReadFor, Claiming
<1>7. CASE pc \in {"updateModelEntityRefs", "updateRelations", "updateResources", "upgradeCharms",
                   "upgradeUsers", "upgradeModelUsers", "upgradeMachines", "updateAgentTools"}
  BY <1>7, UpdatesAsserted DEF ReadFor
<1>8. \/ pc \in {"updateModels", "moveServices", "updateUnits"} \cup Reserving \cup GlobalKeyed
      \/ pc \in {"updateSequences", "updateLeases", "upgradeCloudImageMetadata"}
      \/ pc \in {"updateModelEntityRefs", "updateRelations", "updateResources", "upgradeCharms",
                 "upgradeUsers", "upgradeModelUsers", "upgradeMachines", "updateAgentTools"}
  BY ONLY pc \in AfterController \ Writing
     DEF AfterController, Stages, Follows, Writing, GlobalKeyed, Reserving
<1> QED
  BY <1>1, <1>2, <1>3, <1>4, <1>5, <1>6, <1>7, <1>8

-----------------------------------------------------------------------------
(* What may be written before a controller is recorded.                    *)

\* updateController and clean-db take nothing that a stage claims.
LEMMA FirstDiscreet ==
  ASSUME NEW O, \/ \E d, u : O = UpdateControllerOps(d, u)
                \/ About(O, {"cleanups"})
  PROVE  Discreet(O)
<1>1. ASSUME NEW op \in O
      PROVE  \/ op.c \in {"cleanups", "clouds", "cloudCredentials", "controllers", "controllerusers"}
             \/ op.c = "permissions" /\ op.id[1] = "c"
  <2>1. CASE About(O, {"cleanups"})
    BY <2>1 DEF About
  <2>2. ASSUME NEW d, NEW u, O = UpdateControllerOps(d, u)
        PROVE  \/ op.c \in {"clouds", "cloudCredentials", "controllers", "controllerusers"}
               \/ op.c = "permissions" /\ op.id[1] = "c"
    <3>1. \A c, id, doc, by : /\ InsertOp(c, id, doc, by).c = c
                             /\ InsertOp(c, id, doc, by).id = id
      BY DEF InsertOp
    <3>2. \A c, id, set, unset : UpdateOp(c, id, set, unset).c = c
      BY DEF UpdateOp
    <3>3. <<"c", u, "us", AdminUser>>[1] = "c"
      OBVIOUS
    <3> QED
      BY <2>2, <3>1, <3>2, <3>3 DEF UpdateControllerOps
  <2> QED
    BY <2>1, <2>2
<1>2. ASSUME NEW op,
             \/ op.c \in {"cleanups", "clouds", "cloudCredentials", "controllers", "controllerusers"}
             \/ op.c = "permissions" /\ op.id[1] = "c"
      PROVE  Unobtrusive(op) /\ \A s : Spares(op, SettingAt(b7, s))
  <2>1. op.c \notin {"settings", "services", "applications", "statuses", "units"}
                   \cup GlobalKeyed \cup ApplicationKeyed \cup Provided
    BY <1>2 DEF GlobalKeyed, ApplicationKeyed, Provided
  <2>2. \A s : SettingAt(b7, s)[1] = "settings"
    BY DEF SettingAt
  <2> QED
    BY <1>2, <2>1, <2>2 DEF Unobtrusive, SparesServices, Spares, Touches
<1> QED
  BY <1>1, <1>2 DEF Discreet

LEMMA DiscreetPart ==
  ASSUME NEW O, Discreet(O), NEW S \in SUBSET O
  PROVE  Discreet(S)
  BY DEF Discreet

\* It leaves the database as accommodating as it was.
LEMMA DiscreetKeeps ==
  ASSUME DOMAIN db = Collections, NEW O, Discreet(O)
  PROVE  /\ \A s \in Claiming : Fit(db, s) => Fit(Apply(db, O), s)
         /\ \A s \in FoundCredentials :
              Filled(db, SettingAt(b7, s)) => Filled(Apply(db, O), SettingAt(b7, s))
<1>1. \A s \in Claiming : Fit(db, s) => Fit(Apply(db, O), s)
  BY UnobtrusiveFit DEF Discreet
<1>2. ASSUME NEW s \in FoundCredentials, Filled(db, SettingAt(b7, s))
      PROVE  Filled(Apply(db, O), SettingAt(b7, s))
  <2>1. SettingAt(b7, s)[1] \in DOMAIN db
    BY DEF SettingAt, Collections
  <2>2. \A op \in O : Spares(op, SettingAt(b7, s))
    BY DEF Discreet
  <2> QED
    BY <1>2, <2>1, <2>2, PlaceStays
<1> QED
  BY <1>1, <1>2

\* The transaction of a running command, before a controller is recorded.
LEMMA EarlyOps ==
  ASSUME IdentityInv, OneRunMigrates, Running, InHand, CleansOnly, RecordedUUIDs(db) = {},
         live, inTxn
  PROVE  /\ Discreet(ops)
         /\ \/ pc = "updateController" /\ Founds(ops, uuid) /\ uuid \in Runs
            \/ pc = "removeCleanups" /\ SparesFounded(ops)
<1>1. pc \in {"updateController", "removeCleanups"}
  BY DEF Running, Transacting, OneRunMigrates
<1>2. CASE pc = "updateController"
  <2>1. ops = UpdateControllerOps(db, uuid)
    BY <1>2 DEF InHand, ReadFor
  <2>2. uuid \in Runs
    BY DEF IdentityInv, ProcessInv, TypeOK, ProcessOK, Runs
  <2> QED
    BY <1>2, <2>1, <2>2, FirstDiscreet, UpdateControllerFounds
<1>3. CASE pc = "removeCleanups"
  <2>1. About(ops, {"cleanups"})
    BY <1>3 DEF CleansOnly, About
  <2> QED
    BY <1>3, <2>1, FirstDiscreet DEF About, SparesFounded, Founded
<1> QED
  BY <1>1, <1>2, <1>3

-----------------------------------------------------------------------------
(* The steps of the upgrade.                                               *)

\* The steps that change neither the documents nor the transactions, and those that
\* happen only once a controller is recorded.
LEMMA EarlySteps ==
  ASSUME IdentityInv, OneRunMigrates, Running, RecordedUUIDs(db) = {},
         \/ StageReads \/ Quits \/ StagePrepares \/ StageCompletes
         \/ StageRenames \/ StageFinishes \/ DryRunTransaction \/ Commit
  PROVE  \/ UNCHANGED <<db, txns>>
         \/ StagePrepares
         \/ StageCompletes
         \/ live /\ inTxn /\ (Commit \/ LeavesBehind)
<1>1. ~(live /\ pc \in AfterController)
  BY DEF OneRunMigrates
<1>2. ~StageRenames
  BY <1>1 DEF StageRenames, AfterController, Stages, Follows
<1>3. StageFinishes => UNCHANGED <<db, txns>>
  BY <1>1 DEF StageFinishes, Writing, AfterController, Stages, Follows
<1>4. StageReads \/ DryRunTransaction => UNCHANGED <<db, txns>>
  BY DEF StageReads, DryRunTransaction, disk
<1>5. Commit => live /\ inTxn
  BY DEF Commit, CanRun
<1>6. Quits => UNCHANGED <<db, txns>> \/ (live /\ inTxn /\ LeavesBehind)
  BY DEF Quits
<1> QED
  BY <1>2, <1>3, <1>4, <1>5, <1>6

\* What the database accepts it goes on to accept.
LEMMA ClaimedStep ==
  ASSUME IdentityInv, OneRunMigrates, Running, InHand, CleansOnly, NothingClaimed,
         RecordedUUIDs(db) \subseteq RecordedUUIDs(db'), b7' = b7,
         \/ StageReads \/ Quits \/ StagePrepares \/ StageCompletes
         \/ StageRenames \/ StageFinishes \/ DryRunTransaction \/ Commit
  PROVE  NothingClaimed'
<1> SUFFICES ASSUME RecordedUUIDs(db') = {}
             PROVE  /\ \A stage \in Accepted : Fit(db', stage)
                    /\ \A s \in FoundCredentials : Filled(db', SettingAt(b7, s))
                    /\ \A t \in txns' : Discreet(t.ops)
  BY DEF NothingClaimed, Accepted, FoundCredentials, Discreet
<1>0. /\ RecordedUUIDs(db) = {} /\ DOMAIN db = Collections
      /\ Accepted \subseteq Claiming
      /\ \A stage \in Accepted : Fit(db, stage)
      /\ \A s \in FoundCredentials : Filled(db, SettingAt(b7, s))
      /\ \A t \in txns : Discreet(t.ops)
  BY DEF NothingClaimed, IdentityInv, ProcessInv, TypeOK, DiskOK, Accepted
<1>1. ASSUME NEW O, Discreet(O), db' = Apply(db, O)
      PROVE  /\ \A stage \in Accepted : Fit(db', stage)
             /\ \A s \in FoundCredentials : Filled(db', SettingAt(b7, s))
  BY <1>0, <1>1, DiscreetKeeps
<1>2. CASE UNCHANGED <<db, txns>>
  BY <1>0, <1>2
<1>3. CASE StagePrepares
  <2>1. txns' = txns
    BY <1>3 DEF StagePrepares
  <2>2. PICK c, ids : /\ c \in {"controllers", "models"}
                      /\ db' = db \/ db' = ClearQueues(db, c, ids)
    BY <1>3 DEF StagePrepares
  <2>3. \A stage \in Accepted : Fit(ClearQueues(db, c, ids), stage)
    BY <1>0, <2>2, ClearFit
  <2>4. \A s \in FoundCredentials : Filled(ClearQueues(db, c, ids), SettingAt(b7, s))
    <3>1. Unmoved(db, ClearQueues(db, c, ids))
      BY <1>0, <2>2, ClearUnmoved DEF Collections
    <3> QED
      BY <1>0, <3>1, PlacesOK DEF Unmoved
  <2> QED
    BY <1>0, <2>1, <2>2, <2>3, <2>4
<1>4. CASE StageCompletes
  <2>1. PICK t \in txns : Complete(t)
    BY <1>4 DEF StageCompletes
  <2>2. txns' \subseteq txns /\ (db' = db \/ \E S \in SUBSET t.ops : db' = Apply(db, S))
    BY <2>1 DEF Complete
  <2>3. \A S \in SUBSET t.ops : Discreet(S)
    BY <1>0, DiscreetPart
  <2> QED
    BY <1>0, <1>1, <2>2, <2>3
<1>5. CASE live /\ inTxn /\ (Commit \/ LeavesBehind)
  <2>1. Discreet(ops) /\ \A S \in SUBSET ops : Discreet(S)
    BY <1>0, <1>5, EarlyOps, DiscreetPart
  <2>2. CASE Commit
    BY <1>0, <1>1, <2>1, <2>2 DEF Commit
  <2>3. CASE LeavesBehind
    <3>1. PICK done \in SUBSET ops : db' = db \/ db' = Apply(db, done)
      BY <2>3, LeftBehind
    <3>2. \A t \in txns' : t \in txns \/ t.ops = ops
      BY <2>3, LeftBehind
    <3> QED
      BY <1>0, <1>1, <2>1, <3>1, <3>2
  <2> QED
    BY <1>5, <2>2, <2>3
<1> QED
  BY <1>0, <1>2, <1>3, <1>4, <1>5, EarlySteps

\* A founding transaction that is carried out leaves a UUID recorded.
LEMMA FoundedSeats ==
  ASSUME IdentityInv, RecordedUUIDs(db) = {}, RecordedUUIDs(db') = {},
         NEW t \in txns, Complete(t), NEW u \in Runs, Founds(t.ops, u)
  PROVE  db' = db /\ ~t.applying
<1>0. DOMAIN db = Collections /\ SettingsNamed /\ HalfFounded
  BY DEF IdentityInv, IdentityKept, ProcessInv, TypeOK, DiskOK
<1>1. ASSUME NEW O \in SUBSET t.ops, Seated(db, u) \/ \E op \in O : IsFounding(op), db' = Apply(db, O)
      PROVE  FALSE
  <2>1. Records(O, u)
    BY RecordsAdds DEF Founds
  <2>2. Seated(Apply(db, O), u)
    BY <1>0, <1>1, <2>1, FounderSettles
  <2> QED
    BY <1>1, <2>2, SeatedRecorded
<1>2. \E op \in t.ops : IsFounding(op)
  BY DEF Founds
<1>3. t.applying => Seated(db, u) \/ \E op \in t.ops \ t.done : IsFounding(op)
  BY <1>0 DEF HalfFounded
<1> QED
  BY <1>1, <1>2, <1>3 DEF Complete

\* The clouds, the credentials and the users of the controller come with its settings.
LEMMA FoundedStep ==
  ASSUME IdentityInv, OneRunMigrates, Running, InHand, CleansOnly, NothingFounded,
         RecordedUUIDs(db) \subseteq RecordedUUIDs(db'),
         \/ StageReads \/ Quits \/ StagePrepares \/ StageCompletes
         \/ StageRenames \/ StageFinishes \/ DryRunTransaction \/ Commit
  PROVE  NothingFounded'
<1> SUFFICES ASSUME RecordedUUIDs(db') = {}
             PROVE  /\ \/ \A c \in Founded : DOMAIN db'[c] = {}
                       \/ \E t \in txns' : \E u \in Runs : t.applying /\ Founds(t.ops, u)
                    /\ \A t \in txns' : SparesFounded(t.ops) \/ \E u \in Runs : Founds(t.ops, u)
  BY DEF NothingFounded
<1>0. /\ RecordedUUIDs(db) = {} /\ DOMAIN db = Collections /\ Founded \subseteq DOMAIN db
      /\ \/ \A c \in Founded : DOMAIN db[c] = {}
         \/ \E t \in txns : \E u \in Runs : t.applying /\ Founds(t.ops, u)
      /\ \A t \in txns : SparesFounded(t.ops) \/ \E u \in Runs : Founds(t.ops, u)
  BY DEF NothingFounded, IdentityInv, ProcessInv, TypeOK, DiskOK, Founded, Collections
<1>1. ASSUME NEW O, SparesFounded(O), NEW S \in SUBSET O
      PROVE  \A c \in Founded : Apply(db, S)[c] = db[c]
  BY <1>0, <1>1, ApplyElsewhere DEF SparesFounded
<1>2. CASE UNCHANGED <<db, txns>>
  BY <1>0, <1>2
<1>3. CASE StagePrepares
  <2>1. \A c \in {"controllers", "models"} : \A ids : \A k \in Founded : ClearQueues(db, c, ids)[k] = db[k]
    BY <1>0 DEF ClearQueues, Founded
  <2>2. txns' = txns /\ \A k \in Founded : db'[k] = db[k]
    BY <1>3, <2>1 DEF StagePrepares
  <2> QED
    BY <1>0, <2>2
<1>4. CASE StageCompletes
  <2>1. PICK t \in txns : Complete(t)
    BY <1>4 DEF StageCompletes
  <2>2. txns' = txns \ {t} /\ (db' = db \/ \E S \in SUBSET t.ops : db' = Apply(db, S))
    BY <2>1 DEF Complete
  <2>3. CASE \E u \in Runs : Founds(t.ops, u)
    <3>1. db' = db /\ ~t.applying
      BY <1>0, <2>1, <2>3, FoundedSeats
    <3> QED
      BY <1>0, <2>2, <3>1
  <2>4. CASE ~\E u \in Runs : Founds(t.ops, u)
    <3>1. \A c \in Founded : db'[c] = db[c]
      BY <1>0, <1>1, <2>2, <2>4
    <3> QED
      BY <1>0, <2>2, <2>4, <3>1
  <2> QED
    BY <2>3, <2>4
<1>5. CASE live /\ inTxn /\ (Commit \/ LeavesBehind)
  <2>1. \/ pc = "updateController" /\ Founds(ops, uuid) /\ uuid \in Runs
        \/ pc = "removeCleanups" /\ SparesFounded(ops)
    BY <1>0, <1>5, EarlyOps
  <2>2. CASE Commit
    <3>1. db' = Apply(db, ops) /\ txns' = txns
      BY <2>2 DEF Commit
    <3>2. ~Founds(ops, uuid)
      <4>1. SettingsNamed
        BY DEF IdentityInv, IdentityKept
      <4>2. ASSUME Founds(ops, uuid)
            PROVE  Seated(db', uuid)
        <5>1. Records(ops, uuid) /\ \E op \in ops : IsFounding(op)
          BY <4>2 DEF Founds
        <5> QED
          BY <1>0, <3>1, <4>1, <5>1, FounderSettles
      <4> QED
        BY <4>2, SeatedRecorded
    <3>3. \A c \in Founded : db'[c] = db[c]
      BY <1>1, <2>1, <3>1, <3>2
    <3> QED
      BY <1>0, <3>1, <3>3
  <2>3. CASE LeavesBehind
    <3>1. txns \subseteq txns' /\ \A t \in txns' : t \in txns \/ t.ops = ops
      BY <2>3, LeftBehind
    <3>2. CASE db' = db
      BY <1>0, <2>1, <3>1, <3>2
    <3>3. ASSUME NEW done \in SUBSET ops, db' = Apply(db, done),
                 txns' = txns \cup {[ops |-> ops, done |-> done, applying |-> TRUE]}
          PROVE  \/ \A c \in Founded : DOMAIN db'[c] = {}
                 \/ \E t \in txns' : \E u \in Runs : t.applying /\ Founds(t.ops, u)
      <4>1. CASE Founds(ops, uuid) /\ uuid \in Runs
        <5> DEFINE left == [ops |-> ops, done |-> done, applying |-> TRUE]
        <5>1. left \in txns' /\ left.applying /\ left.ops = ops
          BY <3>3
        <5> HIDE DEF left
        <5>2. left.applying /\ Founds(left.ops, uuid)
          BY <4>1, <5>1
        <5> QED
          BY <4>1, <5>1, <5>2
      <4>2. CASE SparesFounded(ops)
        <5>1. \A c \in Founded : db'[c] = db[c]
          BY <1>1, <3>3, <4>2
        <5> QED
          BY <1>0, <3>1, <5>1
      <4> QED
        BY <2>1, <4>1, <4>2
    <3> QED
      BY <1>0, <2>1, <2>3, <3>1, <3>2, <3>3 DEF LeavesBehind
  <2> QED
    BY <1>5, <2>2, <2>3
<1> QED
  BY <1>0, <1>2, <1>3, <1>4, <1>5, EarlySteps

\* A live upgrade past updateController stays there until it ends.
LEMMA StaysLate ==
  ASSUME live, pc \in AfterController \cup {"updateController"}, Continue
  PROVE  pc' = "idle" \/ (live' /\ pc' \in AfterController)
<1>1. CASE NextStage(pc) = "done"
  BY <1>1 DEF Continue, Exit
<1>2. CASE NextStage(pc) # "done"
  <2>1. pc' = Follows[pc] /\ live'
    BY <1>2 DEF Continue, NextStage
  <2>2. Follows[pc] # "done"
    BY <1>2 DEF NextStage
  <2> QED
    BY <2>1, <2>2 DEF AfterController, Stages, Follows
<1> QED
  BY <1>1, <1>2

\* The UUID of a command is recorded by updateController and by nothing before.
LEMMA FreshStep ==
  ASSUME IdentityInv, Running, FreshUUID,
         \/ StageReads \/ Quits \/ StagePrepares \/ StageCompletes
         \/ StageRenames \/ StageFinishes \/ DryRunTransaction \/ Commit
  PROVE  FreshUUID'
<1> SUFFICES ASSUME pc' # "idle", ~(live' /\ pc' \in AfterController)
             PROVE  /\ uuid' \notin RecordedUUIDs(db')
                    /\ \A t \in txns' : \A op \in t.ops : uuid' \notin OpUUIDs(op)
  BY DEF FreshUUID
<1>0. DOMAIN db = Collections /\ "idle" \notin Stages
  BY IdleNoStage DEF IdentityInv, ProcessInv, TypeOK, DiskOK
<1>1. ASSUME pc \in Stages, ~(live /\ pc \in AfterController), uuid' = uuid
      PROVE  /\ uuid' \notin RecordedUUIDs(db)
             /\ \A t \in txns : \A op \in t.ops : uuid' \notin OpUUIDs(op)
  BY <1>0, <1>1 DEF FreshUUID
<1>2. ASSUME Continue
      PROVE  uuid' = uuid /\ live' = live
  BY <1>2 DEF Continue, Exit
<1>3. CASE StageReads
  <2>1. pc \in Stages /\ UNCHANGED <<db, txns, pc, live, uuid>>
    BY <1>3 DEF StageReads, Transacting, AfterController, Stages, Follows
  <2> QED
    BY <1>1, <2>1
<1>4. ~Quits
  BY DEF Quits, Exit
<1>5. CASE StagePrepares
  <2>1. /\ pc \in Stages \ AfterController /\ txns' = txns /\ uuid' = uuid
    BY <1>2, <1>5 DEF StagePrepares
  <2>2. PICK c, ids : /\ c \in {"controllers", "models"}
                      /\ db' = db \/ db' = ClearQueues(db, c, ids)
    BY <1>5 DEF StagePrepares
  <2>3. RecordedUUIDs(db') \subseteq RecordedUUIDs(db)
    BY <1>0, <2>2, ClearQuiet DEF Collections, Quiet
  <2> QED
    BY <1>1, <2>1, <2>3
<1>6. CASE StageCompletes
  <2>1. pc \in Stages /\ UNCHANGED <<pc, live, uuid>>
    BY <1>6 DEF StageCompletes
  <2>2. PICK t \in txns : Complete(t)
    BY <1>6 DEF StageCompletes
  <2>3. txns' \subseteq txns /\ (db' = db \/ \E S \in SUBSET t.ops : db' = Apply(db, S))
    BY <2>2 DEF Complete
  <2>4. ASSUME NEW S \in SUBSET t.ops, db' = Apply(db, S)
        PROVE  uuid' \notin RecordedUUIDs(db')
    <3> DEFINE U == UNION {OpUUIDs(op) : op \in t.ops}
    <3>1. \A op \in S : OpUUIDs(op) \subseteq U
      OBVIOUS
    <3>2. uuid' \notin U
      BY <1>1, <2>1
    <3> HIDE DEF U
    <3>3. RecordedUUIDs(Apply(db, S)) \subseteq RecordedUUIDs(db) \cup U
      BY <1>0, <3>1, OperationsRecord
    <3> QED
      BY <1>1, <2>1, <2>4, <3>2, <3>3
  <2> QED
    BY <1>1, <2>1, <2>3, <2>4
<1>7. ~StageRenames
  BY DEF StageRenames, AfterController, Stages, Follows
<1>8. CASE StageFinishes \/ Commit
  <2>1. Continue /\ txns' = txns
    BY <1>8 DEF StageFinishes, Commit
  <2>2. ~(live /\ pc \in AfterController \cup {"updateController"})
    BY <2>1, StaysLate
  <2>3. CASE StageFinishes
    <3>1. pc \in Stages /\ pc \in AfterController
      BY <2>3 DEF StageFinishes, Writing, AfterController, Stages, Follows
    <3>2. db' = db
      BY <2>2, <2>3, <3>1 DEF StageFinishes
    <3> QED
      BY <1>1, <1>2, <2>1, <2>2, <3>1, <3>2
  <2>4. CASE Commit
    <3>1. pc = "removeCleanups"
      BY <2>2, <2>4 DEF Commit, CanRun, Running, Transacting
    <3>2. pc' = "idle"
      BY <2>1, <3>1 DEF Continue, NextStage, Follows, Exit
    <3> QED
      BY <3>2
  <2> QED
    BY <1>8, <2>3, <2>4
<1>9. CASE DryRunTransaction
  <2>1. inTxn /\ ~live /\ Continue /\ UNCHANGED <<db, txns>>
    BY <1>9 DEF DryRunTransaction, disk
  <2>2. pc \in Stages
    BY <2>1 DEF Running, Transacting, AfterController, Stages, Follows
  <2> QED
    BY <1>1, <1>2, <2>1, <2>2
<1> QED
  BY <1>3, <1>4, <1>5, <1>6, <1>7, <1>8, <1>9

\* clean-db reads the cleanups and asserts nothing of them.
LEMMA CleansStep ==
  ASSUME CleansFreely,
         \/ StageReads \/ Quits \/ StagePrepares \/ StageCompletes
         \/ StageRenames \/ StageFinishes \/ DryRunTransaction \/ Commit
  PROVE  CleansFreely'
<1>1. ASSUME Continue \/ \E how : Exit(how) PROVE inTxn' = FALSE
  BY <1>1 DEF Continue, Exit
<1>2. CASE StageReads
  <2>1. pc' = pc /\ (pc = "removeCleanups" => ops' = RemoveCleanupsOps(db))
    BY <1>2 DEF StageReads
  <2>2. \A op \in RemoveCleanupsOps(db) : op.c = "cleanups" /\ op.assert = "none"
    BY DEF RemoveCleanupsOps, RemoveAnyOp
  <2> QED
    BY <2>1, <2>2 DEF CleansFreely
<1>3. CASE StageCompletes \/ StageRenames
  BY <1>3 DEF CleansFreely, StageCompletes, StageRenames
<1>4. CASE Quits \/ StagePrepares \/ StageFinishes \/ DryRunTransaction \/ Commit
  <2>1. inTxn' = FALSE
    BY <1>1, <1>4 DEF Quits, StagePrepares, StageFinishes, DryRunTransaction, Commit
  <2> QED
    BY <2>1 DEF CleansFreely
<1> QED
  BY <1>2, <1>3, <1>4

\* Where nothing is done that claims anything.
LEMMA StoppedClaims ==
  ASSUME IdentityInv, CleanupsOfCleanDB, Running,
         \/ Quits \/ DryRunTransaction \/ (StageFinishes /\ ~live)
         \/ StagePrepares \/ StageCompletes \/ (Commit /\ pc = "removeCleanups")
  PROVE  ClaimsWait'
<1> SUFFICES ~Done("updateController")'
  BY DEF ClaimsWait
<1>1. CASE Quits
  <2>1. pc' = "idle" /\ ~Succeeded'
    BY <1>1 DEF Quits, Exit, Succeeded
  <2> QED
    BY <2>1, EarlyNothing
<1>2. CASE DryRunTransaction \/ (StageFinishes /\ ~live)
  <2>1. ~live'
    BY <1>2 DEF DryRunTransaction, StageFinishes, Continue, Exit
  <2> QED
    BY <2>1, EarlyNothing
<1>3. CASE StagePrepares \/ (Commit /\ pc = "removeCleanups")
  <2>1. Continue /\ pc \in Stages \ (AfterController \cup {"updateController"})
    BY <1>3 DEF StagePrepares, Commit, Stages, Follows, AfterController
  <2> QED
    BY <2>1, StillEarly, EarlyNothing
<1>4. CASE StageCompletes
  <2>1. /\ live /\ pc \in Stages /\ UNCHANGED <<pc, exit>> /\ txns # {}
    BY <1>4 DEF StageCompletes
  <2>2. pc \notin AfterResume
    BY <2>1 DEF IdentityInv, IdentityOwned, NothingPending
  <2>3. pc \notin AfterController /\ exit = "running"
    BY <2>1, <2>2, IdleNoStage DEF AfterResume, AfterController, Running
  <2> QED
    BY <2>1, <2>3, EarlyNothing
<1> QED
  BY <1>1, <1>2, <1>3, <1>4

LEMMA ClaimingStages == Claiming \subseteq Stages /\ "updateController" \in Stages
  BY DEF Claiming, Stages, Follows, GlobalKeyed, Reserving

\* updateController takes nothing that the stages after it will claim.
LEMMA ControllerClaims ==
  ASSUME IdentityInv, OneRunMigrates, Running, InHand, CleansOnly, NothingClaimed,
         Commit, pc = "updateController"
  PROVE  ClaimsWait'
<1>1. /\ RecordedUUIDs(db) = {} /\ DOMAIN db = Collections /\ live /\ inTxn
      /\ db' = Apply(db, ops) /\ b7' = b7
  BY FirstToRecord DEF IdentityInv, ProcessInv, TypeOK, DiskOK, Commit, CanRun, Continue, Exit
<1>2. Discreet(ops)
  BY <1>1, EarlyOps
<1>3. \A stage \in Accepted : Fit(db', stage)
  BY <1>1, <1>2, DiscreetKeeps DEF NothingClaimed, Accepted
<1>4. Accepted' = Accepted
  BY <1>1 DEF Accepted
<1> QED
  BY <1>3, <1>4 DEF ClaimsWait

\* A late stage takes what is its own.
LEMMA LateClaims ==
  ASSUME ProcessInv, CleanupsOfCleanDB, Running, ProviderIDsWait, ClaimsWait, LateStep
  PROVE  ClaimsWait'
<1>1. live /\ Continue /\ pc \in AfterController /\ pc \in Stages
  BY DEF LateStep, Commit, StageFinishes, AfterController
<1>2. Accepted' = Accepted
  BY <1>1 DEF Accepted, Continue, Exit
<1>3. CASE \A s \in Stages : ~Done(s)'
  BY <1>3, ClaimingStages DEF ClaimsWait
<1>4. CASE \A s \in Stages : Done(s)' <=> Done(s) \/ s = pc
  <2>1. ASSUME NEW s \in Accepted, ~Done(s)'
        PROVE  Fit(db', s)
    <3>1. s \in Claiming /\ s \in Stages
      BY ClaimingStages DEF Accepted
    <3>2. ~Done(s) /\ s # pc
      BY <1>4, <2>1, <3>1
    <3>3. Fit(db, s)
      BY <1>1, <3>2, LateDone DEF ClaimsWait
    <3> QED
      BY <3>1, <3>2, <3>3, LateFit
  <2> QED
    BY <1>2, <2>1 DEF ClaimsWait
<1> QED
  BY <1>1, <1>3, <1>4, DoneNext

\* What a running command relies on.
LEMMA ClaimsStep ==
  ASSUME IdentityInv, OneRunMigrates, CleanupsOfCleanDB, Running, InHand, CleansOnly,
         ProviderIDsWait, NothingClaimed, ClaimsWait,
         \/ StageReads \/ Quits \/ StagePrepares \/ StageCompletes
         \/ StageRenames \/ StageFinishes \/ DryRunTransaction \/ Commit
  PROVE  ClaimsWait'
<1>0. ProcessInv
  BY DEF IdentityInv
<1>1. CASE StageReads \/ StageRenames
  <2>1. UNCHANGED <<pc, cmd, live, exit, b7>>
    BY <1>1 DEF StageReads, StageRenames
  <2>2. \A s : Done(s)' <=> Done(s)
    BY <2>1 DEF Done, Progress, Succeeded
  <2>3. Accepted' = Accepted
    BY <2>1 DEF Accepted
  <2>4. ASSUME NEW s \in Claiming, Fit(db, s)
        PROVE  Fit(db', s)
    <3>1. CASE StageReads
      BY <2>4, <3>1 DEF StageReads
    <3>2. CASE StageRenames
      <4>1. pc = "statusHistory" /\ pc \in AfterController /\ Writes[pc] = {"statuseshistory"}
        BY <3>2 DEF StageRenames, AfterController, Stages, Follows, Writes
      <4>2. \A c \in Collections \ {"statuseshistory"} : db'[c] = db[c]
        BY <1>0, <3>2, <4>1, WritesOnly
      <4>3. \A c \in Claims(s) : c \in Collections \ {"statuseshistory"}
        BY DEF Claims, Claiming, Writes, Collections, GlobalKeyed, Reserving, Provided
      <4> QED
        BY <2>4, <4>2, <4>3, FitSame
    <3> QED
      BY <1>1, <3>1, <3>2
  <2> QED
    BY <2>2, <2>3, <2>4 DEF ClaimsWait, Accepted
<1>2. CASE StageFinishes /\ live
  <2>1. LateStep
    BY <1>2 DEF LateStep, StageFinishes, Writing, AfterController, Stages, Follows
  <2> QED
    BY <1>0, <2>1, LateClaims
<1>3. CASE Commit
  <2>1. pc \in Transacting /\ live /\ inTxn
    BY <1>3 DEF Commit, CanRun, Running
  <2>2. CASE pc \in AfterController \ Writing
    <3>1. LateStep
      BY <1>3, <2>1, <2>2 DEF LateStep, InHand, AfterController
    <3> QED
      BY <1>0, <3>1, LateClaims
  <2> QED
    BY <1>3, <2>1, <2>2, ControllerClaims, StoppedClaims DEF Transacting
<1> QED
  BY <1>1, <1>2, <1>3, StoppedClaims

\* Every step keeps the invariant.
LEMMA FirstRunStep ==
  ASSUME IdentityInv, PromiseInv, OneRunMigrates, StagesInv, HomesInv, FirstRunInv, [Next]_vars
  PROVE  FirstRunInv'
<1>0. /\ ProcessInv /\ Running /\ InHand /\ CleanupsOfCleanDB /\ CleansOnly /\ ProviderIDsWait
      /\ FreshUUID /\ NothingClaimed /\ NothingFounded /\ ClaimsWait /\ CleansFreely /\ UUIDsGiven
  BY DEF IdentityInv, HomesInv, HomesWait, StagesInv, PromiseInv, FirstRunInv
<1>1. ASSUME NEW command \in DOMAIN FirstStage, NEW forReal \in BOOLEAN,
             Start(command, forReal)
      PROVE  FirstRunInv'
  <2>1. /\ UNCHANGED <<db, txns, b7, inTxn>> /\ uuid' = uuid + 1 /\ pc = "idle"
        /\ exit' = "running" /\ pc' \in Stages \ AfterController
    <3>1. exit' = "running" /\ pc' \in Stages \ AfterController
      BY <1>1 DEF Start, FirstStage, AfterController, Stages, Follows
    <3> QED
      BY <1>1, <3>1 DEF Start, disk
  <2>2. FreshUUID'
    <3>1. uuid \in Nat
      <4>1. uuid \in 0..MaxRuns
        BY <1>0 DEF ProcessInv, TypeOK, ProcessOK
      <4> QED
        BY <4>1, MaxRunsAssumption
    <3>2. uuid' \notin 1..uuid
      BY <2>1, <3>1
    <3> QED
      BY <1>0, <2>1, <3>2 DEF UUIDsGiven, GivenBy, FreshUUID
  <2>3. NothingClaimed' /\ NothingFounded'
    BY <1>0, <2>1 DEF NothingClaimed, NothingFounded, Accepted, FoundCredentials, Discreet
  <2>4. ClaimsWait'
    BY <2>1, EarlyNothing DEF ClaimsWait
  <2>5. CleansFreely'
    BY <1>0, <2>1, IdleNoStage DEF ProcessInv, CleansFreely
  <2> QED
    BY <2>2, <2>3, <2>4, <2>5 DEF FirstRunInv
<1>2. CASE Step \/ Failure
  <2>1. \/ StageReads \/ Quits \/ StagePrepares \/ StageCompletes
        \/ StageRenames \/ StageFinishes \/ DryRunTransaction \/ Commit
    BY <1>0, <1>2, StageKinds
  <2>2. RecordedUUIDs(db) \subseteq RecordedUUIDs(db')
    <3>1. SameUUIDs(db, db')
      BY <1>2, IdentityStep DEF Keeps, Next
    <3> QED
      BY <3>1, RecordedStay
  <2>3. b7' = b7
    BY <2>1 DEF StageReads, Quits, StagePrepares, StageCompletes, StageRenames, StageFinishes,
           DryRunTransaction, Commit, Continue, Exit
  <2>4. FreshUUID'
    BY <1>0, <2>1, FreshStep
  <2>5. NothingClaimed'
    BY <1>0, <2>1, <2>2, <2>3, ClaimedStep
  <2>6. NothingFounded'
    BY <1>0, <2>1, <2>2, FoundedStep
  <2>7. ClaimsWait'
    BY <1>0, <2>1, ClaimsStep
  <2>8. CleansFreely'
    BY <1>0, <2>1, CleansStep
  <2> QED
    BY <2>4, <2>5, <2>6, <2>7, <2>8 DEF FirstRunInv
<1>3. CASE UNCHANGED vars
  <2>1. UNCHANGED <<db, txns, pc, cmd, live, uuid, ops, inTxn, exit, b7>>
    BY <1>3 DEF vars, disk
  <2>2. \A s : Done(s)' <=> Done(s)
    BY <2>1 DEF Done, Progress, Succeeded
  <2>3. FreshUUID' /\ CleansFreely'
    BY <1>0, <2>1 DEF FreshUUID, CleansFreely
  <2>4. NothingClaimed' /\ NothingFounded'
    BY <1>0, <2>1 DEF NothingClaimed, NothingFounded, Accepted, FoundCredentials, Discreet
  <2>5. ClaimsWait'
    BY <1>0, <2>1, <2>2 DEF ClaimsWait, Accepted
  <2> QED
    BY <2>3, <2>4, <2>5 DEF FirstRunInv
<1> QED
  BY <1>1, <1>2, <1>3 DEF Next, Finished

\* Initially nothing is claimed, and nothing is founded.
LEMMA FirstRunInit ==
  ASSUME Init
  PROVE  FirstRunInv
<1>1. PICK s \in B7States : db = s.db /\ txns = s.txns /\ b7 = s.db
  BY DEF Init
<1>2. ~live /\ pc = "idle" /\ ~inTxn
  BY DEF Init
<1>3. FreshUUID /\ CleansFreely
  BY <1>2 DEF FreshUUID, CleansFreely
<1>4. NothingClaimed
  <2>1. ASSUME NEW t \in txns, NEW op \in t.ops
        PROVE  Unobtrusive(op) /\ \A x \in FoundCredentials : Spares(op, SettingAt(b7, x))
    BY <1>1, FirstRunAssumption, ControllerAssumption DEF FoundCredentials
  <2> QED
    BY <1>1, <2>1 DEF NothingClaimed, Accepted, FoundCredentials, Discreet
<1>5. NothingFounded
  BY <1>1, FirstRunAssumption DEF NothingFounded
<1>6. ClaimsWait
  BY <1>2 DEF ClaimsWait, Done
<1> QED
  BY <1>3, <1>4, <1>5, <1>6 DEF FirstRunInv

\* Until updateController has recorded a UUID the database accepts what a first run
\* will ask of it, and a run past updateController finds everything it claims free.
THEOREM FirstRunInvariant == Spec => []FirstRunInv
<1>1. IdentityInv /\ PromiseInv /\ OneRunMigrates /\ StagesInv /\ HomesInv /\ FirstRunInv
        /\ [Next]_vars => FirstRunInv'
  BY FirstRunStep
<1> QED
  BY <1>1, FirstRunInit, IdentityInvariant, PromiseInvariant, OneMigration, StagesInvariant,
     HomesInvariant, PTL DEF Spec

-----------------------------------------------------------------------------
(* The runs that are refused.                                              *)

\* The panic of updateController.
Panics ==
  /\ At("updateController") /\ Exit("panic") /\ UNCHANGED disk
  /\ ControllerContext(db).cloud \in Clouds
  /\ ~HasSettingsOf(db, ControllerContext(db).cloud)

\* What ends a command so.
LEMMA Refusals ==
  ASSUME ProcessInv, Running, Step \/ Failure, exit' \in {"aborted", "panic"}
  PROVE  Abort \/ Panics
<1>0. pc \in Stages
  <2>1. \/ StageReads \/ Quits \/ StagePrepares \/ StageCompletes
        \/ StageRenames \/ StageFinishes \/ DryRunTransaction \/ Commit
    BY StageKinds
  <2>2. {"statusHistory"} \cup Writing \cup Transacting \subseteq Stages
    BY DEF Writing, Transacting, AfterController, Stages, Follows
  <2> QED
    BY <2>1, <2>2 DEF StageReads, Quits, StagePrepares, StageCompletes, StageRenames,
         StageFinishes, DryRunTransaction, Commit, CanRun, ProcessInv
<1>1. exit \notin {"aborted", "panic"}
  BY <1>0, IdleNoStage DEF Running
<1>2. Continue => exit' \notin {"aborted", "panic"}
  BY <1>1 DEF Continue, Exit
<1>3. \A how : Exit(how) => exit' = how
  BY DEF Exit
<1>4. \A stage, O : Reads(stage, O) => exit' = exit
  BY DEF Reads
<1>5. ASSUME \/ UpgradePrecheck \/ RepairTxnQueue \/ NothingToResume
             \/ \E t \in txns : ResumeTransaction(t)
             \/ ClearModelQueues \/ DropIndexes
      PROVE  FALSE
  BY <1>1, <1>2, <1>3, <1>5
     DEF UpgradePrecheck, RepairTxnQueue, NothingToResume, ResumeTransaction, ClearModelQueues,
         DropIndexes
<1>6. ASSUME UpdateController
      PROVE  Panics
  BY <1>1, <1>3, <1>6 DEF UpdateController, Panics
<1>7. ASSUME UpdateModels \/ RenameServiceToApplication
      PROVE  FALSE
  <2>1. UpdateModels => exit' = exit
    BY <1>4 DEF UpdateModels
  <2>2. MoveServices => exit' \in {exit, "error"}
    BY <1>3, <1>4 DEF MoveServices
  <2>3. UpdateLeases => exit' \in {exit, "error"}
    BY <1>3, <1>4 DEF UpdateLeases
  <2>4. \/ UpdateUnits \/ UpdateSequences \/ UpdateModelEntityRefs \/ UpdateRelations
        \/ UpdateResources \/ \E c \in GlobalKeyed : UpdateCollectionIDGlobalKey(c)
        => exit' = exit
    BY <1>4 DEF UpdateUnits, UpdateSequences, UpdateModelEntityRefs, UpdateRelations,
         UpdateResources, UpdateCollectionIDGlobalKey
  <2>5. UpdateStatusHistory => exit' \notin {"aborted", "panic"}
    BY <1>1, <1>2 DEF UpdateStatusHistory
  <2>6. DropServices \/ DropSettingsRefs \/ DropIPAddresses => Continue
    BY DEF DropServices, DropSettingsRefs, DropIPAddresses, DropCollection
  <2> QED
    BY <1>1, <1>2, <1>7, <2>1, <2>2, <2>3, <2>4, <2>5, <2>6 DEF RenameServiceToApplication
<1>8. ASSUME OtherSchemaUpgrades
      PROVE  FALSE
  <2>1. exit' = exit
    BY <1>4, <1>8
       DEF OtherSchemaUpgrades, UpgradeCharms, UpgradeUsers, UpgradeModelUsers, UpgradeMachines,
           UpgradeCloudImageMetadata, UpgradeSpaces, UpgradeSubnets, UpgradeLinkLayerDevices,
           UpgradeIPAddresses, UpdateAgentTools
  <2> QED
    BY <1>1, <2>1
<1>9. ASSUME AddTwoZeroBinariesToDB \/ RemoveCleanups
      PROVE  FALSE
  <2>1. RemoveCleanups => exit' = exit \/ Continue
    BY <1>4 DEF RemoveCleanups
  <2>2. AddTwoZeroBinariesToDB => Continue \/ Exit("error")
    BY DEF AddTwoZeroBinariesToDB, ReopenState, OpenTools, DropBlobIndex, AddTools
  <2> QED
    BY <1>1, <1>2, <1>3, <1>9, <2>1, <2>2
<1>10. ASSUME RunTransaction
       PROVE  Abort
  <2>1. DryRunTransaction \/ Commit => Continue
    BY DEF DryRunTransaction, Commit
  <2>2. StuckTransaction => Exit("error")
    BY DEF StuckTransaction, StopAtQueue
  <2>3. (\E t \in txns : FlushTransaction(t)) => Exit("error") \/ exit' = exit
    BY DEF FlushTransaction, StopAtQueue
  <2> QED
    BY <1>1, <1>2, <1>3, <1>10, <2>1, <2>2, <2>3 DEF RunTransaction
<1>11. ASSUME Failure
       PROVE  FALSE
  <2>1. Exit("failed")
    BY <1>11 DEF Failure, Fail, FailBeforeApply, FailWhileApplying
  <2> QED
    BY <1>3, <2>1
<1> QED
  BY <1>5, <1>6, <1>7, <1>8, <1>9, <1>10, <1>11 DEF Step

\* A first run finds the settings it needs.
LEMMA FirstFinds ==
  ASSUME NothingClaimed, LandmarksStay, FoundAsAssumed, RecordedUUIDs(db) = {},
         ControllerContext(db).cloud \in Clouds
  PROVE  HasSettingsOf(db, ControllerContext(db).cloud)
<1> DEFINE cloud == ControllerContext(b7).cloud
<1>1. PICK s \in B7States : b7 = s.db
  BY DEF FoundAsAssumed
<1>2. ControllerContext(db) = ControllerContext(b7)
  BY SameContext
<1>3. HasSettingsOf(b7, cloud)
  BY <1>1, <1>2, FirstRunAssumption
<1>4. SettingAt(b7, "type")[2] \in DOMAIN b7["settings"]
  <2>1. Filled(b7, SettingAt(b7, "type"))
    BY <1>1, ControllerAssumption DEF Landmarks
  <2> QED
    BY <2>1 DEF Filled, SettingAt
<1>5. ASSUME NEW x \in SettingsNeeded(cloud)
      PROVE  x \in DOMAIN ControllerModelSettings(db)
  <2>1. SettingAt(b7, x) = <<"settings", ModelSettingsID(ControllerModelUUID(b7)), x>>
    BY DEF SettingAt
  <2>2. Has(ControllerModelSettings(b7), x)
    BY <1>3 DEF HasSettingsOf, Has
  <2>3. Filled(b7, SettingAt(b7, x))
    BY <1>4, <2>1, <2>2 DEF Filled, SettingAt, ControllerModelSettings
  <2>4. x \in FoundCredentials
    BY <2>3 DEF FoundCredentials, Credentials
  <2>5. Filled(db, SettingAt(b7, x))
    BY <2>4 DEF NothingClaimed
  <2> QED
    BY <2>5, SameContext DEF Has
<1> QED
  BY <1>2, <1>5 DEF HasSettingsOf

\* A first run is not refused by updateController.
LEMMA FirstFounds ==
  ASSUME SettingsNamed, LandmarksStay, NothingFounded, RecordedUUIDs(db) = {}, txns = {}
  PROVE  Asserted(db, UpdateControllerOps(db, uuid))
<1> DEFINE cloud == ControllerContext(db).cloud
           owner == ControllerContext(db).owner
           cred == CredentialID(cloud, owner)
           perm == <<"c", uuid, "us", AdminUser>>
           O == UpdateControllerOps(db, uuid)
<1>1. ASSUME NEW op \in O
      PROVE  \/ op = UpdateOp("controllers", <<"e">>, Field("cloud", cloud), {})
             \/ /\ op.assert = "d-"
                /\ \/ op = InsertOp("clouds", <<cloud>>, CloudDoc(db, cloud), <<>>)
                   \/ op = InsertOp("cloudCredentials", cred, CredentialDoc(db, cloud, owner), <<>>)
                   \/ op = InsertOp("controllers", <<"controllerSettings">>,
                                    ControllerSettings(db, uuid), <<>>)
                   \/ op = InsertOp("permissions", perm,
                                    [access |-> "superuser", object |-> <<"c", uuid>>], <<>>)
                   \/ op = InsertOp("controllerusers", <<AdminUser>>,
                                    Field("object-uuid", uuid) ++ Field("user", AdminUser), <<>>)
  <2>1. \A c, id, doc : InsertOp(c, id, doc, <<>>).assert = "d-"
    BY DEF InsertOp
  <2> QED
    BY <1>1, <2>1 DEF UpdateControllerOps
<1>2. \A c, id, doc : InsertOp(c, id, doc, <<>>).c = c /\ InsertOp(c, id, doc, <<>>).id = id
  BY DEF InsertOp
<1>3. /\ UpdateOp("controllers", <<"e">>, Field("cloud", cloud), {}).c = "controllers"
      /\ UpdateOp("controllers", <<"e">>, Field("cloud", cloud), {}).id = <<"e">>
      /\ UpdateOp("controllers", <<"e">>, Field("cloud", cloud), {}).assert = "d+"
  BY DEF UpdateOp
<1> HIDE DEF O, cloud, owner, cred
<1>4. <<"e">> \in DOMAIN db["controllers"]
  BY DEF LandmarksStay, Landmarks, Filled
<1>5. <<"controllerSettings">> \notin DOMAIN db["controllers"]
  <2>1. ASSUME <<"controllerSettings">> \in DOMAIN db["controllers"]
        PROVE  FALSE
    <3>1. Seated(db, db["controllers"][<<"controllerSettings">>]["controller-uuid"])
      BY <2>1 DEF SettingsNamed, Seated
    <3> QED
      BY <3>1, SeatedRecorded
  <2> QED
    BY <2>1
<1>6. perm \notin DOMAIN db["permissions"]
  BY DEF RecordedUUIDs
<1>7. \A c \in Founded : DOMAIN db[c] = {}
  BY DEF NothingFounded
<1>8. <<"e">> # <<"controllerSettings">>
  OBVIOUS
<1> HIDE DEF perm
<1>9. ASSUME NEW op \in O
      PROVE  /\ op.assert = "d+" => op.id \in DOMAIN db[op.c]
             /\ op.assert = "d-" => op.id \notin DOMAIN db[op.c]
  BY <1>1, <1>2, <1>3, <1>4, <1>5, <1>6, <1>7 DEF Founded
<1>10. ASSUME NEW op \in O, NEW q \in O, op.assert = "d-", Touches(q, op.c, op.id)
       PROVE  q = op
  BY <1>1, <1>2, <1>3, <1>8, <1>10 DEF Touches
<1>11. Asserted(db, O)
  BY <1>9, <1>10 DEF Asserted
<1> QED
  BY <1>11 DEF O

\* Neither is it by a later stage, nor is clean-db by its own.
LEMMA LateNotRefused ==
  ASSUME Running, InHand, ClaimsWait, CleansFreely, live, inTxn, pc # "updateController",
         Claiming \subseteq Accepted
  PROVE  Asserted(db, ops)
<1>1. CASE pc = "removeCleanups"
  BY <1>1 DEF CleansFreely, Asserted
<1>2. CASE pc # "removeCleanups"
  <2>1. pc \in AfterController \ Writing /\ ReadFor
    BY <1>2 DEF Running, Transacting, InHand
  <2>2. Done("updateController") /\ ~Done(pc)
    BY <2>1, LateDone
  <2>3. pc \in Claiming => Fit(db, pc)
    BY <2>2 DEF ClaimsWait
  <2> QED
    BY <2>1, <2>3, FitAsserted
<1> QED
  BY <1>1, <1>2

\* A transaction of upgrade-db is refused, and a missing setting panics, only in a run
\* that finds the upgrade begun by an earlier one, provided that no two models have
\* cached the metadata of the same image.
THEOREM FirstRunsGoThrough ==
  ASSUME \A s \in B7States : ImagesApart(s.db)
  PROVE  Spec => []OnlyRepeatedRunsAbort
<1>1. Init => OnlyRepeatedRunsAbort
  BY DEF Init, OnlyRepeatedRunsAbort
<1>2. ASSUME IdentityInv, StagesInv, HomesInv, FoundAsAssumed, CredentialsInv, FirstRunInv,
             OnlyRepeatedRunsAbort, [Next]_vars
      PROVE  OnlyRepeatedRunsAbort'
  <2>0. /\ ProcessInv /\ Running /\ InHand /\ FreshUUID /\ NothingClaimed /\ NothingFounded
        /\ ClaimsWait /\ CleansFreely /\ SettingsNamed /\ NothingPending /\ LandmarksStay
    BY <1>2 DEF IdentityInv, IdentityKept, IdentityOwned, StagesInv, FirstRunInv, CredentialsInv
  <2>1. Claiming \subseteq Accepted
    <3>1. PICK s \in B7States : b7 = s.db
      BY <1>2 DEF FoundAsAssumed
    <3>2. \A stage \in Claiming : Fit(b7, stage)
      BY <3>1, FirstRunAssumption DEF ImagesApart
    <3> QED
      BY <3>2 DEF Accepted
  <2>2. CASE Abort
    <3>1. live /\ inTxn /\ ~Asserted(db, ops) /\ UNCHANGED <<db, uuid>>
      BY <2>2 DEF Abort, CanRun, disk, Exit
    <3>2. pc = "updateController"
      BY <2>0, <2>1, <3>1, LateNotRefused
    <3>3. /\ pc \in AfterResume /\ pc \notin AfterController /\ pc # "idle"
          /\ ops = UpdateControllerOps(db, uuid)
      BY <2>0, <3>1, <3>2 DEF InHand, ReadFor, AfterResume, AfterController, Stages, Follows
    <3>4. uuid \notin RecordedUUIDs(db)
      BY <2>0, <3>3 DEF FreshUUID
    <3>5. RecordedUUIDs(db) # {}
      BY <2>0, <3>1, <3>3, FirstFounds DEF NothingPending
    <3> QED
      BY <3>1, <3>4, <3>5 DEF OnlyRepeatedRunsAbort
  <2>3. CASE Panics
    <3>1. UNCHANGED <<db, uuid>> /\ pc = "updateController"
      BY <2>3 DEF Panics, disk, Exit, At
    <3>2. pc \notin AfterController /\ pc # "idle"
      BY <3>1 DEF AfterController
    <3>3. uuid \notin RecordedUUIDs(db)
      BY <2>0, <3>2 DEF FreshUUID
    <3>4. RecordedUUIDs(db) # {}
      BY <1>2, <2>0, <2>3, FirstFinds DEF Panics
    <3> QED
      BY <3>1, <3>3, <3>4 DEF OnlyRepeatedRunsAbort
  <2>4. CASE Step \/ Failure
    BY <2>0, <2>2, <2>3, <2>4, Refusals DEF OnlyRepeatedRunsAbort
  <2>5. ASSUME NEW command \in DOMAIN FirstStage, NEW forReal \in BOOLEAN,
               Start(command, forReal)
        PROVE  OnlyRepeatedRunsAbort'
    BY <2>5 DEF Start, OnlyRepeatedRunsAbort
  <2>6. CASE UNCHANGED vars
    BY <1>2, <2>6 DEF vars, disk, OnlyRepeatedRunsAbort
  <2> QED
    BY <1>2, <2>4, <2>5, <2>6 DEF Next, Finished
<1> QED
  BY <1>1, <1>2, IdentityInvariant, StagesInvariant, HomesAlways, CredentialsInvariant,
     FirstRunInvariant, PTL DEF Spec

-----------------------------------------------------------------------------
(* Adding up.                                                              *)

\* A set of subsets of a finite set has a least one, unless it is empty.
LEMMA LeastSubset ==
  ASSUME NEW S, IsFiniteSet(S), NEW Bad \in SUBSET SUBSET S, Bad # {}
  PROVE  \E T \in Bad : \A R \in Bad : ~(R \subseteq T /\ R # T)
<1>1. IsWellFoundedOn(StrictSubsetOrdering(S), SUBSET S)
  BY FS_StrictSubsetOrderingWellFounded, FS_FiniteSubsetsOfFinite
<1>2. \E T \in Bad : \A R \in Bad : ~(<<R, T>> \in StrictSubsetOrdering(S))
  BY <1>1, WFMin
<1> QED
  BY <1>2 DEF StrictSubsetOrdering

\* A sum of numbers, one more than the sizes of disjoint sets, is the number of those
\* sets and of all their elements.
LEMMA SumOfSizes ==
  ASSUME NEW S, IsFiniteSet(S), NEW w, NEW U,
         \A x \in S : IsFiniteSet(U[x]) /\ w[x] = 1 + Cardinality(U[x]),
         \A x, y \in S : x # y => U[x] \cap U[y] = {},
         NEW V, \A v : v \in V <=> \E x \in S : v \in U[x]
  PROVE  SumFunctionOnSet(w, S) = Cardinality(S) + Cardinality(V)
<1> DEFINE Pick(T)  == CHOOSE x \in T : TRUE
           All(T)   == UNION {U[x] : x \in T}
           Sums(f)  == [T \in SUBSET S |-> IF T = {} THEN 0 ELSE w[Pick(T)] + f[T \ {Pick(T)}]]
           sizes    == [T \in SUBSET S |-> Cardinality(T) + Cardinality(All(T))]
           sum      == CHOOSE f : f = Sums(f)
<1>1. \A T : T # {} => Pick(T) \in T
  OBVIOUS
<1> HIDE DEF Pick
<1>0. All({}) = {} /\ Cardinality({}) = 0 /\ IsFiniteSet({})
  BY FS_EmptySet
\* What one more set adds to the sizes.
<1>2. ASSUME NEW T \in SUBSET S, IsFiniteSet(All(T)), NEW x \in S, x \notin T
      PROVE  /\ IsFiniteSet(All(T \cup {x}))
             /\ Cardinality(T \cup {x}) + Cardinality(All(T \cup {x}))
                  = w[x] + (Cardinality(T) + Cardinality(All(T)))
  <2>1. All(T \cup {x}) = All(T) \cup U[x]
    OBVIOUS
  <2>2. All(T) \cap U[x] = {}
    BY <1>2
  <2>3. /\ IsFiniteSet(All(T) \cup U[x])
        /\ Cardinality(All(T) \cup U[x]) = Cardinality(All(T)) + Cardinality(U[x])
    <3>1. Cardinality(All(T)) \in Nat /\ Cardinality(U[x]) \in Nat
      BY <1>2, FS_CardinalityType
    <3>2. /\ IsFiniteSet(All(T) \cup U[x])
          /\ Cardinality(All(T) \cup U[x])
               = Cardinality(All(T)) + Cardinality(U[x]) - Cardinality(All(T) \cap U[x])
      BY <1>2, FS_Union
    <3> HIDE DEF All
    <3>3. Cardinality(All(T) \cap U[x]) = 0
      BY <2>2, FS_EmptySet
    <3> QED
      BY <3>1, <3>2, <3>3
  <2>4. Cardinality(T \cup {x}) = Cardinality(T) + 1 /\ Cardinality(T) \in Nat
    BY <1>2, FS_Subset, FS_AddElement, FS_CardinalityType
  <2>5. Cardinality(All(T)) \in Nat /\ Cardinality(U[x]) \in Nat /\ w[x] = 1 + Cardinality(U[x])
    BY <1>2, FS_CardinalityType
  <2>6. /\ IsFiniteSet(All(T \cup {x}))
        /\ Cardinality(All(T \cup {x})) = Cardinality(All(T)) + Cardinality(U[x])
    <3> HIDE DEF All
    <3> QED
      BY <2>1, <2>3
  <2> HIDE DEF All
  <2> DEFINE more == T \cup {x}
  <2>7. Cardinality(more) = Cardinality(T) + 1 /\ IsFiniteSet(All(more))
        /\ Cardinality(All(more)) = Cardinality(All(T)) + Cardinality(U[x])
    BY <2>4, <2>6
  <2> HIDE DEF more
  <2>8. Cardinality(more) + Cardinality(All(more)) = w[x] + (Cardinality(T) + Cardinality(All(T)))
    BY <2>4, <2>5, <2>7
  <2> QED
    BY <2>7, <2>8 DEF more
<1>3. \A T \in SUBSET S : IsFiniteSet(All(T))
  <2> DEFINE Bad == {T \in SUBSET S : ~IsFiniteSet(All(T))}
  <2> SUFFICES ASSUME Bad # {} PROVE FALSE
    OBVIOUS
  <2>1. PICK T \in Bad : \A R \in Bad : ~(R \subseteq T /\ R # T)
    <3> Bad \in SUBSET SUBSET S
      OBVIOUS
    <3> HIDE DEF Bad
    <3> QED
      BY LeastSubset
  <2>2. T \in SUBSET S /\ ~IsFiniteSet(All(T))
    BY <2>1
  <2> DEFINE x == Pick(T)
             R == T \ {x}
  <2> HIDE DEF All
  <2>3. x \in T /\ R \in SUBSET S /\ x \notin R /\ T = R \cup {x} /\ R # T
    <3>1. T # {}
      BY <1>0, <2>2
    <3>2. x \in T
      BY <1>1, <3>1
    <3> QED
      BY <2>2, <3>2
  <2> HIDE DEF x, R
  <2>4. IsFiniteSet(All(R))
    BY <2>1, <2>3
  <2> QED
    BY <1>2, <2>2, <2>3, <2>4
\* The sizes satisfy the equation of the sum, and so does the sum.
<1>4. sizes = Sums(sizes)
  <2> DEFINE SumOf(T) == IF T = {} THEN 0 ELSE w[Pick(T)] + sizes[T \ {Pick(T)}]
  <2>1. ASSUME NEW T \in SUBSET S PROVE sizes[T] = SumOf(T)
    <3>1. CASE T = {}
      <4> HIDE DEF All
      <4> QED
        BY <1>0, <3>1
    <3>2. CASE T # {}
      <4> DEFINE x == Pick(T)
                 R == T \ {x}
      <4>1. x \in S /\ R \in SUBSET S /\ x \notin R /\ T = R \cup {x}
        BY <1>1, <3>2
      <4> HIDE DEF All, x, R
      <4>2. Cardinality(R \cup {x}) + Cardinality(All(R \cup {x}))
              = w[x] + (Cardinality(R) + Cardinality(All(R)))
        BY <1>2, <1>3, <4>1
      <4>3. sizes[T] = w[x] + sizes[R]
        BY <4>1, <4>2
      <4> QED
        BY <3>2, <4>3 DEF x, R
    <3> QED
      BY <3>1, <3>2
  <2> HIDE DEF All
  <2>2. sizes = [T \in SUBSET S |-> sizes[T]]
    OBVIOUS
  <2> HIDE DEF sizes
  <2> QED
    BY <2>1, <2>2
<1>5. sum = Sums(sum)
  BY <1>4
<1>6. SumFunctionOnSet(w, S) = sum[S]
  BY DEF SumFunctionOnSet, FoldFunctionOnSet, MapThenFoldSet, Pick
\* There is no least set for which the two differ.
<1>7. sum[S] = sizes[S]
  <2> DEFINE Bad == {T \in SUBSET S : sum[T] # sizes[T]}
  <2> SUFFICES ASSUME Bad # {} PROVE FALSE
    OBVIOUS
  <2>1. PICK T \in Bad : \A R \in Bad : ~(R \subseteq T /\ R # T)
    <3> Bad \in SUBSET SUBSET S
      OBVIOUS
    <3> HIDE DEF Bad
    <3> QED
      BY LeastSubset
  <2> HIDE DEF sizes, sum
  <2>2. T \in SUBSET S /\ sum[T] # sizes[T]
    BY <2>1
  <2>3. \A f : f = Sums(f) =>
          f[T] = IF T = {} THEN 0 ELSE w[Pick(T)] + f[T \ {Pick(T)}]
    BY <2>2
  <2> HIDE DEF Sums
  <2>4. T # {} /\ sum[T \ {Pick(T)}] # sizes[T \ {Pick(T)}]
    BY <1>4, <1>5, <2>2, <2>3
  <2> QED
    BY <1>1, <2>1, <2>2, <2>4
<1>8. V = All(S)
  OBVIOUS
<1> HIDE DEF sum
<1> QED
  BY <1>6, <1>7, <1>8

-----------------------------------------------------------------------------
(* What a transaction does to the units and to the numbers of them.        *)

\* What becomes of an id depends on whether there is a document of that id, and which.
LEMMA SameWay ==
  ASSUME NEW d, NEW e, NEW O, NEW c \in DOMAIN d \cap DOMAIN e, NEW id,
         id \in DOMAIN d[c] <=> id \in DOMAIN e[c]
  PROVE  /\ id \in DOMAIN Apply(d, O)[c] <=> id \in DOMAIN Apply(e, O)[c]
         /\ id \in DOMAIN Apply(d, O)[c] /\ (id \in DOMAIN d[c] => d[c][id] = e[c][id]) =>
              Apply(d, O)[c][id] = Apply(e, O)[c][id]
<1> DEFINE mine == On(O, c)
<1>1. CASE mine = {}
  BY <1>1, ApplyIDs DEF Apply
<1>2. CASE mine # {}
  <2>1. Apply(d, O)[c] = ApplyTo(d[c], mine) /\ Apply(e, O)[c] = ApplyTo(e[c], mine)
    BY <1>2 DEF Apply
  <2>2. id \in DOMAIN ApplyTo(d[c], mine) <=> id \in DOMAIN ApplyTo(e[c], mine)
    BY DEF ApplyTo
  <2>3. id \in DOMAIN ApplyTo(d[c], mine) =>
          /\ ApplyTo(d[c], mine)[id] = Changed(d[c], id, mine)
          /\ ApplyTo(e[c], mine)[id] = Changed(e[c], id, mine)
    BY <2>2 DEF ApplyTo
  <2>4. (id \in DOMAIN d[c] => d[c][id] = e[c][id]) =>
          Changed(d[c], id, mine) = Changed(e[c], id, mine)
    BY DEF Changed
  <2> QED
    BY <2>1, <2>2, <2>3, <2>4
<1> QED
  BY <1>1, <1>2

\* An update that keeps the service of a unit.
LEMMA SameService ==
  ASSUME NEW u, NEW doc, NEW op,
         \/ Naming["units"] \cap (op.unset \cup DOMAIN op.set) = {}
         \/ Has(op.set, "application") /\ ServiceOf(u, op.set) = ServiceOf(u, doc)
  PROVE  ServiceOf(u, Without(doc, op.unset) ++ op.set) = ServiceOf(u, doc)
<1> DEFINE new == Without(doc, op.unset) ++ op.set
<1>1. \A f : /\ Has(new, f) <=> Has(op.set, f) \/ (Has(doc, f) /\ f \notin op.unset)
             /\ Has(op.set, f) => new[f] = op.set[f]
             /\ Has(doc, f) /\ f \notin op.unset \cup DOMAIN op.set => new[f] = doc[f]
  BY DEF ++, Without, Has
<1>2. Naming["units"] = {"service", "application"}
  BY DEF Naming
<1> HIDE DEF new
<1>3. CASE Naming["units"] \cap (op.unset \cup DOMAIN op.set) = {}
  <2>1. \A f \in {"service", "application"} :
          (Has(new, f) <=> Has(doc, f)) /\ (Has(doc, f) => new[f] = doc[f])
    BY <1>1, <1>2, <1>3 DEF Has
  <2>2. Renamed(new, "service", "application") = Renamed(doc, "service", "application")
    BY <2>1 DEF Renamed, ReadBsonDField
  <2> QED
    BY <2>2 DEF ServiceOf, new
<1>4. CASE Has(op.set, "application") /\ ServiceOf(u, op.set) = ServiceOf(u, doc)
  <2>1. Has(new, "application") /\ new["application"] = op.set["application"]
    BY <1>1, <1>4
  <2>2. Renamed(new, "service", "application") = Renamed(op.set, "service", "application")
    BY <1>4, <2>1 DEF Renamed
  <2> QED
    BY <1>4, <2>2 DEF ServiceOf, new
<1> QED
  BY <1>3, <1>4

\* The units before and after operations that keep their services.
LEMMA UnitAfter ==
  ASSUME NEW d, "units" \in DOMAIN d, NEW O, KeepsServices(d, O), NEW u
  PROVE  /\ (\A op \in O : Populates(op) => op.id # u) =>
              (u \in DOMAIN d["units"] <=> u \in DOMAIN Apply(d, O)["units"])
         /\ u \in DOMAIN d["units"] /\ u \in DOMAIN Apply(d, O)["units"] =>
              ServiceOf(u, Apply(d, O)["units"][u]) = ServiceOf(u, d["units"][u])
         /\ u \notin DOMAIN d["units"] /\ u \in DOMAIN Apply(d, O)["units"] =>
              \E op \in O : /\ Populates(op) /\ op.id = u /\ op.change = "insert"
                            /\ Apply(d, O)["units"][u] = op.set
<1>1. ASSUME \A op \in O : Populates(op) => op.id # u
      PROVE  u \in DOMAIN d["units"] <=> u \in DOMAIN Apply(d, O)["units"]
  BY <1>1, ApplyIDs DEF Populates
<1>2. ASSUME u \in DOMAIN d["units"], u \in DOMAIN Apply(d, O)["units"]
      PROVE  ServiceOf(u, Apply(d, O)["units"][u]) = ServiceOf(u, d["units"][u])
  <2>1. CASE Apply(d, O)["units"][u] = d["units"][u]
    BY <2>1
  <2>2. ASSUME NEW op \in O, op.c = "units", op.id = u, op.change = "update",
               Apply(d, O)["units"][u] = Without(d["units"][u], op.unset) ++ op.set
        PROVE  ServiceOf(u, Apply(d, O)["units"][u]) = ServiceOf(u, d["units"][u])
    BY <1>2, <2>2, SameService DEF KeepsServices
  <2> QED
    BY <1>2, <2>1, <2>2, ApplyDoc
<1>3. ASSUME u \notin DOMAIN d["units"], u \in DOMAIN Apply(d, O)["units"]
      PROVE  \E op \in O : /\ Populates(op) /\ op.id = u /\ op.change = "insert"
                           /\ Apply(d, O)["units"][u] = op.set
  BY <1>3, ApplyDoc DEF Populates
<1> QED
  BY <1>1, <1>2, <1>3

\* A service after operations that make none.
LEMMA ServiceAfter ==
  ASSUME NEW d, "services" \in DOMAIN d, NEW O,
         \A op \in O : op.c = "services" => op.change # "insert"
  PROVE  /\ DOMAIN Apply(d, O)["services"] \subseteq DOMAIN d["services"]
         /\ \A id \in DOMAIN Apply(d, O)["services"] :
              \/ Apply(d, O)["services"][id] = d["services"][id]
              \/ \E op \in O : Touches(op, "services", id) /\ op.change = "update"
<1>1. DOMAIN Apply(d, O)["services"] \subseteq DOMAIN d["services"]
  BY ApplyIDs
<1> QED
  BY <1>1, ApplyDoc DEF Touches

\* The number of units is right where neither they nor the service change.
LEMMA StillCounted ==
  ASSUME NEW d, NEW e, NEW id, Counted(d, id), UnitsOf(e, id) = UnitsOf(d, id),
         GetIntField(e["services"][id], "unitcount") = GetIntField(d["services"][id], "unitcount")
  PROVE  Counted(e, id)
  BY DEF Counted

\* Operations that make and remove no unit leave the units of every service.
LEMMA UnitsLeft ==
  ASSUME NEW d, "units" \in DOMAIN d, NEW O, KeepsServices(d, O),
         \A op \in O : ~Populates(op)
  PROVE  /\ \A id : UnitsOf(Apply(d, O), id) = UnitsOf(d, id)
         /\ \A P : KeepsServices(d, P) => KeepsServices(Apply(d, O), P)
<1> DEFINE e == Apply(d, O)
<1>1. \A u : /\ u \in DOMAIN d["units"] <=> u \in DOMAIN e["units"]
             /\ u \in DOMAIN d["units"] => ServiceOf(u, e["units"][u]) = ServiceOf(u, d["units"][u])
  BY UnitAfter
<1> HIDE DEF e
<1>2. \A id : UnitsOf(e, id) = UnitsOf(d, id)
  BY <1>1 DEF UnitsOf
<1>3. \A P : KeepsServices(d, P) => KeepsServices(e, P)
  BY <1>1 DEF KeepsServices
<1> QED
  BY <1>2, <1>3 DEF e

\* So the numbers stay right as long as no service is changed either.
LEMMA LeftCounted ==
  ASSUME NEW d, {"units", "services"} \subseteq DOMAIN d, NEW O, LeavesUnits(O), KeepsServices(d, O),
         \A id \in DOMAIN d["services"] : Counted(d, id)
  PROVE  \A id \in DOMAIN Apply(d, O)["services"] : Counted(Apply(d, O), id)
<1> DEFINE e == Apply(d, O)
<1>1. \A op \in O : op.c = "services" => op.change = "remove"
  BY DEF LeavesUnits
<1>2. \A id \in DOMAIN e["services"] : id \in DOMAIN d["services"] /\ e["services"][id] = d["services"][id]
  BY <1>1, ServiceAfter DEF Touches
<1>3. \A id : UnitsOf(e, id) = UnitsOf(d, id)
  BY UnitsLeft DEF LeavesUnits
<1> HIDE DEF e
<1> QED
  BY <1>2, <1>3, StillCounted DEF e

\* Where nothing that is pending is about units, the numbers are right.
LEMMA SettledCounts ==
  ASSUME NEW d, NEW T, \A t \in T : LeavesUnits(t.ops)
  PROVE  UnitsCounted(d, T) <=> \A id \in DOMAIN d["services"] : Counted(d, id)
<1>1. \A t \in T : \A id : ~Counts(t, id)
  BY DEF LeavesUnits, Counts, Touches
<1>2. \A t \in T : \A op \in t.ops : ~Populates(op)
  BY DEF LeavesUnits
<1> QED
  BY <1>1, <1>2 DEF UnitsCounted, CountsItsUnits

-----------------------------------------------------------------------------
(* The transactions of the agents.                                         *)

\* The operations change no service but the number of its units, and say nothing new
\* of the service of a unit.
Agentlike(O) ==
  /\ \A op \in O : op.c = "services" => op.change = "update"
  /\ \A d : KeepsServices(d, O)

\* One of the transactions is completed. It does not touch the units of the services
\* that another one is at, so that one is right as before.
LEMMA SameRest ==
  ASSUME NEW d, "units" \in DOMAIN d, NEW Q, NEW R, Agentlike(Q), Agentlike(R), NEW id,
         UnitsOf(Apply(d, Q), id) = UnitsOf(d, id),
         \A p \in Q, r \in R : Populates(p) /\ Populates(r) => p.id # r.id
  PROVE  UnitsOf(Apply(Apply(d, Q), R), id) = UnitsOf(Apply(d, R), id)
<1> DEFINE e == Apply(d, Q)
<1>1. "units" \in DOMAIN e
  BY ApplyElsewhere
<1>2. ASSUME NEW x, "units" \in DOMAIN x, NEW u
      PROVE  /\ (\A op \in R : Populates(op) => op.id # u) =>
                   (u \in DOMAIN x["units"] <=> u \in DOMAIN Apply(x, R)["units"])
             /\ u \in DOMAIN x["units"] /\ u \in DOMAIN Apply(x, R)["units"] =>
                   ServiceOf(u, Apply(x, R)["units"][u]) = ServiceOf(u, x["units"][u])
  BY <1>2, UnitAfter DEF Agentlike
<1>3. ASSUME NEW u, \A op \in R : Populates(op) => op.id # u
      PROVE  u \in UnitsOf(Apply(e, R), id) <=> u \in UnitsOf(Apply(d, R), id)
  <2>1. u \in UnitsOf(Apply(e, R), id) <=> u \in UnitsOf(e, id)
    BY <1>1, <1>2, <1>3 DEF UnitsOf
  <2>2. u \in UnitsOf(Apply(d, R), id) <=> u \in UnitsOf(d, id)
    BY <1>2, <1>3 DEF UnitsOf
  <2> QED
    BY <2>1, <2>2
<1>4. ASSUME NEW u, NEW r \in R, Populates(r), r.id = u
      PROVE  u \in UnitsOf(Apply(e, R), id) <=> u \in UnitsOf(Apply(d, R), id)
  <2>1. /\ u \in DOMAIN d["units"] <=> u \in DOMAIN e["units"]
        /\ u \in DOMAIN d["units"] => ServiceOf(u, e["units"][u]) = ServiceOf(u, d["units"][u])
    BY <1>4, UnitAfter DEF Agentlike
  <2>2. u \in DOMAIN Apply(e, R)["units"] <=> u \in DOMAIN Apply(d, R)["units"]
    BY <1>1, <2>1, SameWay
  <2>3. u \in DOMAIN Apply(d, R)["units"] =>
          ServiceOf(u, Apply(e, R)["units"][u]) = ServiceOf(u, Apply(d, R)["units"][u])
    <3>1. CASE u \in DOMAIN d["units"]
      BY <1>1, <1>2, <2>1, <2>2, <3>1
    <3>2. CASE u \notin DOMAIN d["units"]
      BY <1>1, <2>1, <2>2, <3>2, SameWay
    <3> QED
      BY <3>1, <3>2
  <2> QED
    BY <2>2, <2>3 DEF UnitsOf
<1> HIDE DEF e
<1>5. \A u : u \in UnitsOf(Apply(e, R), id) <=> u \in UnitsOf(Apply(d, R), id)
  BY <1>3, <1>4
<1> QED
  BY <1>5 DEF UnitsOf, e

\* What the transaction does to the units of a service it does not write the number of.
LEMMA UnitsApart ==
  ASSUME NEW d, "units" \in DOMAIN d, NEW t, CountsItsUnits(d, t), NEW Q \in SUBSET t.ops,
         Agentlike(Q), NEW id, ~Counts(t, id)
  PROVE  UnitsOf(Apply(d, Q), id) = UnitsOf(d, id)
<1> DEFINE e == Apply(d, Q)
<1>1. ASSUME NEW op \in Q, Populates(op)
      PROVE  /\ op.change = "insert" => ServiceOf(op.id, op.set) # id
             /\ op.id \in DOMAIN d["units"] => ServiceOf(op.id, d["units"][op.id]) # id
  BY <1>1 DEF CountsItsUnits
<1>2. ASSUME NEW u \in UnitsOf(d, id) PROVE u \in UnitsOf(e, id)
  <2>1. u \in DOMAIN d["units"] /\ ServiceOf(u, d["units"][u]) = id
    BY DEF UnitsOf
  <2>2. \A op \in Q : Populates(op) => op.id # u
    BY <1>1, <2>1
  <2>3. u \in DOMAIN e["units"] /\ ServiceOf(u, e["units"][u]) = ServiceOf(u, d["units"][u])
    BY <2>1, <2>2, UnitAfter DEF Agentlike
  <2> QED
    BY <2>1, <2>3 DEF UnitsOf
<1>3. ASSUME NEW u \in UnitsOf(e, id) PROVE u \in UnitsOf(d, id)
  <2>1. u \in DOMAIN e["units"] /\ ServiceOf(u, e["units"][u]) = id
    BY DEF UnitsOf
  <2>2. CASE u \in DOMAIN d["units"]
    <3>1. ServiceOf(u, e["units"][u]) = ServiceOf(u, d["units"][u])
      BY <2>1, <2>2, UnitAfter DEF Agentlike
    <3> QED
      BY <2>1, <2>2, <3>1 DEF UnitsOf
  <2>3. CASE u \notin DOMAIN d["units"]
    <3>1. PICK op \in Q : /\ Populates(op) /\ op.id = u /\ op.change = "insert"
                          /\ e["units"][u] = op.set
      BY <2>1, <2>3, UnitAfter DEF Agentlike
    <3> QED
      BY <1>1, <2>1, <3>1
  <2> QED
    BY <2>2, <2>3
<1> QED
  BY <1>2, <1>3

\* A service that a transaction does not write the number of is as it was.
LEMMA ServiceApart ==
  ASSUME NEW d, "services" \in DOMAIN d, NEW t, NEW Q \in SUBSET t.ops, Agentlike(Q)
  PROVE  /\ DOMAIN Apply(d, Q)["services"] = DOMAIN d["services"]
         /\ \A id \in DOMAIN d["services"] :
              ~Counts(t, id) => Apply(d, Q)["services"][id] = d["services"][id]
<1>1. \A op \in Q : op.c = "services" => op.change # "insert" /\ op.change # "remove"
  BY DEF Agentlike
<1>2. DOMAIN Apply(d, Q)["services"] = DOMAIN d["services"]
  <2>1. /\ \A id \in DOMAIN Apply(d, Q)["services"] :
             \/ id \in DOMAIN d["services"]
             \/ \E op \in Q : op.c = "services" /\ op.id = id /\ op.change = "insert"
        /\ \A id \in DOMAIN d["services"] :
             \/ id \in DOMAIN Apply(d, Q)["services"]
             \/ \E op \in Q : op.c = "services" /\ op.id = id /\ op.change = "remove"
    BY ApplyIDs
  <2> QED
    BY <1>1, <2>1
<1>3. \A op \in Q : op.c = "services" => op.change # "insert"
  BY <1>1
<1>4. \A id \in DOMAIN Apply(d, Q)["services"] :
        \/ Apply(d, Q)["services"][id] = d["services"][id]
        \/ \E op \in Q : Touches(op, "services", id) /\ op.change = "update"
  BY <1>3, ServiceAfter
<1> QED
  BY <1>2, <1>4 DEF Counts

\* When one of the transactions of the agents is completed, the numbers are right for
\* those that are left.
LEMMA AgentsComplete ==
  ASSUME NEW d, {"units", "services"} \subseteq DOMAIN d, NEW T, UnitsCounted(d, T), NEW t \in T,
         \A s \in T : s.done \subseteq s.ops /\ \A O \in SUBSET s.ops : Agentlike(O)
  PROVE  UnitsCounted(Apply(d, Rest(t)), T \ {t})
<1> DEFINE Q == Rest(t)
           e == Apply(d, Q)
           T2 == T \ {t}
<1>1. \A s \in T : Rest(s) \in SUBSET s.ops /\ Agentlike(Rest(s))
  BY DEF Rest
<1>2. CountsItsUnits(d, t)
  BY DEF UnitsCounted
<1>3. /\ DOMAIN e["services"] = DOMAIN d["services"]
      /\ \A id \in DOMAIN d["services"] : ~Counts(t, id) => e["services"][id] = d["services"][id]
  BY <1>1, ServiceApart
<1>4. \A id : ~Counts(t, id) => UnitsOf(e, id) = UnitsOf(d, id)
  BY <1>1, <1>2, UnitsApart
<1>5. {"units", "services"} \subseteq DOMAIN e
  BY ApplyElsewhere
<1> HIDE DEF e
<1>6. ASSUME NEW id \in DOMAIN d["services"], \A s \in T2 : ~(s.applying /\ Counts(s, id))
      PROVE  Counted(e, id)
  <2>1. CASE Counts(t, id)
    BY <2>1 DEF UnitsCounted, e
  <2>2. CASE ~Counts(t, id)
    <3>1. \A s \in T : ~(s.applying /\ Counts(s, id))
      BY <1>6, <2>2
    <3>2. Counted(d, id)
      BY <3>1 DEF UnitsCounted
    <3> QED
      BY <1>3, <1>4, <2>2, <3>2, StillCounted
  <2> QED
    BY <2>1, <2>2
<1>7. ASSUME NEW id \in DOMAIN d["services"], NEW s \in T2, Counts(s, id)
      PROVE  Counted(Apply(e, Rest(s)), id)
  <2>1. ~Counts(t, id) /\ s \in T
    BY <1>7 DEF UnitsCounted
  <2>2. Counted(Apply(d, Rest(s)), id)
    BY <1>7, <2>1 DEF UnitsCounted
  <2>3. \A p \in Q, r \in Rest(s) : Populates(p) /\ Populates(r) => p.id # r.id
    BY <1>1, <1>7 DEF UnitsCounted
  <2>4. UnitsOf(Apply(e, Rest(s)), id) = UnitsOf(Apply(d, Rest(s)), id)
    <3>1. UnitsOf(e, id) = UnitsOf(d, id)
      BY <1>4, <2>1
    <3> HIDE DEF Q
    <3> QED
      BY <1>1, <2>1, <2>3, <3>1, SameRest DEF e, Q
  <2>5. Apply(e, Rest(s))["services"][id] = Apply(d, Rest(s))["services"][id]
    <3>1. id \in DOMAIN e["services"] /\ e["services"][id] = d["services"][id]
      BY <1>3, <2>1
    <3>2. id \in DOMAIN Apply(d, Rest(s))["services"]
      BY <1>1, <2>1, ServiceApart
    <3> QED
      BY <1>5, <3>1, <3>2, SameWay
  <2> QED
    BY <2>2, <2>4, <2>5, StillCounted
<1>8. ASSUME NEW s \in T2 PROVE CountsItsUnits(e, s)
  <2>1. ASSUME NEW op \in s.ops, Populates(op), op.id \in DOMAIN e["units"]
        PROVE  /\ op.id \in DOMAIN d["units"]
               /\ ServiceOf(op.id, e["units"][op.id]) = ServiceOf(op.id, d["units"][op.id])
    <3>1. \A p \in Q : Populates(p) => p.id # op.id
      BY <1>1, <1>8, <2>1 DEF UnitsCounted
    <3> HIDE DEF Q
    <3> QED
      BY <1>1, <2>1, <3>1, UnitAfter DEF e, Agentlike, Q
  <2>2. CountsItsUnits(d, s)
    BY <1>8 DEF UnitsCounted
  <2> QED
    BY <2>1, <2>2 DEF CountsItsUnits
<1>9. UnitsCounted(e, T2)
  <2>1. \A id \in DOMAIN e["services"] : \A s, r \in T2 : Counts(s, id) /\ Counts(r, id) => s = r
    BY <1>3 DEF UnitsCounted
  <2>2. \A s, r \in T2 : \A p \in s.ops, q \in r.ops :
          Populates(p) /\ Populates(q) /\ p.id = q.id => s = r
    BY DEF UnitsCounted
  <2> HIDE DEF T2
  <2> QED
    BY <1>3, <1>6, <1>7, <1>8, <2>1, <2>2 DEF UnitsCounted
<1> QED
  BY <1>9 DEF e

\* When one is dropped that has not begun, they are right as before.
LEMMA AgentDropped ==
  ASSUME NEW d, NEW T, UnitsCounted(d, T), NEW t \in T, ~t.applying
  PROVE  UnitsCounted(d, T \ {t})
  BY DEF UnitsCounted

\* The units and the services are the same, and what is pending in addition is not
\* about them.
LEMMA CountsElsewhere ==
  ASSUME NEW d, NEW e, {"units", "services"} \subseteq DOMAIN d \cap DOMAIN e,
         e["units"] = d["units"], e["services"] = d["services"],
         NEW T, UnitsCounted(d, T), NEW T2,
         T \subseteq T2, \A t \in T2 \ T : \A op \in t.ops : op.c \notin {"units", "services"}
  PROVE  UnitsCounted(e, T2)
<1>1. \A id : UnitsOf(e, id) = UnitsOf(d, id)
  BY DEF UnitsOf
<1>2. \A id : Counted(d, id) <=> Counted(e, id)
  BY <1>1 DEF Counted
<1>3. ASSUME NEW O, NEW c \in {"units", "services"} PROVE Apply(e, O)[c] = Apply(d, O)[c]
  BY DEF Apply
<1>4. ASSUME NEW O, NEW id PROVE Counted(Apply(d, O), id) <=> Counted(Apply(e, O), id)
  <2>1. UnitsOf(Apply(e, O), id) = UnitsOf(Apply(d, O), id)
    BY <1>3 DEF UnitsOf
  <2> QED
    BY <1>3, <2>1 DEF Counted
<1>5. \A t \in T2 \ T : (\A id : ~Counts(t, id)) /\ \A op \in t.ops : ~Populates(op)
  BY DEF Counts, Touches, Populates
<1>6. ASSUME NEW id \in DOMAIN e["services"]
      PROVE  /\ (\A t \in T2 : ~(t.applying /\ Counts(t, id))) => Counted(e, id)
             /\ \A t \in T2 : Counts(t, id) => Counted(Apply(e, Rest(t)), id)
             /\ \A s, t \in T2 : Counts(s, id) /\ Counts(t, id) => s = t
  BY <1>2, <1>4, <1>5 DEF UnitsCounted
<1>7. \A t \in T2 : CountsItsUnits(e, t)
  BY <1>5 DEF UnitsCounted, CountsItsUnits
<1>8. \A s, t \in T2 : \A p \in s.ops, q \in t.ops :
        Populates(p) /\ Populates(q) /\ p.id = q.id => s = t
  BY <1>5 DEF UnitsCounted
<1> QED
  BY <1>6, <1>7, <1>8 DEF UnitsCounted

-----------------------------------------------------------------------------
(* What the stages do to units and services.                               *)

\* The stages that do not write the units and the services leave them, and only
\* moveServices makes what it makes.
LEMMA OtherMakers ==
  ASSUME NEW s \in AfterController \ Writing
  PROVE  /\ s \notin {"moveServices", "updateUnits", "updateAgentTools"} =>
              Writes[s] \cap {"units", "services"} = {}
         /\ s # "moveServices" => Writes[s] \cap Made = {}
<1>1. AfterController = DOMAIN Writes
  BY DEF AfterController, Stages, Follows, Writes
<1> HIDE DEF AfterController
<1> QED
  BY <1>1 DEF Writes, Writing, Made

\* Operations on other collections.
LEMMA ElsewhereCounts ==
  ASSUME NEW O, NEW cs, About(O, cs), cs \cap {"units", "services"} = {}
  PROVE  LeavesUnits(O) /\ \A d : KeepsServices(d, O)
  BY DEF About, LeavesUnits, Populates, KeepsServices

\* updateUnits has every unit name its service as its application.
LEMMA UnitsKeepServices ==
  ASSUME NEW d, Unrenamed(d, "units")
  PROVE  LeavesUnits(UpdateUnitsOps(d)) /\ KeepsServices(d, UpdateUnitsOps(d))
<1>1. ASSUME NEW op \in UpdateUnitsOps(d)
      PROVE  /\ op.c \in {"units", "statuses"}
             /\ op.c = "units" =>
                  \E id \in DOMAIN d["units"] :
                    /\ op.id = id /\ op.change = "update"
                    /\ op.set = Field("application", ReadBsonDField(d["units"][id], "service"))
  BY DEF UpdateUnitsOps, UpdateAllOps, UpdateOp, InsertOp
<1>2. \A id \in DOMAIN d["units"] : ~Has(d["units"][id], "application")
  BY DEF Unrenamed, SaysServices, NewName
<1>3. ASSUME NEW id \in DOMAIN d["units"]
      PROVE  LET new == Field("application", ReadBsonDField(d["units"][id], "service"))
             IN  Has(new, "application") /\ ServiceOf(id, new) = ServiceOf(id, d["units"][id])
  BY <1>2 DEF ServiceOf, Renamed, Field, Has
<1>4. LeavesUnits(UpdateUnitsOps(d))
  BY <1>1 DEF LeavesUnits, Populates
<1>5. KeepsServices(d, UpdateUnitsOps(d))
  BY <1>1, <1>3 DEF KeepsServices
<1> QED
  BY <1>4, <1>5

\* updateAgentTools does not touch what they say of their services.
LEMMA ToolsKeepServices ==
  ASSUME NEW d
  PROVE  LeavesUnits(UpdateAgentToolsOps(d)) /\ KeepsServices(d, UpdateAgentToolsOps(d))
<1>1. \A op \in UpdateAgentToolsOps(d) :
        /\ op.c \in {"machines", "units"} /\ op.change = "update"
        /\ op.unset = {} /\ DOMAIN op.set = {"tools.version"}
  BY DEF UpdateAgentToolsOps, UpdateAllOps, UpdateOp, Field
<1>2. "tools.version" \notin Naming["units"]
  BY DEF Naming
<1> QED
  BY <1>1, <1>2 DEF LeavesUnits, Populates, KeepsServices

\* moveServices removes the services and makes documents of other kinds.
LEMMA MoverMakes ==
  ASSUME NEW d
  PROVE  \A op \in MoveServicesOps(d) :
           \/ op.c \in {"services", "storageconstraints"} /\ op.change = "remove"
           \/ op.c = "storageconstraints" /\ op.change = "insert"
           \/ op.c = "applications" /\ op.change = "insert" /\ op.id \in DOMAIN d["services"]
           \/ /\ op.c = "refcounts" /\ op.change = "insert" /\ op.id \in DOMAIN RefCounts(d)
              /\ op.set["refcount"] = RefCounts(d)[op.id]
<1> SUFFICES ASSUME NEW op \in MoveServicesOps(d)
             PROVE  \/ op.c \in {"services", "storageconstraints"} /\ op.change = "remove"
                    \/ op.c = "storageconstraints" /\ op.change = "insert"
                    \/ op.c = "applications" /\ op.change = "insert" /\ op.id \in DOMAIN d["services"]
                    \/ /\ op.c = "refcounts" /\ op.change = "insert" /\ op.id \in DOMAIN RefCounts(d)
                       /\ op.set["refcount"] = RefCounts(d)[op.id]
  OBVIOUS
<1>1. \A from, oldID, to, newID, doc : \A o \in MoveOps(from, oldID, to, newID, doc) :
        \/ o.c = from /\ o.change = "remove"
        \/ o.c = to /\ o.change = "insert" /\ o.id = newID
  BY DEF MoveOps, RemoveOp, InsertOp
<1>2. CASE \E id \in DOMAIN d["services"] : op \in MoveServiceOps(d, id)
  BY <1>1, <1>2 DEF MoveServiceOps
<1>3. ASSUME NEW key \in DOMAIN RefCounts(d),
             op = InsertOp("refcounts", key, RefCountDoc(d, key), <<>>)
      PROVE  /\ op.c = "refcounts" /\ op.change = "insert" /\ op.id = key
             /\ op.set["refcount"] = RefCounts(d)[key]
  <2> DEFINE count == RefCounts(d)[key]
  <2>1. /\ op.c = "refcounts" /\ op.change = "insert" /\ op.id = key
        /\ op.set = CopyBsonDField(Field("model-uuid", ModelOf(key)) ++ Field("refcount", count))
    BY <1>3 DEF InsertOp, RefCountDoc
  <2> HIDE DEF count
  <2>2. op.set["refcount"] = count
    BY <2>1 DEF CopyBsonDField, Without, Field, ++
  <2> QED
    BY <2>1, <2>2 DEF count
<1> QED
  BY <1>2, <1>3 DEF MoveServicesOps

\* It makes all of it.
LEMMA MoverMakesAll ==
  ASSUME NEW d
  PROVE  /\ \A id \in DOMAIN d["services"] :
              \E op \in MoveServicesOps(d) : Touches(op, "applications", id)
         /\ \A key \in DOMAIN RefCounts(d) :
              \E op \in MoveServicesOps(d) : Touches(op, "refcounts", key)
<1>1. ASSUME NEW id \in DOMAIN d["services"]
      PROVE  \E op \in MoveServicesOps(d) : Touches(op, "applications", id)
  <2>1. \E op \in MoveServiceOps(d, id) : Touches(op, "applications", id)
    BY DEF MoveServiceOps, MoveOps, InsertOp, Touches
  <2> QED
    BY <2>1 DEF MoveServicesOps
<1>2. ASSUME NEW key \in DOMAIN RefCounts(d)
      PROVE  \E op \in MoveServicesOps(d) : Touches(op, "refcounts", key)
  <2>1. \A doc, by : Touches(InsertOp("refcounts", key, doc, by), "refcounts", key)
    BY DEF InsertOp, Touches
  <2> QED
    BY <2>1 DEF MoveServicesOps
<1> QED
  BY <1>1, <1>2

\* The number that moveServices reads adds up to the number of users and of their units.
LEMMA CountsAddUp ==
  ASSUME NEW d, IsFiniteSet(DOMAIN b7["services"]),
         DOMAIN d["services"] = DOMAIN b7["services"],
         \A id \in DOMAIN d["services"] :
           Counted(d, id) /\ CharmURL(d["services"][id]) = CharmURL(b7["services"][id])
  PROVE  /\ DOMAIN RefCounts(d) = Wanted("refcounts")
         /\ \A key \in DOMAIN RefCounts(d) : RefCounts(d)[key] = RightCount(d, key)
<1> DEFINE services == DOMAIN d["services"]
           weight   == [id \in services |-> 1 + GetIntField(d["services"][id], "unitcount")]
           users(key) == {id \in services : key \in KeysOf(d, id)}
<1>1. \A id \in services : KeysOf(d, id) = KeysOf(b7, id)
  BY DEF KeysOf
<1>2. /\ DOMAIN RefCounts(d) = UNION {KeysOf(d, id) : id \in services}
      /\ \A key \in DOMAIN RefCounts(d) : RefCounts(d)[key] = SumFunctionOnSet(weight, users(key))
  BY DEF RefCounts
<1>3. DOMAIN RefCounts(d) = Wanted("refcounts")
  <2>1. {KeysOf(d, id) : id \in services} = {KeysOf(b7, id) : id \in DOMAIN b7["services"]}
    BY <1>1
  <2>2. Wanted("refcounts") = UNION {KeysOf(b7, id) : id \in DOMAIN b7["services"]}
    BY DEF Wanted
  <2> QED
    BY <1>2, <2>1, <2>2
<1>4. ASSUME NEW key \in DOMAIN RefCounts(d)
      PROVE  RefCounts(d)[key] = RightCount(d, key)
  <2> DEFINE S == users(key)
             U == [id \in services |-> UnitsOf(d, id)]
  <2>1. S = FoundUsers(key)
    BY <1>1 DEF FoundUsers
  <2>2. IsFiniteSet(S) /\ S \subseteq services
    BY FS_Subset
  <2>3. \A x \in S : IsFiniteSet(U[x]) /\ weight[x] = 1 + Cardinality(U[x])
    BY <2>2 DEF Counted
  <2>4. \A x, y \in S : x # y => U[x] \cap U[y] = {}
    BY <2>2 DEF UnitsOf
  <2> HIDE DEF S
  <2>5. \A x \in S : U[x] = UnitsOf(d, x)
    BY <2>2
  <2> DEFINE V == UNION {UnitsOf(d, x) : x \in S}
  <2>6. \A v : v \in V <=> \E x \in S : v \in U[x]
    BY <2>5
  <2> HIDE DEF U, V, weight
  <2>7. SumFunctionOnSet(weight, S) = Cardinality(S) + Cardinality(V)
    BY <2>2, <2>3, <2>4, <2>6, SumOfSizes, SMTT(60)
  <2>8. RefCounts(d)[key] = SumFunctionOnSet(weight, S)
    BY <1>2 DEF S
  <2> QED
    BY <2>1, <2>7, <2>8 DEF RightCount, V
<1> QED
  BY <1>3, <1>4

\* What is said of the database that was found is said of the same one.
LEMMA SameMade ==
  ASSUME b7' = b7
  PROVE  /\ \A c : Wanted(c)' = Wanted(c)
         /\ \A d, key : RightCount(d, key)' = RightCount(d, key)
         /\ \A d, O : MakesAll(d, O)' <=> MakesAll(d, O)
<1>1. \A c : Wanted(c)' = Wanted(c)
  BY DEF Wanted, KeysOf
<1>2. \A d, key : RightCount(d, key)' = RightCount(d, key)
  BY DEF RightCount, FoundUsers, KeysOf
<1>3. \A d, O : MakesAll(d, O)' <=> MakesAll(d, O)
  BY <1>1, <1>2 DEF MakesAll
<1> QED
  BY <1>1, <1>2, <1>3

\* What is right depends on the units alone.
LEMMA SameRight ==
  ASSUME NEW d, NEW e, \A id : UnitsOf(e, id) = UnitsOf(d, id)
  PROVE  /\ \A key : RightCount(e, key) = RightCount(d, key)
         /\ \A O : MakesAll(d, O) <=> MakesAll(e, O)
<1>1. ASSUME NEW key PROVE RightCount(e, key) = RightCount(d, key)
  <2>1. {UnitsOf(e, id) : id \in FoundUsers(key)} = {UnitsOf(d, id) : id \in FoundUsers(key)}
    OBVIOUS
  <2> QED
    BY <2>1 DEF RightCount
<1> QED
  BY <1>1 DEF MakesAll

\* The services are there for moveServices, and say how many units they have.
LEMMA ServicesFound ==
  ASSUME \A mv \in ServiceMoves(b7) : AtOld(b7, db, mv),
         DOMAIN db["services"] \subseteq DOMAIN b7["services"]
  PROVE  /\ DOMAIN db["services"] = DOMAIN b7["services"]
         /\ \A id \in DOMAIN db["services"] :
              CharmURL(db["services"][id]) = CharmURL(b7["services"][id])
<1>1. ASSUME NEW id \in DOMAIN b7["services"]
      PROVE  /\ id \in DOMAIN db["services"]
             /\ CharmURL(db["services"][id]) = CharmURL(b7["services"][id])
  <2> DEFINE mv == Move("services", id, "applications", id, {"ownertag"}, {"unitcount"})
  <2>1. mv \in ServiceMoves(b7)
    BY DEF ServiceMoves
  <2>2. AtOld(b7, db, mv)
    BY <2>1
  <2>3. id \in DOMAIN db["services"] /\ Alike(db["services"][id], b7["services"][id], {"unitcount"})
    BY <2>2 DEF AtOld, Move
  <2>4. "charmurl" \notin Bookkeeping \cup {"unitcount"}
    BY DEF Bookkeeping
  <2> QED
    BY <2>3, <2>4, AlikeString DEF CharmURL
<1> QED
  BY <1>1

\* moveServices makes all that is wanted, with the right counts.
LEMMA MoverRight ==
  ASSUME \A mv \in ServiceMoves(b7) : AtOld(b7, db, mv),
         DOMAIN db["services"] \subseteq DOMAIN b7["services"],
         IsFiniteSet(DOMAIN b7["services"]),
         \A id \in DOMAIN db["services"] : Counted(db, id)
  PROVE  MakesAll(db, MoveServicesOps(db))
<1> DEFINE O == MoveServicesOps(db)
<1>1. /\ DOMAIN RefCounts(db) = Wanted("refcounts")
      /\ \A key \in DOMAIN RefCounts(db) : RefCounts(db)[key] = RightCount(db, key)
  BY ServicesFound, CountsAddUp
<1>2. DOMAIN db["services"] = Wanted("applications")
  BY ServicesFound DEF Wanted
<1>3. \A op \in O : op.c \in Made => op.change = "insert" /\ op.id \in Wanted(op.c)
  BY <1>1, <1>2, MoverMakes DEF Made
<1>4. \A op \in O : op.c = "refcounts" => op.set["refcount"] = RightCount(db, op.id)
  BY <1>1, MoverMakes
<1>5. \A c \in Made : \A id \in Wanted(c) : \E op \in O : Touches(op, c, id)
  BY <1>1, <1>2, MoverMakesAll DEF Made
<1> HIDE DEF O
<1>6. MakesAll(db, O)
  BY <1>3, <1>4, <1>5 DEF MakesAll
<1> QED
  BY <1>6 DEF O

\* What the transaction of a live upgrade past updateController does.
LEMMA LateOps ==
  ASSUME Running, InHand, HomesWait, NamesWait, CountsInv, FoundAsAssumed, txns = {},
         live, inTxn, pc \in AfterController \ Writing
  PROVE  /\ LeavesUnits(ops) /\ KeepsServices(db, ops)
         /\ MakesNone(ops) \/ (pc = "moveServices" /\ MakesAll(db, ops))
<1>1. ReadFor /\ Done("updateController") /\ ~Done(pc)
  BY LateDone DEF InHand, AfterController
<1>2. About(ops, Writes[pc])
  BY <1>1, OpsAbout
<1>3. CASE pc = "moveServices"
  <2>1. ops = MoveServicesOps(db)
    BY <1>1, <1>3 DEF ReadFor
  <2>2. LeavesUnits(ops) /\ KeepsServices(db, ops)
    BY <2>1, MoverMakes DEF LeavesUnits, Populates, KeepsServices
  <2>3. \A mv \in ServiceMoves(b7) : AtOld(b7, db, mv)
    <3>1. \A mv \in ServiceMoves(b7) : mv \in Moves(b7) /\ MovedBy[mv.from] = "moveServices"
      BY DEF Moves, ServiceMoves, Move, MovedBy
    <3> QED
      BY <1>1, <1>3, <3>1 DEF HomesWait, MovesWait
  <2>4. IsFiniteSet(DOMAIN b7["services"])
    BY CountsAssumption DEF FoundAsAssumed
  <2>5. \A id \in DOMAIN db["services"] : Counted(db, id)
    BY SettledCounts DEF CountsInv
  <2>6. MakesAll(db, ops)
    BY <2>1, <2>3, <2>4, <2>5, MoverRight DEF CountsInv, ServicesKept
  <2> QED
    BY <1>3, <2>2, <2>6
<1>4. CASE pc # "moveServices"
  <2>1. MakesNone(ops)
    BY <1>2, <1>4, OtherMakers DEF About, MakesNone
  <2>2. CASE pc = "updateUnits"
    <3>1. "units" \in Referring /\ RenamedBy["units"] = "updateUnits"
      BY DEF Referring, NewName, RenamedBy
    <3>2. ops = UpdateUnitsOps(db)
      BY <1>1, <2>2 DEF ReadFor
    <3>3. Unrenamed(db, "units")
      BY <1>1, <2>2, <3>1 DEF NamesWait
    <3> QED
      BY <2>1, <3>2, <3>3, UnitsKeepServices
  <2>3. CASE pc = "updateAgentTools"
    <3>1. ops = UpdateAgentToolsOps(db)
      BY <1>1, <2>3 DEF ReadFor
    <3> QED
      BY <2>1, <3>1, ToolsKeepServices
  <2>4. CASE pc \notin {"updateUnits", "updateAgentTools"}
    <3>1. Writes[pc] \cap {"units", "services"} = {}
      BY <1>4, <2>4, OtherMakers
    <3> QED
      BY <1>2, <2>1, <3>1, ElsewhereCounts
  <2> QED
    BY <2>2, <2>3, <2>4
<1> QED
  BY <1>3, <1>4

-----------------------------------------------------------------------------
(* The transactions of the upgrade.                                        *)

\* The units, the services and what is made of them.
Populace == {"units", "services"} \cup Made

\* What moveServices makes is not taken back.
LEMMA MadeAfter ==
  ASSUME NEW d, Made \subseteq DOMAIN d, NEW O, MakesNone(O) \/ MakesAll(d, O), NEW S \in SUBSET O
  PROVE  /\ \A c \in Made : DOMAIN d[c] \subseteq DOMAIN Apply(d, S)[c]
         /\ \A op \in S : op.c \in Made => op.id \in DOMAIN Apply(d, S)[op.c]
         /\ MakesNone(O) => \A c \in Made : Apply(d, S)[c] = d[c]
         /\ (\A c \in Made : DOMAIN d[c] \subseteq Wanted(c)) =>
              \A c \in Made : DOMAIN Apply(d, S)[c] \subseteq Wanted(c)
         /\ (\A key \in DOMAIN d["refcounts"] : d["refcounts"][key]["refcount"] = RightCount(d, key)) =>
              \A key \in DOMAIN Apply(d, S)["refcounts"] :
                Apply(d, S)["refcounts"][key]["refcount"] = RightCount(d, key)
<1> DEFINE e == Apply(d, S)
<1>1. CASE MakesNone(O)
  <2>1. \A c \in Made : e[c] = d[c]
    BY <1>1, ApplyElsewhere DEF MakesNone
  <2>2. \A op \in S : op.c \notin Made
    BY <1>1 DEF MakesNone
  <2>3. "refcounts" \in Made
    BY DEF Made
  <2> HIDE DEF e
  <2>4. /\ \A c \in Made : DOMAIN d[c] \subseteq DOMAIN e[c]
        /\ \A op \in S : op.c \in Made => op.id \in DOMAIN e[op.c]
        /\ (\A c \in Made : DOMAIN d[c] \subseteq Wanted(c)) =>
             \A c \in Made : DOMAIN e[c] \subseteq Wanted(c)
        /\ (\A key \in DOMAIN d["refcounts"] : d["refcounts"][key]["refcount"] = RightCount(d, key)) =>
             \A key \in DOMAIN e["refcounts"] : e["refcounts"][key]["refcount"] = RightCount(d, key)
    BY <2>1, <2>2, <2>3
  <2> QED
    BY <2>1, <2>4 DEF e
<1>2. CASE MakesAll(d, O) /\ ~MakesNone(O)
  <2>1. \A op \in S : op.c \in Made => op.change = "insert" /\ op.id \in Wanted(op.c)
    BY <1>2 DEF MakesAll
  <2>2. ASSUME NEW c \in Made
        PROVE  /\ DOMAIN d[c] \subseteq DOMAIN e[c]
               /\ \A op \in S : op.c = c => op.id \in DOMAIN e[c]
               /\ \A id \in DOMAIN e[c] : id \in DOMAIN d[c] \/ id \in Wanted(c)
    BY <2>1, ApplyIDs
  <2>3. ASSUME NEW key \in DOMAIN e["refcounts"],
               \A k \in DOMAIN d["refcounts"] : d["refcounts"][k]["refcount"] = RightCount(d, k)
        PROVE  e["refcounts"][key]["refcount"] = RightCount(d, key)
    <3>1. "refcounts" \in DOMAIN d /\ "refcounts" \in Made
      BY DEF Made
    <3>2. \/ key \in DOMAIN d["refcounts"] /\ e["refcounts"][key] = d["refcounts"][key]
          \/ \E op \in S : op.c = "refcounts" /\ op.id = key /\ e["refcounts"][key] = op.set
      BY <2>1, <2>3, <3>1, ApplyDoc
    <3>3. \A op \in S : op.c = "refcounts" => op.set["refcount"] = RightCount(d, op.id)
      BY <1>2 DEF MakesAll
    <3> HIDE DEF e
    <3> QED
      BY <2>3, <3>2, <3>3
  <2> HIDE DEF e
  <2>4. /\ \A c \in Made : DOMAIN d[c] \subseteq DOMAIN e[c]
        /\ \A op \in S : op.c \in Made => op.id \in DOMAIN e[op.c]
        /\ (\A c \in Made : DOMAIN d[c] \subseteq Wanted(c)) =>
             \A c \in Made : DOMAIN e[c] \subseteq Wanted(c)
    BY <2>2
  <2> QED
    BY <1>2, <2>3, <2>4 DEF e
<1> QED
  BY <1>1, <1>2

\* A transaction that leaves the units is carried out, in part or as a whole, and may
\* be left pending.
LEMMA SettledStep ==
  ASSUME CountsInv, b7' = b7, Populace \subseteq DOMAIN db, \A t \in txns : LeavesUnits(t.ops),
         NEW O, LeavesUnits(O), KeepsServices(db, O), MakesNone(O) \/ MakesAll(db, O),
         NEW S \in SUBSET O, \A c \in Populace : db'[c] = Apply(db, S)[c],
         \A t \in txns' : t \in txns \/ (t.ops = O /\ (t.applying => t.done \subseteq S))
  PROVE  /\ UnitsCounted(db, txns)' /\ UnitsSettled' /\ ServicesKept' /\ MadeRight'
         /\ \A P : MakesAll(db, P) <=> MakesAll(db, P)'
<1> DEFINE e == Apply(db, S)
<1>0. {"units", "services", "refcounts"} \subseteq Populace /\ Made \subseteq Populace
  BY DEF Populace, Made
<1>1. LeavesUnits(S) /\ KeepsServices(db, S)
  BY DEF LeavesUnits, KeepsServices
<1>2. /\ \A id : UnitsOf(e, id) = UnitsOf(db, id)
      /\ \A P : KeepsServices(db, P) => KeepsServices(e, P)
  BY <1>0, <1>1, UnitsLeft DEF LeavesUnits
<1>3. /\ \A id : UnitsOf(db', id) = UnitsOf(db, id)
      /\ \A P : KeepsServices(db, P) => KeepsServices(db', P)
  <2>1. db'["units"] = e["units"]
    BY <1>0
  <2> HIDE DEF e
  <2>2. \A id : UnitsOf(db', id) = UnitsOf(e, id)
    BY <2>1 DEF UnitsOf
  <2>3. \A P : KeepsServices(e, P) => KeepsServices(db', P)
    BY <2>1 DEF KeepsServices
  <2> QED
    BY <1>2, <2>2, <2>3
<1>4. \A t \in txns' : LeavesUnits(t.ops)
  OBVIOUS
<1>5. DOMAIN db'["services"] \subseteq DOMAIN db["services"]
  <2>1. \A op \in S : op.c = "services" => op.change # "insert"
    BY <1>1 DEF LeavesUnits
  <2>2. DOMAIN e["services"] \subseteq DOMAIN db["services"]
    BY <1>0, <2>1, ServiceAfter
  <2> QED
    BY <1>0, <2>2
<1>6. UnitsCounted(db', txns')
  <2>1. \A id \in DOMAIN db["services"] : Counted(db, id)
    BY SettledCounts DEF CountsInv
  <2>2. \A id \in DOMAIN e["services"] : Counted(e, id)
    BY <1>0, <1>1, <2>1, LeftCounted
  <2>3. db'["services"] = e["services"] /\ db'["units"] = e["units"]
    BY <1>0
  <2> HIDE DEF e
  <2>4. \A id : UnitsOf(db', id) = UnitsOf(e, id)
    BY <2>3 DEF UnitsOf
  <2>5. \A id \in DOMAIN db'["services"] : Counted(db', id)
    BY <2>2, <2>3, <2>4, StillCounted
  <2> QED
    BY <1>4, <2>5, SettledCounts
<1>7. UnitsSettled'
  BY <1>4 DEF UnitsSettled
<1>8. ServicesKept'
  <2>1. \A t \in txns' : KeepsServices(db', t.ops)
    BY <1>3 DEF CountsInv, ServicesKept
  <2> QED
    BY <1>5, <2>1 DEF CountsInv, ServicesKept
<1>9. \A P : MakesAll(db, P) <=> MakesAll(db, P)'
  BY <1>3, SameRight, SameMade
<1>10. MadeRight'
  <2>1. /\ \A c \in Made : DOMAIN db[c] \subseteq DOMAIN db'[c]
        /\ \A op \in S : op.c \in Made => op.id \in DOMAIN db'[op.c]
        /\ \A c \in Made : DOMAIN db'[c] \subseteq Wanted(c)
        /\ \A key \in DOMAIN db'["refcounts"] : db'["refcounts"][key]["refcount"] = RightCount(db, key)
    BY <1>0, MadeAfter DEF CountsInv, MadeRight
  <2>2. \A key : RightCount(db, key)' = RightCount(db, key)
    BY <1>3, SameRight, SameMade
  <2>3. \A t \in txns' : MakesNone(t.ops) \/ MakesAll(db, t.ops)'
    BY <1>9 DEF CountsInv, MadeRight
  <2>4. \A t \in txns' : t.applying =>
          \A op \in t.done : op.c \in Made => op.id \in DOMAIN db'[op.c]
    BY <2>1 DEF CountsInv, MadeRight
  <2> QED
    BY <2>1, <2>2, <2>3, <2>4, SameMade DEF MadeRight
<1> QED
  BY <1>6, <1>7, <1>8, <1>9, <1>10

\* Either all of it is there afterwards, or nothing as before, or the transaction is
\* half carried out.
LEMMA SettledMakes ==
  ASSUME CountsInv, b7' = b7, Populace \subseteq DOMAIN db,
         NEW O, MakesNone(O) \/ MakesAll(db, O), NEW S \in SUBSET O,
         \A c \in Populace : db'[c] = Apply(db, S)[c],
         MadeRight', \A P : MakesAll(db, P) <=> MakesAll(db, P)',
         \* All of it is done, or the transaction is pending or was not begun.
         \/ \A op \in O \ S : op.c \in Made => op.id \in DOMAIN db[op.c]
         \/ \E t \in txns' : t.applying /\ t.ops = O
         \/ S = {} /\ \A t \in txns : t.applying => t \in txns',
         \* The others stay pending.
         \A t \in txns : t.applying => t \in txns' \/ t.ops = O
  PROVE  AllOrNone'
<1>0. Made \subseteq Populace
  BY DEF Populace
<1>1. /\ \A c \in Made : DOMAIN db[c] \subseteq DOMAIN db'[c]
      /\ \A op \in S : op.c \in Made => op.id \in DOMAIN db'[op.c]
      /\ MakesNone(O) => \A c \in Made : db'[c] = db[c]
      /\ \A c \in Made : DOMAIN db'[c] \subseteq Wanted(c)
  BY <1>0, MadeAfter DEF CountsInv, MadeRight
<1>2. CASE \A c \in Made : DOMAIN db[c] = Wanted(c)
  BY <1>1, <1>2, SameMade DEF AllOrNone
<1>3. ASSUME NEW t \in txns, t.applying, MakesAll(db, t.ops), t \in txns'
      PROVE  AllOrNone'
  BY <1>3 DEF AllOrNone
<1>4. CASE S = {} /\ \A t \in txns : t.applying => t \in txns'
  <2>1. \A c \in Made : db'[c] = db[c]
    BY <1>0, <1>4, ApplyElsewhere
  <2> QED
    BY <1>2, <1>3, <1>4, <2>1 DEF CountsInv, AllOrNone
<1>5. CASE MakesNone(O)
  <2>1. \A c \in Made : db'[c] = db[c]
    BY <1>1, <1>5
  <2>2. ASSUME NEW t \in txns, t.applying, MakesAll(db, t.ops), t.ops = O
        PROVE  AllOrNone'
    <3>1. \A c \in Made : Wanted(c) = {}
      BY <1>5, <2>2 DEF MakesAll, MakesNone, Touches
    <3> QED
      BY <1>1, <3>1 DEF AllOrNone
  <2> QED
    BY <1>2, <1>3, <2>1, <2>2 DEF CountsInv, AllOrNone
<1>6. CASE MakesAll(db, O) /\ \E t \in txns' : t.applying /\ t.ops = O
  BY <1>6 DEF AllOrNone
<1>7. CASE MakesAll(db, O) /\ \A op \in O \ S : op.c \in Made => op.id \in DOMAIN db[op.c]
  <2>1. \A op \in O : op.c \in Made => op.id \in DOMAIN db'[op.c]
    BY <1>1, <1>7
  <2>2. \A c \in Made : Wanted(c) \subseteq DOMAIN db'[c]
    BY <1>7, <2>1 DEF MakesAll, Touches
  <2> QED
    BY <1>1, <2>2, SameMade DEF AllOrNone
<1> QED
  BY <1>4, <1>5, <1>6, <1>7

-----------------------------------------------------------------------------
(* Before anything of the upgrade is carried out or pending.               *)

\* The agents make no service and say nothing new of the service of a unit, and they
\* know nothing of what moveServices makes.
LEMMA BegunByAgents ==
  ASSUME StillConsistent, NothingRenamed, NamesKept, NothingClaimed, FoundAsAssumed, NotBegun
  PROVE  /\ \A t \in txns : \A O \in SUBSET t.ops : Agentlike(O)
         /\ \A t \in txns : MakesNone(t.ops)
         /\ \A c \in Made : DOMAIN db[c] = {}
<1>0. RecordedUUIDs(db) = {}
  BY DEF NotBegun
<1>1. ASSUME NEW t \in txns, NEW op \in t.ops
      PROVE  /\ op.c = "services" => op.change = "update"
             /\ op.c \notin Made
             /\ op.c = "units" /\ op.change = "update" =>
                  Naming["units"] \cap (op.unset \cup DOMAIN op.set) = {}
  <2>1. Unobtrusive(op)
    BY <1>0, <1>1 DEF NothingClaimed, Discreet
  <2>2. KeepsNames(b7, op) /\ (op.c \in Referring => SaysServices(op.c, op.set))
    BY <1>0, <1>1 DEF NamesKept, NothingRenamed, KeepNames, RenameNothing
  <2>3. "units" \in Referring /\ NewName["units"] = "application"
    BY DEF Referring, NewName
  <2>4. op.c = "units" => ~Has(op.set, "application")
    BY <2>2, <2>3 DEF SaysServices
  <2> QED
    BY <2>1, <2>2, <2>3, <2>4 DEF Unobtrusive, SparesServices, KeepsNames, Made
<1>2. \A t \in txns : \A O \in SUBSET t.ops : Agentlike(O)
  BY <1>1 DEF Agentlike, KeepsServices
<1>3. \A t \in txns : MakesNone(t.ops)
  BY <1>1 DEF MakesNone
<1>4. DOMAIN db["applications"] = {}
  BY <1>0 DEF StillConsistent, Consistent
<1>5. DOMAIN db["refcounts"] = {}
  <2>1. "moveServices" \in Claiming \ {"upgradeCloudImageMetadata"}
    BY DEF Claiming
  <2>2. "moveServices" \in Accepted
    BY <2>1, FirstRunAssumption DEF FoundAsAssumed, Accepted
  <2>3. Fit(db, "moveServices")
    BY <1>0, <2>2 DEF NothingClaimed
  <2> QED
    BY <2>3, FitMeans DEF ServicesFit
<1> QED
  BY <1>2, <1>3, <1>4, <1>5 DEF Made

\* A transaction of the agents is completed.
LEMMA AgentStep ==
  ASSUME CountsInv, b7' = b7, DOMAIN db = Collections,
         StillConsistent, NothingRenamed, NamesKept, NothingClaimed, FoundAsAssumed, NotBegun,
         \A t \in txns : t.done \subseteq t.ops,
         NEW t \in txns, Complete(t)
  PROVE  CountsInv'
<1>0. /\ Populace \subseteq DOMAIN db /\ {"units", "services"} \subseteq DOMAIN db
      /\ Made \subseteq Populace
  BY DEF Populace, Made, Collections
<1>1. /\ \A s \in txns : \A O \in SUBSET s.ops : Agentlike(O)
      /\ \A s \in txns : MakesNone(s.ops)
      /\ \A c \in Made : DOMAIN db[c] = {}
  BY BegunByAgents
<1>2. /\ txns' = txns \ {t}
      /\ db' = Apply(db, Rest(t)) \/ (db' = db /\ ~t.applying)
  BY DEF Complete, Rest
<1>3. UnitsCounted(db', txns')
  BY <1>0, <1>1, <1>2, AgentsComplete, AgentDropped DEF CountsInv
<1>4. Rest(t) \in SUBSET t.ops
  BY DEF Rest
<1>5. UnitsSettled'
  <2>1. Neutral(t.ops) /\ \A O \in SUBSET t.ops : Neutral(O)
    BY DEF NotBegun, Neutral
  <2>2. RecordedUUIDs(db') \subseteq RecordedUUIDs(db)
    BY <1>2, <1>4, <2>1, NeutralQuiet DEF Quiet
  <2> QED
    BY <1>2, <2>2 DEF NotBegun, UnitsSettled
<1>6. ServicesKept'
  <2>0. "services" \in DOMAIN db /\ Agentlike(Rest(t))
    BY <1>0, <1>1, <1>4
  <2>1. DOMAIN db'["services"] = DOMAIN db["services"]
    <3>1. DOMAIN Apply(db, Rest(t))["services"] = DOMAIN db["services"]
      BY <2>0, <1>4, ServiceApart
    <3> QED
      BY <3>1, <1>2
  <2>2. \A s \in txns' : \A d : KeepsServices(d, s.ops)
    BY <1>1, <1>2 DEF Agentlike
  <2> QED
    BY <2>1, <2>2 DEF CountsInv, ServicesKept
<1>7. \A c \in Made : db'[c] = db[c]
  <2>1. \A c \in Made : Apply(db, Rest(t))[c] = db[c]
    BY <1>0, <1>1, <1>4, ApplyElsewhere DEF MakesNone
  <2> QED
    BY <1>2, <2>1
<1>8. MadeRight'
  <2>1. "refcounts" \in Made
    BY DEF Made
  <2>2. \A s \in txns' : MakesNone(s.ops) /\ \A op \in s.done : op.c \notin Made
    BY <1>1, <1>2 DEF MakesNone
  <2> QED
    BY <1>1, <1>7, <2>1, <2>2 DEF MadeRight
<1>9. AllOrNone'
  BY <1>1, <1>7 DEF AllOrNone
<1> QED
  BY <1>3, <1>5, <1>6, <1>8, <1>9 DEF CountsInv

\* One of upgrade-db is completed.
LEMMA SettledComplete ==
  ASSUME CountsInv, b7' = b7, DOMAIN db = Collections, \A t \in txns : LeavesUnits(t.ops),
         \A t \in txns : t.done \subseteq t.ops,
         NEW t \in txns, Complete(t)
  PROVE  CountsInv'
<1>0. Populace \subseteq DOMAIN db
  BY DEF Populace, Made, Collections
<1>1. txns' = txns \ {t}
  BY DEF Complete
<1>2. LeavesUnits(t.ops) /\ KeepsServices(db, t.ops) /\ (MakesNone(t.ops) \/ MakesAll(db, t.ops))
  BY DEF CountsInv, ServicesKept, MadeRight
<1>3. ASSUME NEW S \in SUBSET t.ops, \A c \in Populace : db'[c] = Apply(db, S)[c],
             \/ \A op \in t.ops \ S : op.c \in Made => op.id \in DOMAIN db[op.c]
             \/ S = {} /\ ~t.applying
      PROVE  CountsInv'
  <2>1. /\ UnitsCounted(db, txns)' /\ UnitsSettled' /\ ServicesKept' /\ MadeRight'
        /\ \A P : MakesAll(db, P) <=> MakesAll(db, P)'
    BY <1>0, <1>1, <1>2, <1>3, SettledStep
  <2>2. AllOrNone'
    BY <1>0, <1>1, <1>2, <1>3, <2>1, SettledMakes
  <2> QED
    BY <2>1, <2>2 DEF CountsInv
<1>4. CASE t.applying
  <2>1. db' = Apply(db, t.ops \ t.done)
    BY <1>4 DEF Complete
  <2>2. \A op \in t.done : op.c \in Made => op.id \in DOMAIN db[op.c]
    BY <1>4 DEF CountsInv, MadeRight
  <2> QED
    BY <1>3, <2>1, <2>2
<1>5. CASE ~t.applying /\ db' = Apply(db, t.ops)
  BY <1>3, <1>5
<1>6. CASE ~t.applying /\ db' = db
  <2>1. \A c \in Populace : db'[c] = Apply(db, {})[c]
    BY <1>0, <1>6, ApplyElsewhere
  <2> QED
    BY <1>3, <1>6, <2>1
<1> QED
  BY <1>4, <1>5, <1>6 DEF Complete

\* Nothing is done to the units, the services and what is made of them, and what is
\* left pending has nothing to do with them.
LEMMA ElsewhereStep ==
  ASSUME CountsInv, b7' = b7, Populace \subseteq DOMAIN db \cap DOMAIN db',
         \A c \in Populace : db'[c] = db[c],
         txns \subseteq txns',
         \A t \in txns' \ txns : t.done \subseteq t.ops /\ \A op \in t.ops : op.c \notin Populace,
         \/ txns = {}
         \/ /\ RecordedUUIDs(db') \subseteq RecordedUUIDs(db)
            /\ \A t \in txns' \ txns : Neutral(t.ops)
  PROVE  CountsInv'
<1>0. {"units", "services", "refcounts"} \subseteq Populace /\ Made \subseteq Populace
  BY DEF Populace, Made
<1>1. UnitsCounted(db', txns')
  BY <1>0, CountsElsewhere DEF CountsInv
<1>2. \A t \in txns' \ txns : LeavesUnits(t.ops)
  BY <1>0 DEF LeavesUnits, Populates
<1>3. UnitsSettled'
  BY <1>2 DEF CountsInv, UnitsSettled, NotBegun
<1>4. ServicesKept'
  <2>1. \A P : KeepsServices(db, P) => KeepsServices(db', P)
    BY <1>0 DEF KeepsServices
  <2>2. \A t \in txns' \ txns : KeepsServices(db', t.ops)
    BY <1>0 DEF KeepsServices
  <2> QED
    BY <1>0, <2>1, <2>2 DEF CountsInv, ServicesKept
<1>5. \A id : UnitsOf(db', id) = UnitsOf(db, id)
  BY <1>0 DEF UnitsOf
<1>6. /\ \A key : RightCount(db, key)' = RightCount(db, key)
      /\ \A P : MakesAll(db, P) <=> MakesAll(db, P)'
  BY <1>5, SameRight, SameMade
<1>7. MadeRight'
  <2>1. \A t \in txns' \ txns : MakesNone(t.ops) /\ \A op \in t.done : op.c \notin Made
    BY <1>0 DEF MakesNone
  <2> QED
    BY <1>0, <1>6, <2>1, SameMade DEF CountsInv, MadeRight
<1>8. AllOrNone'
  BY <1>0, <1>6, SameMade DEF CountsInv, AllOrNone
<1> QED
  BY <1>1, <1>3, <1>4, <1>7, <1>8 DEF CountsInv

-----------------------------------------------------------------------------
(* The steps of the upgrade and the reference counts.                      *)

\* dropServices takes the services that were left.
LEMMA DropStep ==
  ASSUME IdentityInv, CountsInv, b7' = b7, StageFinishes, live, pc = "dropServices"
  PROVE  CountsInv'
<1>1. txns = {} /\ txns' = {}
  <2>1. "dropServices" \in AfterResume
    BY DEF AfterResume, Stages, Follows
  <2> QED
    BY <2>1 DEF StageFinishes, IdentityInv, IdentityOwned, NothingPending
<1>2. /\ DOMAIN db'["services"] = {}
      /\ \A c \in Made \cup {"units"} : db'[c] = db[c]
  <2>1. db' = [db EXCEPT !["services"] = NoDoc]
    BY DEF StageFinishes, Drops
  <2>2. "services" \in DOMAIN db /\ DOMAIN NoDoc = {}
    BY DEF IdentityInv, ProcessInv, TypeOK, DiskOK, Collections, NoDoc
  <2> QED
    BY <2>1, <2>2 DEF Made
<1>3. UnitsCounted(db', txns')
  BY <1>1, <1>2 DEF UnitsCounted
<1>4. UnitsSettled' /\ ServicesKept'
  BY <1>1, <1>2 DEF UnitsSettled, ServicesKept
<1>5. \A id : UnitsOf(db', id) = UnitsOf(db, id)
  BY <1>2 DEF UnitsOf
<1>6. \A key : RightCount(db, key)' = RightCount(db, key)
  BY <1>5, SameRight, SameMade
<1>7. MadeRight' /\ AllOrNone'
  <2>1. "refcounts" \in Made
    BY DEF Made
  <2> QED
    BY <1>1, <1>2, <1>6, <2>1, SameMade DEF CountsInv, MadeRight, AllOrNone
<1> QED
  BY <1>3, <1>4, <1>7 DEF CountsInv

\* The transaction of a stage past updateController is committed or left behind.
LEMMA LateTxnStep ==
  ASSUME IdentityInv, Running, InHand, HomesWait, NamesWait, FoundAsAssumed, CountsInv, b7' = b7,
         live, inTxn, pc \in AfterController \ Writing, Commit \/ LeavesBehind
  PROVE  CountsInv'
<1>0. Populace \subseteq DOMAIN db
  BY DEF IdentityInv, ProcessInv, TypeOK, DiskOK, Populace, Made, Collections
<1>1. txns = {}
  <2>1. pc \in AfterResume
    BY DEF AfterController, AfterResume
  <2> QED
    BY <2>1 DEF IdentityInv, IdentityOwned, NothingPending
<1>2. LeavesUnits(ops) /\ KeepsServices(db, ops) /\ (MakesNone(ops) \/ MakesAll(db, ops))
  BY <1>1, LateOps
<1>3. ASSUME NEW S \in SUBSET ops, \A c \in Populace : db'[c] = Apply(db, S)[c],
             \A t \in txns' : t.ops = ops /\ (t.applying => t.done \subseteq S),
             S = ops \/ S = {} \/ \E t \in txns' : t.applying
      PROVE  CountsInv'
  <2>1. /\ UnitsCounted(db, txns)' /\ UnitsSettled' /\ ServicesKept' /\ MadeRight'
        /\ \A P : MakesAll(db, P) <=> MakesAll(db, P)'
    BY <1>0, <1>1, <1>2, <1>3, SettledStep
  <2>2. \/ \A op \in ops \ S : op.c \in Made => op.id \in DOMAIN db[op.c]
        \/ \E t \in txns' : t.applying /\ t.ops = ops
        \/ S = {} /\ \A t \in txns : t.applying => t \in txns'
    BY <1>1, <1>3
  <2>3. \A t \in txns : t.applying => t \in txns' \/ t.ops = ops
    BY <1>1
  <2>4. AllOrNone'
    BY <1>0, <1>2, <1>3, <2>1, <2>2, <2>3, SettledMakes
  <2> QED
    BY <2>1, <2>4 DEF CountsInv
<1>4. CASE Commit
  <2>1. db' = Apply(db, ops) /\ txns' = {}
    BY <1>1, <1>4 DEF Commit
  <2> QED
    BY <1>3, <2>1
<1>5. CASE db' = db /\ txns' = txns \cup {Recorded}
  <2>1. \A c \in Populace : db'[c] = Apply(db, {})[c]
    BY <1>0, <1>5, ApplyElsewhere
  <2>2. \A t \in txns' : t.ops = ops /\ ~t.applying
    BY <1>1, <1>5 DEF Recorded
  <2> QED
    BY <1>3, <2>1, <2>2
<1>6. ASSUME NEW done \in SUBSET ops, db' = Apply(db, done),
             txns' = txns \cup {[ops |-> ops, done |-> done, applying |-> TRUE]}
      PROVE  CountsInv'
  <2>1. /\ \A t \in txns' : t.ops = ops /\ t.applying /\ t.done = done
        /\ \E t \in txns' : t.applying
    BY <1>1, <1>6
  <2> QED
    BY <1>3, <1>6, <2>1
<1> QED
  BY <1>4, <1>5, <1>6 DEF LeavesBehind

\* Those of updateController and of clean-db have nothing to do with units and services.
LEMMA EarlyTxnStep ==
  ASSUME IdentityInv, InHand, CleansOnly, CountsInv, b7' = b7,
         live, inTxn, pc \in {"updateController", "removeCleanups"}, Commit \/ LeavesBehind
  PROVE  CountsInv'
<1>0. Populace \subseteq Collections /\ DOMAIN db = Collections
  BY DEF IdentityInv, ProcessInv, TypeOK, DiskOK, Populace, Made, Collections
<1>1. \A op \in ops : op.c \notin Populace
  <2>1. CASE pc = "updateController"
    <3>1. ops = UpdateControllerOps(db, uuid)
      BY <2>1 DEF InHand, ReadFor
    <3> QED
      BY <3>1, ControllerAbout DEF About, Populace, Made
  <2>2. CASE pc = "removeCleanups"
    BY <2>2 DEF CleansOnly, Populace, Made
  <2> QED
    BY <2>1, <2>2
<1>2. \A S \in SUBSET ops : \A c \in Populace : Apply(db, S)[c] = db[c]
  BY <1>0, <1>1, ApplyElsewhere
<1>3. txns = {} \/ Neutral(ops)
  <2>1. "updateController" \in AfterResume
    BY DEF AfterResume, Stages, Follows
  <2>2. pc = "removeCleanups" => Neutral(ops)
    BY DEF IdentityInv, IdentityOwned, OpsKind
  <2> QED
    BY <2>1, <2>2 DEF IdentityInv, IdentityOwned, NothingPending
<1>4. ASSUME Neutral(ops), NEW S \in SUBSET ops
      PROVE  RecordedUUIDs(Apply(db, S)) \subseteq RecordedUUIDs(db)
  <2>1. Neutral(S)
    BY <1>4 DEF Neutral
  <2> QED
    BY <1>0, <2>1, NeutralQuiet DEF Quiet
<1>5. /\ db' = db \/ \E S \in SUBSET ops : db' = Apply(db, S)
      /\ DOMAIN db' = DOMAIN db
  <2>1. db' = db \/ \E S \in SUBSET ops : db' = Apply(db, S)
    BY LeftBehind DEF Commit
  <2> QED
    BY <2>1, ApplyElsewhere
<1>6. /\ txns \subseteq txns'
      /\ \A t \in txns' \ txns : t.ops = ops /\ t.done \subseteq t.ops
  BY DEF Commit, LeavesBehind, Recorded
<1> QED
  BY <1>0, <1>1, <1>2, <1>3, <1>4, <1>5, <1>6, ElsewhereStep

\* Every step keeps the invariant.
LEMMA CountsStep ==
  ASSUME IdentityInv, PromiseInv, OneRunMigrates, StagesInv, HomesInv, ReferencesInv, FirstRunInv,
         FoundAsAssumed, CountsInv, [Next]_vars
  PROVE  CountsInv'
<1>0. /\ ProcessInv /\ Running /\ InHand /\ StillConsistent /\ CleansOnly /\ HomesWait
      /\ NamesKept /\ NothingRenamed /\ NamesWait /\ NothingClaimed
      /\ DOMAIN db = Collections /\ Populace \subseteq DOMAIN db
  BY DEF IdentityInv, HomesInv, HomesWait, StagesInv, PromiseInv, ReferencesInv, FirstRunInv,
         ProcessInv, TypeOK, DiskOK, Populace, Made, Collections
<1>1. CASE UNCHANGED <<db, txns, b7>>
  BY <1>0, <1>1, ElsewhereStep
<1>2. ASSUME NEW command \in DOMAIN FirstStage, NEW forReal \in BOOLEAN,
             Start(command, forReal)
      PROVE  UNCHANGED <<db, txns, b7>>
  BY <1>2 DEF Start, disk
<1>3. UNCHANGED vars => UNCHANGED <<db, txns, b7>>
  BY DEF vars, disk
<1>4. CASE Step \/ Failure
  <2>1. \/ StageReads \/ Quits \/ StagePrepares \/ StageCompletes
        \/ StageRenames \/ StageFinishes \/ DryRunTransaction \/ Commit
    BY <1>0, <1>4, StageKinds
  <2>2. b7' = b7
    BY <2>1 DEF StageReads, Quits, StagePrepares, StageCompletes, StageRenames, StageFinishes,
           DryRunTransaction, Commit, Continue, Exit
  <2>3. StageReads \/ DryRunTransaction => UNCHANGED <<db, txns, b7>>
    BY <2>2 DEF StageReads, DryRunTransaction, disk
  <2>4. Quits => UNCHANGED <<db, txns, b7>> \/ (live /\ inTxn /\ LeavesBehind)
    BY <2>2 DEF Quits
  <2>5. CASE live /\ inTxn /\ (Commit \/ LeavesBehind)
    <3>1. \/ pc \in {"updateController", "removeCleanups"}
          \/ pc \in AfterController \ Writing
      BY <1>0, <2>5 DEF Running, Transacting
    <3> QED
      BY <1>0, <2>2, <2>5, <3>1, EarlyTxnStep, LateTxnStep
  <2>6. Commit => live /\ inTxn
    BY DEF Commit, CanRun
  <2>7. CASE StagePrepares
    <3>1. ASSUME NEW c \in {"controllers", "models"}, NEW ids
          PROVE  /\ DOMAIN ClearQueues(db, c, ids) = DOMAIN db
                 /\ \A k \in Populace : ClearQueues(db, c, ids)[k] = db[k]
                 /\ RecordedUUIDs(ClearQueues(db, c, ids)) \subseteq RecordedUUIDs(db)
      <4>1. c \in Collections
        BY DEF Collections
      <4>2. Quiet(db, ClearQueues(db, c, ids))
        BY <1>0, <4>1, ClearQuiet
      <4> QED
        BY <1>0, <4>2 DEF Quiet, ClearQueues, Populace, Made
    <3>2. /\ txns' = txns /\ DOMAIN db' = DOMAIN db
          /\ \A k \in Populace : db'[k] = db[k]
          /\ RecordedUUIDs(db') \subseteq RecordedUUIDs(db)
      BY <2>7, <3>1 DEF StagePrepares
    <3> QED
      BY <1>0, <2>2, <3>2, ElsewhereStep
  <2>8. CASE StageCompletes
    <3>1. PICK t \in txns : Complete(t)
      BY <2>8 DEF StageCompletes
    <3>2. \A s \in txns : s.done \subseteq s.ops
      BY <1>0 DEF ProcessInv, TypeOK, DiskOK
    <3>3. NotBegun \/ \A s \in txns : LeavesUnits(s.ops)
      BY DEF CountsInv, UnitsSettled
    <3> QED
      BY <1>0, <2>2, <3>1, <3>2, <3>3, AgentStep, SettledComplete
  <2>9. CASE StageRenames \/ (StageFinishes /\ ~(live /\ pc = "dropServices"))
    <3>1. txns' = txns
      BY <2>9 DEF StageRenames, StageFinishes
    <3>2. DOMAIN db' = DOMAIN db /\ \A c \in Populace : db'[c] = db[c]
      <4>1. CASE StageRenames
        <5>1. PICK id : db' = Apply(db, {HistoryUpdate(db, id)})
          BY <4>1 DEF StageRenames
        <5>2. \A op \in {HistoryUpdate(db, id)} : op.c \notin Populace
          BY SchemaAbout DEF About, Populace, Made
        <5> QED
          BY <1>0, <5>1, <5>2, ApplyElsewhere
      <4>2. CASE StageFinishes /\ ~(live /\ pc = "dropServices")
        <5>1. /\ DOMAIN Drops = {"dropServices", "dropSettingsRefs", "dropIPAddresses"}
              /\ Drops["dropSettingsRefs"] = "settingsrefs"
              /\ Drops["dropIPAddresses"] = "ipaddresses"
          BY DEF Drops
        <5>2. \/ db' = db
              \/ db' = [db EXCEPT !["settingsrefs"] = NoDoc]
              \/ db' = [db EXCEPT !["ipaddresses"] = NoDoc]
          BY <4>2, <5>1 DEF StageFinishes
        <5> QED
          BY <1>0, <5>2 DEF Populace, Made
      <4> QED
        BY <2>9, <4>1, <4>2
    <3>3. txns = {} \/ RecordedUUIDs(db') \subseteq RecordedUUIDs(db)
      <4>1. CASE live
        <5>1. pc \in AfterResume
          BY <2>9 DEF StageRenames, StageFinishes, Writing, AfterResume, Stages, Follows
        <5> QED
          BY <4>1, <5>1 DEF IdentityInv, IdentityOwned, NothingPending
      <4>2. CASE ~live
        BY <2>9, <4>2 DEF StageRenames, StageFinishes
      <4> QED
        BY <4>1, <4>2
    <3> QED
      BY <1>0, <2>2, <3>1, <3>2, <3>3, ElsewhereStep
  <2>10. CASE StageFinishes /\ live /\ pc = "dropServices"
    BY <2>2, <2>10, DropStep
  <2> QED
    BY <1>1, <2>1, <2>3, <2>4, <2>5, <2>6, <2>7, <2>8, <2>9, <2>10
<1> QED
  BY <1>1, <1>2, <1>3, <1>4 DEF Next, Finished

\* Beta 7 counted the units.
LEMMA CountsInit ==
  ASSUME Init
  PROVE  CountsInv
<1>1. PICK s \in B7States : db = s.db /\ txns = s.txns /\ b7 = s.db
  BY DEF Init
<1>2. UnitsCounted(db, txns)
  BY <1>1, CountsAssumption
<1>3. NotBegun
  BY <1>1, B7Assumption DEF NotBegun
<1>4. HomesInv /\ FoundAsAssumed /\ ReferencesInv /\ FirstRunInv /\ StillConsistent
  <2>1. ~live
    BY DEF Init
  <2>2. StillConsistent
    BY <1>1, <2>1, ConsistencyAssumption DEF StillConsistent
  <2> QED
    BY <2>2, HomesInit, ReferencesInit, FirstRunInit
<1>5. /\ \A t \in txns : \A O \in SUBSET t.ops : Agentlike(O)
      /\ \A t \in txns : MakesNone(t.ops)
      /\ \A c \in Made : DOMAIN db[c] = {}
  BY <1>3, <1>4, BegunByAgents DEF ReferencesInv, FirstRunInv
<1>6. UnitsSettled
  BY <1>3 DEF UnitsSettled
<1>7. ServicesKept
  BY <1>1, <1>5 DEF ServicesKept, Agentlike
<1>8. MadeRight
  <2>1. "refcounts" \in Made
    BY DEF Made
  <2>2. \A t \in txns : t.done \subseteq t.ops
    BY <1>1, B7Assumption
  <2> QED
    BY <1>5, <2>1, <2>2 DEF MadeRight, MakesNone
<1>9. AllOrNone
  BY <1>5 DEF AllOrNone
<1> QED
  BY <1>2, <1>6, <1>7, <1>8, <1>9 DEF CountsInv

\* The number of its units that a service says is right whenever moveServices reads it,
\* and what moveServices makes is all there or not at all, with the right counts.
THEOREM CountsInvariant == Spec => []CountsInv
<1>1. IdentityInv /\ PromiseInv /\ OneRunMigrates /\ StagesInv /\ HomesInv /\ ReferencesInv
        /\ FirstRunInv /\ FoundAsAssumed /\ CountsInv /\ [Next]_vars => CountsInv'
  BY CountsStep
<1> QED
  BY <1>1, CountsInit, IdentityInvariant, PromiseInvariant, OneMigration, StagesInvariant,
     HomesAlways, ReferencesInvariant, FirstRunInvariant, PTL DEF Spec

\* Unless a transaction is half carried out, an application has the charm that its
\* service was found with.
LEMMA ApplicationsFound ==
  ASSUME HomesInv, ~HalfApplied, DOMAIN db["applications"] = DOMAIN b7["services"],
         NEW id \in DOMAIN db["applications"]
  PROVE  CharmURL(db["applications"][id]) = CharmURL(b7["services"][id])
<1> DEFINE mv == Move("services", id, "applications", id, {"ownertag"}, {"unitcount"})
<1>1. mv \in Moves(b7)
  BY DEF Moves, ServiceMoves
<1>2. AtOld(b7, db, mv) \/ AtNew(b7, db, mv)
  BY <1>1 DEF HomesInv, HomesKept, EachHasAHome, Moving, HalfApplied
<1>3. Alike(db["applications"][id], b7["services"][id], {"unitcount", "ownertag"})
  <2>1. ~AtOld(b7, db, mv)
    BY DEF AtOld, Move
  <2>2. {"unitcount"} \cup {"ownertag"} = {"unitcount", "ownertag"}
    OBVIOUS
  <2> QED
    BY <1>2, <2>1, <2>2 DEF AtNew, Move
<1>4. "charmurl" \notin Bookkeeping \cup {"unitcount", "ownertag"}
  BY DEF Bookkeeping
<1> QED
  BY <1>3, <1>4, AlikeString DEF CharmURL

\* Unless a transaction is half carried out, every document that applications use has
\* been counted once for each application and once for each of its units.
THEOREM RefcountsAlwaysMatch == Spec => []RefcountsMatch
<1>1. HomesInv /\ CountsInv => RefcountsMatch
  <2> SUFFICES ASSUME HomesInv, CountsInv, ~HalfApplied, DOMAIN db["applications"] # {}
               PROVE  /\ DOMAIN db["refcounts"] =
                           UNION {RefCountKeys(id, CharmURL(db["applications"][id]))
                                    : id \in DOMAIN db["applications"]}
                      /\ \A key \in DOMAIN db["refcounts"] :
                           db["refcounts"][key]["refcount"] =
                             Cardinality(UsersOf(db, key))
                             + Cardinality(UNION {UnitsOf(db, id) : id \in UsersOf(db, key)})
    BY DEF RefcountsMatch
  <2>1. /\ DOMAIN db["applications"] = DOMAIN b7["services"]
        /\ DOMAIN db["refcounts"] = Wanted("refcounts")
    BY DEF CountsInv, AllOrNone, HalfApplied, Made, Wanted
  <2>2. \A id \in DOMAIN db["applications"] :
          RefCountKeys(id, CharmURL(db["applications"][id])) = KeysOf(b7, id)
    BY <2>1, ApplicationsFound DEF KeysOf
  <2>3. DOMAIN db["refcounts"] =
          UNION {RefCountKeys(id, CharmURL(db["applications"][id])) : id \in DOMAIN db["applications"]}
    BY <2>1, <2>2 DEF Wanted
  <2>4. \A key : UsersOf(db, key) = FoundUsers(key)
    BY <2>1, <2>2 DEF UsersOf, FoundUsers
  <2>5. \A key \in DOMAIN db["refcounts"] : db["refcounts"][key]["refcount"] = RightCount(db, key)
    BY DEF CountsInv, MadeRight
  <2> QED
    BY <2>3, <2>4, <2>5 DEF RightCount
<1> QED
  BY <1>1, HomesInvariant, CountsInvariant, PTL

-----------------------------------------------------------------------------
(* The cleanups.                                                           *)

\* The operations make no cleanup.
MakesNoCleanup(O) == \A op \in O : op.c = "cleanups" => op.change # "insert"

\* The agents were making none when they were stopped.
AgentsMakeNoCleanup == \A s \in B7States : \A t \in s.txns : MakesNoCleanup(t.ops)

\* None is there once upgradePrecheck has seen to that, and none is on its way.
CleanupsCleared ==
  /\ \A t \in txns : MakesNoCleanup(t.ops)
  /\ inTxn /\ pc = "removeCleanups" => MakesNoCleanup(ops)
  /\ live /\ pc \in Stages \ {"upgradePrecheck", "removeCleanups"} => DOMAIN db["cleanups"] = {}
  /\ NoCleanupLeft

\* The transactions of upgrade-db and of clean-db make none.
LEMMA OwnCleanups ==
  ASSUME Running, InHand, CleanupsCleared, live, inTxn
  PROVE  MakesNoCleanup(ops)
<1>1. CASE pc = "removeCleanups"
  BY <1>1 DEF CleanupsCleared
<1>2. CASE pc = "updateController"
  <2>1. ops = UpdateControllerOps(db, uuid)
    BY <1>2 DEF InHand, ReadFor
  <2> QED
    BY <2>1, ControllerAbout DEF About, MakesNoCleanup
<1>3. CASE pc \in AfterController \ Writing
  <2>1. ReadFor
    BY <1>3 DEF InHand, AfterController
  <2>2. "cleanups" \notin Writes[pc]
    <3>1. AfterController = DOMAIN Writes
      BY DEF AfterController, Stages, Follows, Writes
    <3> QED
      BY <1>3, <3>1 DEF Writes
  <2> QED
    BY <1>3, <2>1, <2>2, OpsAbout DEF About, MakesNoCleanup
<1> QED
  BY <1>1, <1>2, <1>3 DEF Running, Transacting

\* Every step keeps them away.
LEMMA ClearedStep ==
  ASSUME IdentityInv, PromiseInv, StagesInv, CleanupsCleared, [Next]_vars
  PROVE  CleanupsCleared'
<1>0. /\ ProcessInv /\ Running /\ InHand /\ CleanupsOfCleanDB
      /\ DOMAIN db = Collections /\ "cleanups" \in Collections
  BY DEF IdentityInv, StagesInv, PromiseInv, ProcessInv, TypeOK, DiskOK, Collections
<1>1. ASSUME NEW O, MakesNoCleanup(O), NEW S \in SUBSET O
      PROVE  DOMAIN Apply(db, S)["cleanups"] \subseteq DOMAIN db["cleanups"]
  BY <1>0, <1>1, ApplyIDs DEF MakesNoCleanup
<1>2. ASSUME NEW command \in DOMAIN FirstStage, NEW forReal \in BOOLEAN,
             Start(command, forReal)
      PROVE  CleanupsCleared'
  <2>1. /\ UNCHANGED <<db, txns, inTxn>> /\ ~inTxn /\ exit' = "running"
        /\ pc' \in {"upgradePrecheck", "removeCleanups"}
    <3>1. "idle" \notin Stages
      BY IdleNoStage
    <3> QED
      BY <1>0, <1>2, <3>1 DEF Start, FirstStage, disk, ProcessInv
  <2> QED
    BY <2>1 DEF CleanupsCleared, NoCleanupLeft, Succeeded
<1>3. CASE UNCHANGED vars
  BY <1>3 DEF vars, disk, CleanupsCleared, NoCleanupLeft, Succeeded
<1>4. CASE Step \/ Failure
  <2>1. \/ StageReads \/ Quits \/ StagePrepares \/ StageCompletes
        \/ StageRenames \/ StageFinishes \/ DryRunTransaction \/ Commit
    BY <1>0, <1>4, StageKinds
  <2>2. pc \in Stages /\ ~Succeeded
    <3>1. Writing \subseteq Stages /\ Transacting \subseteq Stages
      BY DEF Transacting, Writing, AfterController, Stages, Follows
    <3>2. pc \in Stages
      BY <1>0, <2>1, <3>1
         DEF StageReads, Quits, StagePrepares, StageCompletes, StageRenames, StageFinishes,
             DryRunTransaction, Commit, CanRun, Running, Stages, Follows
    <3> QED
      BY <1>0, <3>2, IdleNoStage DEF Running, Succeeded
  <2>3. \A S : MakesNoCleanup(S) => \A R \in SUBSET S : MakesNoCleanup(R)
    BY DEF MakesNoCleanup
  \* What it does to the cleanups.
  <2>4. DOMAIN db'["cleanups"] \subseteq DOMAIN db["cleanups"]
    <3>1. CASE StageReads \/ DryRunTransaction
      BY <3>1 DEF StageReads, DryRunTransaction, disk
    <3>2. CASE StagePrepares
      BY <1>0, <3>2 DEF StagePrepares, ClearQueues, Collections
    <3>3. CASE StageCompletes
      <4>1. PICK t \in txns : Complete(t)
        BY <3>3 DEF StageCompletes
      <4>2. db' = db \/ \E S \in SUBSET t.ops : db' = Apply(db, S)
        BY <4>1 DEF Complete
      <4> QED
        BY <1>1, <4>2 DEF CleanupsCleared
    <3>4. CASE StageRenames
      <4>1. PICK id : db' = Apply(db, {HistoryUpdate(db, id)})
        BY <3>4 DEF StageRenames
      <4>2. MakesNoCleanup({HistoryUpdate(db, id)})
        BY DEF MakesNoCleanup, HistoryUpdate, UpdateOp
      <4> QED
        BY <1>1, <4>1, <4>2
    <3>5. CASE StageFinishes
      <4>1. \A k \in {"services", "settingsrefs", "ipaddresses"} :
              [db EXCEPT ![k] = NoDoc]["cleanups"] = db["cleanups"]
        BY <1>0
      <4>2. pc \in DOMAIN Drops => Drops[pc] \in {"services", "settingsrefs", "ipaddresses"}
        BY DEF Drops
      <4> QED
        BY <3>5, <4>1, <4>2 DEF StageFinishes
    <3>6. CASE Commit
      BY <1>1, <3>6, OwnCleanups, <1>0 DEF Commit, CanRun
    <3>7. CASE Quits
      <4>1. CASE UNCHANGED db
        BY <4>1
      <4>2. CASE live /\ inTxn /\ LeavesBehind
        <5>1. PICK S \in SUBSET ops : db' = db \/ db' = Apply(db, S)
          BY <4>2, LeftBehind
        <5> QED
          BY <1>0, <1>1, <4>2, <5>1, OwnCleanups
      <4> QED
        BY <3>7, <4>1, <4>2 DEF Quits
    <3> QED
      BY <2>1, <3>1, <3>2, <3>3, <3>4, <3>5, <3>6, <3>7
  <2>5. \A t \in txns' : MakesNoCleanup(t.ops)
    <3>1. CASE txns' \subseteq txns
      BY <3>1 DEF CleanupsCleared
    <3>2. CASE live /\ inTxn /\ LeavesBehind
      <4>1. \A t \in txns' : t \in txns \/ t.ops = ops
        BY <3>2, LeftBehind
      <4> QED
        BY <1>0, <3>2, <4>1, OwnCleanups DEF CleanupsCleared
    <3> QED
      BY <2>1, <3>1, <3>2
         DEF StageReads, Quits, StagePrepares, StageCompletes, Complete, StageRenames,
             StageFinishes, DryRunTransaction, Commit, disk
  <2>6. inTxn' /\ pc' = "removeCleanups" => MakesNoCleanup(ops')
    <3>1. CASE StageReads
      <4>1. pc' = pc /\ (pc = "removeCleanups" => ops' = RemoveCleanupsOps(db))
        BY <3>1 DEF StageReads
      <4>2. \A op \in RemoveCleanupsOps(db) : op.change = "remove"
        BY DEF RemoveCleanupsOps, RemoveAnyOp
      <4> QED
        BY <4>1, <4>2 DEF MakesNoCleanup
    <3>2. CASE StageCompletes \/ StageRenames
      BY <3>2 DEF StageCompletes, StageRenames, CleanupsCleared
    <3>3. ASSUME Continue \/ \E how : Exit(how) PROVE inTxn' = FALSE
      BY <3>3 DEF Continue, Exit
    <3>4. CASE Quits \/ StagePrepares \/ StageFinishes \/ DryRunTransaction \/ Commit
      BY <3>3, <3>4 DEF Quits, StagePrepares, StageFinishes, DryRunTransaction, Commit
    <3> QED
      BY <2>1, <3>1, <3>2, <3>4
  \* Where the process is after it.
  <2>7. CASE UNCHANGED <<pc, cmd, live, exit>>
    BY <2>2, <2>4, <2>5, <2>6, <2>7 DEF CleanupsCleared, NoCleanupLeft, Succeeded
  <2>8. CASE Quits
    <3>1. pc' = "idle" /\ ~Succeeded'
      BY <2>8 DEF Quits, Exit, Succeeded
    <3> QED
      BY <2>5, <2>6, <3>1, IdleNoStage DEF CleanupsCleared, NoCleanupLeft
  <2>9. CASE StagePrepares \/ StageFinishes \/ DryRunTransaction \/ Commit
    <3>0. Continue
      BY <2>9 DEF StagePrepares, StageFinishes, DryRunTransaction, Commit
    <3>1. live' = live /\ cmd' = cmd
      BY <3>0 DEF Continue, Exit
    <3>2. CASE ~live
      BY <2>5, <2>6, <3>1, <3>2 DEF CleanupsCleared, NoCleanupLeft, Succeeded
    <3>3. CASE live /\ pc = "removeCleanups"
      <4>1. pc' = "idle" /\ ~Succeeded'
        BY <1>0, <3>0, <3>1, <3>3
           DEF Continue, NextStage, Follows, Exit, CleanupsOfCleanDB, Succeeded
      <4> QED
        BY <2>5, <2>6, <4>1, IdleNoStage DEF CleanupsCleared, NoCleanupLeft
    <3>4. CASE live /\ pc # "removeCleanups"
      <4>1. pc = "upgradePrecheck" => StagePrepares
        <5>1. "upgradePrecheck" \notin Transacting \cup Writing
          BY DEF Transacting, Writing, AfterController
        <5> QED
          BY <1>0, <2>9, <3>4, <5>1
             DEF StageFinishes, DryRunTransaction, Commit, CanRun, Running
      <4>2. DOMAIN db["cleanups"] = {}
        BY <2>2, <3>4, <4>1 DEF CleanupsCleared, StagePrepares, MustBeEmpty
      <4> QED
        BY <2>4, <2>5, <2>6, <4>2 DEF CleanupsCleared, NoCleanupLeft
    <3> QED
      BY <3>2, <3>3, <3>4
  <2> QED
    BY <2>1, <2>7, <2>8, <2>9
       DEF StageReads, StagePrepares, StageCompletes, StageRenames, StageFinishes,
           DryRunTransaction, Commit
<1>5. (\E command \in DOMAIN FirstStage, forReal \in BOOLEAN : Start(command, forReal))
      \/ Step \/ Failure \/ UNCHANGED vars
  BY DEF Next, Finished
<1> QED
  BY <1>2, <1>3, <1>4, <1>5

\* Before the first command only the transactions of the agents are there.
LEMMA ClearedInit ==
  ASSUME AgentsMakeNoCleanup, Init
  PROVE  CleanupsCleared
  BY DEF AgentsMakeNoCleanup, Init, CleanupsCleared, NoCleanupLeft, Succeeded, Stages, Follows

\* Whatever is killed or repeated, a live upgrade-db that reports success leaves no
\* cleanup of beta 7 behind, for agents that no longer know its documents
\* (upgradedb.go:195), if the agents were not making one when they were stopped:
\* upgradeDB counts the cleanups too early (upgradedb.go:121), and this is all that
\* can come of it.
THEOREM NoCleanupSurvives ==
  ASSUME AgentsMakeNoCleanup
  PROVE  Spec => []NoCleanupLeft
<1>1. Init => CleanupsCleared
  BY ClearedInit
<1>2. IdentityInv /\ PromiseInv /\ StagesInv /\ CleanupsCleared /\ [Next]_vars => CleanupsCleared'
  BY ClearedStep
<1>3. CleanupsCleared => NoCleanupLeft
  BY DEF CleanupsCleared
<1> QED
  BY <1>1, <1>2, <1>3, IdentityInvariant, PromiseInvariant, StagesInvariant, PTL DEF Spec
=============================================================================
