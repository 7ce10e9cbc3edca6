------------------------------- MODULE References -------------------------------
(***************************************************************************)
(* The documents that name services, or applications once their stage has  *)
(* renamed the field: units, resources, references of models and the       *)
(* endpoints of relations.                                                 *)
(***************************************************************************)
EXTENDS MgoTxn

\* The field that a stage writes the names to.
NewName ==
  [units           |-> "application",
   resources       |-> "application-id",
   modelEntityRefs |-> "applications",
   relations       |-> "endpoints"]

Referring == DOMAIN NewName

\* All the fields of a document that say whom it names.
Naming ==
  [units           |-> {"service", "application"},
   resources       |-> {"service-id", "application-id"},
   modelEntityRefs |-> {"services", "applications"},
   relations       |-> {"endpoints"}]

\* What the field old of a document says, or the field new once renamed.
Renamed(doc, old, new) == IF Has(doc, new) THEN doc[new] ELSE ReadBsonDField(doc, old)

\* The services or applications that a document of c names.
NamedIn(c, doc) ==
  CASE c = "units"           -> {Renamed(doc, "service", "application")}
    [] c = "resources"       -> {Renamed(doc, "service-id", "application-id")}
    [] c = "modelEntityRefs" -> Renamed(doc, "services", "applications")
    [] c = "relations"       ->
         LET endpoints == ReadBsonDField(doc, "endpoints")
         IN  {Renamed(endpoints[i], "servicename", "applicationname") : i \in DOMAIN endpoints}

\* It says so in the words of beta 7.
SaysServices(c, doc) ==
  Has(doc, NewName[c]) =>
    /\ c = "relations"
    /\ \A i \in DOMAIN doc["endpoints"] : ~Has(doc["endpoints"][i], "applicationname")

\* All that the document id of c names are services of d; a relation names some.
NamesServices(d, c, id, doc) ==
  /\ c = "relations" => Has(doc, "endpoints")
  /\ \A name \in NamedIn(c, doc) : <<ModelOf(id), name>> \in DOMAIN d["services"]

\* The operation has no document name anything but services of d.
KeepsNames(d, op) ==
  op.c \in Referring =>
    /\ op.change = "insert" => NamesServices(d, op.c, op.id, op.set)
    /\ op.change = "update" =>
         \/ Naming[op.c] \cap (op.unset \cup DOMAIN op.set) = {}
         \/ Has(op.set, NewName[op.c]) /\ NamesServices(d, op.c, op.id, op.set)
=============================================================================
