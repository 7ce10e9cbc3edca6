------------------------------- MODULE MovedDocs -------------------------------
(***************************************************************************)
(* The documents that the upgrade moves: a place where the agents of       *)
(* beta 7 look for a document, and the one where those of 2.0 do. What a   *)
(* transaction may do to the two is stated here once for all moves.        *)
(***************************************************************************)
EXTENDS SchemaOps

\* rewritten: the fields that change with the place. counted: those that the
\* agents keep up to date.
Move(from, old, to, new, rewritten, counted) ==
  [from |-> from, old |-> old, to |-> to, new |-> new,
   rewritten |-> rewritten, counted |-> counted]

ServiceMoves(d) ==
  {Move("services", id, "applications", id, {"ownertag"}, {"unitcount"})
     : id \in DOMAIN d["services"]}

ConstraintMoves(d) ==
  {Move("storageconstraints", OldConstraintID(id), "storageconstraints",
        NewConstraintID(id, CharmURL(d["services"][id])), {}, {})
     : id \in DOMAIN d["services"]}

KeyMoves(d, c) ==
  {Move(c, id, c, NewKeyID(id), {KeyName(c)}, {}) : id \in ServiceKeyed(d, c)}

LeaseMoves(d) ==
  {Move("leases", id, "leases", NewLeaseID(d["leases"][id]), {"namespace"}, {})
     : id \in ServiceLeases(d)}

SequenceMoves(d) ==
  {Move("sequence", id, "sequence",
        DocID(ModelOf(id), ApplicationTag(d["sequence"][id]["name"])), {"name"}, {})
     : id \in ServiceSequences(d)}

ImageMoves(d) ==
  {Move("cloudimagemetadata", id, "cloudimagemetadata", LocalID(id), {}, {})
     : id \in {i \in DOMAIN d["cloudimagemetadata"] : Splits(i)}}

\* The moves of the documents of d.
Moves(d) ==
  ServiceMoves(d) \cup ConstraintMoves(d) \cup LeaseMoves(d) \cup SequenceMoves(d)
    \cup ImageMoves(d) \cup UNION {KeyMoves(d, c) : c \in GlobalKeyed}

-----------------------------------------------------------------------------
\* The fields of mgo and of its transactions, which copyBsonDField leaves behind.
Bookkeeping == {"_id", "txn-revno", "txn-queue"}

\* Two documents say the same, but for the given fields.
Alike(doc, other, names) ==
  Without(doc, Bookkeeping \cup names) = Without(other, Bookkeeping \cup names)

\* A document that was found in f is in d where it was found.
AtOld(f, d, mv) ==
  /\ mv.old \in DOMAIN d[mv.from]
  /\ mv.new \notin DOMAIN d[mv.to]
  /\ Alike(d[mv.from][mv.old], f[mv.from][mv.old], mv.counted)

\* It is where it is moved to.
AtNew(f, d, mv) ==
  /\ mv.old \notin DOMAIN d[mv.from]
  /\ mv.new \in DOMAIN d[mv.to]
  /\ Alike(d[mv.to][mv.new], f[mv.from][mv.old], mv.counted \cup mv.rewritten)

\* The operations neither move the document nor change what it says.
Stays(O, mv) ==
  \A op \in O :
    Touches(op, mv.from, mv.old) \/ Touches(op, mv.to, mv.new) =>
      op.change = "update" /\ op.unset \cup DOMAIN op.set \subseteq Bookkeeping \cup mv.counted
=============================================================================
