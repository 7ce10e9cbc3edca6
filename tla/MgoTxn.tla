-------------------------------- MODULE MgoTxn --------------------------------
(***************************************************************************)
(* The transactions of gopkg.in/mgo.v2/txn as TransactionRunner uses them. *)
(* The package is not part of the repository: it is modelled from what     *)
(* upgradedb.go, cleandb.go and db.go ask of it.                           *)
(*                                                                         *)
(* A database maps collection names to functions from document ids to      *)
(* documents. A transaction is a set of operations. The field "by" of an   *)
(* operation is the id of the document whose loop iteration appended it,   *)
(* so that two iterations that append the same operation append two.       *)
(***************************************************************************)
EXTENDS BsonDoc

\* A mistake: the Assert is left out.
UncheckedInsertOp(c, id, doc, by) ==
  [c |-> c, id |-> id, assert |-> "none", change |-> "insert",
   set |-> CopyBsonDField(doc), unset |-> {}, by |-> by]

InsertOp(c, id, doc, by) ==   \* Assert: txn.DocMissing, Insert: doc
  [c |-> c, id |-> id, assert |-> "d-", change |-> "insert",
   set |-> CopyBsonDField(doc), unset |-> {}, by |-> by]

UpdateOp(c, id, set, unset) ==   \* Assert: txn.DocExists, Update: $set, $unset
  [c |-> c, id |-> id, assert |-> "d+", change |-> "update",
   set |-> set, unset |-> unset, by |-> id]

RemoveOp(c, id) ==   \* Assert: txn.DocExists, Remove: true
  [c |-> c, id |-> id, assert |-> "d+", change |-> "remove",
   set |-> NoDoc, unset |-> {}, by |-> id]

RemoveAnyOp(c, id) ==   \* Remove: true, without an Assert
  [c |-> c, id |-> id, assert |-> "none", change |-> "remove",
   set |-> NoDoc, unset |-> {}, by |-> id]

\* A rename: the document disappears under one id and appears under another.
MoveOps(from, oldID, to, newID, doc) ==
  {RemoveOp(from, oldID), InsertOp(to, newID, doc, oldID)}

-----------------------------------------------------------------------------
Touches(op, c, id) == op.c = c /\ op.id = id

\* A place in a database is a collection, the id of a document and a field.
Filled(d, p) == p[2] \in DOMAIN d[p[1]] /\ Has(d[p[1]][p[2]], p[3])

ValueAt(d, p) == d[p[1]][p[2]][p[3]]

\* The operation neither removes a value from the place nor puts one there, if
\* the document exists.
Spares(op, p) ==
  Touches(op, p[1], p[2]) =>
    /\ op.change # "remove"
    /\ op.change = "update" => p[3] \notin op.unset \cup DOMAIN op.set

\* Every assertion is tested against the documents as they are before the
\* transaction changes any; an insertion also finds the document of an earlier
\* insertion of the same transaction.
Asserted(d, ops) ==
  \A op \in ops :
    /\ op.assert = "d+" => op.id \in DOMAIN d[op.c]
    /\ op.assert = "d-" => /\ op.id \notin DOMAIN d[op.c]
                           /\ \A q \in ops \ {op} : ~Touches(q, op.c, op.id)

\* A document whose txn-queue names a transaction that no longer exists stops
\* every transaction that touches it.
Stuck(d, ops) ==
  \E op \in ops : /\ op.id \in DOMAIN d[op.c]
                  /\ Has(d[op.c][op.id], "txn-queue")
                  /\ d[op.c][op.id]["txn-queue"] # {}

\* The document id of collection docs once the operations on it are done.
Changed(docs, id, mine) ==
  IF id \notin DOMAIN docs
  THEN (CHOOSE op \in mine : op.id = id /\ op.change = "insert").set
  ELSE IF \E op \in mine : op.id = id /\ op.change = "update"
       THEN LET op == CHOOSE o \in mine : o.id = id /\ o.change = "update"
            IN  Without(docs[id], op.unset) ++ op.set
       ELSE docs[id]

ApplyTo(docs, mine) ==
  [id \in (DOMAIN docs \cup {op.id : op \in {o \in mine : o.change = "insert"}})
          \ {op.id : op \in {o \in mine : o.change = "remove"}}
     |-> Changed(docs, id, mine)]

On(ops, c) == {op \in ops : op.c = c}

\* The database after the operations ops. Collections without an operation are
\* left alone, whatever they hold.
Apply(d, ops) ==
  [c \in DOMAIN d |->
     IF On(ops, c) = {} THEN d[c] ELSE ApplyTo(d[c], On(ops, c))]

\* The operations a killed transaction has carried out: none, one, all but one
\* or all of them.
Cuts(ops) == {{}, ops} \cup {{op} : op \in ops} \cup {ops \ {op} : op \in ops}
=============================================================================
