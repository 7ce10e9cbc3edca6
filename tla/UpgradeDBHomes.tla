----------------------------- MODULE UpgradeDBHomes -----------------------------
(***************************************************************************)
(* The inductive invariant behind EveryDocumentHasOneHome.                 *)
(*                                                                         *)
(* A transaction that moves a document may be killed in the middle and     *)
(* completed by a later run, so the invariant follows the moves that are   *)
(* still to be completed. There is only one transaction that moves         *)
(* documents, because only a run that has resumed all others makes one.    *)
(***************************************************************************)
EXTENDS UpgradeDBStages

\* The stage that moves the documents of a collection.
MovedBy ==
  [services           |-> "moveServices",
   storageconstraints |-> "moveServices",
   leases             |-> "updateLeases",
   sequence           |-> "updateSequences",
   cloudimagemetadata |-> "upgradeCloudImageMetadata",
   annotations        |-> "annotations",
   constraints        |-> "constraints",
   endpointbindings   |-> "endpointbindings",
   settings           |-> "settings",
   statuses           |-> "statuses"]

\* The operations O leave every document where it is.
MovesNothing(O) == \A mv \in Moves(b7) : Stays(O, mv)

\* An operation that puts the document in its new place.
Puts(op, mv) ==
  /\ Touches(op, mv.to, mv.new)
  /\ op.change = "insert" /\ op.assert = "d-"
  /\ Alike(op.set, b7[mv.from][mv.old], mv.counted \cup mv.rewritten)

\* The operations O move the document, and do nothing else to it.
Carries(O, mv) ==
  /\ RemoveOp(mv.from, mv.old) \in O
  /\ \A op \in O : Touches(op, mv.from, mv.old) => op = RemoveOp(mv.from, mv.old)
  /\ \E i \in O : Puts(i, mv) /\ \A op \in O : Touches(op, mv.to, mv.new) => op = i

\* One of the operations O makes a document that another one has to do with:
\* the transaction is refused.
Clashing(O) ==
  \E op, q \in O : op # q /\ op.assert = "d-" /\ Touches(q, op.c, op.id)

\* The pending transactions move documents as a whole or not at all.
TxnsCarry ==
  \A t \in txns :
    \/ Clashing(t.ops) /\ ~t.applying
    \/ \A mv \in Moves(b7) : Stays(t.ops, mv) \/ Carries(t.ops, mv)

\* No two of them move documents.
OneCarrier ==
  \A s, t \in txns : s = t \/ MovesNothing(s.ops) \/ MovesNothing(t.ops)

\* The operations done of a move are all that has happened to the document in d.
HalfMoved(d, done, mv) ==
  /\ RemoveOp(mv.from, mv.old) \in done => mv.old \notin DOMAIN d[mv.from]
  /\ IF \E op \in done : Touches(op, mv.to, mv.new)
     THEN /\ mv.new \in DOMAIN d[mv.to]
          /\ Alike(d[mv.to][mv.new], b7[mv.from][mv.old], mv.counted \cup mv.rewritten)
     ELSE mv.new \notin DOMAIN d[mv.to]

Moving(t, mv) == t.applying /\ Carries(t.ops, mv)

HalfCarried ==
  \A t \in txns : \A mv \in Moves(b7) : Moving(t, mv) => HalfMoved(db, t.done, mv)

\* Every document is in one place, unless it is on its way.
EachHasAHome ==
  \A mv \in Moves(b7) :
    AtOld(b7, db, mv) \/ AtNew(b7, db, mv) \/ \E t \in txns : Moving(t, mv)

\* As long as no controller is recorded, nothing has moved.
NothingMoved ==
  RecordedUUIDs(db) = {} =>
    /\ \A mv \in Moves(b7) : AtOld(b7, db, mv)
    /\ \A t \in txns : MovesNothing(t.ops)

\* A live upgrade past updateController finds the documents where they were, until
\* the stage that moves them, and where they are to be afterwards: what dropServices
\* drops has moved.
MovesWait ==
  Done("updateController") =>
    \A mv \in Moves(b7) : ~Done(MovedBy[mv.from]) => AtOld(b7, db, mv)

HaveMoved == \A mv \in Moves(b7) : Done(MovedBy[mv.from]) => AtNew(b7, db, mv)

\* clean-db removes cleanups.
CleansOnly == inTxn /\ pc = "removeCleanups" => \A op \in ops : op.c = "cleanups"

\* What the database and the pending transactions say of the documents that move.
HomesKept == TxnsCarry /\ OneCarrier /\ HalfCarried /\ EachHasAHome /\ NothingMoved

\* What a running command relies on.
HomesWait == MovesWait /\ HaveMoved /\ CleansOnly

\* The inductive invariant.
HomesInv == HomesKept /\ HomesWait
=============================================================================
