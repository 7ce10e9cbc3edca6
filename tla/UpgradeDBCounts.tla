---------------------------- MODULE UpgradeDBCounts ----------------------------
(***************************************************************************)
(* The inductive invariant behind RefcountsMatch.                          *)
(*                                                                         *)
(* The reference counts add up what moveServices reads in the services as  *)
(* the number of their units. That is the number there are, because the    *)
(* agents change it with the units and because all they left pending is    *)
(* completed first. From then on nobody makes or removes a unit, so that   *)
(* the counts are also right when a later run completes the transaction.   *)
(***************************************************************************)
EXTENDS UpgradeDBFirstRun

-----------------------------------------------------------------------------
(* The number of units that a service says it has.                         *)

Counted(d, id) ==
  /\ IsFiniteSet(UnitsOf(d, id))
  /\ GetIntField(d["services"][id], "unitcount") = Cardinality(UnitsOf(d, id))

\* The operation makes or removes a unit.
Populates(op) == op.c = "units" /\ op.change # "update"

\* The transaction writes the number of units of the service.
Counts(t, id) == \E op \in t.ops : Touches(op, "services", id) /\ op.change = "update"

\* What is left to do when the transaction is completed.
Rest(t) == IF t.applying THEN t.ops \ t.done ELSE t.ops

\* The transaction writes the number for every service whose units it changes.
CountsItsUnits(d, t) ==
  \A op \in t.ops : Populates(op) =>
    /\ op.change = "insert" => Counts(t, ServiceOf(op.id, op.set))
    /\ op.id \in DOMAIN d["units"] => Counts(t, ServiceOf(op.id, d["units"][op.id]))

\* Every service of d has the units it says, unless one of the transactions T is at
\* it; then it does once that is completed. No two of them are at the same service or
\* the same unit, so they may be completed in any order.
UnitsCounted(d, T) ==
  /\ \A id \in DOMAIN d["services"] :
       /\ (\A t \in T : ~(t.applying /\ Counts(t, id))) => Counted(d, id)
       /\ \A t \in T : Counts(t, id) => Counted(Apply(d, Rest(t)), id)
       /\ \A s, t \in T : Counts(s, id) /\ Counts(t, id) => s = t
  /\ \A t \in T : CountsItsUnits(d, t)
  /\ \A s, t \in T : \A p \in s.ops, q \in t.ops :
       Populates(p) /\ Populates(q) /\ p.id = q.id => s = t

\* The agents change the number of units in the transaction that makes or removes
\* one, and when they were stopped no two of them were at the same service. (mgo/txn
\* completes the one before it carries out the other. Operations here write the number
\* that juju says to increment, so that the order of two of them would matter.)
ASSUME CountsAssumption ==
  \A s \in B7States :
    IsFiniteSet(DOMAIN s.db["services"]) /\ UnitsCounted(s.db, s.txns)

\* The operations make and remove no unit, and make and change no service.
LeavesUnits(O) ==
  \A op \in O : ~Populates(op) /\ (op.c = "services" => op.change = "remove")

\* Nothing of upgrade-db has been carried out or is pending.
NotBegun == RecordedUUIDs(db) = {} /\ \A t \in txns : Neutral(t.ops)

\* Once it has, nothing of the agents is.
UnitsSettled == NotBegun \/ \A t \in txns : LeavesUnits(t.ops)

\* The operations rename what a unit says of its service, but not the service.
KeepsServices(d, O) ==
  \A op \in O :
    /\ op.c = "units" /\ op.change = "update" /\ op.id \in DOMAIN d["units"]
    /\ Naming["units"] \cap (op.unset \cup DOMAIN op.set) # {}
    => /\ Has(op.set, "application")
       /\ ServiceOf(op.id, op.set) = ServiceOf(op.id, d["units"][op.id])

ServicesKept ==
  /\ DOMAIN db["services"] \subseteq DOMAIN b7["services"]
  /\ \A t \in txns : KeepsServices(db, t.ops)

-----------------------------------------------------------------------------
(* What moveServices makes.                                                *)

Made == {"applications", "refcounts"}

\* The ids of the documents of c that it makes of the services that were found.
Wanted(c) ==
  IF c = "applications" THEN DOMAIN b7["services"]
  ELSE UNION {KeysOf(b7, id) : id \in DOMAIN b7["services"]}

FoundUsers(key) == {id \in DOMAIN b7["services"] : key \in KeysOf(b7, id)}

RightCount(d, key) ==
  Cardinality(FoundUsers(key)) + Cardinality(UNION {UnitsOf(d, id) : id \in FoundUsers(key)})

MakesNone(O) == \A op \in O : op.c \notin Made

\* The operations make all of it, with the counts that are right for d.
MakesAll(d, O) ==
  /\ \A op \in O : op.c \in Made => op.change = "insert" /\ op.id \in Wanted(op.c)
  /\ \A op \in O : op.c = "refcounts" => op.set["refcount"] = RightCount(d, op.id)
  /\ \A c \in Made : \A id \in Wanted(c) : \E op \in O : Touches(op, c, id)

\* Nothing else is made, and what a transaction has made is not taken back.
MadeRight ==
  /\ \A c \in Made : DOMAIN db[c] \subseteq Wanted(c)
  /\ \A key \in DOMAIN db["refcounts"] : db["refcounts"][key]["refcount"] = RightCount(db, key)
  /\ \A t \in txns : MakesNone(t.ops) \/ MakesAll(db, t.ops)
  /\ \A t \in txns : t.applying =>
       \A op \in t.done : op.c \in Made => op.id \in DOMAIN db[op.c]

\* All of it is there or nothing, unless a transaction is at it.
AllOrNone ==
  \/ \A c \in Made : DOMAIN db[c] = {}
  \/ \A c \in Made : DOMAIN db[c] = Wanted(c)
  \/ \E t \in txns : t.applying /\ MakesAll(db, t.ops)

\* The inductive invariant.
CountsInv ==
  UnitsCounted(db, txns) /\ UnitsSettled /\ ServicesKept /\ MadeRight /\ AllOrNone
=============================================================================
