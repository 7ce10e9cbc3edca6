-------------------------- MODULE UpgradeDBReferences --------------------------
(***************************************************************************)
(* The inductive invariant behind ReferencesResolve, which also needs      *)
(* HomesInv: a service that was found is a service or an application.      *)
(*                                                                         *)
(* A stage renames what it reads in the old field. It finds it there only  *)
(* if no earlier run, and no transaction of one, has written the new one.  *)
(***************************************************************************)
EXTENDS UpgradeDBHomes

\* The stage that renames what the documents of a collection say.
RenamedBy ==
  [units           |-> "updateUnits",
   resources       |-> "updateResources",
   modelEntityRefs |-> "updateModelEntityRefs",
   relations       |-> "updateRelations"]

\* Every document that names services names some that were found.
NamesKnown(d) ==
  \A c \in Referring : \A id \in DOMAIN d[c] : NamesServices(b7, c, id, d[c][id])

\* The operations keep that so.
KeepNames(O) == \A op \in O : KeepsNames(b7, op)

\* The documents of c are as beta 7 wrote them.
Unrenamed(d, c) == \A id \in DOMAIN d[c] : SaysServices(c, d[c][id])

\* The operations write as beta 7 did.
RenameNothing(O) == \A op \in O : op.c \in Referring => SaysServices(op.c, op.set)

\* What the database and the pending transactions say of services.
NamesKept == NamesKnown(db) /\ \A t \in txns : KeepNames(t.ops)

\* As long as no controller is recorded, nothing is renamed.
NothingRenamed ==
  RecordedUUIDs(db) = {} =>
    /\ \A c \in Referring : Unrenamed(db, c)
    /\ \A t \in txns : RenameNothing(t.ops)

\* A live upgrade finds the old names until the stage that renames them.
NamesWait ==
  Done("updateController") =>
    \A c \in Referring : ~Done(RenamedBy[c]) => Unrenamed(db, c)

\* The inductive invariant.
ReferencesInv == NamesKept /\ NothingRenamed /\ NamesWait
=============================================================================
