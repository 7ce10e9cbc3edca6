------------------------- MODULE ParallelCall_proofs -------------------------
(***************************************************************************)
(* What the goroutines of a parallel call guarantee, for any number of     *)
(* machines: the lock keeps every result, and the wait group returns only  *)
(* when all of them are there.                                             *)
(***************************************************************************)
EXTENDS ParallelCall, FiniteSetTheorems, TLAPS

\* The goroutines that the wait group counts, and those whose result is in the
\* slice.
Busy == {m \in Machines : calls[m] \in {"running", "answered", "locked", "appended"}}
Recorded == {m \in Machines : calls[m] \in {"appended", "done"}}

ResultsOf(m) == {r \in results : r[1] = m}

\* The inductive invariant. The third part is mutual exclusion; the fourth is
\* what it is for: nobody has appended anything since the slice was read.
CallInv ==
  /\ CallTypeOK
  /\ \A m \in Machines : calls[m] \in {"answered", "locked"} => answer[m] \in Outcomes
  /\ lock = {m \in Machines : calls[m] = "locked"} /\ \A m, n \in lock : m = n
  /\ \A m \in lock : seen[m] = results
  /\ wg = Cardinality(Busy)
  /\ \A r \in results : r[1] \in Recorded
  /\ \A m \in Recorded : \E o \in Outcomes : ResultsOf(m) = {<<m, o>>}

\* When the wait group returns, or nothing has been called, every machine has
\* its result, and only the machines of the call have one.
Answers ==
  /\ \A m \in Machines : Cardinality(OutcomesOf(m)) = IF m \in Called THEN 1 ELSE 0
  /\ lock = {}

\* The outcome o of machine m has reached the process, and may be in the slice.
Heard(m, o) ==
  \/ calls[m] \in {"answered", "locked"} /\ answer[m] = o
  \/ <<m, o>> \in results

\* There are finitely many goroutines.
LEMMA FinitelyMany == \A S \in SUBSET Machines : IsFiniteSet(S) /\ Cardinality(S) \in Nat
  BY MachinesAssumption, FS_Subset, FS_CardinalityType

LEMMA CallInitInv == CallInit => CallInv
<1> SUFFICES ASSUME CallInit PROVE CallInv
  OBVIOUS
<1> USE DEF CallInit, Phases, Outcomes
<1>1. CallTypeOK
  BY DEF CallTypeOK
<1>2. Busy = {} /\ Recorded = {}
  BY DEF Busy, Recorded
<1>3. wg = Cardinality(Busy)
  BY <1>2, FS_EmptySet
<1> QED
  BY <1>1, <1>2, <1>3 DEF CallInv

\* A call is made when the one before it is over.
LEMMA SpawnInv ==
  ASSUME CallInv, lock = {}, NEW ms \in SUBSET Machines, Spawn(ms)
  PROVE  CallInv'
<1> USE DEF Spawn, Phases, Outcomes
<1>1. wg' \in Nat
  BY FinitelyMany
<1>2. CallTypeOK'
  BY <1>1 DEF CallInv, CallTypeOK
<1>3. Busy' = ms /\ Recorded' = {}
  BY DEF Busy, Recorded
<1>4. \A m \in Machines : calls'[m] \notin {"answered", "locked"}
  OBVIOUS
<1> QED
  BY <1>2, <1>3, <1>4 DEF CallInv

LEMMA AnsweredInv ==
  ASSUME CallInv, NEW m \in Machines, NEW o \in Outcomes, Answered(m, o)
  PROVE  CallInv'
<1> USE DEF Answered, Phases, Outcomes
<1>1. calls \in [Machines -> Phases] /\ answer \in [Machines -> Outcomes \cup {"none"}]
  BY DEF CallInv, CallTypeOK
<1>2. CallTypeOK'
  BY <1>1 DEF CallInv, CallTypeOK
<1>3. Busy' = Busy /\ Recorded' = Recorded
  BY <1>1 DEF Busy, Recorded
<1>4. {n \in Machines : calls'[n] = "locked"} = {n \in Machines : calls[n] = "locked"}
  BY <1>1
<1>5. \A n \in Machines : calls'[n] \in {"answered", "locked"} => answer'[n] \in Outcomes
  BY <1>1 DEF CallInv
<1>6. \A n : ResultsOf(n)' = ResultsOf(n)
  BY DEF ResultsOf
<1> QED
  BY <1>2, <1>3, <1>4, <1>5, <1>6 DEF CallInv

LEMMA LockInv ==
  ASSUME CallInv, NEW m \in Machines, Lock(m)
  PROVE  CallInv'
<1> USE DEF Lock, Phases, Outcomes
<1>1. /\ calls \in [Machines -> Phases] /\ calls' = [calls EXCEPT ![m] = "locked"]
      /\ seen \in [Machines -> SUBSET (Machines \X Outcomes)]
      /\ results \in SUBSET (Machines \X Outcomes)
  BY DEF CallInv, CallTypeOK
<1>2. CallTypeOK'
  BY <1>1 DEF CallInv, CallTypeOK
<1>3. Busy' = Busy /\ Recorded' = Recorded
  BY <1>1 DEF Busy, Recorded
<1>4. {n \in Machines : calls'[n] = "locked"} = {m}
  BY <1>1 DEF CallInv
<1>5. \A n \in Machines : calls'[n] \in {"answered", "locked"} => answer'[n] \in Outcomes
  BY <1>1 DEF CallInv
<1>6. \A n \in lock' : seen'[n] = results'
  BY <1>1
<1>7. \A n : ResultsOf(n)' = ResultsOf(n)
  BY DEF ResultsOf
<1> QED
  BY <1>2, <1>3, <1>4, <1>5, <1>6, <1>7 DEF CallInv

\* What was read is still what is there, so the result is added to all others.
LEMMA AppendInv ==
  ASSUME CallInv, NEW m \in Machines, AppendResult(m)
  PROVE  CallInv'
<1> USE DEF AppendResult, Phases, Outcomes
<1>1. /\ calls \in [Machines -> Phases] /\ calls' = [calls EXCEPT ![m] = "appended"]
      /\ answer \in [Machines -> Outcomes \cup {"none"}]
      /\ seen \in [Machines -> SUBSET (Machines \X Outcomes)]
      /\ results \in SUBSET (Machines \X Outcomes)
      /\ wg \in Nat
  BY DEF CallInv, CallTypeOK
<1>2. lock = {m} /\ seen[m] = results /\ answer[m] \in Outcomes
  BY DEF CallInv
<1>3. results' = results \cup {<<m, answer[m]>>}
  BY <1>2
<1>4. CallTypeOK'
  BY <1>1, <1>2, <1>3 DEF CallInv, CallTypeOK
<1>5. Busy' = Busy /\ Recorded' = Recorded \cup {m} /\ m \notin Recorded
  BY <1>1 DEF Busy, Recorded
<1>6. lock' = {} /\ {n \in Machines : calls'[n] = "locked"} = {}
  BY <1>1, <1>2 DEF CallInv
<1>7. \A n \in Machines : calls'[n] \in {"answered", "locked"} => answer'[n] \in Outcomes
  BY <1>1 DEF CallInv
<1>8. \A r \in results' : r[1] \in Recorded'
  BY <1>3, <1>5 DEF CallInv
<1>9. ASSUME NEW n \in Recorded'
      PROVE  \E o \in Outcomes : ResultsOf(n)' = {<<n, o>>}
  <2>1. CASE n = m
    <3>1. ResultsOf(m) = {}
      BY <1>5 DEF CallInv, ResultsOf
    <3>2. ResultsOf(m)' = {<<m, answer[m]>>}
      BY <1>3, <3>1 DEF ResultsOf
    <3> QED
      BY <1>2, <2>1, <3>2
  <2>2. CASE n # m
    <3>1. ResultsOf(n)' = ResultsOf(n)
      BY <1>3, <2>2 DEF ResultsOf
    <3> QED
      BY <1>5, <2>2, <3>1 DEF CallInv
  <2> QED
    BY <2>1, <2>2
<1> QED
  BY <1>4, <1>5, <1>6, <1>7, <1>8, <1>9 DEF CallInv

LEMMA DoneInv ==
  ASSUME CallInv, NEW m \in Machines, Done(m)
  PROVE  CallInv'
<1> USE DEF Done, Phases, Outcomes
<1>1. calls \in [Machines -> Phases] /\ calls' = [calls EXCEPT ![m] = "done"]
  BY DEF CallInv, CallTypeOK
<1>2. Busy' = Busy \ {m} /\ m \in Busy /\ Recorded' = Recorded
  BY <1>1 DEF Busy, Recorded
<1>3. /\ Cardinality(Busy \ {m}) = Cardinality(Busy) - 1
      /\ Cardinality(Busy') \in Nat
  <2>1. Busy \in SUBSET Machines /\ Busy' \in SUBSET Machines
    BY DEF Busy
  <2> QED
    BY <1>2, <2>1, FinitelyMany, FS_RemoveElement
<1>4. wg' = Cardinality(Busy') /\ wg' \in Nat
  BY <1>2, <1>3 DEF CallInv
<1>5. CallTypeOK'
  BY <1>1, <1>4 DEF CallInv, CallTypeOK
<1>6. {n \in Machines : calls'[n] = "locked"} = {n \in Machines : calls[n] = "locked"}
  BY <1>1
<1>7. \A n \in Machines : calls'[n] \in {"answered", "locked"} => answer'[n] \in Outcomes
  BY <1>1 DEF CallInv
<1>8. \A n : ResultsOf(n)' = ResultsOf(n)
  BY DEF ResultsOf
<1> QED
  BY <1>2, <1>4, <1>5, <1>6, <1>7, <1>8 DEF CallInv

LEMMA GoroutineInv ==
  ASSUME CallInv, NEW m \in Machines, Goroutine(m)
  PROVE  CallInv' /\ m \in Busy
<1>1. m \in Busy
  BY DEF Goroutine, Lock, AppendResult, Done, Busy
<1> QED
  BY <1>1, LockInv, AppendInv, DoneInv DEF Goroutine

\* What holds when the goroutines are gone is what held at first.
LEMMA AbandonedInv == Abandoned => CallInv' /\ AllDone'
<1> SUFFICES ASSUME Abandoned PROVE CallInv' /\ AllDone'
  OBVIOUS
<1> USE DEF Abandoned, Phases, Outcomes
<1>1. CallTypeOK'
  BY DEF CallTypeOK
<1>2. Busy' = {} /\ Recorded' = {}
  BY DEF Busy, Recorded
<1>3. wg' = Cardinality(Busy')
  BY <1>2, FS_EmptySet
<1> QED
  BY <1>1, <1>2, <1>3 DEF CallInv, AllDone

LEMMA CallStutters ==
  ASSUME CallInv, UNCHANGED callVars
  PROVE  CallInv'
  BY DEF CallInv, callVars, CallTypeOK, Busy, Recorded, ResultsOf

\* Nothing is heard but what a machine has answered in this call.
LEMMA SpawnHeard ==
  ASSUME NEW ms, Spawn(ms), NEW m \in Machines, NEW o
  PROVE  ~Heard(m, o)'
  BY DEF Spawn, Heard

LEMMA AnsweredHeard ==
  ASSUME CallInv, NEW m \in Machines, NEW o, Answered(m, o), NEW n \in Machines, NEW p
  PROVE  Heard(n, p)' => Heard(n, p) \/ (n = m /\ p = o)
  BY DEF CallInv, CallTypeOK, Answered, Heard

LEMMA AbandonedHeard ==
  ASSUME Abandoned, NEW m \in Machines, NEW o
  PROVE  ~Heard(m, o)'
  BY DEF Abandoned, Heard

LEMMA GoroutineHeard ==
  ASSUME CallInv, NEW m \in Machines, Goroutine(m)
  PROVE  \A n \in Machines :
           /\ calls'[n] = "running" <=> calls[n] = "running"
           /\ calls'[n] = "none" <=> calls[n] = "none"
           /\ \A o : Heard(n, o)' => Heard(n, o)
<1> SUFFICES ASSUME NEW n \in Machines
             PROVE  /\ calls'[n] = "running" <=> calls[n] = "running"
                    /\ calls'[n] = "none" <=> calls[n] = "none"
                    /\ \A o : Heard(n, o)' => Heard(n, o)
  OBVIOUS
<1> USE DEF Heard
<1>1. calls \in [Machines -> Phases] /\ answer \in [Machines -> Outcomes \cup {"none"}]
  BY DEF CallInv, CallTypeOK
<1>2. CASE Lock(m)
  BY <1>1, <1>2 DEF Lock
<1>3. CASE AppendResult(m)
  <2>1. results' = results \cup {<<m, answer[m]>>}
    BY <1>3 DEF AppendResult, CallInv
  <2> QED
    BY <1>1, <1>3, <2>1 DEF AppendResult
<1>4. CASE Done(m)
  BY <1>1, <1>4 DEF Done
<1> QED
  BY <1>2, <1>3, <1>4 DEF Goroutine

\* The wait group returns when no goroutine is left.
LEMMA NoneBusy ==
  ASSUME CallInv, AllDone
  PROVE  Busy = {} /\ lock = {}
<1>1. Busy \in SUBSET Machines
  BY DEF Busy
<1>2. Busy = {}
  BY <1>1, FinitelyMany, FS_EmptySet DEF CallInv, AllDone
<1> QED
  BY <1>2 DEF CallInv, Busy

\* Every machine of the call has one result then, and no other machine has one.
LEMMA EveryAnswerCounted ==
  ASSUME CallInv, AllDone
  PROVE  Answers
<1>1. lock = {} /\ Busy = {}
  BY NoneBusy
<1>2. ASSUME NEW m \in Machines
      PROVE  Cardinality(OutcomesOf(m)) = IF m \in Called THEN 1 ELSE 0
  <2>1. CASE m \in Called
    <3>1. m \in Recorded
      BY <1>1, <2>1 DEF Called, Recorded, Busy, CallInv, CallTypeOK, Phases
    <3>2. PICK o \in Outcomes : ResultsOf(m) = {<<m, o>>}
      BY <3>1 DEF CallInv
    <3>3. OutcomesOf(m) = {r[2] : r \in ResultsOf(m)}
      BY DEF OutcomesOf, ResultsOf
    <3>4. OutcomesOf(m) = {o}
      BY <3>2, <3>3
    <3> QED
      BY <2>1, <3>4, FS_Singleton
  <2>2. CASE m \notin Called
    <3>1. m \notin Recorded
      BY <2>2 DEF Called, Recorded
    <3>2. OutcomesOf(m) = {}
      BY <3>1 DEF CallInv, OutcomesOf
    <3> QED
      BY <2>2, <3>2, FS_EmptySet
  <2> QED
    BY <2>1, <2>2
<1> QED
  BY <1>1, <1>2 DEF Answers
=============================================================================
