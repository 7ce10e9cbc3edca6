---------------------------- MODULE ParallelCall ----------------------------
(***************************************************************************)
(* One call over ssh to each of several machines at the same time: the     *)
(* goroutines of parallelCall (exec.go) and those that upgradeAgents       *)
(* (upgradeagents.go) makes in the same way. Each goroutine adds its       *)
(* result to a slice they share, under a lock, and tells the wait group.   *)
(* What happens on a machine is up to the module that uses this one.       *)
(***************************************************************************)
EXTENDS MachineLists, Integers

VARIABLES
  calls,    \* how far the goroutine of each machine is, "none" if it has none
  answer,   \* the result it got
  seen,     \* the slice of results as it read it
  lock,     \* the goroutines that hold the mutex
  wg,       \* the counter of the wait group
  results   \* the slice of results: pairs of a machine and an outcome

callVars == <<calls, answer, seen, lock, wg, results>>

\* The script ended with 0; it ended with another code; there was an error
\* that has no code.
Outcomes == {"clean", "code", "error"}

Phases == {"none", "running", "answered", "locked", "appended", "done"}

CallTypeOK ==
  /\ calls \in [Machines -> Phases]
  /\ answer \in [Machines -> Outcomes \cup {"none"}]
  /\ seen \in [Machines -> SUBSET (Machines \X Outcomes)]
  /\ lock \in SUBSET Machines
  /\ wg \in Nat
  /\ results \in SUBSET (Machines \X Outcomes)

CallInit ==
  /\ calls = [m \in Machines |-> "none"]
  /\ answer = [m \in Machines |-> "none"]
  /\ seen = [m \in Machines |-> {}]
  /\ lock = {}
  /\ wg = 0
  /\ results = {}

\* A mistake: wg.Add is forgotten.
SpawnUncounted(ms) ==
  /\ calls' = [m \in Machines |-> IF m \in ms THEN "running" ELSE "none"]
  /\ results' = {}
  /\ UNCHANGED <<answer, seen, lock, wg>>

\* wg.Add and go, for each of the machines.
Spawn(ms) ==
  /\ calls' = [m \in Machines |-> IF m \in ms THEN "running" ELSE "none"]
  /\ wg' = Cardinality(ms)
  /\ results' = {}
  /\ UNCHANGED <<answer, seen, lock>>

Answered(m, outcome) ==
  /\ calls[m] = "running"
  /\ calls' = [calls EXCEPT ![m] = "answered"]
  /\ answer' = [answer EXCEPT ![m] = outcome]
  /\ UNCHANGED <<seen, lock, wg, results>>

\* A mistake: the slice is read without the lock.
LockForgotten(m) ==
  /\ calls[m] = "answered"
  /\ seen' = [seen EXCEPT ![m] = results]
  /\ calls' = [calls EXCEPT ![m] = "locked"]
  /\ UNCHANGED <<answer, lock, wg, results>>

\* append reads the slice under the lock ...
Lock(m) ==
  /\ calls[m] = "answered"
  /\ lock = {}
  /\ lock' = {m}
  /\ seen' = [seen EXCEPT ![m] = results]
  /\ calls' = [calls EXCEPT ![m] = "locked"]
  /\ UNCHANGED <<answer, wg, results>>

\* ... and it is written before the lock is released.
AppendResult(m) ==
  /\ calls[m] = "locked"
  /\ results' = seen[m] \cup {<<m, answer[m]>>}
  /\ lock' = lock \ {m}
  /\ seen' = [seen EXCEPT ![m] = {}]
  /\ answer' = [answer EXCEPT ![m] = "none"]
  /\ calls' = [calls EXCEPT ![m] = "appended"]
  /\ UNCHANGED wg

\* A mistake: Done is not deferred, and a goroutine that returns early with an
\* error never calls it.
DoneUnlessError(m) ==
  /\ calls[m] = "appended"
  /\ calls' = [calls EXCEPT ![m] = "done"]
  /\ wg' = IF <<m, "error">> \in results THEN wg ELSE wg - 1
  /\ UNCHANGED <<answer, seen, lock, results>>

\* The deferred calls run in the opposite order: Unlock, then Done.
Done(m) ==
  /\ calls[m] = "appended"
  /\ calls' = [calls EXCEPT ![m] = "done"]
  /\ wg' = wg - 1
  /\ UNCHANGED <<answer, seen, lock, results>>

Goroutine(m) == Lock(m) \/ AppendResult(m) \/ Done(m)

\* The process is gone, and its goroutines with it.
Abandoned ==
  /\ calls' = [m \in Machines |-> "none"]
  /\ answer' = [m \in Machines |-> "none"]
  /\ seen' = [m \in Machines |-> {}]
  /\ lock' = {}
  /\ wg' = 0
  /\ results' = {}

\* wg.Wait returns.
AllDone == wg = 0

\* The machines the last call went to.
Called == {m \in Machines : calls[m] # "none"}

OutcomesOf(m) == {r[2] : r \in {s \in results : s[1] = m}}
=============================================================================
