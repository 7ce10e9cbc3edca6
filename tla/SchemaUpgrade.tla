---------------------------- MODULE SchemaUpgrade ----------------------------
(***************************************************************************)
(* What upgrade-db promises the commands after it, and the operator: the   *)
(* controller is given one identity, the UUID of one run, for ever; models *)
(* join that controller and never another; and only a run that has given   *)
(* the identity itself and seen every model join it reports success.       *)
(* UpgradeDB is shown to implement this, whatever fails and however often  *)
(* its commands are given.                                                 *)
(***************************************************************************)
EXTENDS Integers

CONSTANT MaxRuns  \* bound on the number of commands the operator gives

VARIABLES
  controller,  \* the UUID of the controller: the number of a run, 0 for none
  models,      \* the UUID that each model document names, 0 for none
  runs,        \* the number of commands given
  busy,        \* whether one is running
  live,        \* its --live flag
  outcome      \* "running", "upgraded" if it upgraded the database, or "stopped"

schemaVars == <<controller, models, runs, busy, live, outcome>>

Init ==
  /\ controller = 0
  /\ \A id \in DOMAIN models : models[id] = 0
  /\ runs = 0
  /\ busy = FALSE
  /\ live = FALSE
  /\ outcome = "stopped"

Begin(forReal) ==
  /\ ~busy
  /\ runs < MaxRuns
  /\ runs' = runs + 1
  /\ live' = forReal
  /\ busy' = TRUE
  /\ outcome' = "running"
  /\ UNCHANGED <<controller, models>>

\* The identity is given once, perhaps by what an earlier run has left pending,
\* and models join it.
Change ==
  /\ \/ controller' = controller
     \/ controller = 0 /\ controller' \in 1..runs
  /\ \A id \in DOMAIN models :
       models[id] # 0 => id \in DOMAIN models' /\ models'[id] = models[id]
  /\ \A id \in DOMAIN models' : models'[id] \in {0, controller'}

Proceed ==
  /\ busy /\ live
  /\ Change
  /\ UNCHANGED <<runs, busy, live, outcome>>

\* The command ends without having upgraded the database. A process that is
\* killed in the middle of a transaction has changed something in its last step.
Stop ==
  /\ busy
  /\ IF live THEN Change ELSE UNCHANGED <<controller, models>>
  /\ busy' = FALSE
  /\ outcome' = "stopped"
  /\ UNCHANGED <<runs, live>>

AllJoined == \A id \in DOMAIN models : models[id] = runs

Succeed ==
  /\ busy /\ live
  /\ controller = runs
  /\ AllJoined
  /\ busy' = FALSE
  /\ outcome' = "upgraded"
  /\ UNCHANGED <<controller, models, runs, live>>

Next == (\E forReal \in BOOLEAN : Begin(forReal)) \/ Proceed \/ Stop \/ Succeed

Spec == Init /\ [][Next]_schemaVars
=============================================================================
