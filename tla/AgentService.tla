---------------------------- MODULE AgentService ----------------------------
(***************************************************************************)
(* The agents commands (service.go): status, stop, start-controller and    *)
(* start-others. On every machine of a list a script gives a service       *)
(* command for one agent after the other; it does not run under set -e, so *)
(* its code is that of the last agent. Where its shell takes no notice of  *)
(* the lost connection, a script goes on when nobody waits for it any more *)
(* and meets those of later commands. serviceCall prints what the machines *)
(* answer and reports success in any case; --live is not looked at.        *)
(***************************************************************************)
EXTENDS ParallelCall, Sequences

CONSTANTS
  AgentsOn,    \* the agents of each machine in the order of the shell's glob
  Detaching,   \* the machines where a script may outlive its connection
  MaxCommands  \* bound on the number of commands the operator gives

AgentSet(m) == {AgentsOn[m][i] : i \in 1..Len(AgentsOn[m])}

Agents == UNION {AgentSet(m) : m \in Machines}

ASSUME AgentsAssumption ==
  /\ AgentsOn \in [Machines -> Seq(Agents)]
  /\ \A m \in Machines : AgentsOn[m] # <<>>
  /\ Detaching \subseteq Machines
  /\ MaxCommands \in Nat

VARIABLES
  running,  \* the agents of each machine that run
  script,   \* the script of each command on each machine: its argument, the
            \* agents it has yet to come to, the code of its last service command
  pc,       \* "idle" or "waiting" in wg.Wait
  action,   \* the argument of the last agents command
  given,    \* how many commands were given
  exit      \* how the last one ended

serviceVars == <<callVars, running, script, pc, action, given, exit>>

Sessions == (1..MaxCommands) \X Machines

Actions == {"status", "stop", "start-controller", "start-others"}

\* getAllMachines, getServerMachine, getOtherMachines.
Targets(act) ==
  CASE act \in {"status", "stop"} -> {AllMachines}
    [] act = "start-controller"   -> {{m} : m \in ServerMachines}
    [] act = "start-others"       -> {OtherMachines}

NoScript == [action |-> "none", todo |-> <<>>, code |-> "clean"]

ServiceInit ==
  /\ CallInit
  /\ running = [m \in Machines |-> AgentSet(m)]
  /\ script = [s \in Sessions |-> NoScript]
  /\ pc = "idle" /\ action = "none" /\ given = 0 /\ exit = "none"

Begin(act) ==
  /\ pc = "idle"
  /\ given < MaxCommands
  /\ given' = given + 1
  /\ action' = act

\* The database does not answer, or has no machine 0 of the controller's model.
Refuse(act) ==
  /\ Begin(act)
  /\ exit' = "error"
  /\ UNCHANGED <<callVars, running, script, pc>>

Start(act) ==
  /\ Begin(act)
  /\ \E ms \in Targets(act) :
       /\ Spawn(ms)
       /\ script' = [s \in Sessions |->
            IF s[1] = given + 1 /\ s[2] \in ms
            THEN [action |-> act, todo |-> AgentsOn[s[2]], code |-> "clean"]
            ELSE script[s]]
  /\ pc' = "waiting"
  /\ exit' = "running"
  /\ UNCHANGED running

\* The goroutine of the running command still waits for this script.
Attached(s) == pc = "waiting" /\ s[1] = given /\ calls[s[2]] = "running"

\* What a service command that succeeds makes of the running agents.
After(act, agents, a) ==
  CASE act = "stop"   -> agents \ {a}
    [] act = "status" -> agents
    [] OTHER          -> agents \cup {a}

\* A mistake: the code of a command that failed is not kept.
ServiceCommandIgnored(s) ==
  /\ script[s].todo # <<>>
  /\ \E works \in BOOLEAN :
       running' = IF works
                  THEN [running EXCEPT ![s[2]] =
                          After(script[s].action, @, Head(script[s].todo))]
                  ELSE running
  /\ script' = [script EXCEPT ![s].todo = Tail(@)]
  /\ UNCHANGED callVars

\* One service command, which may fail and change nothing.
ServiceCommand(s) ==
  /\ script[s].todo # <<>>
  /\ \E works \in BOOLEAN :
       /\ running' = IF works
                     THEN [running EXCEPT ![s[2]] =
                             After(script[s].action, @, Head(script[s].todo))]
                     ELSE running
       /\ script' = [script EXCEPT ![s].todo = Tail(@),
                                   ![s].code = IF works THEN "clean" ELSE "code"]
  /\ UNCHANGED callVars

\* The script is over; its code is lost if nobody waits for it any more.
ScriptEnds(s) ==
  /\ script[s] # NoScript /\ script[s].todo = <<>>
  /\ IF Attached(s) THEN Answered(s[2], script[s].code) ELSE UNCHANGED callVars
  /\ script' = [script EXCEPT ![s] = NoScript]
  /\ UNCHANGED running

\* The connection is lost or never made; ssh ends with a code of its own or
\* with an error. The script is killed, or it goes on until it dies.
LoseConnection(s) ==
  /\ Attached(s)
  /\ \E outcome \in {"code", "error"} : Answered(s[2], outcome)
  /\ script' = IF s[2] \in Detaching THEN script ELSE [script EXCEPT ![s] = NoScript]
  /\ UNCHANGED running

Die(s) ==
  /\ script[s] # NoScript
  /\ script' = [script EXCEPT ![s] = NoScript]
  /\ UNCHANGED <<callVars, running>>

\* The results are printed; serviceCall returns nil.
Finish ==
  /\ pc = "waiting"
  /\ AllDone
  /\ pc' = "idle"
  /\ exit' = "ok"
  /\ UNCHANGED <<callVars, running, script, action, given>>

\* b7-upgrade is killed: every connection is lost.
Crash ==
  /\ pc = "waiting"
  /\ pc' = "idle"
  /\ exit' = "failed"
  /\ Abandoned
  /\ script' = [s \in Sessions |->
       IF Attached(s) /\ s[2] \notin Detaching THEN NoScript ELSE script[s]]
  /\ UNCHANGED <<running, action, given>>

\* The goroutines, and the scripts they wait for.
Working ==
  \/ \E m \in Machines : Goroutine(m) /\ UNCHANGED <<running, script, pc, action, given, exit>>
  \/ \E s \in Sessions : /\ Attached(s)
                         /\ ServiceCommand(s) \/ ScriptEnds(s)
                         /\ UNCHANGED <<pc, action, given, exit>>
  \/ Finish

\* Scripts nobody waits for.
Detached ==
  \E s \in Sessions : /\ ~Attached(s)
                      /\ ServiceCommand(s) \/ ScriptEnds(s) \/ Die(s)
                      /\ UNCHANGED <<pc, action, given, exit>>

Trouble ==
  \/ \E s \in Sessions : LoseConnection(s) /\ UNCHANGED <<pc, action, given, exit>>
  \/ Crash

Command == \E act \in Actions : Start(act) \/ Refuse(act)

ServiceNext == Command \/ Working \/ Detached \/ Trouble

\* The operator has given up.
Finished ==
  /\ pc = "idle"
  /\ given = MaxCommands
  /\ UNCHANGED serviceVars

Spec == ServiceInit /\ [][ServiceNext \/ Finished]_serviceVars

\* Every ssh call returns some time, as for the rollout.
FairSpec == Spec /\ WF_serviceVars(Working)

-----------------------------------------------------------------------------
(* Properties.                                                             *)

\* Every variable of the process and of the machines has its type.
TypeOK ==
  /\ CallTypeOK
  /\ running \in [Machines -> SUBSET Agents]
  /\ \A m \in Machines : running[m] \subseteq AgentSet(m)
  /\ DOMAIN script = Sessions
  /\ \A s \in Sessions :
       script[s] \in [action: Actions \cup {"none"}, todo: Seq(AgentSet(s[2])),
                     code: {"clean", "code"}]
  /\ pc \in {"idle", "waiting"}
  /\ action \in Actions \cup {"none"}
  /\ given \in 0..MaxCommands
  /\ exit \in {"none", "running", "ok", "error", "failed"}

\* parallelCall returns one result for each machine, however its goroutines
\* took turns (exec.go:24-41).
EveryMachineAnswersOnce ==
  pc = "idle" /\ exit = "ok" =>
    /\ \A m \in Machines : Cardinality(OutcomesOf(m)) = IF m \in Called THEN 1 ELSE 0
    /\ lock = {}

\* What a clean answer tells the operator: the last agent of the machine is as
\* the command wanted it. Of the others it says nothing, for the script goes on
\* after a failure and returns the code of its last command (service.go:71-77).
\* Nor does it say anything where a script may outlive its connection: that of
\* an earlier start then starts the agent again after a clean stop.
CleanSpeaksOfLastAgent ==
  pc = "idle" /\ exit = "ok" =>
    \A m \in Called \ Detaching : OutcomesOf(m) = {"clean"} =>
      LET last == AgentsOn[m][Len(AgentsOn[m])]
      IN  /\ action = "stop" => last \notin running[m]
          /\ action \in {"start-controller", "start-others"} => last \in running[m]

\* Whether a script of an earlier command is still at work on m.
LeftBehind(m) == \E s \in Sessions : s[2] = m /\ s[1] < given /\ script[s] # NoScript

\* The controller is started before the agents that need it: start-controller
\* starts no other machine, whatever machines called 0 the hosted models have,
\* unless an earlier script is left behind there, and the two start commands
\* together leave out none (db.go:182-200,268-288).
ControllerStartsAlone ==
  [][/\ action' = "start-controller" =>
          \A m \in Machines : running'[m] # running[m] =>
            \/ MachineDoc[m].model = ControllerModel /\ MachineDoc[m].id = "0"
            \/ LeftBehind(m)
     /\ action' = "start-others" /\ pc' = "waiting" =>
          \A m \in AllMachines :
            calls'[m] = "none" => \E ms \in Targets("start-controller") : m \in ms]_serviceVars

\* The command ends.
EveryAgentsCommandEnds == (pc = "waiting") ~> (pc = "idle")
=============================================================================
