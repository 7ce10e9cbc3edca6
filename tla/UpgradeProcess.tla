--------------------------- MODULE UpgradeProcess ---------------------------
(***************************************************************************)
(* The whole upgrade of README.md: the operator gives agents stop,         *)
(* upgrade-db, upgrade-agents, agents start-controller and agents          *)
(* start-others, one command at a time. The database upgrade is what       *)
(* SchemaUpgrade promises of it; the commands over ssh are those of        *)
(* AgentRollout and AgentService. What connects them is the controller     *)
(* UUID that one writes and another reads, and the symlink, the directory  *)
(* of tools and the agent.conf with which an agent is started. Scripts end *)
(* with their connection here; where they do not, see AgentRollout and     *)
(* AgentService.                                                           *)
(***************************************************************************)
EXTENDS ParallelCall, Sequences

CONSTANTS
  AgentsOn,      \* the agents of each machine in the order of the shell's glob
  FoundConf,     \* their agent.conf
  ModelOrder,    \* the model documents as a query returns them
  Operators,     \* whether an operator keeps to README.md and reads the answers,
                 \* and bounds on the number of upgrade-db, upgrade-agents and
                 \* agents commands: [careful, upgrades, rollouts, services]
  MaxUpgrades, MaxRollouts, MaxServices  \* what these are bounded by

VARIABLES
  controller, models, runs, busy, live, outcome,           \* see SchemaUpgrade
  host, script, rolloutPc, rollouts, rolloutLive, rolloutExit,
  running, serviceScript, servicePc, action, services, serviceExit,
  binary,  \* the version of the jujud that each agent was started with
  step,    \* the command of README.md that was given last
  operator \* who gives the commands

schemaVars  == <<controller, models, runs, busy, live, outcome>>
machineVars == <<host, script, rolloutPc, rollouts, rolloutLive, rolloutExit>>
agentVars   == <<running, serviceScript, servicePc, action, services, serviceExit>>
vars == <<schemaVars, callVars, machineVars, agentVars, binary, step, operator>>

\* The UUID that a run of upgrade-db generates.
UUID(r) == IF r = 0 THEN "" ELSE <<"uuid-1", "uuid-2", "uuid-3">>[r]

Schema == INSTANCE SchemaUpgrade WITH MaxRuns <- MaxUpgrades

Rollout ==
  INSTANCE AgentRollout WITH
    FoundModels <- {}, Detaching <- {},
    MaxRuns <- MaxRollouts,
    models <- [i \in 1..Len(ModelOrder) |-> UUID(models[ModelOrder[i]])],
    pc <- rolloutPc, run <- rollouts, live <- rolloutLive, exit <- rolloutExit

Service ==
  INSTANCE AgentService WITH
    Detaching <- {}, MaxCommands <- MaxServices,
    script <- serviceScript, pc <- servicePc, given <- services, exit <- serviceExit

Agents == Rollout!Agents
AgentSet(m) == Rollout!AgentSet(m)

\* The agents are told apart by their machines, and the machines of a model by
\* their ids; for what is known of an agent.conf of beta 7 see AgentRollout.
ASSUME ProcessAssumption ==
  /\ ModelOrder \in Seq(Models) /\ ModelOrder # <<>>
  /\ {ModelOrder[i] : i \in 1..Len(ModelOrder)} = Models
  /\ NoAddressMissing
  /\ \A m, n \in Machines :
       MachineDoc[m].model = MachineDoc[n].model /\ MachineDoc[m].id = MachineDoc[n].id => m = n
  /\ AgentsOn \in [Machines -> Seq(Agents)]
  /\ \A m \in Machines : AgentsOn[m] # <<>>
  /\ \A m, n \in Machines : m # n => AgentSet(m) \cap AgentSet(n) = {}
  /\ \A m \in Machines : \A a \in AgentSet(m) :
       /\ FoundConf[a].format # "2.0" /\ FoundConf[a].controller = <<>>
       /\ FoundConf[a].build \in Seq(STRING)
  /\ MaxUpgrades \in 0..3 /\ MaxRollouts \in Nat /\ MaxServices \in Nat
  /\ Operators \subseteq [careful: BOOLEAN, upgrades: 0..MaxUpgrades,
                          rollouts: 0..MaxRollouts, services: 0..MaxServices]

-----------------------------------------------------------------------------
(* The operator.                                                           *)

README == <<"stop", "upgrade-db", "upgrade-agents", "start-controller", "start-others">>

Idle == ~busy /\ rolloutPc = "idle" /\ servicePc = "idle"

AllClean == \A m \in Called : OutcomesOf(m) = {"clean"}

\* A careful operator goes on when the command has succeeded and every machine
\* has answered without an error and without a code.
Satisfied ==
  step # 0 =>
    CASE README[step] = "upgrade-db"     -> outcome = "upgraded"
      [] README[step] = "upgrade-agents" -> rolloutExit = "ok" /\ AllClean
      [] OTHER                           -> serviceExit = "ok" /\ AllClean

\* The operator gives command c: any, or the one whose turn it is.
Give(c) ==
  /\ Idle
  /\ UNCHANGED operator
  /\ IF operator.careful
     THEN LET next == IF Satisfied THEN step + 1 ELSE step
          IN  next <= Len(README) /\ README[next] = c /\ step' = next
     ELSE UNCHANGED step

-----------------------------------------------------------------------------
Init ==
  /\ models = [id \in Models |-> 0]
  /\ Schema!Init
  /\ Rollout!RolloutInit
  /\ running = [m \in Machines |-> AgentSet(m)]
  /\ serviceScript = [s \in Service!Sessions |-> Service!NoScript]
  /\ servicePc = "idle" /\ action = "none" /\ services = 0 /\ serviceExit = "none"
  /\ binary = [a \in Agents |-> "2.0-beta7"]
  /\ step = 0
  /\ operator \in Operators

GiveUpgradeDB ==
  /\ Give("upgrade-db")
  /\ runs < operator.upgrades
  /\ Schema!Begin(TRUE)
  /\ UNCHANGED <<callVars, machineVars, agentVars, binary>>

GiveUpgradeAgents ==
  /\ Give("upgrade-agents")
  /\ rollouts < operator.rollouts
  /\ Rollout!Refuse(TRUE) \/ Rollout!Start(TRUE, {})
  /\ UNCHANGED <<schemaVars, agentVars, binary>>

GiveService(act) ==
  /\ Give(act)
  /\ services < operator.services
  /\ Service!Start(act) \/ Service!Refuse(act)
  /\ UNCHANGED <<schemaVars, machineVars, binary>>

\* upgrade-db: the models stay the same, and none leaves the controller.
UpgradeDB ==
  /\ busy
  /\ controller' \in {controller} \cup 1..runs
  /\ models' \in [Models -> {0, controller'}]
  /\ Schema!Proceed \/ Schema!Stop \/ Schema!Succeed
  /\ UNCHANGED <<callVars, machineVars, agentVars, binary, step, operator>>

UpgradeAgents ==
  /\ rolloutPc = "waiting"
  /\ Rollout!Working \/ Rollout!Trouble
  /\ UNCHANGED <<schemaVars, agentVars, binary, step, operator>>

\* The jujud that the symlink of an agent leads to: that of 2.0 is not there if
\* upgrade-agents was stopped before its tarball was unpacked.
Jujud(m, a) ==
  IF host[m].link[a] = "2.0" /\ host[m].dir \in {"none", "made"}
  THEN "unfinished"
  ELSE host[m].link[a]

\* An agent that is started is that jujud.
Started ==
  binary' = [a \in Agents |->
    LET m == CHOOSE n \in Machines : a \in AgentSet(n)
    IN  IF a \notin running'[m] THEN "none"
        ELSE IF a \in running[m] THEN binary[a]
        ELSE Jujud(m, a)]

AgentsCommand ==
  /\ servicePc = "waiting"
  /\ Service!Working \/ Service!Trouble
  /\ Started
  /\ UNCHANGED <<schemaVars, machineVars, step, operator>>

Finished ==
  /\ Idle
  /\ UNCHANGED vars

Next ==
  \/ GiveUpgradeDB \/ GiveUpgradeAgents
  \/ \E act \in Service!Actions : GiveService(act)
  \/ UpgradeDB \/ UpgradeAgents \/ AgentsCommand
  \/ Finished

Spec == Init /\ [][Next]_vars

-----------------------------------------------------------------------------
(* Properties.                                                             *)

\* Whatever commands are given in whatever order, and whichever fail, a tag in
\* an agent.conf is that of the controller in the database: no agent is told of
\* a controller that another run of upgrade-db replaces.
ConfsNameTheController ==
  \A m \in Machines : \A a \in AgentSet(m) :
    LET tag == host[m].conf[a].controller
    IN  tag # <<>> => controller # 0 /\ Head(tag) = UUID(controller)

\* The agent whose stop and start the answers are about.
LastAgent(m) == AgentsOn[m][Len(AgentsOn[m])]

\* An operator who keeps to README.md and goes on only when every machine has
\* answered cleanly does not upgrade the database under a running agent of beta
\* 7, as far as the answers tell: the last agent of every machine is stopped
\* from the first change on, and what runs later is 2.0.
QuietUpgrade ==
  operator.careful /\ controller # 0 =>
    \A m \in AllMachines : binary[LastAgent(m)] # "2.0-beta7"

\* Such an operator ends with a database in which every model has joined the
\* controller. The last agent of every machine is started from the tools of 2.0
\* with an agent.conf, if that was in format 1.18, in format 2.0 that names the
\* controller. The tools are complete if upgrade-agents was given once. If it
\* was given again it may have found a directory that an earlier script had not
\* filled, which it answers cleanly: only then the agent has no jujud to run.
CarefulUpgrade ==
  operator.careful /\ step = Len(README) /\ Idle /\ Satisfied =>
    /\ \A id \in Models : models[id] = controller
    /\ \A m \in AllMachines :
         LET a == LastAgent(m)
         IN  /\ binary[a] = "2.0" \/ (rollouts > 1 /\ host[m].dir = "made")
             /\ rollouts = 1 => host[m].dir = "linked"
             /\ FoundConf[a].format = "1.18" =>
                  host[m].conf[a] = Rollout!Sed(FoundConf[a], UUID(controller))
=============================================================================
