------------------------ MODULE UpgradeProcess_proofs ------------------------
(***************************************************************************)
(* What the whole upgrade guarantees, for any machines, agents and         *)
(* operators. The invariants of upgrade-agents and of the agents commands  *)
(* are those of AgentRollout_proofs and AgentService_proofs, instantiated; *)
(* the goroutines belong now to the one and now to the other.              *)
(***************************************************************************)
EXTENDS UpgradeProcess, ParallelCall_proofs, SequenceTheorems

R ==
  INSTANCE AgentRollout_proofs WITH
    FoundModels <- {}, Detaching <- {}, MaxRuns <- MaxRollouts,
    models <- [i \in 1..Len(ModelOrder) |-> UUID(models[ModelOrder[i]])],
    pc <- rolloutPc, run <- rollouts, live <- rolloutLive, exit <- rolloutExit

S ==
  INSTANCE AgentService_proofs WITH
    Detaching <- {}, MaxCommands <- MaxServices,
    script <- serviceScript, pc <- servicePc, given <- services, exit <- serviceExit

-----------------------------------------------------------------------------
(* The inductive invariant. *)

SchemaInv ==
  /\ runs \in 0..MaxUpgrades /\ controller \in 0..runs
  /\ models \in [Models -> {0, controller}]
  /\ busy \in BOOLEAN /\ (busy => live /\ runs # 0)
  /\ outcome = "upgraded" => /\ ~busy /\ controller # 0
                             /\ \A id \in Models : models[id] = controller

\* What R!RolloutInv says of the machines, whoever has the goroutines.
MachinesInv ==
  /\ R!HostsInv
  /\ script = [s \in R!Sessions |-> script[s]]
  /\ \A s \in R!Sessions : script[s] \in R!ScriptSet(s[2])
  /\ rolloutPc \in {"idle", "waiting"} /\ rollouts \in 0..MaxRollouts
  /\ rolloutLive \in BOOLEAN
  /\ rolloutExit \in {"none", "running", "ok", "error", "failed"}

NoScripts == \A s \in R!Sessions : script[s].at = "none"

\* No machine has been touched.
Untouched ==
  /\ host = [m \in Machines |-> R!FoundHost(m)]
  /\ NoScripts
  /\ rolloutPc = "idle"

\* The scripts of the agents commands have a code to answer with.
CodesInv ==
  /\ DOMAIN serviceScript = Service!Sessions
  /\ \A s \in Service!Sessions :
       LET r == serviceScript[s]
       IN  /\ r = [action |-> r.action, todo |-> r.todo, code |-> r.code]
           /\ r.code \in {"clean", "code"}

\* One command at a time.
TurnsInv ==
  /\ servicePc \in {"idle", "waiting"} /\ CodesInv
  /\ busy => rolloutPc = "idle" /\ servicePc = "idle"
  /\ rolloutPc = "idle" \/ servicePc = "idle"
  /\ rolloutPc = "idle" /\ servicePc = "idle" => AllDone

\* Before upgrade-db has given the controller its UUID, upgrade-agents refuses.
AnyoneInv ==
  /\ SchemaInv /\ CallInv /\ MachinesInv /\ TurnsInv
  /\ R!ControllerUUID = "" => Untouched

Stopped == \A m \in AllMachines : LastAgent(m) \notin running[m]

Joined == controller # 0 /\ \A id \in Models : models[id] = controller

\* What the types of the agents commands leave when others have the goroutines.
AgentsRest ==
  /\ running \in [Machines -> SUBSET Agents]
  /\ \A m \in Machines : running[m] \subseteq AgentSet(m)
  /\ DOMAIN serviceScript = S!Sessions
  /\ \A s \in S!Sessions : serviceScript[s] = S!NoScript
  /\ action = "stop" /\ servicePc = "idle"
  /\ services \in 0..MaxServices
  /\ serviceExit \in {"none", "running", "ok", "error", "failed"}
  /\ Stopped

Ready(m) ==
  LET a == LastAgent(m)
  IN  /\ host[m].link[a] = "2.0"
      /\ FoundConf[a].format = "1.18" =>
           host[m].conf[a] = R!Sed(FoundConf[a], UUID(controller))
      /\ host[m].dir \in {"made", "unpacked", "linked"}
      /\ host[m].dir # "linked" => rollouts > 1

Serving == serviceExit \in {"running", "ok"}

\* What is true of a careful operator's upgrade at each step of README.md.
BeforeInv ==
  /\ step <= 1 => runs = 0 /\ controller = 0 /\ ~busy
  /\ step <= 2 => Untouched /\ rollouts = 0 /\ rolloutExit = "none"
  /\ step = 0 => servicePc = "idle"
  /\ step = 1 => action = "stop" /\ (Serving => Called = AllMachines)

DuringInv ==
  /\ step \in {2, 3} => AgentsRest
  /\ step >= 3 => Joined /\ ~busy
  /\ step = 3 => /\ R!AttachedInv
                 /\ rolloutExit # "none" => rolloutLive
                 /\ rolloutExit \in {"running", "ok"} => Called = AllMachines

AfterInv ==
  /\ step >= 4 => rolloutPc = "idle" /\ \A m \in AllMachines : Ready(m)
  /\ step = 4 => /\ action = "start-controller"
                 /\ Serving => \E m \in ServerMachines : Called = {m}
  /\ step = 5 => /\ action = "start-others"
                 /\ Serving => Called = OtherMachines
                 /\ \A m \in ServerMachines : LastAgent(m) \in running[m]

\* What runs has been started with the binary it is linked to, if that is there.
BinaryInv ==
  \A m \in AllMachines :
    /\ binary[LastAgent(m)] = "none" <=> LastAgent(m) \notin running[m]
    /\ step >= 2 => binary[LastAgent(m)] \in {"none", "2.0", "unfinished"}
    /\ step >= 2 /\ binary[LastAgent(m)] = "unfinished" => host[m].dir = "made"

CarefulInv ==
  operator.careful =>
    /\ step \in 0..5
    /\ step \in {0, 1, 4, 5} => S!ServiceInv
    /\ BeforeInv /\ DuringInv /\ AfterInv /\ BinaryInv

ProcessInv == AnyoneInv /\ CarefulInv

-----------------------------------------------------------------------------
(* The instances are about the same program: an operator of AgentRollout,  *)
(* instantiated with its proofs or without them, is the same.              *)

LEMMA CallsRollout ==
  /\ \A ms : Rollout!Spawn(ms) <=> Spawn(ms)
  /\ \A m, o : Rollout!Answered(m, o) <=> Answered(m, o)
  /\ \A m : Rollout!Goroutine(m) <=> Goroutine(m)
  /\ Rollout!Abandoned <=> Abandoned
  /\ Rollout!AllDone <=> AllDone
  BY DEF Spawn, Answered, Goroutine, Lock, AppendResult, Done, Abandoned, AllDone,
         Cardinality,
         Rollout!Spawn, Rollout!Answered, Rollout!Goroutine, Rollout!Lock,
         Rollout!AppendResult, Rollout!Done, Rollout!Abandoned,
         Rollout!AllDone, Rollout!Cardinality

LEMMA CallsR ==
  /\ \A ms : R!Spawn(ms) <=> Spawn(ms)
  /\ \A m, o : R!Answered(m, o) <=> Answered(m, o)
  /\ \A m : R!Goroutine(m) <=> Goroutine(m)
  /\ R!Abandoned <=> Abandoned
  /\ R!AllDone <=> AllDone
  BY DEF Spawn, Answered, Goroutine, Lock, AppendResult, Done, Abandoned, AllDone,
         Cardinality,
         R!Spawn, R!Answered, R!Goroutine, R!Lock, R!AppendResult, R!Done,
         R!Abandoned, R!AllDone, R!Cardinality

LEMMA CallsService ==
  /\ \A ms : Service!Spawn(ms) <=> Spawn(ms)
  /\ \A m, o : Service!Answered(m, o) <=> Answered(m, o)
  /\ \A m : Service!Goroutine(m) <=> Goroutine(m)
  /\ Service!Abandoned <=> Abandoned
  /\ Service!AllDone <=> AllDone
  BY DEF Spawn, Answered, Goroutine, Lock, AppendResult, Done, Abandoned, AllDone,
         Cardinality,
         Service!Spawn, Service!Answered, Service!Goroutine, Service!Lock,
         Service!AppendResult, Service!Done, Service!Abandoned,
         Service!AllDone, Service!Cardinality

LEMMA CallsS ==
  /\ \A ms : S!Spawn(ms) <=> Spawn(ms)
  /\ \A m, o : S!Answered(m, o) <=> Answered(m, o)
  /\ \A m : S!Goroutine(m) <=> Goroutine(m)
  /\ S!Abandoned <=> Abandoned
  /\ S!AllDone <=> AllDone
  BY DEF Spawn, Answered, Goroutine, Lock, AppendResult, Done, Abandoned, AllDone,
         Cardinality,
         S!Spawn, S!Answered, S!Goroutine, S!Lock, S!AppendResult, S!Done,
         S!Abandoned, S!AllDone, S!Cardinality

LEMMA ListsRollout ==
  /\ Rollout!AllMachines = AllMachines /\ Rollout!ServerMachines = ServerMachines
  /\ Rollout!OtherMachines = OtherMachines /\ \A A : Rollout!Chosen(A) = Chosen(A)
  BY DEF AllMachines, ServerMachines, OtherMachines, IsServer, Chosen,
         Rollout!AllMachines, Rollout!ServerMachines, Rollout!OtherMachines,
         Rollout!IsServer, Rollout!Chosen

LEMMA ListsR ==
  /\ R!AllMachines = AllMachines /\ R!ServerMachines = ServerMachines
  /\ R!OtherMachines = OtherMachines /\ \A A : R!Chosen(A) = Chosen(A)
  BY DEF AllMachines, ServerMachines, OtherMachines, IsServer, Chosen,
         R!AllMachines, R!ServerMachines, R!OtherMachines, R!IsServer, R!Chosen

LEMMA ListsService ==
  /\ Service!AllMachines = AllMachines /\ Service!ServerMachines = ServerMachines
  /\ Service!OtherMachines = OtherMachines /\ \A A : Service!Chosen(A) = Chosen(A)
  BY DEF AllMachines, ServerMachines, OtherMachines, IsServer, Chosen,
         Service!AllMachines, Service!ServerMachines, Service!OtherMachines,
         Service!IsServer, Service!Chosen

LEMMA ListsS ==
  /\ S!AllMachines = AllMachines /\ S!ServerMachines = ServerMachines
  /\ S!OtherMachines = OtherMachines /\ \A A : S!Chosen(A) = Chosen(A)
  BY DEF AllMachines, ServerMachines, OtherMachines, IsServer, Chosen,
         S!AllMachines, S!ServerMachines, S!OtherMachines, S!IsServer, S!Chosen

LEMMA SameSets ==
  /\ Rollout!Agents = R!Agents
  /\ \A m : Rollout!AgentSet(m) = R!AgentSet(m)
  /\ Rollout!Sessions = R!Sessions
  /\ \A s : Rollout!Attached(s) <=> R!Attached(s)
  /\ \A c, t : Rollout!Sed(c, t) = R!Sed(c, t)
  /\ \A m : Rollout!FoundHost(m) = R!FoundHost(m)
  /\ Rollout!ControllerUUID = R!ControllerUUID
  BY DEF
     Rollout!Agents, R!Agents, Rollout!AgentSet, R!AgentSet, Rollout!Sessions,
     R!Sessions, Rollout!Attached, R!Attached, Rollout!Sed, R!Sed,
     Rollout!FoundHost, R!FoundHost, Rollout!ControllerUUID, R!ControllerUUID

LEMMA SameInit == Rollout!RolloutInit <=> R!RolloutInit
  BY DEF
     Rollout!RolloutInit, R!RolloutInit, Rollout!CallInit, R!CallInit,
     Rollout!FoundHost, R!FoundHost, Rollout!AgentSet, R!AgentSet,
     Rollout!Sessions, R!Sessions, Rollout!NoScript, R!NoScript

LEMMA SameCopy ==
  /\ \A s : Rollout!Copy(s) <=> R!Copy(s)
  /\ \A s : Rollout!Test(s) <=> R!Test(s)
  /\ \A s : Rollout!ReadFormat(s) <=> R!ReadFormat(s)
  BY DEF
     Rollout!Copy, R!Copy, Rollout!Test, R!Test, Rollout!ReadFormat,
     R!ReadFormat, Rollout!Goto, R!Goto, Rollout!callVars, R!callVars

LEMMA SameEnds == \A s, o : Rollout!Ends(s, o) <=> R!Ends(s, o)
  BY CallsRollout, CallsR, SameSets DEF
     Rollout!Ends, R!Ends, Rollout!NoScript, R!NoScript, Rollout!callVars,
     R!callVars

LEMMA SameDoOp == \A s : Rollout!DoOp(s) <=> R!DoOp(s)
  BY DEF
     Rollout!DoOp, R!DoOp, Rollout!DoOps, R!DoOps, Rollout!Goto, R!Goto,
     Rollout!callVars, R!callVars, Rollout!Works, R!Works, Rollout!Effect,
     R!Effect, Rollout!Sed, R!Sed, Rollout!After, R!After

LEMMA SameFails ==
  /\ \A s : Rollout!ScriptFails(s) <=> R!ScriptFails(s)
  /\ \A s : Rollout!NextAgent(s) <=> R!NextAgent(s)
  BY SameEnds DEF
     Rollout!ScriptFails, R!ScriptFails, Rollout!CopyFails, R!CopyFails,
     Rollout!DoOpFails, R!DoOpFails, Rollout!DoOps, R!DoOps, Rollout!NextAgent,
     R!NextAgent, Rollout!callVars, R!callVars

LEMMA SameScripts == \A s : Rollout!ScriptStep(s) <=> R!ScriptStep(s)
  BY SameCopy, SameDoOp, SameFails DEF
     Rollout!ScriptStep, R!ScriptStep

LEMMA SameLoss ==
  /\ \A s : Rollout!LoseConnection(s) <=> R!LoseConnection(s)
  /\ Rollout!Crash <=> R!Crash
  BY CallsRollout, CallsR, SameSets DEF
     Rollout!LoseConnection, R!LoseConnection, Rollout!Crash, R!Crash,
     Rollout!Survivors, R!Survivors, Rollout!NoScript, R!NoScript

LEMMA SameRollout ==
  /\ Rollout!Refuse(TRUE) <=> R!Refuse(TRUE)
  /\ Rollout!Start(TRUE, {}) <=> R!Start(TRUE, {})
  /\ Rollout!Working <=> R!Working
  /\ Rollout!Trouble <=> R!Trouble
  BY CallsRollout, CallsR, ListsRollout, ListsR, SameSets, SameScripts, SameFails, SameLoss DEF
     Rollout!Refuse, R!Refuse, Rollout!Start, R!Start, Rollout!Begin, R!Begin,
     Rollout!Working, R!Working, Rollout!Trouble, R!Trouble, Rollout!Finish,
     R!Finish, Rollout!callVars, R!callVars

LEMMA SameServiceScripts ==
  /\ Service!Sessions = S!Sessions
  /\ Service!NoScript = S!NoScript
  /\ \A s : Service!Attached(s) <=> S!Attached(s)
  /\ \A s : Service!ServiceCommand(s) <=> S!ServiceCommand(s)
  /\ \A s : Service!ScriptEnds(s) <=> S!ScriptEnds(s)
  /\ \A s : Service!LoseConnection(s) <=> S!LoseConnection(s)
  /\ Service!Crash <=> S!Crash
  BY CallsService, CallsS DEF
     Service!Sessions, S!Sessions, Service!NoScript, S!NoScript, Service!Attached,
     S!Attached, Service!ServiceCommand, S!ServiceCommand, Service!After, S!After,
     Service!ScriptEnds, S!ScriptEnds, Service!LoseConnection, S!LoseConnection,
     Service!Crash, S!Crash, Service!callVars, S!callVars

LEMMA SameService ==
  /\ \A act : Service!Start(act) <=> S!Start(act)
  /\ \A act : Service!Refuse(act) <=> S!Refuse(act)
  /\ Service!Working <=> S!Working
  /\ Service!Trouble <=> S!Trouble
  /\ Service!Actions = S!Actions
  BY CallsService, CallsS, ListsService, ListsS, SameServiceScripts DEF
     Service!Start, S!Start, Service!Refuse, S!Refuse, Service!Begin, S!Begin,
     Service!Working, S!Working, Service!Trouble, S!Trouble, Service!Finish,
     S!Finish, Service!Targets, S!Targets, Service!callVars, S!callVars,
     Service!Actions, S!Actions

-----------------------------------------------------------------------------
(* What the constants and the instances come to. *)

\* The assumptions of the instances hold.
LEMMA Assumptions ==
  R!AgentsAssumption /\ R!MachinesAssumption /\ S!AgentsAssumption /\ S!MachinesAssumption
<1>1. R!IsFiniteSet(Machines) /\ S!IsFiniteSet(Machines)
  BY MachinesAssumption DEF R!IsFiniteSet, S!IsFiniteSet, IsFiniteSet
<1>2. Agents = R!Agents /\ Agents = S!Agents
  BY DEF Agents, Rollout!Agents, R!Agents, S!Agents, S!AgentSet
<1>3. \A m : AgentSet(m) = R!AgentSet(m) /\ AgentSet(m) = S!AgentSet(m)
  BY DEF AgentSet, Rollout!AgentSet, R!AgentSet, S!AgentSet
<1>4. R!NoAddressMissing
  BY ListsR, ProcessAssumption DEF NoAddressMissing, R!NoAddressMissing
<1> QED
  BY <1>1, <1>2, <1>3, <1>4, ProcessAssumption, MachinesAssumption
  DEF R!AgentsAssumption, R!MachinesAssumption, S!AgentsAssumption, S!MachinesAssumption

\* What the instances prove, with their assumptions discharged.
LEMMA RolloutNext == R!RolloutInv /\ [R!Next]_(R!vars) => R!RolloutInv'
  BY Assumptions, R!NextInv DEF R!AgentsAssumption, R!MachinesAssumption

LEMMA RolloutGoes == R!RolloutInv /\ (R!Working \/ R!Trouble) => R!Goes
  BY Assumptions, R!CalledStay DEF R!AgentsAssumption, R!MachinesAssumption

LEMMA RolloutAttached == R!AttachedInv /\ [R!Next]_(R!vars) => R!AttachedInv'
  BY Assumptions, R!NextAttached DEF R!AgentsAssumption, R!MachinesAssumption

LEMMA RolloutClean == R!AttachedInv => R!CleanMeansSwitched
  BY Assumptions, R!AttachedClean DEF R!AgentsAssumption, R!MachinesAssumption

LEMMA FoundHosts ==
  \A m \in Machines : /\ R!FoundHost(m) \in R!HostSet(m)
                      /\ \A a \in R!AgentSet(m) : R!FoundHost(m).conf[a] \in R!Versions(a)
  BY Assumptions, R!FoundHostInv DEF R!AgentsAssumption, R!MachinesAssumption

LEMMA NoScripted == \A m : R!NoScript \in R!ScriptSet(m)
  BY Assumptions, R!NoScriptType DEF R!AgentsAssumption, R!MachinesAssumption

LEMMA NoServiceScript == \A m : S!NoScript \in S!Scripts(m)
  BY Assumptions, S!NoScriptType DEF S!AgentsAssumption, S!MachinesAssumption

LEMMA ServiceNextInv == S!ServiceInv /\ [S!ServiceNext \/ S!Finished]_(S!serviceVars) => S!ServiceInv'
  BY Assumptions, S!NextInv DEF S!AgentsAssumption, S!MachinesAssumption

LEMMA ServiceStart == S!ServiceInit => S!ServiceInv
  BY Assumptions, S!InitInv DEF S!AgentsAssumption, S!MachinesAssumption

LEMMA ServiceSpeaks == S!ServiceInv => S!CleanSpeaksOfLastAgent
  BY Assumptions, S!InvSpeaks DEF S!AgentsAssumption, S!MachinesAssumption

LEMMA ServiceGoes == S!ServiceInv /\ (S!Working \/ S!Trouble) => S!Goes
  BY Assumptions, S!CalledStay DEF S!AgentsAssumption, S!MachinesAssumption

LEMMA SameAgents ==
  /\ Agents = R!Agents /\ Agents = S!Agents
  /\ \A m : AgentSet(m) = R!AgentSet(m) /\ AgentSet(m) = S!AgentSet(m)
  BY DEF Agents, Rollout!Agents, R!Agents, S!Agents, AgentSet, Rollout!AgentSet, R!AgentSet, S!AgentSet

LEMMA SameCallInv ==
  /\ (R!CallInv <=> CallInv) /\ (S!CallInv <=> CallInv)
  /\ \A m, o : (R!Heard(m, o) <=> Heard(m, o)) /\ (S!Heard(m, o) <=> Heard(m, o))
  /\ R!Called = Called /\ S!Called = Called
  /\ \A m : R!OutcomesOf(m) = OutcomesOf(m) /\ S!OutcomesOf(m) = OutcomesOf(m)
  BY DEF CallInv, CallTypeOK, Phases, Outcomes, Busy, Recorded, ResultsOf, Cardinality, Heard,
         R!CallInv, R!CallTypeOK, R!Phases, R!Outcomes, R!Busy, R!Recorded, R!ResultsOf,
         R!Cardinality, R!Heard, R!Called, R!OutcomesOf, Called, OutcomesOf,
         S!CallInv, S!CallTypeOK, S!Phases, S!Outcomes, S!Busy, S!Recorded, S!ResultsOf,
         S!Cardinality, S!Heard, S!Called, S!OutcomesOf

LEMMA RolloutView ==
  R!RolloutInv <=> CallInv /\ MachinesInv /\ (rolloutPc = "idle" => AllDone)
  BY SameCallInv, CallsR DEF R!RolloutInv, MachinesInv

LEMMA RolloutViewNext ==
  (R!RolloutInv <=> CallInv /\ MachinesInv /\ (rolloutPc = "idle" => AllDone))'
  BY RolloutView, PTL

LEMMA Bounds == MaxUpgrades \in 0..3 /\ MaxRollouts \in Nat /\ MaxServices \in Nat
  BY ProcessAssumption

\* The agents of a machine; the last is one of them, and of no other machine.
LEMMA AgentsOf ==
  ASSUME NEW m \in Machines
  PROVE  /\ LastAgent(m) \in AgentSet(m)
         /\ AgentSet(m) \subseteq Agents
         /\ \A n \in Machines : \A a \in AgentSet(m) : a \in AgentSet(n) => n = m
<1>1. AgentsOn[m] \in Seq(Agents) /\ AgentsOn[m] # <<>>
  BY ProcessAssumption
<1>2. Len(AgentsOn[m]) \in 1..Len(AgentsOn[m])
  BY <1>1, EmptySeq
<1>3. AgentSet(m) = {AgentsOn[m][i] : i \in 1..Len(AgentsOn[m])}
  BY DEF AgentSet, Rollout!AgentSet
<1>4. AgentSet(m) \subseteq Agents
  BY <1>3 DEF Agents, Rollout!Agents
<1> QED
  BY <1>2, <1>3, <1>4, ProcessAssumption DEF LastAgent

LEMMA ListsType ==
  /\ AllMachines \subseteq Machines
  /\ ServerMachines \subseteq AllMachines /\ OtherMachines \subseteq AllMachines
  /\ AllMachines = ServerMachines \cup OtherMachines
  /\ \A m, n \in ServerMachines : m = n
  /\ Chosen({}) = AllMachines
  BY ProcessAssumption DEF AllMachines, ServerMachines, OtherMachines, IsServer, Chosen

LEMMA UUIDs == \A r \in 0..3 : UUID(r) = "" <=> r = 0
<1> SUFFICES ASSUME NEW r \in 0..3 PROVE UUID(r) = "" <=> r = 0
  OBVIOUS
<1>1. r \in {0, 1, 2, 3}
  OBVIOUS
<1> QED
  <2>1. UUID(1) = "uuid-1" /\ UUID(2) = "uuid-2" /\ UUID(3) = "uuid-3" /\ UUID(0) = ""
    BY DEF UUID
  <2> QED
    BY <1>1, <2>1

\* The UUID that upgrade-agents reads.
UUIDSays ==
  /\ ModelOrder[1] \in Models
  /\ R!ControllerUUID = UUID(models[ModelOrder[1]])
  /\ R!ControllerUUID = "" <=> models[ModelOrder[1]] = 0
  /\ R!ControllerUUID # "" => controller # 0 /\ R!ControllerUUID = UUID(controller)
  /\ Joined => R!ControllerUUID # ""

LEMMA UUIDRead == SchemaInv => UUIDSays
<1> SUFFICES ASSUME SchemaInv PROVE UUIDSays
  OBVIOUS
<1>1. ModelOrder \in Seq(Models) /\ ModelOrder # <<>> /\ 1 \in 1..Len(ModelOrder)
  BY ProcessAssumption, EmptySeq
<1>2. ModelOrder[1] \in Models
  BY <1>1
<1>3. R!ControllerUUID = UUID(models[ModelOrder[1]])
  <2> DEFINE n == Len(ModelOrder)
             T == {UUID(models[ModelOrder[i]]) : i \in 1..n}
             s == [i \in 1..n |-> UUID(models[ModelOrder[i]])]
  <2>1. n \in Nat /\ 1 \in 1..n
    BY <1>1
  <2>2. \A i \in 1..n : s[i] \in T
    OBVIOUS
  <2>3. s[1] = UUID(models[ModelOrder[1]])
    BY <2>1
  <2> HIDE DEF n, T
  <2>4. s \in [1..n -> T]
    BY <2>2 DEF T
  <2>5. s \in Seq(T) /\ Len(s) = n
    BY <2>1, <2>4
  <2> HIDE DEF s
  <2>6. Head(s) = s[1]
    BY <2>1, <2>5, EmptySeq, HeadTailProperties
  <2> QED
    BY <2>3, <2>6 DEF R!ControllerUUID, s, n
<1>4. models[ModelOrder[1]] \in {0, controller} /\ controller \in 0..3
  BY <1>2, Bounds DEF SchemaInv
<1>5. /\ UUID(controller) = "" <=> controller = 0
      /\ UUID(0) = ""
  <2>1. 0 \in 0..3
    OBVIOUS
  <2> QED
    BY <1>4, <2>1, UUIDs, Zenon
<1>6. Joined => controller # 0 /\ models[ModelOrder[1]] = controller
  BY <1>2 DEF Joined
<1> QED
  BY <1>2, <1>3, <1>4, <1>5, <1>6 DEF UUIDSays

LEMMA UUIDReadNext == (SchemaInv => UUIDSays)'
  BY UUIDRead, PTL

-----------------------------------------------------------------------------
(* Whoever the operator is. *)

LEMMA CodesStay ==
  ASSUME CodesInv, UNCHANGED serviceScript
  PROVE  CodesInv'
  BY DEF CodesInv

LEMMA CodesGone ==
  ASSUME CodesInv, NEW s \in Service!Sessions,
         serviceScript' \in {serviceScript, [serviceScript EXCEPT ![s] = Service!NoScript]}
  PROVE  CodesInv'
  BY DEF CodesInv, Service!NoScript

LEMMA AnyoneInit == Init => AnyoneInv
<1> SUFFICES ASSUME Init PROVE AnyoneInv
  OBVIOUS
<1> USE DEF Init
<1>1. SchemaInv
  <2>1. controller = 0 /\ runs = 0 /\ busy = FALSE /\ live = FALSE /\ outcome = "stopped"
    BY DEF Schema!Init
  <2>2. models = [id \in Models |-> 0]
    OBVIOUS
  <2>3. runs \in 0..MaxUpgrades /\ controller \in 0..runs
    BY ONLY <2>1, Bounds
  <2>4. models \in [Models -> {0, controller}]
    BY ONLY <2>2
  <2> QED
    BY ONLY <2>1, <2>3, <2>4 DEF SchemaInv
<1>2. R!RolloutInit
  BY SameInit
<1>3. R!ControllerUUID = ""
  <2>1. models[ModelOrder[1]] = 0
    BY <1>1, UUIDRead DEF UUIDSays
  <2> QED
    BY <1>1, <2>1, UUIDRead DEF UUIDSays
<1>4. CallInv /\ AllDone
  <2>1. CallInit
    BY <1>2 DEF CallInit, R!RolloutInit, R!CallInit
  <2> QED
    BY <2>1, CallInitInv DEF CallInit, AllDone
<1>5. Untouched
  BY <1>2 DEF R!RolloutInit, Untouched, NoScripts, R!NoScript
<1>6. MachinesInv
  <2>1. R!HostsInv
    BY <1>2, FoundHosts DEF R!RolloutInit, R!HostsInv, R!HostInv
  <2>2. \A s \in R!Sessions : script[s] \in R!ScriptSet(s[2])
    BY <1>2, NoScripted DEF R!RolloutInit
  <2>3. script = [s \in R!Sessions |-> script[s]]
    BY <1>2 DEF R!RolloutInit
  <2>4. rolloutPc = "idle" /\ rollouts = 0 /\ rolloutLive = FALSE /\ rolloutExit = "none"
    BY <1>2 DEF R!RolloutInit
  <2>5. rollouts \in 0..MaxRollouts
    BY ONLY <2>4, Bounds
  <2> QED
    BY ONLY <2>1, <2>2, <2>3, <2>4, <2>5 DEF MachinesInv
<1>7. TurnsInv
  <2>1. CodesInv
    BY DEF CodesInv, Service!NoScript
  <2> QED
    BY <1>2, <1>4, <2>1 DEF R!RolloutInit, TurnsInv, Schema!Init
<1> QED
  BY <1>1, <1>4, <1>5, <1>6, <1>7 DEF AnyoneInv

\* upgrade-agents and its machines see no more of the database than the UUID.
LEMMA MachinesStay ==
  ASSUME MachinesInv, UNCHANGED machineVars,
         R!ControllerUUID' = R!ControllerUUID
  PROVE  MachinesInv'
<1> USE DEF machineVars
<1>1. /\ \A m : R!ScriptSet(m)' = R!ScriptSet(m) /\ R!HostSet(m)' = R!HostSet(m)
      /\ \A a : R!Versions(a)' = R!Versions(a)
  BY DEF R!ScriptSet, R!HostSet, R!Confs, R!Versions
<1>2. R!HostsInv'
  BY <1>1 DEF MachinesInv, R!HostsInv, R!HostInv
<1> QED
  BY <1>1, <1>2 DEF MachinesInv

LEMMA UntouchedStays ==
  ASSUME Untouched, UNCHANGED machineVars
  PROVE  Untouched'
  BY DEF Untouched, NoScripts, machineVars

\* An untouched machine is as it should be, whatever UUID it will be given.
LEMMA UntouchedInv ==
  ASSUME Untouched, MachinesInv, R!ControllerUUID = "", UNCHANGED machineVars
  PROVE  MachinesInv'
<1> USE DEF machineVars
<1>1. host' = [m \in Machines |-> R!FoundHost(m)]
  BY DEF Untouched
<1>2. ASSUME NEW m \in Machines
      PROVE  /\ R!FoundHost(m) \in R!HostSet(m)'
             /\ \A a \in R!AgentSet(m) : R!FoundHost(m).conf[a] \in R!Versions(a)'
  <2>1. R!AgentSet(m) \subseteq R!Agents
    BY ONLY m \in Machines DEF R!AgentSet, R!Agents
  <2>2. ASSUME NEW a \in R!AgentSet(m)
        PROVE  FoundConf[a] \in R!Versions(a)' /\ FoundConf[a] \in R!Confs'
    <3>1. FoundConf[a] \in R!Versions(a)'
      BY DEF R!Versions
    <3>2. a \in R!Agents
      BY <2>1
    <3>3. R!Confs' = UNION {R!Versions(b)' : b \in R!Agents}
      BY ONLY DEF R!Confs, R!Agents
    <3> QED
      BY ONLY <3>1, <3>2, <3>3
  <2> QED
    BY <2>2 DEF R!FoundHost, R!HostSet, R!Tarballs, R!Dirs, R!Links
<1>3. R!HostsInv'
  BY <1>1, <1>2 DEF R!HostsInv, R!HostInv
<1>4. ASSUME NEW s \in R!Sessions
      PROVE  script'[s] \in R!ScriptSet(s[2])'
  <2>1. script[s].at = "none" /\ script[s] \in R!ScriptSet(s[2]) /\ script' = script
    BY DEF Untouched, NoScripts, MachinesInv
  <2> QED
    BY <2>1 DEF R!ScriptSet
<1> QED
  BY <1>3, <1>4 DEF MachinesInv

\* upgrade-db begins: the machines are left alone.
LEMMA GiveUpgradeDBAnyone ==
  ASSUME AnyoneInv, GiveUpgradeDB
  PROVE  AnyoneInv'
<1>1. /\ runs < MaxUpgrades /\ runs' = runs + 1 /\ live' = TRUE /\ busy' = TRUE
      /\ outcome' = "running" /\ UNCHANGED <<controller, models>>
      /\ ~busy /\ rolloutPc = "idle" /\ servicePc = "idle"
      /\ UNCHANGED <<callVars, machineVars, agentVars>>
  BY DEF GiveUpgradeDB, Schema!Begin, Give, Idle
<1>2. SchemaInv'
  <2>1. runs \in 0..MaxUpgrades /\ controller \in 0..runs /\ models \in [Models -> {0, controller}]
    BY DEF AnyoneInv, SchemaInv
  <2>2. runs' \in 0..MaxUpgrades /\ controller' \in 0..runs' /\ runs' # 0
    BY ONLY <1>1, <2>1, Bounds
  <2> QED
    BY ONLY <1>1, <2>1, <2>2 DEF SchemaInv
<1>3. CallInv'
  BY <1>1, CallStutters DEF AnyoneInv
<1>4. R!ControllerUUID' = R!ControllerUUID
  BY <1>1 DEF R!ControllerUUID
<1>5. MachinesInv'
  BY <1>1, <1>4, MachinesStay DEF AnyoneInv
<1>6. TurnsInv'
  BY <1>1, CodesStay DEF AnyoneInv, TurnsInv, AllDone, callVars, machineVars, agentVars
<1> QED
  BY <1>1, <1>2, <1>3, <1>4, <1>5, <1>6, UntouchedStays DEF AnyoneInv

\* A step of upgrade-db gives the controller its UUID, or adds models to it.
LEMMA UpgradeDBAnyone ==
  ASSUME AnyoneInv, UpgradeDB
  PROVE  AnyoneInv'
<1>1. /\ busy /\ live /\ runs # 0 /\ rolloutPc = "idle" /\ servicePc = "idle" /\ UNCHANGED <<runs, live>>
      /\ controller' \in {controller} \cup 1..runs
      /\ models' \in [Models -> {0, controller'}]
      /\ UNCHANGED <<callVars, machineVars, agentVars>>
  BY DEF UpgradeDB, Schema!Proceed, Schema!Stop, Schema!Succeed, AnyoneInv, SchemaInv, TurnsInv
<1>2. /\ controller # 0 => controller' = controller
      /\ \A id \in Models : models[id] # 0 => models'[id] = models[id]
  <2>1. DOMAIN models = Models
    BY DEF AnyoneInv, SchemaInv
  <2> QED
    BY <1>1, <2>1 DEF UpgradeDB, Schema!Proceed, Schema!Stop, Schema!Succeed, Schema!Change
<1>3. SchemaInv'
  <2>1. runs' \in 0..MaxUpgrades /\ controller' \in 0..runs' /\ runs' # 0 /\ live'
    <3>1. runs \in 0..MaxUpgrades /\ controller \in 0..runs
      BY DEF AnyoneInv, SchemaInv
    <3> QED
      BY ONLY <1>1, <3>1, Bounds
  <2>2. /\ busy' \in BOOLEAN
        /\ outcome' = "upgraded" => /\ ~busy' /\ controller' # 0
                                    /\ \A id \in Models : models'[id] = controller'
    <3>1. CASE Schema!Proceed
      BY <1>1, <3>1 DEF Schema!Proceed, AnyoneInv, SchemaInv
    <3>2. CASE Schema!Stop
      BY <3>2 DEF Schema!Stop
    <3>3. CASE Schema!Succeed
      BY <1>1, <3>3 DEF Schema!Succeed, Schema!AllJoined, AnyoneInv, SchemaInv
    <3> QED
      BY <3>1, <3>2, <3>3 DEF UpgradeDB
  <2> QED
    BY <1>1, <2>1, <2>2 DEF SchemaInv
<1>4. CallInv'
  BY <1>1, CallStutters DEF AnyoneInv
<1>5. R!ControllerUUID # "" => R!ControllerUUID' = R!ControllerUUID
  BY <1>2, <1>3, UUIDRead, UUIDReadNext DEF AnyoneInv, UUIDSays
<1>6. MachinesInv' /\ (R!ControllerUUID' = "" => Untouched')
  <2>1. CASE R!ControllerUUID = ""
    BY <1>1, <2>1, UntouchedInv, UntouchedStays DEF AnyoneInv
  <2>2. CASE R!ControllerUUID # ""
    BY <1>1, <1>5, <2>2, MachinesStay DEF AnyoneInv
  <2> QED
    BY <2>1, <2>2
<1>7. TurnsInv'
  BY <1>1, CodesStay DEF AnyoneInv, TurnsInv, AllDone, callVars, machineVars, agentVars
<1> QED
  BY <1>3, <1>4, <1>6, <1>7 DEF AnyoneInv

\* upgrade-agents, given or at work, is AgentRollout's.
LEMMA SchemaRests ==
  ASSUME SchemaInv, UNCHANGED schemaVars
  PROVE  SchemaInv' /\ R!ControllerUUID' = R!ControllerUUID
  BY DEF SchemaInv, schemaVars, R!ControllerUUID

LEMMA RolloutStep ==
  ASSUME GiveUpgradeAgents \/ UpgradeAgents
  PROVE  R!Next
<1>1. UNCHANGED models
  BY DEF GiveUpgradeAgents, UpgradeAgents, schemaVars
<1>2. R!Refuse(TRUE) \/ R!Start(TRUE, {}) \/ R!Working \/ R!Trouble
  BY SameRollout DEF GiveUpgradeAgents, UpgradeAgents
<1> QED
  BY <1>1, <1>2 DEF R!Next, R!RolloutNext, R!Command

LEMMA RolloutAnyone ==
  ASSUME AnyoneInv, GiveUpgradeAgents \/ UpgradeAgents
  PROVE  AnyoneInv'
<1>1. UNCHANGED <<schemaVars, agentVars>>
  BY DEF GiveUpgradeAgents, UpgradeAgents
<1>2. SchemaInv' /\ R!ControllerUUID' = R!ControllerUUID
  BY <1>1, SchemaRests DEF AnyoneInv
<1>3. R!RolloutInv'
  <2>1. R!RolloutInv
    BY RolloutView DEF AnyoneInv, TurnsInv, GiveUpgradeAgents, UpgradeAgents, Give, Idle
  <2> QED
    BY <2>1, RolloutStep, RolloutNext
<1>4. CallInv' /\ MachinesInv' /\ (rolloutPc' = "idle" => AllDone')
  BY <1>3, RolloutViewNext
<1>5. TurnsInv'
  BY <1>1, <1>4, CodesStay DEF AnyoneInv, TurnsInv, MachinesInv, GiveUpgradeAgents, UpgradeAgents, Give, Idle,
                    agentVars, schemaVars
<1>6. R!ControllerUUID = "" => Untouched'
  <2> SUFFICES ASSUME R!ControllerUUID = "" PROVE Untouched'
    OBVIOUS
  <2>1. Untouched /\ ~UpgradeAgents
    BY DEF AnyoneInv, Untouched, UpgradeAgents
  <2>2. R!Refuse(TRUE)
    BY <2>1, SameRollout DEF GiveUpgradeAgents, R!Start
  <2> QED
    BY <2>1, <2>2 DEF R!Refuse, Untouched, NoScripts
<1> QED
  BY <1>2, <1>4, <1>5, <1>6 DEF AnyoneInv

\* The agents commands leave the disks alone.
LEMMA ServiceCalls ==
  ASSUME AnyoneInv, (\E act \in Service!Actions : GiveService(act)) \/ AgentsCommand
  PROVE  /\ CallInv' /\ CodesInv' /\ servicePc' \in {"idle", "waiting"}
         /\ servicePc' = "idle" => AllDone'
<1>1. CallInv /\ CodesInv /\ servicePc \in {"idle", "waiting"}
  BY DEF AnyoneInv, TurnsInv
<1>2. ASSUME NEW act \in Service!Actions, GiveService(act)
      PROVE  /\ CallInv' /\ CodesInv' /\ servicePc' \in {"idle", "waiting"}
             /\ servicePc' = "idle" => AllDone'
  <2>1. AllDone /\ lock = {}
    BY <1>1, <1>2, NoneBusy DEF GiveService, Give, Idle, AnyoneInv, TurnsInv
  <2>2. CASE Service!Refuse(act)
    <3>1. UNCHANGED <<callVars, serviceScript, servicePc>>
      BY <2>2 DEF Service!Refuse, Service!callVars, callVars
    <3> QED
      BY <1>1, <2>1, <3>1, CallStutters, CodesStay DEF AllDone, callVars
  <2>3. CASE Service!Start(act)
    <3>1. PICK ms \in Service!Targets(act) : Service!Spawn(ms)
      BY <2>3 DEF Service!Start
    <3>2. ms \in SUBSET Machines
      BY ListsService, ListsType DEF Service!Targets, Service!Actions
    <3>3. CallInv'
      BY <1>1, <2>1, <3>1, <3>2, CallsService, SpawnInv
    <3>4. CodesInv'
      BY <1>1, <2>3 DEF Service!Start, CodesInv
    <3> QED
      BY <2>3, <3>3, <3>4 DEF Service!Start
  <2> QED
    BY <1>2, <2>2, <2>3 DEF GiveService
<1>3. CASE AgentsCommand
  <2>1. ASSUME NEW m \in Machines, Service!Goroutine(m), UNCHANGED <<serviceScript, servicePc>>
        PROVE  CallInv' /\ CodesInv' /\ UNCHANGED servicePc
    BY <1>1, <2>1, CallsService, GoroutineInv, CodesStay
  <2>2. ASSUME NEW s \in Service!Sessions, Service!ServiceCommand(s), UNCHANGED servicePc
        PROVE  CallInv' /\ CodesInv' /\ UNCHANGED servicePc
    <3>1. UNCHANGED callVars
      BY <2>2 DEF Service!ServiceCommand, Service!callVars, callVars
    <3>2. CodesInv'
      BY <1>1, <2>2 DEF Service!ServiceCommand, CodesInv
    <3> QED
      BY <1>1, <2>2, <3>1, <3>2, CallStutters
  <2>3. ASSUME NEW s \in Service!Sessions, UNCHANGED servicePc,
               (Service!Attached(s) /\ Service!ScriptEnds(s)) \/ Service!LoseConnection(s)
        PROVE  CallInv' /\ CodesInv' /\ UNCHANGED servicePc
    <3>1. s[2] \in Machines /\ serviceScript[s].code \in Outcomes
      BY <1>1 DEF Service!Sessions, CodesInv, Outcomes
    <3>2. PICK o \in Outcomes : Answered(s[2], o)
      BY <2>3, <3>1, CallsService DEF Service!ScriptEnds, Service!LoseConnection, Outcomes
    <3>3. serviceScript' \in {serviceScript, [serviceScript EXCEPT ![s] = Service!NoScript]}
      BY <2>3 DEF Service!ScriptEnds, Service!LoseConnection
    <3> QED
      BY <1>1, <2>3, <3>1, <3>2, <3>3, AnsweredInv, CodesGone
  <2>4. CASE Service!Finish
    <3>1. UNCHANGED <<callVars, serviceScript>> /\ servicePc' = "idle" /\ AllDone
      BY <2>4, CallsService DEF Service!Finish, Service!callVars, callVars
    <3> QED
      BY <1>1, <3>1, CallStutters, CodesStay DEF AllDone, callVars
  <2>5. CASE Service!Crash
    <3>1. CodesInv'
      BY <1>1, <2>5 DEF Service!Crash, Service!NoScript, CodesInv
    <3> QED
      BY <1>1, <2>5, <3>1, CallsService, AbandonedInv DEF Service!Crash
  <2>6. servicePc = "waiting"
    BY <1>3 DEF AgentsCommand
  <2> QED
    BY <1>1, <1>3, <2>1, <2>2, <2>3, <2>4, <2>5, <2>6
    DEF AgentsCommand, Service!Working, Service!Trouble
<1> QED
  BY <1>2, <1>3

LEMMA ServiceAnyone ==
  ASSUME AnyoneInv, (\E act \in Service!Actions : GiveService(act)) \/ AgentsCommand
  PROVE  AnyoneInv'
<1>1. UNCHANGED <<schemaVars, machineVars>>
  BY DEF GiveService, AgentsCommand
<1>2. SchemaInv' /\ R!ControllerUUID' = R!ControllerUUID
  BY <1>1, SchemaRests DEF AnyoneInv
<1>3. MachinesInv' /\ (R!ControllerUUID = "" => Untouched')
  BY <1>1, <1>2, MachinesStay, UntouchedStays DEF AnyoneInv
<1>4. ~busy /\ rolloutPc = "idle"
  BY DEF GiveService, Give, Idle, AgentsCommand, AnyoneInv, TurnsInv
<1>5. TurnsInv'
  BY <1>1, <1>4, ServiceCalls DEF TurnsInv, machineVars, schemaVars
<1> QED
  BY <1>2, <1>3, <1>5, ServiceCalls DEF AnyoneInv

LEMMA StutterAnyone ==
  ASSUME AnyoneInv, UNCHANGED vars
  PROVE  AnyoneInv'
<1>1. UNCHANGED <<schemaVars, callVars, machineVars, agentVars>>
  BY DEF vars
<1>2. SchemaInv' /\ R!ControllerUUID' = R!ControllerUUID
  BY <1>1, SchemaRests DEF AnyoneInv
<1>3. MachinesInv' /\ (R!ControllerUUID = "" => Untouched') /\ CallInv'
  BY <1>1, <1>2, MachinesStay, UntouchedStays, CallStutters DEF AnyoneInv
<1>4. TurnsInv'
  BY <1>1, CodesStay DEF AnyoneInv, TurnsInv, AllDone, callVars, machineVars, agentVars, schemaVars
<1> QED
  BY <1>2, <1>3, <1>4 DEF AnyoneInv

LEMMA AnyoneNext == AnyoneInv /\ [Next]_vars => AnyoneInv'
  BY GiveUpgradeDBAnyone, UpgradeDBAnyone, RolloutAnyone, ServiceAnyone, StutterAnyone
  DEF Next, Finished

\* A tag in an agent.conf is that of the controller in the database, whatever
\* commands are given in whatever order and whichever fail (db.go:79-87,
\* upgradeagents.go:208-217).
THEOREM ConfsNamed == Spec => []ConfsNameTheController
<1>1. AnyoneInv => ConfsNameTheController
  <2> SUFFICES ASSUME AnyoneInv, NEW m \in Machines, NEW a \in AgentSet(m),
                      host[m].conf[a].controller # <<>>
               PROVE  controller # 0 /\ Head(host[m].conf[a].controller) = UUID(controller)
    BY DEF ConfsNameTheController
  <2>1. host[m].conf[a] \in {FoundConf[a], R!Sed(FoundConf[a], R!ControllerUUID)}
    BY SameAgents DEF AnyoneInv, MachinesInv, R!HostsInv, R!HostInv, R!Versions
  <2>2. FoundConf[a].controller = <<>> /\ FoundConf[a].build \in Seq(STRING)
    BY ProcessAssumption
  <2>3. host[m].conf[a].controller = <<R!ControllerUUID>> \o FoundConf[a].build
    BY <2>1, <2>2 DEF R!Sed
  <2>4. R!ControllerUUID # ""
    <3> SUFFICES ASSUME R!ControllerUUID = "" PROVE FALSE
      OBVIOUS
    <3>1. Untouched
      BY DEF AnyoneInv
    <3>2. host[m] = R!FoundHost(m) /\ a \in R!AgentSet(m)
      BY <3>1, SameAgents DEF Untouched
    <3>3. R!FoundHost(m).conf = [x \in R!AgentSet(m) |-> FoundConf[x]]
      BY ONLY DEF R!FoundHost
    <3> QED
      BY ONLY <2>2, <3>2, <3>3, host[m].conf[a].controller # <<>>
  <2>5. ASSUME NEW x, NEW q \in Seq(STRING)
        PROVE  Head(<<x>> \o q) = x
    <3> DEFINE T == {x} \cup STRING
               p == <<x>> \o q
    <3>1. <<x>> \in Seq(T) /\ q \in Seq(T) /\ Len(<<x>>) = 1 /\ <<x>>[1] = x
      OBVIOUS
    <3>2. p \in Seq(T) /\ Len(p) = 1 + Len(q) /\ p[1] = x /\ Len(q) \in Nat
      BY ONLY <3>1, ConcatProperties, LenProperties
    <3> HIDE DEF p, T
    <3> QED
      BY ONLY <3>2, EmptySeq, HeadTailProperties DEF p
  <2> QED
    BY <2>2, <2>3, <2>4, <2>5, UUIDRead DEF AnyoneInv, UUIDSays
<1> QED
  BY <1>1, AnyoneInit, AnyoneNext, PTL DEF Spec

-----------------------------------------------------------------------------
(* The careful operator. *)

\* The commands come in the order of README.md, each as long as it has not
\* succeeded.
LEMMA CarefulGives ==
  ASSUME operator.careful, step \in 0..5, NEW c, Give(c)
  PROVE  /\ Idle /\ UNCHANGED operator
         /\ c = "stop" => step' = 1 /\ step \in {0, 1}
         /\ c = "upgrade-db" =>
              step' = 2 /\ (step = 2 \/ (step = 1 /\ serviceExit = "ok" /\ AllClean))
         /\ c = "upgrade-agents" => step' = 3 /\ (step = 3 \/ (step = 2 /\ outcome = "upgraded"))
         /\ c = "start-controller" =>
              step' = 4 /\ (step = 4 \/ (step = 3 /\ rolloutExit = "ok" /\ AllClean))
         /\ c = "start-others" =>
              step' = 5 /\ (step = 5 \/ (step = 4 /\ serviceExit = "ok" /\ AllClean))
         /\ c # "status"
<1>1. /\ step' \in 1..5 /\ README[step'] = c /\ Idle /\ UNCHANGED operator
      /\ step' = step \/ (step' = step + 1 /\ Satisfied)
  <2>1. Len(README) = 5
    BY DEF README
  <2>2. Satisfied \/ step # 0
    BY DEF Satisfied
  <2>3. /\ Idle /\ UNCHANGED operator
        /\ step' <= 5 /\ README[step'] = c
        /\ step' = IF Satisfied THEN step + 1 ELSE step
    <3>1. Give(c)
      OBVIOUS
    <3>2. CASE Satisfied
      BY ONLY <2>1, <3>1, <3>2, operator.careful DEF Give
    <3>3. CASE ~Satisfied
      BY ONLY <2>1, <3>1, <3>3, operator.careful DEF Give
    <3> QED
      BY <3>2, <3>3
  <2> QED
    BY ONLY <2>2, <2>3, step \in 0..5
<1>2. /\ README[1] = "stop" /\ README[2] = "upgrade-db" /\ README[3] = "upgrade-agents"
      /\ README[4] = "start-controller" /\ README[5] = "start-others"
  BY DEF README
<1>3. /\ step = 1 /\ Satisfied => serviceExit = "ok" /\ AllClean
      /\ step = 2 /\ Satisfied => outcome = "upgraded"
      /\ step = 3 /\ Satisfied => rolloutExit = "ok" /\ AllClean
      /\ step = 4 /\ Satisfied => serviceExit = "ok" /\ AllClean
  BY <1>2 DEF Satisfied
<1>4. step' = 1 \/ step' = 2 \/ step' = 3 \/ step' = 4 \/ step' = 5
  BY ONLY <1>1
<1> QED
  BY <1>1, <1>2, <1>3, <1>4

\* The agents commands, given or at work, are AgentService's.
LEMMA ServiceStep ==
  ASSUME S!ServiceInv, (\E act \in Service!Actions : GiveService(act)) \/ AgentsCommand
  PROVE  S!ServiceInv'
  BY ServiceNextInv, SameService
  DEF GiveService, AgentsCommand, S!ServiceNext, S!Command

LEMMA ServiceRests ==
  ASSUME S!ServiceInv, UNCHANGED <<callVars, agentVars>>
  PROVE  S!ServiceInv'
  BY ServiceNextInv DEF S!serviceVars, S!callVars, callVars, agentVars

LEMMA AttachedRests ==
  ASSUME R!AttachedInv, UNCHANGED <<schemaVars, callVars, machineVars>>
  PROVE  R!AttachedInv'
  BY RolloutAttached DEF R!vars, R!rolloutVars, R!callVars, schemaVars, callVars, machineVars

LEMMA AgentsRestStays ==
  ASSUME AgentsRest, UNCHANGED agentVars
  PROVE  AgentsRest'
  BY DEF AgentsRest, Stopped, agentVars

LEMMA BinaryStays ==
  ASSUME BinaryInv, UNCHANGED <<binary, running>>, step' >= 2 => step >= 2,
         Stopped \/ UNCHANGED host
  PROVE  BinaryInv'
  BY DEF BinaryInv, Stopped

LEMMA ReadyStays ==
  ASSUME UNCHANGED <<host, rollouts, controller>>, NEW m, Ready(m)
  PROVE  Ready(m)'
  BY DEF Ready

LEMMA JoinedStays ==
  ASSUME Joined, UNCHANGED <<controller, models>>
  PROVE  Joined'
  BY DEF Joined

LEMMA CarefulInit == Init => CarefulInv
<1> SUFFICES ASSUME Init PROVE CarefulInv
  OBVIOUS
<1>1. R!RolloutInit
  BY SameInit DEF Init
<1>2. S!ServiceInv
  <2>1. S!CallInit
    BY <1>1 DEF R!RolloutInit, R!CallInit, S!CallInit
  <2>2. S!ServiceInit
    BY <2>1, SameAgents, SameServiceScripts DEF Init, S!ServiceInit
  <2> QED
    BY <2>2, ServiceStart
<1>3. step = 0 /\ servicePc = "idle"
  BY DEF Init
<1>4. BeforeInv
  <2>1. Untouched /\ rollouts = 0 /\ rolloutExit = "none"
    BY <1>1 DEF R!RolloutInit, Untouched, NoScripts, R!NoScript
  <2>2. runs = 0 /\ controller = 0 /\ ~busy
    BY DEF Init, Schema!Init
  <2> QED
    BY ONLY <1>3, <2>1, <2>2 DEF BeforeInv
<1>5. BinaryInv
  <2> SUFFICES ASSUME NEW m \in AllMachines
               PROVE  binary[LastAgent(m)] = "2.0-beta7" /\ LastAgent(m) \in running[m]
    BY <1>3 DEF BinaryInv
  <2>1. m \in Machines
    BY ListsType
  <2>2. LastAgent(m) \in AgentSet(m) /\ LastAgent(m) \in Agents
    BY <2>1, AgentsOf
  <2> QED
    BY <2>1, <2>2 DEF Init
<1>6. DuringInv /\ AfterInv
  BY ONLY <1>3 DEF DuringInv, AfterInv
<1> QED
  BY <1>2, <1>3, <1>4, <1>5, <1>6 DEF CarefulInv

\* stop is given first, and until every machine has answered cleanly.
LEMMA StopCareful ==
  ASSUME ProcessInv, operator.careful, GiveService("stop")
  PROVE  CarefulInv'
<1>1. /\ step' = 1 /\ step \in {0, 1} /\ Idle /\ UNCHANGED operator
      /\ UNCHANGED <<schemaVars, machineVars, binary>>
      /\ S!ServiceInv /\ BeforeInv /\ BinaryInv
  BY CarefulGives DEF GiveService, ProcessInv, CarefulInv
<1>2. S!ServiceInv'
  BY <1>1, ServiceStep DEF Service!Actions
<1>3. action' = "stop" /\ UNCHANGED running /\ (Serving' => Called' = AllMachines)
  <2>1. CASE Service!Refuse("stop")
    BY <2>1 DEF Service!Refuse, Service!Begin, Serving
  <2>2. CASE Service!Start("stop")
    <3>1. Service!Spawn(AllMachines)
      BY <2>2, ListsService DEF Service!Start, Service!Targets
    <3>2. Called' = AllMachines
      BY <3>1, ListsType DEF Service!Spawn, Called
    <3> QED
      BY <2>2, <3>2 DEF Service!Start, Service!Begin
  <2> QED
    BY <2>1, <2>2 DEF GiveService
<1>4. BeforeInv'
  <2>1. runs = 0 /\ controller = 0 /\ ~busy /\ Untouched /\ rollouts = 0 /\ rolloutExit = "none"
    BY <1>1 DEF BeforeInv
  <2>2. Untouched'
    BY <1>1, <2>1, UntouchedStays
  <2> QED
    BY <1>1, <1>3, <2>1, <2>2 DEF BeforeInv, schemaVars, machineVars
<1>5. BinaryInv'
  BY <1>1, <1>3, BinaryStays DEF machineVars
<1>6. DuringInv' /\ AfterInv'
  BY <1>1 DEF DuringInv, AfterInv
<1> QED
  BY <1>1, <1>2, <1>4, <1>5, <1>6 DEF CarefulInv

\* Every machine has answered cleanly: the last agents are stopped.
LEMMA UpgradeDBCareful1 ==
  ASSUME ProcessInv, operator.careful, GiveUpgradeDB
  PROVE  CarefulInv'
<1>1. /\ step' = 2 /\ Idle /\ UNCHANGED operator
      /\ step = 2 \/ (step = 1 /\ serviceExit = "ok" /\ AllClean)
      /\ UNCHANGED <<callVars, machineVars, agentVars, binary>>
      /\ BeforeInv /\ DuringInv /\ BinaryInv /\ (step = 1 => S!ServiceInv)
  BY CarefulGives DEF GiveUpgradeDB, ProcessInv, CarefulInv
<1>2. AgentsRest
  <2>1. CASE step = 2
    BY <1>1, <2>1 DEF DuringInv
  <2>2. CASE step = 1
    <3>1. action = "stop" /\ Called = AllMachines /\ servicePc = "idle" /\ serviceExit = "ok" /\ AllClean
      BY <1>1, <2>2 DEF BeforeInv, Serving, Idle
    <3>2. S!ServiceInv /\ S!CleanSpeaksOfLastAgent
      BY <1>1, <2>2, ServiceSpeaks
    <3>3. Stopped
      BY <3>1, <3>2, SameCallInv DEF S!CleanSpeaksOfLastAgent, Stopped, LastAgent, AllClean
    <3>4. /\ running \in [Machines -> SUBSET Agents]
          /\ \A m \in Machines : running[m] \subseteq AgentSet(m)
          /\ DOMAIN serviceScript = S!Sessions
          /\ services \in 0..MaxServices
      BY <3>2, SameAgents DEF S!ServiceInv, S!TypeOK
    <3>5. \A s \in S!Sessions : serviceScript[s] = S!NoScript
      BY <3>1, <3>2 DEF S!ServiceInv, S!SessionInv, S!Attached
    <3> QED
      BY ONLY <3>1, <3>3, <3>4, <3>5 DEF AgentsRest
  <2> QED
    BY <1>1, <2>1, <2>2
<1>3. AgentsRest'
  BY <1>1, <1>2, AgentsRestStays
<1>4. BinaryInv'
  <2> SUFFICES ASSUME NEW m \in AllMachines
               PROVE  /\ binary'[LastAgent(m)] = "none" <=> LastAgent(m) \notin running'[m]
                      /\ binary'[LastAgent(m)] = "none"
    BY DEF BinaryInv
  <2>1. LastAgent(m) \notin running[m] /\ UNCHANGED <<binary, running>>
    BY <1>1, <1>2 DEF AgentsRest, Stopped, agentVars
  <2> QED
    BY <1>1, <2>1 DEF BinaryInv
<1>5. BeforeInv'
  <2>1. Untouched /\ rollouts = 0 /\ rolloutExit = "none"
    BY <1>1 DEF BeforeInv
  <2>2. Untouched'
    BY <1>1, <2>1, UntouchedStays
  <2> QED
    BY <1>1, <2>1, <2>2 DEF BeforeInv, machineVars
<1>6. DuringInv' /\ AfterInv'
  BY <1>1, <1>3 DEF DuringInv, AfterInv
<1> QED
  BY <1>1, <1>3, <1>4, <1>5, <1>6 DEF CarefulInv

\* While the database is upgraded nothing else happens.
LEMMA UpgradeDBCareful2 ==
  ASSUME ProcessInv, operator.careful, UpgradeDB
  PROVE  CarefulInv'
<1>1. /\ UNCHANGED <<callVars, machineVars, agentVars, binary, step, operator>>
      /\ step \in 0..5 /\ busy
      /\ BeforeInv /\ DuringInv /\ BinaryInv
  BY DEF UpgradeDB, ProcessInv, CarefulInv
<1>2. step = 2
  BY <1>1 DEF BeforeInv, DuringInv
<1>3. AgentsRest' /\ BinaryInv'
  BY <1>1, <1>2, AgentsRestStays, BinaryStays DEF DuringInv, AgentsRest, agentVars
<1>4. BeforeInv'
  <2>1. Untouched /\ rollouts = 0 /\ rolloutExit = "none"
    BY <1>1, <1>2 DEF BeforeInv
  <2>2. Untouched'
    BY <1>1, <2>1, UntouchedStays
  <2> QED
    BY <1>1, <1>2, <2>1, <2>2 DEF BeforeInv, machineVars
<1>5. DuringInv' /\ AfterInv'
  BY <1>1, <1>2, <1>3 DEF DuringInv, AfterInv
<1> QED
  BY <1>1, <1>2, <1>3, <1>4, <1>5 DEF CarefulInv

\* The machines are as they were found until upgrade-agents is given.
LEMMA FirstRollout ==
  ASSUME AnyoneInv, servicePc = "idle", Untouched, rollouts = 0, rolloutExit = "none", Joined
  PROVE  R!AttachedInv
<1>1. R!RolloutInv
  BY RolloutView DEF AnyoneInv, TurnsInv, Untouched
<1>2. \A s \in R!Sessions : script[s].at = "none"
  BY DEF Untouched, NoScripts
<1>3. ASSUME NEW m \in Machines
      PROVE  R!BackupOf(m) /\ host[m].dir = "none"
  <2>1. host[m] = R!FoundHost(m)
    BY DEF Untouched
  <2>2. R!FoundHost(m).conf = [x \in R!AgentSet(m) |-> FoundConf[x]] /\ R!FoundHost(m).dir = "none"
    BY ONLY DEF R!FoundHost
  <2> QED
    BY <2>1, <2>2 DEF R!BackupOf
<1>4. R!ControllerUUID # ""
  BY UUIDRead DEF AnyoneInv, UUIDSays
<1>5. rolloutPc = "idle"
  BY DEF Untouched
<1> QED
  BY <1>1, <1>2, <1>3, <1>4, <1>5 DEF R!AttachedInv

LEMMA GiveUpgradeAgentsCareful ==
  ASSUME ProcessInv, operator.careful, GiveUpgradeAgents
  PROVE  CarefulInv'
<1>1. /\ step' = 3 /\ Idle /\ UNCHANGED operator
      /\ step = 3 \/ (step = 2 /\ outcome = "upgraded")
      /\ UNCHANGED <<schemaVars, agentVars, binary>>
      /\ AnyoneInv /\ BeforeInv /\ DuringInv /\ BinaryInv
  BY CarefulGives DEF GiveUpgradeAgents, ProcessInv, CarefulInv
<1>2. AgentsRest' /\ BinaryInv'
  <2>1. AgentsRest
    BY <1>1 DEF DuringInv
  <2> QED
    BY <1>1, <2>1, AgentsRestStays, BinaryStays DEF AgentsRest, agentVars
<1>3. Joined /\ ~busy
  <2>1. CASE step = 3
    BY <1>1, <2>1 DEF DuringInv
  <2>2. CASE step = 2
    <3>1. outcome = "upgraded" => controller # 0 /\ \A id \in Models : models[id] = controller
      BY <1>1 DEF AnyoneInv, SchemaInv
    <3> QED
      BY <1>1, <2>2, <3>1 DEF Joined, Idle
  <2> QED
    BY <1>1, <2>1, <2>2
<1>4. Joined' /\ ~busy'
  BY <1>1, <1>3, JoinedStays DEF schemaVars
<1>5. R!AttachedInv
  <2>1. CASE step = 3
    BY <1>1, <2>1 DEF DuringInv
  <2>2. CASE step = 2
    BY <1>1, <1>3, <2>2, FirstRollout DEF BeforeInv, Idle
  <2> QED
    BY <1>1, <2>1, <2>2
<1>6. R!AttachedInv'
  BY <1>5, RolloutStep, RolloutAttached
<1>7. rolloutLive' = TRUE /\ (rolloutExit' \in {"running", "ok"} => Called' = AllMachines)
  <2>1. CASE Rollout!Refuse(TRUE)
    BY <2>1 DEF Rollout!Refuse, Rollout!Begin
  <2>2. CASE Rollout!Start(TRUE, {})
    <3>1. Rollout!Spawn(AllMachines) /\ rolloutLive' = TRUE
      BY <2>2, ListsRollout, ListsType DEF Rollout!Start, Rollout!Begin
    <3> QED
      BY <3>1, ListsType DEF Rollout!Spawn, Called
  <2> QED
    BY <2>1, <2>2 DEF GiveUpgradeAgents
<1>8. DuringInv'
  BY <1>1, <1>2, <1>4, <1>6, <1>7 DEF DuringInv
<1>9. BeforeInv' /\ AfterInv'
  BY <1>1 DEF BeforeInv, AfterInv
<1> QED
  BY <1>1, <1>2, <1>8, <1>9 DEF CarefulInv

LEMMA UpgradeAgentsCareful ==
  ASSUME ProcessInv, operator.careful, UpgradeAgents
  PROVE  CarefulInv'
<1>1. /\ UNCHANGED <<schemaVars, agentVars, binary, step, operator>>
      /\ step \in 0..5 /\ rolloutPc = "waiting"
      /\ BeforeInv /\ DuringInv /\ AfterInv /\ BinaryInv
  BY DEF UpgradeAgents, ProcessInv, CarefulInv
<1>2. step = 3
  BY <1>1 DEF BeforeInv, Untouched, AfterInv
<1>3. AgentsRest' /\ BinaryInv'
  <2>1. AgentsRest
    BY <1>1, <1>2 DEF DuringInv
  <2> QED
    BY <1>1, <2>1, AgentsRestStays, BinaryStays DEF AgentsRest, agentVars
<1>4. Joined' /\ ~busy'
  BY <1>1, <1>2, JoinedStays DEF DuringInv, schemaVars
<1>5. /\ R!AttachedInv /\ rolloutExit = "running" /\ rolloutLive /\ Called = AllMachines
  BY <1>1, <1>2 DEF DuringInv, R!AttachedInv
<1>6. R!AttachedInv'
  BY <1>5, RolloutStep, RolloutAttached
<1>7. rolloutLive' /\ (rolloutExit' \in {"running", "ok"} => Called' = AllMachines)
  <2>1. R!Goes
    BY <1>5, SameRollout, RolloutGoes DEF UpgradeAgents, R!AttachedInv
  <2> QED
    BY <1>5, <2>1 DEF R!Goes, Called
<1>8. DuringInv'
  BY <1>1, <1>2, <1>3, <1>4, <1>6, <1>7 DEF DuringInv
<1>9. BeforeInv' /\ AfterInv'
  BY <1>1, <1>2 DEF BeforeInv, AfterInv
<1> QED
  BY <1>1, <1>2, <1>3, <1>8, <1>9 DEF CarefulInv

\* What a clean rollout leaves on a machine.
LEMMA RolloutReady ==
  ASSUME R!AttachedInv, SchemaInv, Joined, rolloutExit = "ok", rolloutLive,
         Called = AllMachines, AllClean, NEW m \in AllMachines
  PROVE  Ready(m)
<1> DEFINE a == LastAgent(m)
<1>1. m \in Machines /\ m \in Called
  BY ListsType
<1>2. a \in R!AgentSet(m)
  BY <1>1, AgentsOf, SameAgents
<1>3. /\ R!Switched(m)
      /\ host[m].dir \in IF rollouts = 1 THEN {"linked"} ELSE {"made", "unpacked", "linked"}
  <2>1. R!OutcomesOf(m) = {"clean"} /\ m \in R!Called
    BY <1>1, SameCallInv DEF AllClean
  <2> QED
    BY <2>1, RolloutClean DEF R!CleanMeansSwitched
<1>4. host[m].link[a] = "2.0" /\ (FoundConf[a].format = "1.18" => host[m].conf[a].format = "2.0")
  BY <1>2, <1>3 DEF R!Switched
<1>5. host[m].conf[a] \in {FoundConf[a], R!Sed(FoundConf[a], R!ControllerUUID)}
  BY <1>1, <1>2 DEF R!AttachedInv, R!RolloutInv, R!HostsInv, R!HostInv, R!Versions
<1>6. R!ControllerUUID = UUID(controller)
  BY UUIDRead DEF UUIDSays
<1>7. rollouts > 1 \/ rollouts = 1
  <2>1. rollouts \in 0..MaxRollouts /\ (rollouts = 0 => host[m].dir = "none")
    BY <1>1 DEF R!AttachedInv, R!RolloutInv
  <2> QED
    BY <1>3, <2>1, Bounds
<1>8. /\ host[m].dir \in {"made", "unpacked", "linked"}
      /\ host[m].dir # "linked" => rollouts > 1
  BY <1>3, <1>7
<1> QED
  BY <1>4, <1>5, <1>6, <1>8 DEF Ready

\* What the agents commands find when upgrade-agents has ended.
LEMMA ServiceAgain ==
  ASSUME AnyoneInv, AgentsRest, rolloutPc = "idle", Called = AllMachines
  PROVE  S!ServiceInv
<1>1. CallInv /\ AllDone /\ action = "stop" /\ servicePc = "idle"
  BY DEF AnyoneInv, TurnsInv, AgentsRest
<1>2. S!CallInv /\ S!CallTypeOK /\ S!AllDone
  BY <1>1, SameCallInv, CallsS DEF S!CallInv
<1>3. S!TypeOK
  <2>1. \A s \in S!Sessions : serviceScript[s] \in S!Scripts(s[2])
    BY NoServiceScript DEF AgentsRest
  <2> QED
    BY <1>1, <1>2, <2>1, SameAgents DEF AgentsRest, S!TypeOK, S!Actions, S!Scripts
<1>4. S!Sent
  BY <1>1 DEF S!Sent
<1>5. ASSUME NEW m \in Machines
      PROVE  S!Heard(m, "clean") => S!AsWanted(m)
  <2>1. Heard(m, "clean") => m \in Called
    BY <1>1 DEF Heard, Called, CallInv, Recorded
  <2>2. m \in AllMachines => S!AsWanted(m)
    BY <1>1 DEF AgentsRest, Stopped, S!AsWanted, S!LastAgent, LastAgent
  <2> QED
    BY <2>1, <2>2, SameCallInv
<1>6. ASSUME NEW s \in S!Sessions
      PROVE  S!SessionInv(s) /\ S!ScriptInv(s)
  BY <1>1 DEF AgentsRest, S!SessionInv, S!ScriptInv, S!Attached
<1> QED
  BY <1>1, <1>2, <1>3, <1>4, <1>5, <1>6 DEF S!ServiceInv, S!CleanTrue

LEMMA StartControllerCareful ==
  ASSUME ProcessInv, operator.careful, GiveService("start-controller")
  PROVE  CarefulInv'
<1>1. /\ step' = 4 /\ Idle /\ UNCHANGED operator
      /\ step = 4 \/ (step = 3 /\ rolloutExit = "ok" /\ AllClean)
      /\ UNCHANGED <<schemaVars, machineVars, binary>>
      /\ AnyoneInv /\ DuringInv /\ AfterInv /\ BinaryInv /\ (step = 4 => S!ServiceInv)
  BY CarefulGives DEF GiveService, ProcessInv, CarefulInv
<1>2. S!ServiceInv /\ \A m \in AllMachines : Ready(m)
  <2>1. CASE step = 4
    BY <1>1, <2>1 DEF AfterInv
  <2>2. CASE step = 3
    <3>1. /\ rolloutExit = "ok" /\ AllClean
          /\ rolloutPc = "idle"
          /\ SchemaInv
      <4>1. AnyoneInv => SchemaInv
        BY DEF AnyoneInv
      <4>2. Idle => rolloutPc = "idle"
        BY DEF Idle
      <4> QED
        BY ONLY <1>1, <2>2, <4>1, <4>2
    <3>2. AgentsRest /\ Joined /\ R!AttachedInv /\ rolloutLive /\ Called = AllMachines
      BY <1>1, <2>2, <3>1 DEF DuringInv
    <3> QED
      BY <1>1, <3>1, <3>2, RolloutReady, ServiceAgain
  <2> QED
    BY <1>1, <2>1, <2>2
<1>3. S!ServiceInv'
  BY <1>2, ServiceStep DEF Service!Actions
<1>4. /\ action' = "start-controller" /\ UNCHANGED running
      /\ Serving' => \E m \in ServerMachines : Called' = {m}
  <2>1. CASE Service!Refuse("start-controller")
    BY <2>1 DEF Service!Refuse, Service!Begin, Serving
  <2>2. CASE Service!Start("start-controller")
    <3>1. PICK m \in ServerMachines : Service!Spawn({m})
      BY <2>2, ListsService DEF Service!Start, Service!Targets
    <3>2. Called' = {m}
      BY <3>1, ListsType DEF Service!Spawn, Called
    <3> QED
      BY <2>2, <3>2 DEF Service!Start, Service!Begin
  <2> QED
    BY <2>1, <2>2 DEF GiveService
<1>5. BinaryInv'
  BY <1>1, <1>4, BinaryStays DEF machineVars
<1>6. Joined' /\ ~busy'
  BY <1>1, JoinedStays DEF DuringInv, Idle, schemaVars
<1>7. \A m \in AllMachines : Ready(m)'
  BY <1>1, <1>2, ReadyStays DEF schemaVars, machineVars
<1>8. BeforeInv' /\ DuringInv'
  BY <1>1, <1>6 DEF BeforeInv, DuringInv
<1>9. AfterInv'
  BY <1>1, <1>4, <1>7 DEF AfterInv, Idle, machineVars
<1> QED
  BY <1>1, <1>3, <1>5, <1>8, <1>9 DEF CarefulInv

LEMMA StartOthersCareful ==
  ASSUME ProcessInv, operator.careful, GiveService("start-others")
  PROVE  CarefulInv'
<1>1. /\ step' = 5 /\ Idle /\ UNCHANGED operator
      /\ step = 5 \/ (step = 4 /\ serviceExit = "ok" /\ AllClean)
      /\ UNCHANGED <<schemaVars, machineVars, binary>>
      /\ DuringInv /\ AfterInv /\ BinaryInv /\ S!ServiceInv
  BY CarefulGives DEF GiveService, ProcessInv, CarefulInv
<1>2. \A m \in ServerMachines : LastAgent(m) \in running[m]
  <2>1. CASE step = 5
    BY <1>1, <2>1 DEF AfterInv
  <2>2. CASE step = 4
    <3>1. S!CleanSpeaksOfLastAgent
      BY <1>1, ServiceSpeaks
    <3>2. action = "start-controller" /\ servicePc = "idle" /\ serviceExit = "ok"
      BY <1>1, <2>2 DEF AfterInv, Idle
    <3>3. PICK n \in ServerMachines : Called = {n}
      BY <1>1, <2>2, <3>2 DEF AfterInv, Serving
    <3>4. LastAgent(n) \in running[n]
      BY <1>1, <2>2, <3>1, <3>2, <3>3, SameCallInv
      DEF S!CleanSpeaksOfLastAgent, AllClean, LastAgent
    <3> QED
      BY <3>4, ListsType
  <2> QED
    BY <1>1, <2>1, <2>2
<1>3. S!ServiceInv'
  BY <1>1, ServiceStep DEF Service!Actions
<1>4. /\ action' = "start-others" /\ UNCHANGED running
      /\ Serving' => Called' = OtherMachines
  <2>1. CASE Service!Refuse("start-others")
    BY <2>1 DEF Service!Refuse, Service!Begin, Serving
  <2>2. CASE Service!Start("start-others")
    <3>1. Service!Spawn(OtherMachines)
      BY <2>2, ListsService DEF Service!Start, Service!Targets
    <3>2. Called' = OtherMachines
      BY <3>1, ListsType DEF Service!Spawn, Called
    <3> QED
      BY <2>2, <3>2 DEF Service!Start, Service!Begin
  <2> QED
    BY <2>1, <2>2 DEF GiveService
<1>5. BinaryInv'
  BY <1>1, <1>4, BinaryStays DEF machineVars
<1>6. Joined' /\ ~busy'
  BY <1>1, JoinedStays DEF DuringInv, Idle, schemaVars
<1>7. \A m \in AllMachines : Ready(m)'
  BY <1>1, ReadyStays DEF AfterInv, schemaVars, machineVars
<1>8. BeforeInv' /\ DuringInv'
  BY <1>1, <1>6 DEF BeforeInv, DuringInv
<1>9. AfterInv'
  BY <1>1, <1>2, <1>4, <1>7 DEF AfterInv, Idle, machineVars
<1> QED
  BY <1>1, <1>3, <1>5, <1>8, <1>9 DEF CarefulInv

\* An agent is started with the binary its symlink leads to.
LEMMA AgentsCommandCareful ==
  ASSUME ProcessInv, operator.careful, AgentsCommand
  PROVE  CarefulInv'
<1>1. /\ UNCHANGED <<schemaVars, machineVars, step, operator>> /\ Started
      /\ servicePc = "waiting" /\ step \in 0..5 /\ AnyoneInv
      /\ BeforeInv /\ DuringInv /\ AfterInv /\ BinaryInv
      /\ step \in {0, 1, 4, 5} => S!ServiceInv
  BY DEF AgentsCommand, ProcessInv, CarefulInv
<1>2. step \in {1, 4, 5}
  BY <1>1 DEF BeforeInv, DuringInv, AgentsRest
<1>3. S!ServiceInv /\ S!ServiceInv'
  BY <1>1, <1>2, ServiceStep
<1>4. /\ UNCHANGED action
      /\ action = "stop" => \A m \in Machines : running'[m] \subseteq running[m]
      /\ action \in {"start-controller", "start-others"} =>
           \A m \in Machines : running[m] \subseteq running'[m]
      /\ Serving' => Serving /\ Called' = Called
  <2>1. S!Goes
    BY <1>3, SameService, ServiceGoes DEF AgentsCommand
  <2> QED
    BY <2>1 DEF S!Goes, Serving, Called
<1>5. BinaryInv'
  <2> SUFFICES ASSUME NEW m \in AllMachines
               PROVE  /\ binary'[LastAgent(m)] = "none" <=> LastAgent(m) \notin running'[m]
                      /\ step >= 2 => binary'[LastAgent(m)] \in {"none", "2.0", "unfinished"}
                      /\ step >= 2 /\ binary'[LastAgent(m)] = "unfinished" =>
                           host[m].dir = "made"
    BY <1>1 DEF BinaryInv, machineVars
  <2> DEFINE a == LastAgent(m)
  <2>1. m \in Machines /\ a \in AgentSet(m) /\ a \in Agents
    BY ListsType, AgentsOf
  <2>2. (CHOOSE n \in Machines : a \in AgentSet(n)) = m
    BY <2>1, AgentsOf
  <2>3. binary'[a] = IF a \notin running'[m] THEN "none"
                     ELSE IF a \in running[m] THEN binary[a] ELSE Jujud(m, a)
    BY <1>1, <2>1, <2>2 DEF Started
  <2>4. binary[a] = "none" <=> a \notin running[m]
    BY <1>1 DEF BinaryInv
  <2>5. /\ step >= 2 => binary[a] \in {"none", "2.0", "unfinished"}
        /\ step >= 2 /\ binary[a] = "unfinished" => host[m].dir = "made"
    BY <1>1 DEF BinaryInv
  <2>6. step = 1 => (a \in running'[m] => a \in running[m])
    BY <1>1, <1>4, <2>1 DEF BeforeInv
  <2>7. step >= 4 => /\ Jujud(m, a) \in {"2.0", "unfinished"}
                     /\ Jujud(m, a) = "unfinished" => host[m].dir = "made"
    BY <1>1 DEF AfterInv, Ready, Jujud
  <2>8. CASE step = 1
    BY <2>3, <2>4, <2>6, <2>8
  <2>9. CASE step \in {4, 5}
    BY <2>3, <2>4, <2>5, <2>7, <2>9
  <2> QED
    BY <1>2, <2>8, <2>9
<1>6. BeforeInv'
  <2>1. step = 1 => runs = 0 /\ controller = 0 /\ ~busy /\ Untouched /\ rollouts = 0
                    /\ rolloutExit = "none" /\ action = "stop" /\ (Serving => Called = AllMachines)
    BY <1>1 DEF BeforeInv
  <2>2. step = 1 => Untouched'
    BY <1>1, <2>1, UntouchedStays
  <2> QED
    BY <1>1, <1>2, <1>4, <2>1, <2>2 DEF BeforeInv, schemaVars, machineVars
<1>7. DuringInv'
  <2>1. step >= 3 => Joined' /\ ~busy'
    BY <1>1, JoinedStays DEF DuringInv, schemaVars
  <2> QED
    BY <1>1, <1>2, <2>1 DEF DuringInv
<1>8. AfterInv'
  <2>1. step >= 4 => rolloutPc' = "idle" /\ \A m \in AllMachines : Ready(m)'
    BY <1>1, ReadyStays DEF AfterInv, schemaVars, machineVars
  <2>2. step = 5 => \A m \in ServerMachines : LastAgent(m) \in running'[m]
    BY <1>1, <1>4, ListsType DEF AfterInv
  <2> QED
    BY <1>1, <1>2, <1>4, <2>1, <2>2 DEF AfterInv
<1> QED
  BY <1>1, <1>2, <1>3, <1>5, <1>6, <1>7, <1>8 DEF CarefulInv

LEMMA StutterCareful ==
  ASSUME ProcessInv, operator.careful, UNCHANGED vars
  PROVE  CarefulInv'
<1>1. /\ UNCHANGED <<schemaVars, callVars, machineVars, agentVars, binary, step, operator>>
      /\ CarefulInv
  BY DEF vars, ProcessInv
<1>2. /\ Untouched => Untouched'
      /\ AgentsRest => AgentsRest'
      /\ Joined => Joined'
      /\ BinaryInv => BinaryInv'
      /\ \A m : Ready(m) => Ready(m)'
      /\ R!AttachedInv => R!AttachedInv'
      /\ S!ServiceInv => S!ServiceInv'
  BY <1>1, UntouchedStays, AgentsRestStays, JoinedStays, BinaryStays, ReadyStays, AttachedRests,
     ServiceRests DEF schemaVars, machineVars, agentVars
<1>3. Called' = Called /\ Serving' = Serving
  BY <1>1 DEF callVars, agentVars, Called, Serving
<1>4. BeforeInv => BeforeInv'
  BY <1>1, <1>2, <1>3 DEF BeforeInv, schemaVars, machineVars, agentVars
<1>5. DuringInv => DuringInv'
  BY <1>1, <1>2, <1>3 DEF DuringInv, schemaVars, machineVars, agentVars
<1>6. AfterInv => AfterInv'
  BY <1>1, <1>2, <1>3 DEF AfterInv, schemaVars, machineVars, agentVars
<1> QED
  BY <1>1, <1>2, <1>4, <1>5, <1>6 DEF CarefulInv

LEMMA ProcessNext == ProcessInv /\ [Next]_vars => ProcessInv'
<1> SUFFICES ASSUME ProcessInv, [Next]_vars PROVE ProcessInv'
  OBVIOUS
<1>1. AnyoneInv'
  BY AnyoneNext DEF ProcessInv
<1>2. CASE ~operator.careful
  <2>1. UNCHANGED operator
    BY DEF Next, GiveUpgradeDB, GiveUpgradeAgents, GiveService, Give, UpgradeDB, UpgradeAgents,
           AgentsCommand, Finished, vars
  <2> QED
    BY <1>1, <1>2, <2>1 DEF ProcessInv, CarefulInv
<1>3. CASE operator.careful
  <2>1. ~GiveService("status")
    BY <1>3, CarefulGives DEF GiveService, ProcessInv, CarefulInv
  <2>2. CarefulInv'
    BY <1>3, <2>1, StopCareful, UpgradeDBCareful1, UpgradeDBCareful2, GiveUpgradeAgentsCareful,
       UpgradeAgentsCareful, StartControllerCareful, StartOthersCareful, AgentsCommandCareful,
       StutterCareful
    DEF Next, Finished, Service!Actions
  <2> QED
    BY <1>1, <2>2 DEF ProcessInv
<1> QED
  BY <1>2, <1>3

LEMMA ProcessInvariant == Spec => []ProcessInv
  BY AnyoneInit, CarefulInit, ProcessNext, PTL DEF Spec, ProcessInv

\* An operator who keeps to README.md and goes on only when every machine has
\* answered cleanly never has the last agent of a machine running beta 7 once
\* the database has been changed (README.md:9-28, service.go:71-77).
THEOREM QuietUpgradeKept == Spec => []QuietUpgrade
<1>1. ProcessInv => QuietUpgrade
  <2> SUFFICES ASSUME ProcessInv, operator.careful, controller # 0, NEW m \in AllMachines
               PROVE  binary[LastAgent(m)] # "2.0-beta7"
    BY DEF QuietUpgrade
  <2>1. step \in 0..5 /\ BeforeInv /\ BinaryInv
    BY DEF ProcessInv, CarefulInv
  <2>2. step >= 2
    BY <2>1 DEF BeforeInv
  <2> QED
    BY <2>1, <2>2 DEF BinaryInv
<1> QED
  BY <1>1, ProcessInvariant, PTL

\* Such an operator ends with every model in the controller, and with the last
\* agent of every machine started from the tools of 2.0 with an agent.conf that
\* names it. If upgrade-agents was given once, the tools are complete and it
\* runs 2.0; if it was given again, it does so unless an earlier script had
\* stopped before its tarball was unpacked (README.md:9-28,
\* upgradeagents.go:156-217).
THEOREM CarefulUpgradeKept == Spec => []CarefulUpgrade
<1>1. ProcessInv => CarefulUpgrade
  <2> SUFFICES ASSUME ProcessInv, operator.careful, step = Len(README), Idle, Satisfied
               PROVE  /\ \A id \in Models : models[id] = controller
                      /\ \A m \in AllMachines :
                           /\ binary[LastAgent(m)] = "2.0" \/ (rollouts > 1 /\ host[m].dir = "made")
                           /\ rollouts = 1 => host[m].dir = "linked"
                           /\ FoundConf[LastAgent(m)].format = "1.18" =>
                                host[m].conf[LastAgent(m)] =
                                  Rollout!Sed(FoundConf[LastAgent(m)], UUID(controller))
    BY DEF CarefulUpgrade
  <2>1. step = 5 /\ serviceExit = "ok" /\ AllClean
    <3>1. step = 5 /\ README[5] = "start-others"
      BY DEF README
    <3> QED
      BY <3>1 DEF Satisfied
  <2>2. DuringInv /\ AfterInv /\ BinaryInv /\ S!ServiceInv
    BY <2>1 DEF ProcessInv, CarefulInv
  <2>3. \A id \in Models : models[id] = controller
    BY <2>1, <2>2 DEF DuringInv, Joined
  <2>4. ASSUME NEW m \in AllMachines
        PROVE  LastAgent(m) \in running[m]
    <3>1. CASE m \in ServerMachines
      BY <2>1, <2>2, <3>1 DEF AfterInv
    <3>2. CASE m \in OtherMachines
      <4>1. S!CleanSpeaksOfLastAgent
        BY <2>2, ServiceSpeaks
      <4>2. m \in Called /\ action = "start-others" /\ servicePc = "idle"
        BY <2>1, <2>2, <3>2 DEF AfterInv, Serving, Idle
      <4> QED
        BY <2>1, <4>1, <4>2, SameCallInv DEF S!CleanSpeaksOfLastAgent, AllClean, LastAgent
    <3> QED
      BY <3>1, <3>2, ListsType
  <2>5. ASSUME NEW m \in AllMachines
        PROVE  /\ binary[LastAgent(m)] = "2.0" \/ (rollouts > 1 /\ host[m].dir = "made")
               /\ rollouts = 1 => host[m].dir = "linked"
    <3>1. Ready(m)
      BY <2>1, <2>2 DEF AfterInv
    <3>2. binary[LastAgent(m)] # "2.0" => host[m].dir = "made"
      BY <2>1, <2>2, <2>4 DEF BinaryInv
    <3> QED
      BY <3>1, <3>2 DEF Ready
  <2> QED
    BY <2>1, <2>2, <2>3, <2>5, SameSets DEF AfterInv, Ready
<1> QED
  BY <1>1, ProcessInvariant, PTL
=============================================================================
