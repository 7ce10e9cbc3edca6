------------------------- MODULE AgentService_proofs -------------------------
(***************************************************************************)
(* What the agents commands guarantee, for any machines, agents and number *)
(* of commands.                                                            *)
(***************************************************************************)
EXTENDS AgentService, ParallelCall_proofs, SequenceTheorems

LastAgent(m) == AgentsOn[m][Len(AgentsOn[m])]

\* The last agent of m is as the command wants it.
AsWanted(m) ==
  /\ action = "stop" => LastAgent(m) \notin running[m]
  /\ action \in {"start-controller", "start-others"} => LastAgent(m) \in running[m]

\* A script is that of the command whose goroutine waits for it, or it has been
\* left behind where scripts outlive their connection.
SessionInv(s) ==
  /\ script[s] # NoScript => /\ s[1] <= given
                             /\ s[2] \in Detaching \/ Attached(s)
  /\ Attached(s) => script[s].action = action
  /\ script[s] # NoScript /\ s[1] = given /\ action = "start-controller" =>
       s[2] \in ServerMachines

\* It still has to come to the last agent, or has just done so and ends with
\* the code of what it did there.
ScriptInv(s) ==
  Attached(s) =>
    /\ script[s].todo # <<>> => script[s].todo[Len(script[s].todo)] = LastAgent(s[2])
    /\ script[s].todo = <<>> /\ script[s].code = "clean" => AsWanted(s[2])

\* The inductive invariant.
Sent ==
  pc = "waiting" => /\ exit = "running"
                    /\ action = "start-controller" => Called \subseteq ServerMachines
                    /\ action = "start-others" => Called = OtherMachines

CleanTrue ==
  exit \in {"running", "ok"} =>
    /\ \A s \in Sessions : s[2] \notin Detaching => ScriptInv(s)
    /\ \A m \in Machines \ Detaching : Heard(m, "clean") => AsWanted(m)

ServiceInv ==
  /\ TypeOK
  /\ \A s \in Sessions : SessionInv(s)
  /\ CallInv
  /\ pc = "idle" => AllDone
  /\ Sent
  /\ CleanTrue

\* The agents of a machine, in any order of the glob, are agents.
LEMMA AgentsType ==
  ASSUME NEW m \in Machines
  PROVE  /\ AgentsOn[m] \in Seq(Agents) /\ AgentsOn[m] # <<>>
         /\ AgentsOn[m] \in Seq(AgentSet(m))
         /\ AgentSet(m) \subseteq Agents
<1>1. AgentsOn[m] \in Seq(Agents) /\ AgentsOn[m] # <<>>
  BY AgentsAssumption
<1>2. AgentsOn[m] \in Seq(AgentSet(m))
  <2> DEFINE s == AgentsOn[m]
             S == AgentSet(m)
  <2>1. s \in Seq(Agents) /\ \A i \in 1..Len(s) : s[i] \in S
    BY <1>1 DEF AgentSet
  <2> HIDE DEF s, S
  <2>2. s \in Seq(S)
    BY <2>1
  <2> QED
    BY <2>2 DEF s, S
<1> QED
  BY <1>1, <1>2 DEF Agents

\* The last element of a sequence is its head or that of its tail.
LEMMA LastOfTail ==
  ASSUME NEW S, NEW s \in Seq(S), s # <<>>
  PROVE  /\ Head(s) \in S /\ Tail(s) \in Seq(S)
         /\ Tail(s) = <<>> => Head(s) = s[Len(s)]
         /\ Tail(s) # <<>> => Tail(s)[Len(Tail(s))] = s[Len(s)]
<1>1. /\ Head(s) = s[1] /\ Head(s) \in S /\ Tail(s) \in Seq(S)
      /\ Len(Tail(s)) = Len(s) - 1 /\ Len(s) \in Nat \ {0}
      /\ \A i \in 1..Len(Tail(s)) : Tail(s)[i] = s[i + 1]
  BY ONLY HeadTailProperties, EmptySeq, s \in Seq(S), s # <<>>
<1>2. Tail(s) = <<>> => Len(s) = 1
  <2>1. Tail(s) = <<>> => Len(Tail(s)) = 0
    BY EmptySeq
  <2> QED
    BY <1>1, <2>1
<1>3. Tail(s) # <<>> => Len(Tail(s)) \in 1..Len(Tail(s)) /\ Len(Tail(s)) + 1 = Len(s)
  BY <1>1, EmptySeq
<1> QED
  BY <1>1, <1>2, <1>3

\* A script as the type invariant has it.
Scripts(m) ==
  [action: Actions \cup {"none"}, todo: Seq(AgentSet(m)), code: {"clean", "code"}]

\* A session is its command and its machine.
LEMMA SessionPair ==
  ASSUME NEW s \in Sessions, NEW t \in Sessions
  PROVE  /\ s[1] \in 1..MaxCommands /\ s[2] \in Machines
         /\ s[1] = t[1] /\ s[2] = t[2] => s = t
  BY DEF Sessions

\* What one session's script becomes leaves those of the others alone.
LEMMA OneScript ==
  ASSUME TypeOK, NEW s \in Sessions, NEW new,
         script' = [script EXCEPT ![s] = new]
  PROVE  /\ script'[s] = new
         /\ \A t \in Sessions : t # s => script'[t] = script[t]
         /\ DOMAIN script' = Sessions
  BY DEF TypeOK

LEMMA NoScriptType ==
  ASSUME NEW m
  PROVE  NoScript \in Scripts(m)
  BY DEF NoScript, Scripts

LEMMA InitInv == ServiceInit => ServiceInv
<1> SUFFICES ASSUME ServiceInit PROVE ServiceInv
  OBVIOUS
<1>1. CallInv /\ AllDone
  BY CallInitInv DEF ServiceInit, CallInit, AllDone
<1>2. TypeOK
  <2>1. running \in [Machines -> SUBSET Agents]
    BY AgentsType DEF ServiceInit
  <2>2. \A s \in Sessions : script[s] \in Scripts(s[2])
    BY NoScriptType DEF ServiceInit
  <2> QED
    BY <1>1, <2>1, <2>2, AgentsAssumption DEF ServiceInit, TypeOK, CallInv, Scripts
<1>3. \A s \in Sessions : SessionInv(s)
  BY DEF ServiceInit, SessionInv, Attached
<1> QED
  BY <1>1, <1>2, <1>3 DEF ServiceInv, ServiceInit, Sent, CleanTrue

LEMMA RefuseInv ==
  ASSUME ServiceInv, NEW act \in Actions, Refuse(act)
  PROVE  ServiceInv'
<1> USE DEF Refuse, Begin
<1>1. CallInv' /\ AllDone'
  BY CallStutters DEF ServiceInv, AllDone, callVars
<1>2. TypeOK'
  BY <1>1, AgentsAssumption DEF ServiceInv, TypeOK, CallInv
<1>3. ASSUME NEW s \in Sessions PROVE SessionInv(s)'
  <2>1. s[1] \in Nat /\ given \in Nat /\ SessionInv(s)
    BY SessionPair DEF ServiceInv, TypeOK
  <2> QED
    BY <2>1 DEF SessionInv, Attached
<1> QED
  BY <1>1, <1>2, <1>3 DEF ServiceInv, Sent, CleanTrue

LEMMA StartInv ==
  ASSUME ServiceInv, NEW act \in Actions, Start(act)
  PROVE  ServiceInv'
<1> USE DEF Begin
<1>1. PICK ms \in Targets(act) :
         /\ Spawn(ms)
         /\ script' = [s \in Sessions |->
              IF s[1] = given + 1 /\ s[2] \in ms
              THEN [action |-> act, todo |-> AgentsOn[s[2]], code |-> "clean"]
              ELSE script[s]]
  BY DEF Start
<1>2. ms \subseteq Machines
  BY DEF Targets, Actions, AllMachines, ServerMachines, OtherMachines
<1>3. lock = {}
  BY NoneBusy DEF Start, ServiceInv
<1>4. CallInv'
  BY <1>1, <1>2, <1>3, SpawnInv DEF ServiceInv
<1>5. TypeOK'
  <2>1. ASSUME NEW s \in Sessions PROVE script'[s] \in Scripts(s[2])
    BY <1>1, AgentsType, SessionPair DEF Scripts, ServiceInv, TypeOK
  <2> QED
    BY <1>1, <1>4, <2>1, AgentsAssumption DEF Start, ServiceInv, TypeOK, CallInv, Scripts
<1>6. Called' = ms
  BY <1>1, <1>2 DEF Spawn, Called
<1>7. Sent'
  BY <1>6 DEF Start, Sent, Targets
<1>8. ASSUME NEW s \in Sessions, Attached(s)'
      PROVE  script'[s].action = act /\ script'[s].todo = AgentsOn[s[2]]
  <2>1. script'[s] = [action |-> act, todo |-> AgentsOn[s[2]], code |-> "clean"]
    BY <1>1, <1>8, SessionPair DEF Start, Attached, Spawn
  <2> QED
    BY <2>1
<1>9. ASSUME NEW s \in Sessions PROVE SessionInv(s)'
  <2>1. /\ s[1] \in Nat /\ given \in Nat /\ given' = given + 1 /\ action' = act
        /\ SessionInv(s)
    BY SessionPair DEF ServiceInv, TypeOK, Start
  <2>2. CASE s[1] = given + 1 /\ s[2] \in ms
    <3>1. Attached(s)'
      BY <1>1, <1>2, <2>1, <2>2 DEF Start, Attached, Spawn
    <3>2. script'[s].action = act
      BY <1>8, <3>1 DEF Attached
    <3>3. act = "start-controller" => s[2] \in ServerMachines
      BY <1>1, <2>2 DEF Targets
    <3> QED
      BY <2>1, <2>2, <3>1, <3>2, <3>3 DEF SessionInv
  <2>3. CASE ~(s[1] = given + 1 /\ s[2] \in ms)
    <3>1. script'[s] = script[s]
      BY <1>1, <2>3
    <3>2. ~Attached(s) /\ ~Attached(s)'
      BY <1>1, <2>1, <2>3, SessionPair DEF Start, Attached, Spawn
    <3> QED
      BY <2>1, <3>1, <3>2 DEF SessionInv
  <2> QED
    BY <2>2, <2>3
<1>10. CleanTrue'
  <2>1. ASSUME NEW s \in Sessions PROVE ScriptInv(s)'
    <3>1. AgentsOn[s[2]] # <<>>
      BY AgentsType, SessionPair
    <3>2. ASSUME Attached(s)' PROVE script'[s].todo = AgentsOn[s[2]]
      BY <1>8, <3>2 DEF Attached
    <3> QED
      BY <3>1, <3>2 DEF ScriptInv, LastAgent
  <2> QED
    BY <1>1, <2>1, SpawnHeard DEF CleanTrue
<1> QED
  BY <1>4, <1>5, <1>7, <1>9, <1>10 DEF Start, ServiceInv

\* The steps of the goroutines leave the machines alone.
LEMMA GoroutineStep ==
  ASSUME ServiceInv, NEW m \in Machines, Goroutine(m),
         UNCHANGED <<running, script, pc, action, given, exit>>
  PROVE  ServiceInv'
<1>1. CallInv' /\ m \in Busy
  BY GoroutineInv DEF ServiceInv
<1>2. pc # "idle"
  BY <1>1, NoneBusy DEF ServiceInv
<1>3. TypeOK'
  BY <1>1 DEF ServiceInv, TypeOK, CallInv
<1>4. \A n \in Machines : /\ calls'[n] = "running" <=> calls[n] = "running"
                          /\ calls'[n] = "none" <=> calls[n] = "none"
                          /\ \A o : Heard(n, o)' => Heard(n, o)
  BY GoroutineHeard DEF ServiceInv
<1>5. Called' = Called
  BY <1>4 DEF Called
<1>6. Sent'
  BY <1>5 DEF ServiceInv, Sent
<1>7. \A s \in Sessions : Attached(s)' <=> Attached(s)
  BY <1>4, SessionPair DEF Attached
<1>8. \A s \in Sessions : SessionInv(s)'
  BY <1>7 DEF ServiceInv, SessionInv
<1>9. CleanTrue'
  <2>1. \A s \in Sessions : ScriptInv(s) => ScriptInv(s)'
    BY <1>7 DEF ScriptInv, AsWanted
  <2>2. \A n \in Machines : AsWanted(n)' = AsWanted(n)
    BY DEF AsWanted
  <2> QED
    BY <1>4, <2>1, <2>2 DEF ServiceInv, CleanTrue
<1> QED
  BY <1>1, <1>2, <1>3, <1>6, <1>8, <1>9 DEF ServiceInv

\* The script of one machine does the next command.
LEMMA ServiceCommandInv ==
  ASSUME ServiceInv, NEW s \in Sessions, ServiceCommand(s),
         UNCHANGED <<pc, action, given, exit>>
  PROVE  /\ ServiceInv'
         /\ \A n \in Machines : n # s[2] => running'[n] = running[n]
<1> DEFINE m == s[2]
           todo == script[s].todo
<1>1. PICK works \in BOOLEAN :
         /\ running' = IF works
                       THEN [running EXCEPT ![m] = After(script[s].action, @, Head(todo))]
                       ELSE running
         /\ script' = [script EXCEPT ![s].todo = Tail(@),
                                     ![s].code = IF works THEN "clean" ELSE "code"]
  BY DEF ServiceCommand
<1>2. /\ running \in [Machines -> SUBSET Agents]
      /\ \A n \in Machines : running[n] \subseteq AgentSet(n)
      /\ m \in Machines /\ AgentSet(m) \subseteq Agents
      /\ script[s] \in Scripts(m) /\ todo # <<>> /\ todo \in Seq(AgentSet(m))
  BY AgentsType, SessionPair DEF ServiceInv, TypeOK, Scripts, ServiceCommand
<1>3. /\ Head(todo) \in AgentSet(m) /\ Tail(todo) \in Seq(AgentSet(m))
      /\ Tail(todo) = <<>> => Head(todo) = todo[Len(todo)]
      /\ Tail(todo) # <<>> => Tail(todo)[Len(Tail(todo))] = todo[Len(todo)]
  <2> HIDE DEF todo, m
  <2> QED
    BY ONLY <1>2, LastOfTail
<1>4. /\ script'[s] = [action |-> script[s].action, todo |-> Tail(todo),
                       code |-> IF works THEN "clean" ELSE "code"]
      /\ \A t \in Sessions : t # s => script'[t] = script[t]
      /\ DOMAIN script' = Sessions
  BY <1>1, <1>2 DEF ServiceInv, TypeOK, Scripts
<1>5. /\ running' \in [Machines -> SUBSET Agents]
      /\ \A n \in Machines : running'[n] \subseteq AgentSet(n)
      /\ \A n \in Machines : n # m => running'[n] = running[n]
      /\ works => running'[m] = After(script[s].action, running[m], Head(todo))
  <2>1. After(script[s].action, running[m], Head(todo)) \subseteq AgentSet(m)
    BY <1>2, <1>3 DEF After
  <2> QED
    BY <1>1, <1>2, <2>1
<1>6. CallInv' /\ UNCHANGED callVars
  BY CallStutters DEF ServiceInv, ServiceCommand
<1>7. TypeOK'
  <2>1. script'[s] \in Scripts(m)
    BY <1>2, <1>3, <1>4 DEF Scripts
  <2>2. ASSUME NEW t \in Sessions PROVE script'[t] \in Scripts(t[2])
    BY <1>4, <2>1 DEF ServiceInv, TypeOK, Scripts
  <2> QED
    BY <1>4, <1>5, <1>6, <2>2 DEF ServiceInv, TypeOK, CallInv, Scripts
<1>8. \A t \in Sessions : Attached(t)' <=> Attached(t)
  BY <1>6 DEF Attached, callVars
<1>9. script[s] # NoScript
  BY <1>2 DEF NoScript
<1>10. ASSUME NEW t \in Sessions PROVE SessionInv(t)'
  <2>1. SessionInv(t)
    BY DEF ServiceInv
  <2>2. script'[t] # NoScript => script[t] # NoScript
    BY <1>4, <1>9
  <2>3. script'[t].action = script[t].action
    BY <1>4
  <2> QED
    BY <1>8, <2>1, <2>2, <2>3 DEF SessionInv
<1>11. Sent'
  BY <1>6 DEF ServiceInv, Sent, Called, callVars
<1>12. CleanTrue'
  <2> SUFFICES ASSUME exit \in {"running", "ok"}
               PROVE  /\ \A t \in Sessions : t[2] \notin Detaching => ScriptInv(t)'
                      /\ \A n \in Machines \ Detaching : Heard(n, "clean")' => AsWanted(n)'
    BY DEF CleanTrue
  <2>1. ASSUME NEW n \in Machines, n # m PROVE AsWanted(n)' <=> AsWanted(n)
    BY <1>5, <2>1 DEF AsWanted
  <2>2. ASSUME m \notin Detaching PROVE Attached(s) /\ ScriptInv(s)
    BY <1>9, <2>2 DEF ServiceInv, SessionInv, CleanTrue
  <2>3. ASSUME NEW t \in Sessions, t[2] \notin Detaching PROVE ScriptInv(t)'
    <3>1. CASE t = s
      <4>1. ASSUME Tail(todo) = <<>>, works PROVE AsWanted(m)'
        <5>1. Head(todo) = LastAgent(m) /\ script[s].action = action
          BY <1>2, <1>3, <2>2, <2>3, <3>1, <4>1 DEF ScriptInv, ServiceInv, SessionInv
        <5>2. running'[m] = After(action, running[m], LastAgent(m))
          BY <1>5, <4>1, <5>1
        <5> QED
          BY <5>2 DEF AsWanted, After, LastAgent
      <4>2. todo[Len(todo)] = LastAgent(m)
        BY <1>2, <2>2, <2>3, <3>1 DEF ScriptInv
      <4>3. /\ script'[s].todo = Tail(todo)
            /\ script'[s].code = "clean" => works
        BY <1>4
      <4>4. Tail(todo) # <<>> => Tail(todo)[Len(Tail(todo))] = LastAgent(m)
        BY <1>3, <4>2
      <4> QED
        BY <3>1, <4>1, <4>3, <4>4 DEF ScriptInv, LastAgent
    <3>2. CASE t # s
      <4>1. script'[t] = script[t] /\ ScriptInv(t) /\ t[2] \in Machines
        BY <1>4, <2>3, <3>2, SessionPair DEF ServiceInv, CleanTrue
      <4>2. ASSUME Attached(t) PROVE t[2] # m
        BY <2>2, <2>3, <3>2, <4>2, SessionPair DEF Attached
      <4> QED
        BY <1>8, <2>1, <4>1, <4>2 DEF ScriptInv, LastAgent
    <3> QED
      BY <3>1, <3>2
  <2>4. ASSUME NEW n \in Machines \ Detaching, Heard(n, "clean")' PROVE AsWanted(n)'
    <3>1. Heard(n, "clean")
      BY <1>6, <2>4 DEF Heard, callVars
    <3>2. n # m
      BY <2>2, <2>4, <3>1 DEF Attached, Heard, ServiceInv, CallInv, Recorded
    <3> QED
      BY <2>1, <3>1, <3>2 DEF ServiceInv, CleanTrue
  <2> QED
    BY <2>3, <2>4
<1> QED
  BY <1>5, <1>6, <1>7, <1>10, <1>11, <1>12 DEF ServiceInv, AllDone, callVars

\* A script that nobody waits for is over, as one of those is that may be left
\* behind.
LEMMA GoneInv ==
  ASSUME ServiceInv, NEW s \in Sessions, ~Attached(s),
         script' = [script EXCEPT ![s] = NoScript],
         UNCHANGED <<callVars, running, pc, action, given, exit>>
  PROVE  ServiceInv'
<1>1. CallInv' /\ UNCHANGED callVars
  BY CallStutters DEF ServiceInv
<1>2. /\ script'[s] = NoScript /\ DOMAIN script' = Sessions
      /\ \A t \in Sessions : t # s => script'[t] = script[t]
  BY OneScript DEF ServiceInv
<1>3. TypeOK'
  <2>1. \A t \in Sessions : script'[t] \in Scripts(t[2])
    BY <1>2, NoScriptType DEF ServiceInv, TypeOK, Scripts
  <2> QED
    BY <1>1, <1>2, <2>1 DEF ServiceInv, TypeOK, CallInv, Scripts
<1>4. \A t \in Sessions : Attached(t)' <=> Attached(t)
  BY <1>1 DEF Attached, callVars
<1>5. \A t \in Sessions : SessionInv(t)'
  BY <1>2, <1>4 DEF ServiceInv, SessionInv
<1>6. CleanTrue'
  <2>1. \A t \in Sessions : ScriptInv(t) => ScriptInv(t)'
    BY <1>2, <1>4 DEF ScriptInv, AsWanted
  <2> QED
    BY <1>1, <2>1 DEF ServiceInv, CleanTrue, AsWanted, Heard, callVars
<1> QED
  BY <1>1, <1>3, <1>5, <1>6 DEF ServiceInv, Sent, Called, AllDone, callVars

\* A machine answers: with the code of its script, or with trouble.
LEMMA AnsweredInvService ==
  ASSUME ServiceInv, NEW s \in Sessions, Attached(s),
         NEW o \in Outcomes, Answered(s[2], o),
         o = "clean" => script[s].todo = <<>> /\ script[s].code = "clean",
         \/ script' = [script EXCEPT ![s] = NoScript]
         \/ s[2] \in Detaching /\ script' = script,
         UNCHANGED <<running, pc, action, given, exit>>
  PROVE  ServiceInv'
<1> DEFINE m == s[2]
<1>1. /\ CallInv' /\ calls[m] = "running" /\ calls \in [Machines -> Phases]
      /\ m \in Machines
  BY AnsweredInv, SessionPair DEF ServiceInv, Answered, CallInv, CallTypeOK
<1>2. pc # "idle"
  BY <1>1, NoneBusy DEF ServiceInv, Busy
<1>3. /\ \A t \in Sessions : t # s => script'[t] = script[t]
      /\ script'[s] \in {NoScript, script[s]} /\ DOMAIN script' = Sessions
      /\ m \notin Detaching => script'[s] = NoScript
  BY OneScript DEF ServiceInv, TypeOK
<1>4. TypeOK'
  <2>1. \A t \in Sessions : script'[t] \in Scripts(t[2])
    BY <1>3, NoScriptType DEF ServiceInv, TypeOK, Scripts
  <2> QED
    BY <1>1, <1>3, <2>1 DEF ServiceInv, TypeOK, CallInv, Scripts
<1>5. \A n \in Machines : calls'[n] = "none" <=> calls[n] = "none"
  BY <1>1 DEF Answered
<1>6. Sent'
  <2>1. Called' = Called
    BY <1>5 DEF Called
  <2> QED
    BY <2>1 DEF ServiceInv, Sent
<1>7. /\ ~Attached(s)'
      /\ \A t \in Sessions : t # s => (Attached(t)' <=> Attached(t))
  BY <1>1, SessionPair DEF Attached, Answered, Phases
<1>8. \A t \in Sessions : SessionInv(t)'
  BY <1>3, <1>7 DEF ServiceInv, SessionInv
<1>9. CleanTrue'
  <2> SUFFICES ASSUME exit \in {"running", "ok"}
               PROVE  /\ \A t \in Sessions : t[2] \notin Detaching => ScriptInv(t)'
                      /\ \A n \in Machines \ Detaching : Heard(n, "clean")' => AsWanted(n)'
    BY DEF CleanTrue
  <2>1. \A n \in Machines : AsWanted(n)' = AsWanted(n)
    BY DEF AsWanted
  <2>2. \A t \in Sessions : t[2] \notin Detaching => ScriptInv(t)'
    BY <1>3, <1>7, <2>1 DEF ServiceInv, CleanTrue, ScriptInv, LastAgent, AsWanted
  <2>3. ASSUME NEW n \in Machines \ Detaching, Heard(n, "clean")' PROVE AsWanted(n)'
    <3>1. Heard(n, "clean") \/ (n = m /\ o = "clean")
      BY <1>1, <2>3, AnsweredHeard DEF ServiceInv
    <3>2. CASE Heard(n, "clean")
      BY <2>1, <3>2 DEF ServiceInv, CleanTrue
    <3>3. CASE n = m /\ o = "clean"
      BY <2>1, <3>3 DEF ServiceInv, CleanTrue, ScriptInv
    <3> QED
      BY <3>1, <3>2, <3>3
  <2> QED
    BY <2>2, <2>3
<1> QED
  BY <1>1, <1>2, <1>4, <1>6, <1>8, <1>9 DEF ServiceInv

LEMMA ScriptEndsInv ==
  ASSUME ServiceInv, NEW s \in Sessions, ScriptEnds(s),
         UNCHANGED <<pc, action, given, exit>>
  PROVE  ServiceInv'
<1>1. script[s].code \in Outcomes
  BY DEF ServiceInv, TypeOK, Outcomes
<1>2. CASE Attached(s)
  BY <1>1, <1>2, AnsweredInvService DEF ScriptEnds
<1>3. CASE ~Attached(s)
  BY <1>3, GoneInv DEF ScriptEnds
<1> QED
  BY <1>2, <1>3

LEMMA LoseConnectionInv ==
  ASSUME ServiceInv, NEW s \in Sessions, LoseConnection(s),
         UNCHANGED <<pc, action, given, exit>>
  PROVE  ServiceInv'
<1>1. PICK o \in {"code", "error"} : Answered(s[2], o)
  BY DEF LoseConnection
<1> QED
  BY <1>1, AnsweredInvService DEF LoseConnection, Outcomes

LEMMA FinishInv ==
  ASSUME ServiceInv, Finish
  PROVE  ServiceInv'
<1> USE DEF Finish
<1>1. CallInv' /\ AllDone' /\ calls' = calls
  BY CallStutters DEF ServiceInv, AllDone, callVars
<1>2. TypeOK'
  BY <1>1 DEF ServiceInv, TypeOK, CallInv
<1>3. \A s \in Sessions : ~Attached(s) /\ ~Attached(s)'
  <2>1. Busy = {}
    BY NoneBusy DEF ServiceInv
  <2> QED
    BY <1>1, <2>1, SessionPair DEF Attached, Busy
<1>4. \A s \in Sessions : SessionInv(s)'
  BY <1>3 DEF ServiceInv, SessionInv
<1>5. CleanTrue'
  BY <1>3 DEF ServiceInv, Sent, CleanTrue, ScriptInv, AsWanted, Heard, callVars
<1> QED
  BY <1>1, <1>2, <1>4, <1>5 DEF ServiceInv, Sent

LEMMA CrashInv ==
  ASSUME ServiceInv, Crash
  PROVE  ServiceInv'
<1> USE DEF Crash
<1>1. CallInv' /\ AllDone'
  BY AbandonedInv
<1>2. \A s \in Sessions : script'[s] \in {NoScript, script[s]}
  OBVIOUS
<1>3. TypeOK'
  <2>1. \A s \in Sessions : script'[s] \in Scripts(s[2])
    BY <1>2, NoScriptType DEF ServiceInv, TypeOK, Scripts
  <2> QED
    BY <1>1, <2>1 DEF ServiceInv, TypeOK, CallInv, Scripts
<1>4. ASSUME NEW s \in Sessions PROVE SessionInv(s)'
  <2>1. SessionInv(s) /\ ~Attached(s)'
    BY DEF ServiceInv, Attached
  <2>2. script'[s] = IF Attached(s) /\ s[2] \notin Detaching THEN NoScript ELSE script[s]
    OBVIOUS
  <2> QED
    BY <2>1, <2>2 DEF SessionInv
<1> QED
  BY <1>1, <1>3, <1>4 DEF ServiceInv, Sent, CleanTrue

LEMMA StutterInv ==
  ASSUME ServiceInv, UNCHANGED serviceVars
  PROVE  ServiceInv'
<1> USE DEF serviceVars
<1>1. CallInv' /\ UNCHANGED callVars
  BY CallStutters DEF ServiceInv
<1>2. TypeOK'
  BY <1>1 DEF ServiceInv, TypeOK, CallInv
<1>3. \A s \in Sessions : Attached(s)' <=> Attached(s)
  BY <1>1 DEF Attached, callVars
<1>4. \A s \in Sessions : SessionInv(s)'
  BY <1>3 DEF ServiceInv, SessionInv
<1>5. CleanTrue' /\ Sent'
  BY <1>1, <1>3 DEF ServiceInv, Sent, CleanTrue, ScriptInv, AsWanted, Heard, Called, callVars
<1> QED
  BY <1>1, <1>2, <1>4, <1>5 DEF ServiceInv, AllDone, callVars

LEMMA NextInv == ServiceInv /\ [ServiceNext \/ Finished]_serviceVars => ServiceInv'
<1> SUFFICES ASSUME ServiceInv, [ServiceNext \/ Finished]_serviceVars PROVE ServiceInv'
  OBVIOUS
<1>1. CASE Command
  BY <1>1, StartInv, RefuseInv DEF Command
<1>2. CASE Working
  BY <1>2, GoroutineStep, ServiceCommandInv, ScriptEndsInv, FinishInv DEF Working
<1>3. CASE Detached
  BY <1>3, ServiceCommandInv, ScriptEndsInv, GoneInv DEF Detached, Die
<1>4. CASE Trouble
  BY <1>4, LoseConnectionInv, CrashInv DEF Trouble
<1>5. CASE UNCHANGED serviceVars
  BY <1>5, StutterInv
<1> QED
  BY <1>1, <1>2, <1>3, <1>4, <1>5 DEF ServiceNext, Finished

\* While the command runs the machines it has called stay the same, but for a
\* crash, and stop and the start commands only stop and only start agents.
Goes ==
  /\ UNCHANGED action
  /\ action = "stop" => \A m \in Machines : running'[m] \subseteq running[m]
  /\ action \in {"start-controller", "start-others"} =>
       \A m \in Machines : running[m] \subseteq running'[m]
  /\ \/ exit' = "failed"
     \/ /\ \A m \in Machines : calls'[m] = "none" <=> calls[m] = "none"
        /\ exit' = exit \/ (exit' = "ok" /\ exit = "running")

LEMMA CalledStay == ServiceInv /\ (Working \/ Trouble) => Goes
<1> SUFFICES ASSUME ServiceInv, Working \/ Trouble PROVE Goes
  OBVIOUS
<1>1. ASSUME NEW m \in Machines, Goroutine(m)
      PROVE  \A n \in Machines : calls'[n] = "none" <=> calls[n] = "none"
  BY <1>1, GoroutineHeard DEF ServiceInv
<1>2. ASSUME NEW m, NEW o, Answered(m, o)
      PROVE  \A n \in Machines : calls'[n] = "none" <=> calls[n] = "none"
  BY <1>2 DEF Answered, ServiceInv, CallInv, CallTypeOK
<1>3. ASSUME NEW s \in Sessions, Attached(s), ServiceCommand(s)
      PROVE  /\ UNCHANGED callVars
             /\ action = "stop" => \A n \in Machines : running'[n] \subseteq running[n]
             /\ action \in {"start-controller", "start-others"} =>
                  \A n \in Machines : running[n] \subseteq running'[n]
  <2>1. script[s].action = action /\ running \in [Machines -> SUBSET Agents]
    BY <1>3 DEF ServiceInv, SessionInv, TypeOK
  <2> QED
    BY <1>3, <2>1 DEF ServiceCommand, After
<1>4. CASE Working
  <2>1. CASE Finish
    BY <2>1 DEF Finish, callVars, ServiceInv, Sent, Goes
  <2>2. ASSUME NEW m \in Machines, Goroutine(m),
               UNCHANGED <<running, script, pc, action, given, exit>>
        PROVE  Goes
    BY <1>1, <2>2 DEF Goes
  <2>3. ASSUME NEW s \in Sessions, Attached(s), ServiceCommand(s),
               UNCHANGED <<pc, action, given, exit>>
        PROVE  Goes
    BY <1>3, <2>3 DEF Goes, callVars
  <2>4. ASSUME NEW s \in Sessions, Attached(s), ScriptEnds(s),
               UNCHANGED <<pc, action, given, exit>>
        PROVE  Goes
    BY <1>2, <2>4 DEF Goes, ScriptEnds
  <2> QED
    BY <1>4, <2>1, <2>2, <2>3, <2>4 DEF Working, Goes
<1>5. CASE Trouble
  BY <1>2, <1>5 DEF Trouble, LoseConnection, Crash, Goes
<1> QED
  BY <1>4, <1>5

\* The invariant holds whatever commands are given and whatever fails.
LEMMA ServiceInvariant == Spec => []ServiceInv
  BY InitInv, NextInv, PTL DEF Spec

-----------------------------------------------------------------------------
\* Every variable of an agents command has its type.
THEOREM ServiceTypeCorrect == Spec => []TypeOK
<1>1. ServiceInv => TypeOK
  BY DEF ServiceInv
<1> QED
  BY <1>1, ServiceInvariant, PTL

\* parallelCall returns one result for each machine it called (exec.go:14-46).
THEOREM ServiceAnswersOnce == Spec => []EveryMachineAnswersOnce
<1>1. ServiceInv => EveryMachineAnswersOnce
  BY EveryAnswerCounted DEF ServiceInv, EveryMachineAnswersOnce, Answers
<1> QED
  BY <1>1, ServiceInvariant, PTL

LEMMA InvSpeaks == ServiceInv => CleanSpeaksOfLastAgent
<1> SUFFICES ASSUME ServiceInv, pc = "idle", exit = "ok",
                    NEW m \in Called \ Detaching, OutcomesOf(m) = {"clean"}
             PROVE  AsWanted(m)
  BY DEF CleanSpeaksOfLastAgent, AsWanted, LastAgent
<1>1. <<m, "clean">> \in results
  <2>1. PICK r \in results : r[1] = m /\ r[2] = "clean"
    BY DEF OutcomesOf
  <2>2. r \in Machines \X Outcomes
    BY DEF ServiceInv, TypeOK, CallTypeOK
  <2> QED
    BY <2>1, <2>2
<1> QED
  BY <1>1 DEF ServiceInv, CleanTrue, Heard, Called

\* A clean answer is true of the last agent of the machine (service.go:66-79),
\* on the machines where no script outlives its connection.
THEOREM CleanOfLastAgent == Spec => []CleanSpeaksOfLastAgent
  BY InvSpeaks, ServiceInvariant, PTL

\* start-controller touches machine 0 of the controller model only, but for the
\* scripts that earlier commands have left behind on other machines, and
\* start-others leaves out no other machine (db.go:182-200,268-288).
THEOREM ControllerAlone == Spec => ControllerStartsAlone
<1> DEFINE Alone ==
      /\ action' = "start-controller" =>
           \A m \in Machines : running'[m] # running[m] =>
             \/ MachineDoc[m].model = ControllerModel /\ MachineDoc[m].id = "0"
             \/ LeftBehind(m)
      /\ action' = "start-others" /\ pc' = "waiting" =>
           \A m \in AllMachines :
             calls'[m] = "none" => \E ms \in Targets("start-controller") : m \in ms
<1>1. ASSUME ServiceInv, ServiceInv', ServiceNext \/ Finished PROVE Alone \/ UNCHANGED serviceVars
  <2>1. ASSUME action' = "start-controller", NEW m \in Machines, running'[m] # running[m]
        PROVE  \/ MachineDoc[m].model = ControllerModel /\ MachineDoc[m].id = "0"
               \/ LeftBehind(m)
    <3>1. PICK s \in Sessions : ServiceCommand(s) /\ UNCHANGED <<pc, action, given, exit>>
      BY <1>1, <2>1 DEF ServiceNext, Finished, Command, Start, Refuse, Working, Detached,
         Trouble, ScriptEnds, Die, Finish, LoseConnection, Crash, serviceVars
    <3>2. s[2] = m /\ script[s] # NoScript /\ SessionInv(s)
      BY <1>1, <2>1, <3>1, ServiceCommandInv DEF ServiceCommand, NoScript, ServiceInv
    <3>3. CASE s[1] < given
      BY <3>2, <3>3 DEF LeftBehind
    <3>4. CASE s[1] = given
      BY <2>1, <3>1, <3>2, <3>4 DEF SessionInv, ServerMachines, IsServer
    <3>5. s[1] \in Nat /\ given \in Nat
      BY <1>1, SessionPair DEF ServiceInv, TypeOK
    <3> QED
      BY <3>2, <3>3, <3>4, <3>5 DEF SessionInv
  <2>2. ASSUME action' = "start-others", pc' = "waiting", NEW m \in AllMachines,
               calls'[m] = "none"
        PROVE  \E ms \in Targets("start-controller") : m \in ms
    <3>1. Called' = OtherMachines
      BY <1>1, <2>2 DEF ServiceInv, Sent
    <3>2. m \notin OtherMachines
      BY <2>2, <3>1 DEF Called
    <3>3. m \in ServerMachines
      BY <3>2 DEF OtherMachines, ServerMachines
    <3> QED
      BY <3>3 DEF Targets
  <2> QED
    BY <2>1, <2>2
<1> QED
  BY <1>1, InitInv, NextInv, PTL DEF Spec, ControllerStartsAlone
=============================================================================
