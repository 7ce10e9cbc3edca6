------------------------- MODULE AgentRollout_proofs -------------------------
(***************************************************************************)
(* What upgrade-agents guarantees, for any machines, agents, files and     *)
(* number of runs. The first half holds even if scripts go on without      *)
(* their connection; the second half needs that they do not.               *)
(***************************************************************************)
EXTENDS AgentRollout, ParallelCall_proofs, SequenceTheorems

Range1(q) == {q[i] : i \in 1..Len(q)}

Versions(a) == {FoundConf[a], Sed(FoundConf[a], ControllerUUID)}
Confs == UNION {Versions(a) : a \in Agents}

HostSet(m) ==
  [tarball : Tarballs, dir : Dirs, link : [AgentSet(m) -> Links],
   conf : [AgentSet(m) -> Confs], old : [AgentSet(m) -> {<<>>} \cup {<<c>> : c \in Confs}]]

HostInv(m) ==
  /\ host[m] \in HostSet(m)
  /\ \A a \in AgentSet(m) : host[m].conf[a] \in Versions(a)

Ats == DoOps \cup {"none", "scp", "copying", "test", "head", "next"}

ScriptSet(m) ==
  {r \in [at : Ats, todo : Seq(AgentSet(m)), live : BOOLEAN, tag : {"", ControllerUUID}] :
     r.at # "none" => r.todo # <<>> /\ r.tag = ControllerUUID}

HostsInv ==
  /\ host = [m \in Machines |-> host[m]]
  /\ \A m \in Machines : HostInv(m)

\* The inductive invariant of any rollout.
RolloutInv ==
  /\ CallInv
  /\ HostsInv
  /\ script = [s \in Sessions |-> script[s]]
  /\ \A s \in Sessions : script[s] \in ScriptSet(s[2])
  /\ pc \in {"idle", "waiting"} /\ run \in 0..MaxRuns /\ live \in BOOLEAN
  /\ exit \in {"none", "running", "ok", "error", "failed"}
  /\ pc = "idle" => AllDone

-----------------------------------------------------------------------------
(* Agents, files and scripts. *)

LEMMA AgentsType ==
  ASSUME NEW m \in Machines
  PROVE  /\ AgentsOn[m] \in Seq(AgentSet(m)) /\ AgentsOn[m] # <<>>
         /\ AgentSet(m) \subseteq Agents
         /\ Range1(AgentsOn[m]) = AgentSet(m)
<1>1. AgentsOn[m] \in Seq(Agents) /\ AgentsOn[m] # <<>>
  BY AgentsAssumption
<1>2. AgentsOn[m] \in Seq(AgentSet(m))
  <2> DEFINE s == AgentsOn[m]
             S == AgentSet(m)
  <2>1. s \in Seq(Agents) /\ \A i \in 1..Len(s) : s[i] \in S
    BY <1>1 DEF AgentSet
  <2> HIDE DEF s, S
  <2>2. s \in Seq(S)
    BY <2>1
  <2> QED
    BY <2>2 DEF s, S
<1>3. AgentSet(m) \subseteq Agents
  BY DEF Agents, AgentSet
<1> QED
  BY <1>1, <1>2, <1>3 DEF Range1, AgentSet

\* What a script has yet to do is what it does next and the rest.
LEMMA HeadAndTail ==
  ASSUME NEW S, NEW q \in Seq(S), q # <<>>
  PROVE  /\ Head(q) \in S /\ Tail(q) \in Seq(S) /\ Head(q) \in Range1(q)
         /\ Range1(q) = {Head(q)} \cup Range1(Tail(q))
         /\ Len(q) = 1 => Range1(q) = {Head(q)}
         /\ Len(q) # 1 => Tail(q) # <<>>
<1>1. /\ Head(q) = q[1] /\ Head(q) \in S /\ Tail(q) \in Seq(S)
      /\ Len(Tail(q)) = Len(q) - 1 /\ Len(q) \in Nat \ {0}
      /\ \A i \in 1..Len(Tail(q)) : Tail(q)[i] = q[i + 1]
  BY ONLY HeadTailProperties, EmptySeq, q \in Seq(S), q # <<>>
<1>2. Tail(q) = <<>> => Len(Tail(q)) = 0
  BY EmptySeq
<1>3. Range1(q) = {Head(q)} \cup Range1(Tail(q))
  <2>1. \A i \in 1..Len(q) : i = 1 \/ (i - 1 \in 1..Len(Tail(q)) /\ q[i] = Tail(q)[i - 1])
    BY <1>1
  <2>2. \A i \in 1..Len(Tail(q)) : i + 1 \in 1..Len(q)
    BY <1>1
  <2>3. ASSUME NEW x \in Range1(q) PROVE x = Head(q) \/ x \in Range1(Tail(q))
    <3>1. PICK i \in 1..Len(q) : x = q[i]
      BY <2>3 DEF Range1
    <3>2. CASE i = 1
      BY <1>1, <3>1, <3>2
    <3>3. CASE i - 1 \in 1..Len(Tail(q)) /\ q[i] = Tail(q)[i - 1]
      BY <3>1, <3>3 DEF Range1
    <3> QED
      BY <2>1, <3>2, <3>3
  <2>4. ASSUME NEW x \in Range1(Tail(q)) PROVE x \in Range1(q)
    BY <1>1, <2>2, <2>4 DEF Range1
  <2>5. Head(q) \in Range1(q)
    BY <1>1 DEF Range1
  <2> QED
    BY <2>3, <2>4, <2>5
<1>4. Len(q) = 1 => Range1(Tail(q)) = {}
  BY <1>1 DEF Range1
<1>5. Len(q) # 1 => Tail(q) # <<>>
  BY <1>1, <1>2
<1> QED
  BY <1>1, <1>3, <1>4, <1>5

\* A second sed finds nothing to replace: that is why a script that overtakes
\* another does no harm to agent.conf.
LEMMA SedTwice ==
  ASSUME NEW conf, NEW tag
  PROVE  Sed(Sed(conf, tag), tag) = Sed(conf, tag)
  BY DEF Sed

LEMMA SedFormat ==
  ASSUME NEW conf, NEW tag
  PROVE  /\ conf.format = "1.18" => Sed(conf, tag).format = "2.0"
         /\ Sed(conf, tag).format # "1.18"
  BY DEF Sed

LEMMA FoundHostInv ==
  \A m \in Machines : /\ FoundHost(m) \in HostSet(m)
                       /\ \A a \in AgentSet(m) : FoundHost(m).conf[a] \in Versions(a)
  BY AgentsType DEF FoundHost, HostSet, Versions, Confs, Tarballs, Dirs, Links

\* What one command of the script makes of the machine.
LEMMA EffectOf ==
  ASSUME NEW m \in Machines, NEW h \in HostSet(m), NEW a \in AgentSet(m), NEW at \in DoOps,
         \A x \in AgentSet(m) : h.conf[x] \in Versions(x)
  PROVE  LET e == Effect(at, h, a, ControllerUUID)
         IN  /\ e \in HostSet(m)
             /\ e.dir = CASE at = "mkdir" -> IF h.dir = "none" THEN "made" ELSE h.dir
                          [] at = "tar"   -> IF h.dir = "made" THEN "unpacked" ELSE h.dir
                          [] at = "jujuc" -> "linked"
                          [] OTHER        -> h.dir
             /\ \A x \in AgentSet(m) :
                  /\ e.link[x] = IF x = a /\ at = "rm" THEN "none"
                                 ELSE IF x = a /\ at = "ln" /\ h.link[a] = "none" THEN "2.0"
                                 ELSE h.link[x]
                  /\ e.conf[x] = IF x = a /\ at = "sed" THEN Sed(h.conf[a], ControllerUUID)
                                 ELSE h.conf[x]
                  /\ e.old[x] = IF x = a /\ at = "cp" THEN <<h.conf[a]>> ELSE h.old[x]
                  /\ e.conf[x] \in Versions(x)
<1> DEFINE e == Effect(at, h, a, ControllerUUID)
<1>1. Sed(h.conf[a], ControllerUUID) \in Versions(a)
  BY SedTwice DEF Versions
<1>2. \A x \in AgentSet(m) : Versions(x) \subseteq Confs
  BY AgentsType DEF Confs
<1>3. CASE at = "mkdir"
  BY <1>3 DEF Effect, HostSet, Dirs
<1>4. CASE at = "tar"
  BY <1>4 DEF Effect, HostSet, Dirs
<1>5. CASE at = "jujuc"
  BY <1>5 DEF Effect, HostSet, Dirs
<1>6. CASE at = "rm"
  BY <1>6 DEF Effect, HostSet, Links
<1>7. CASE at = "ln"
  BY <1>7 DEF Effect, HostSet, Links
<1>8. CASE at = "cp"
  BY <1>8 DEF Effect, HostSet
<1>9. CASE at = "sed"
  BY <1>1, <1>2, <1>9 DEF Effect, HostSet
<1> QED
  BY <1>3, <1>4, <1>5, <1>6, <1>7, <1>8, <1>9 DEF DoOps

LEMMA EffectType ==
  ASSUME NEW m \in Machines, NEW h \in HostSet(m), NEW a \in AgentSet(m), NEW at \in DoOps,
         \A x \in AgentSet(m) : h.conf[x] \in Versions(x)
  PROVE  /\ Effect(at, h, a, ControllerUUID) \in HostSet(m)
         /\ \A x \in AgentSet(m) :
              Effect(at, h, a, ControllerUUID).conf[x] \in Versions(x)
  BY EffectOf

-----------------------------------------------------------------------------
(* Every step keeps the invariant. *)

Frame == UNCHANGED <<pc, run, live, exit, models>>

LEMMA SetsStay ==
  ASSUME UNCHANGED models
  PROVE  /\ ControllerUUID' = ControllerUUID
         /\ \A m : ScriptSet(m)' = ScriptSet(m) /\ HostSet(m)' = HostSet(m)
         /\ \A a : Versions(a)' = Versions(a)
  BY DEF ControllerUUID, ScriptSet, HostSet, Confs, Versions

LEMMA HostsStay ==
  ASSUME HostsInv, UNCHANGED <<host, models>>
  PROVE  HostsInv'
  BY SetsStay DEF HostsInv, HostInv

LEMMA OneHost ==
  ASSUME HostsInv, UNCHANGED models, NEW m \in Machines, NEW h \in HostSet(m),
         \A a \in AgentSet(m) : h.conf[a] \in Versions(a),
         host' = [n \in Machines |-> IF n = m THEN h ELSE host[n]]
  PROVE  HostsInv'
<1>1. /\ \A n \in Machines : host'[n] = IF n = m THEN h ELSE host[n]
      /\ host' = [n \in Machines |-> host'[n]]
  OBVIOUS
<1>2. ASSUME NEW n \in Machines
      PROVE  host'[n] \in HostSet(n) /\ \A a \in AgentSet(n) : host'[n].conf[a] \in Versions(a)
  <2>1. host[n] \in HostSet(n) /\ \A a \in AgentSet(n) : host[n].conf[a] \in Versions(a)
    BY DEF HostsInv, HostInv
  <2> QED
    BY <1>1, <2>1
<1>3. /\ \A n : HostSet(n)' = HostSet(n)
      /\ \A a : Versions(a)' = Versions(a)
  BY SetsStay
<1> QED
  BY <1>1, <1>2, <1>3 DEF HostsInv, HostInv

LEMMA RunsType == MaxRuns \in Nat
  BY AgentsAssumption

LEMMA RunType ==
  ASSUME RolloutInv
  PROVE  run \in Nat
<1>1. run \in 0..MaxRuns
  BY DEF RolloutInv
<1> QED
  BY <1>1, RunsType

\* A script that goes on stays a script.
LEMMA ScriptGoesOn ==
  ASSUME RolloutInv, NEW s \in Sessions, script[s].at # "none", NEW at \in Ats
  PROVE  /\ script[s].todo \in Seq(AgentSet(s[2])) /\ script[s].todo # <<>>
         /\ s[1] \in 1..MaxRuns /\ s[2] \in Machines /\ s = <<s[1], s[2]>>
         /\ script[s].tag = ControllerUUID
         /\ script[s].live \in BOOLEAN /\ script[s].at \in Ats
         /\ [script[s] EXCEPT !.at = at] \in ScriptSet(s[2])
         /\ Goto(s, at) <=> script' = [script EXCEPT ![s] = [script[s] EXCEPT !.at = at]]
<1>1. script[s] \in ScriptSet(s[2]) /\ script = [t \in Sessions |-> script[t]]
  BY DEF RolloutInv
<1>2. s[1] \in 1..MaxRuns /\ s[2] \in Machines /\ s = <<s[1], s[2]>>
  BY DEF Sessions
<1>3. /\ script[s].todo \in Seq(AgentSet(s[2])) /\ script[s].todo # <<>>
      /\ script[s].tag = ControllerUUID
      /\ script[s].live \in BOOLEAN /\ script[s].at \in Ats
  BY <1>1 DEF ScriptSet
<1>4. [script[s] EXCEPT !.at = at] \in ScriptSet(s[2])
  BY <1>1 DEF ScriptSet
<1>5. Goto(s, at) <=> script' = [script EXCEPT ![s] = [script[s] EXCEPT !.at = at]]
  BY <1>1 DEF Goto
<1> QED
  BY <1>2, <1>3, <1>4, <1>5

LEMMA NoScriptType == \A m : NoScript \in ScriptSet(m)
  BY EmptySeq DEF NoScript, ScriptSet, Ats

LEMMA ScriptInv ==
  ASSUME RolloutInv, NEW s \in Sessions, NEW r \in ScriptSet(s[2]),
         script' = [script EXCEPT ![s] = r], HostsInv', CallInv', Frame,
         pc = "idle" => AllDone'
  PROVE  RolloutInv'
<1>1. \A t \in Sessions : script'[t] = IF t = s THEN r ELSE script[t]
  BY DEF RolloutInv
<1>2. script' = [t \in Sessions |-> script'[t]]
  BY DEF RolloutInv
<1> QED
  BY <1>1, <1>2, SetsStay DEF RolloutInv, Frame

\* A machine whose script is over may answer, but only while it is waited for.
LEMMA EndsInv ==
  ASSUME RolloutInv, NEW s \in Sessions, NEW o \in Outcomes, Ends(s, o), UNCHANGED host, Frame
  PROVE  RolloutInv'
<1>1. CallInv' /\ (pc = "idle" => AllDone')
  <2>1. CASE Attached(s)
    <3>1. Answered(s[2], o) /\ s[2] \in Machines
      BY <2>1 DEF Ends, Sessions
    <3> QED
      BY <2>1, <3>1, AnsweredInv DEF RolloutInv, Attached
  <2>2. CASE ~Attached(s)
    BY <2>2, CallStutters DEF Ends, RolloutInv, AllDone, callVars
  <2> QED
    BY <2>1, <2>2
<1>2. HostsInv'
  BY HostsStay DEF RolloutInv, Frame
<1> QED
  BY <1>1, <1>2, ScriptInv, NoScriptType DEF Ends

LEMMA CopyInv ==
  ASSUME RolloutInv, NEW s \in Sessions, Copy(s), Frame
  PROVE  RolloutInv'
<1>1. CallInv' /\ (pc = "idle" => AllDone')
  BY CallStutters DEF Copy, RolloutInv, AllDone, callVars
<1>2. PICK at \in Ats : Goto(s, at)
  BY DEF Copy, Ats
<1>3. script[s].at # "none" /\ s[2] \in Machines
  BY DEF Copy, Sessions
<1>4. HostsInv'
  <2>1. CASE UNCHANGED host
    BY <2>1, HostsStay DEF RolloutInv, Frame
  <2>2. ASSUME NEW t \in Tarballs, host' = [host EXCEPT ![s[2]].tarball = t]
        PROVE  HostsInv'
    <3>1. /\ [host[s[2]] EXCEPT !.tarball = t] \in HostSet(s[2])
          /\ [host[s[2]] EXCEPT !.tarball = t].conf = host[s[2]].conf
      BY <1>3 DEF RolloutInv, HostsInv, HostInv, HostSet
    <3>2. host' = [m \in Machines |->
                    IF m = s[2] THEN [host[s[2]] EXCEPT !.tarball = t] ELSE host[m]]
      BY <2>2, <1>3 DEF RolloutInv, HostsInv
    <3>3. \A a \in AgentSet(s[2]) : host[s[2]].conf[a] \in Versions(a)
      BY <1>3 DEF RolloutInv, HostsInv, HostInv
    <3> DEFINE h == [host[s[2]] EXCEPT !.tarball = t]
    <3>4. h \in HostSet(s[2]) /\ \A a \in AgentSet(s[2]) : h.conf[a] \in Versions(a)
      BY <3>1, <3>3
    <3> HIDE DEF h
    <3>5. host' = [m \in Machines |-> IF m = s[2] THEN h ELSE host[m]]
      BY <3>2 DEF h
    <3> QED
      BY <1>3, <3>4, <3>5, OneHost DEF RolloutInv, Frame
  <2> QED
    BY <2>1, <2>2 DEF Copy, Tarballs
<1> QED
  BY <1>1, <1>2, <1>3, <1>4, ScriptGoesOn, ScriptInv

\* A command of the script, and what it does to the machine.
LEMMA DoOpEffect ==
  ASSUME RolloutInv, NEW s \in Sessions, DoOp(s), script[s].live
  PROVE  LET at == script[s].at
             m  == s[2]
             a  == Head(script[s].todo)
         IN  /\ at \in DoOps /\ m \in Machines /\ a \in AgentSet(m)
             /\ Works(at, host[m], a)
             /\ host' = [n \in Machines |->
                  IF n = m THEN Effect(at, host[m], a, ControllerUUID) ELSE host[n]]
<1> DEFINE at == script[s].at
           m  == s[2]
           a  == Head(script[s].todo)
<1>1. at \in DoOps /\ at # "none"
  BY DEF DoOp, DoOps
<1>2. m \in Machines /\ script[s].tag = ControllerUUID /\ a \in AgentSet(m)
  BY <1>1, ScriptGoesOn, HeadAndTail DEF Ats
<1>3. host' = [host EXCEPT ![m] = Effect(at, host[m], a, script[s].tag)]
  BY DEF DoOp
<1>4. Works(at, host[m], a)
  BY DEF DoOp
<1>5. host = [n \in Machines |-> host[n]]
  BY DEF RolloutInv, HostsInv
<1> HIDE DEF at, a
<1>6. host' = [n \in Machines |->
                  IF n = m THEN Effect(at, host[m], a, ControllerUUID) ELSE host[n]]
  BY <1>2, <1>3, <1>5
<1> QED
  BY <1>1, <1>2, <1>4, <1>6 DEF at, a

LEMMA DoOpInv ==
  ASSUME RolloutInv, NEW s \in Sessions, DoOp(s), Frame
  PROVE  RolloutInv'
<1>1. CallInv' /\ (pc = "idle" => AllDone')
  BY CallStutters DEF DoOp, RolloutInv, AllDone, callVars
<1>2. script[s].at # "none" /\ Goto(s, After(script[s].at)) /\ After(script[s].at) \in Ats
  BY DEF DoOp, DoOps, After, Ats
<1>3. HostsInv'
  <2>1. CASE ~script[s].live
    BY <2>1, HostsStay DEF DoOp, RolloutInv, Frame
  <2>2. CASE script[s].live
    <3> DEFINE at == script[s].at
               m  == s[2]
               a  == Head(script[s].todo)
               e  == Effect(at, host[m], a, ControllerUUID)
    <3>1. /\ at \in DoOps /\ m \in Machines /\ a \in AgentSet(m)
          /\ host' = [n \in Machines |-> IF n = m THEN e ELSE host[n]]
      BY <2>2, DoOpEffect
    <3>2. host[m] \in HostSet(m) /\ \A x \in AgentSet(m) : host[m].conf[x] \in Versions(x)
      BY <3>1 DEF RolloutInv, HostsInv, HostInv
    <3>3. e \in HostSet(m) /\ \A x \in AgentSet(m) : e.conf[x] \in Versions(x)
      BY <3>1, <3>2, EffectType
    <3> HIDE DEF e
    <3> QED
      BY <3>1, <3>3, OneHost DEF RolloutInv, Frame
  <2> QED
    BY <2>1, <2>2 DEF RolloutInv, ScriptSet
<1> QED
  BY <1>1, <1>2, <1>3, ScriptGoesOn, ScriptInv

LEMMA TestInv ==
  ASSUME RolloutInv, NEW s \in Sessions, Test(s) \/ ReadFormat(s), Frame
  PROVE  RolloutInv'
<1>1. UNCHANGED <<callVars, host>> /\ script[s].at # "none"
  BY DEF Test, ReadFormat
<1>2. PICK at \in Ats : Goto(s, at)
  BY DEF Test, ReadFormat, Ats, DoOps
<1>3. CallInv' /\ (pc = "idle" => AllDone') /\ HostsInv'
  BY <1>1, CallStutters, HostsStay DEF RolloutInv, AllDone, callVars, Frame
<1> QED
  BY <1>1, <1>2, <1>3, ScriptGoesOn, ScriptInv

\* The script turns to its next agent, or ends.
LEMMA NextAgentInv ==
  ASSUME RolloutInv, NEW s \in Sessions, NextAgent(s), Frame
  PROVE  RolloutInv'
<1>1. CASE Len(script[s].todo) = 1
  BY <1>1, EndsInv DEF NextAgent, Outcomes
<1>2. CASE Len(script[s].todo) # 1
  <2>1. UNCHANGED <<callVars, host>> /\ script[s].at # "none"
    BY <1>2 DEF NextAgent
  <2>2. CallInv' /\ (pc = "idle" => AllDone') /\ HostsInv'
    BY <2>1, CallStutters, HostsStay DEF RolloutInv, AllDone, callVars, Frame
  <2> DEFINE r == [script[s] EXCEPT !.at = "rm", !.todo = Tail(script[s].todo)]
  <2>3. script' = [script EXCEPT ![s] = r]
    BY <1>2 DEF NextAgent
  <2>4. /\ Tail(script[s].todo) \in Seq(AgentSet(s[2])) /\ Tail(script[s].todo) # <<>>
        /\ script[s] \in ScriptSet(s[2]) /\ script[s].at # "none"
    BY <1>2, <2>1, ScriptGoesOn, HeadAndTail DEF RolloutInv, Ats
  <2>5. r \in ScriptSet(s[2])
    BY <2>4 DEF ScriptSet, Ats, DoOps
  <2> HIDE DEF r
  <2> QED
    BY <2>2, <2>3, <2>5, ScriptInv
<1> QED
  BY <1>1, <1>2

LEMMA LoseConnectionInv ==
  ASSUME RolloutInv, NEW s \in Sessions, LoseConnection(s), Frame
  PROVE  RolloutInv'
<1>1. PICK o \in {"code", "error"} : Answered(s[2], o)
  BY DEF LoseConnection
<1>2. CallInv' /\ pc # "idle"
  BY <1>1, AnsweredInv DEF LoseConnection, RolloutInv, Attached, Sessions, Outcomes
<1>3. HostsInv'
  BY HostsStay DEF LoseConnection, RolloutInv, Frame
<1>4. script' = [script EXCEPT ![s] = NoScript] \/ script' = [script EXCEPT ![s] = script[s]]
  BY DEF LoseConnection, RolloutInv
<1> QED
  BY <1>2, <1>3, <1>4, ScriptInv, NoScriptType DEF RolloutInv

LEMMA DieInv ==
  ASSUME RolloutInv, NEW s \in Sessions, Die(s), Frame
  PROVE  RolloutInv'
<1>1. CallInv' /\ (pc = "idle" => AllDone') /\ HostsInv'
  BY CallStutters, HostsStay DEF Die, RolloutInv, AllDone, callVars, Frame
<1> QED
  BY <1>1, ScriptInv, NoScriptType DEF Die

LEMMA ScriptStepInv ==
  ASSUME RolloutInv, NEW s \in Sessions, ScriptStep(s) \/ ScriptFails(s), Frame
  PROVE  RolloutInv'
<1>1. CASE CopyFails(s) \/ DoOpFails(s)
  BY <1>1, EndsInv DEF CopyFails, DoOpFails, Outcomes
<1> QED
  BY <1>1, CopyInv, TestInv, DoOpInv, NextAgentInv DEF ScriptStep, ScriptFails

LEMMA GoroutineStepInv ==
  ASSUME RolloutInv, NEW m \in Machines, Goroutine(m), UNCHANGED <<host, script>>, Frame
  PROVE  RolloutInv' /\ pc = "waiting"
<1>1. CallInv' /\ m \in Busy
  BY GoroutineInv DEF RolloutInv
<1>2. pc = "waiting"
  BY <1>1, NoneBusy DEF RolloutInv
<1>3. HostsInv'
  BY HostsStay DEF RolloutInv, Frame
<1> QED
  BY <1>1, <1>2, <1>3, SetsStay DEF RolloutInv, Frame

LEMMA RefuseInv ==
  ASSUME RolloutInv, NEW forReal \in BOOLEAN, Refuse(forReal), UNCHANGED models
  PROVE  RolloutInv'
<1>1. CallInv' /\ AllDone' /\ HostsInv'
  BY CallStutters, HostsStay DEF Refuse, Begin, RolloutInv, AllDone, callVars
<1>2. run' \in 0..MaxRuns
  <2>1. run \in 0..MaxRuns /\ run < MaxRuns /\ run' = run + 1
    BY DEF Refuse, Begin, RolloutInv
  <2> QED
    BY <2>1, RunsType
<1> QED
  BY <1>1, <1>2, SetsStay DEF Refuse, Begin, RolloutInv

\* A new script has all agents of its machine before it.
LEMMA StartInv ==
  ASSUME RolloutInv, NEW forReal \in BOOLEAN, NEW addresses, Start(forReal, addresses),
         UNCHANGED models
  PROVE  RolloutInv'
<1>1. CallInv'
  <2>1. Chosen(addresses) \in SUBSET Machines
    BY DEF Chosen, AllMachines
  <2>2. lock = {}
    BY NoneBusy DEF Start, Begin, RolloutInv
  <2> QED
    BY <2>1, <2>2, SpawnInv DEF Start, RolloutInv
<1>2. HostsInv'
  BY HostsStay DEF Start, RolloutInv
<1>3. run' \in 0..MaxRuns
  <2>1. run \in 0..MaxRuns /\ run < MaxRuns /\ run' = run + 1
    BY DEF Start, Begin, RolloutInv
  <2> QED
    BY <2>1, RunsType
<1>4. ASSUME NEW s \in Sessions
      PROVE  script'[s] \in ScriptSet(s[2])
  <2>1. CASE script'[s] = script[s]
    BY <2>1 DEF RolloutInv
  <2>2. CASE script'[s] = [at |-> "scp", todo |-> AgentsOn[s[2]], live |-> forReal,
                           tag |-> ControllerUUID]
    BY <2>2, AgentsType DEF ScriptSet, Ats, Sessions
  <2> QED
    BY <2>1, <2>2 DEF Start
<1>5. script' = [s \in Sessions |-> script'[s]]
  BY DEF Start
<1>6. \A s \in Sessions : script'[s] \in ScriptSet(s[2])'
  BY <1>4, SetsStay
<1>7. pc' = "waiting" /\ live' = forReal /\ exit' = "running"
  BY DEF Start, Begin
<1> QED
  BY <1>1, <1>2, <1>3, <1>5, <1>6, <1>7 DEF RolloutInv

LEMMA FinishInv ==
  ASSUME RolloutInv, Finish, UNCHANGED models
  PROVE  RolloutInv'
<1>1. CallInv' /\ AllDone' /\ HostsInv'
  BY CallStutters, HostsStay DEF Finish, RolloutInv, AllDone, callVars
<1> QED
  BY <1>1, SetsStay DEF Finish, RolloutInv

LEMMA CrashInv ==
  ASSUME RolloutInv, Crash, UNCHANGED models
  PROVE  RolloutInv'
<1>1. CallInv' /\ AllDone' /\ HostsInv'
  BY AbandonedInv, HostsStay DEF Crash, RolloutInv
<1>2. script' = [s \in Sessions |-> script'[s]]
  <2>1. PICK over \in {{}, Survivors} :
          script' = [s \in Sessions |->
            IF Attached(s) /\ s \notin over THEN NoScript ELSE script[s]]
    BY DEF Crash
  <2> QED
    BY <2>1
<1>3. \A s \in Sessions : script'[s] \in {script[s], NoScript}
  <2>1. PICK over \in {{}, Survivors} :
          script' = [s \in Sessions |->
            IF Attached(s) /\ s \notin over THEN NoScript ELSE script[s]]
    BY DEF Crash
  <2> QED
    BY <2>1
<1>4. \A s \in Sessions : script'[s] \in ScriptSet(s[2])
  BY <1>3, NoScriptType DEF RolloutInv
<1> QED
  BY <1>1, <1>2, <1>4, SetsStay DEF Crash, RolloutInv

LEMMA StutterInv ==
  ASSUME RolloutInv, UNCHANGED vars
  PROVE  RolloutInv'
<1> USE DEF vars, rolloutVars
<1>1. CallInv' /\ (pc = "idle" => AllDone') /\ HostsInv'
  BY CallStutters, HostsStay DEF RolloutInv, AllDone, callVars
<1> QED
  BY <1>1, SetsStay DEF RolloutInv

LEMMA InitInv == Init => RolloutInv
<1> SUFFICES ASSUME Init PROVE RolloutInv
  OBVIOUS
<1> USE DEF Init, RolloutInit
<1>1. CallInv /\ AllDone
  BY CallInitInv DEF CallInit, AllDone
<1>2. HostsInv
  BY FoundHostInv DEF HostsInv, HostInv
<1>3. \A s \in Sessions : script[s] \in ScriptSet(s[2])
  BY NoScriptType
<1>4. run \in 0..MaxRuns
  BY RunsType
<1> QED
  BY <1>1, <1>2, <1>3, <1>4 DEF RolloutInv

\* The kinds of steps there are.
LEMMA Steps ==
  ASSUME Next
  PROVE  \/ \E forReal \in BOOLEAN : Refuse(forReal) /\ UNCHANGED models
         \/ \E forReal \in BOOLEAN : \E addresses :
              Start(forReal, addresses) /\ UNCHANGED models
         \/ \E m \in Machines : Goroutine(m) /\ UNCHANGED <<host, script>> /\ Frame
         \/ \E s \in Sessions : (ScriptStep(s) \/ ScriptFails(s)) /\ Frame
         \/ \E s \in Sessions : LoseConnection(s) /\ Frame
         \/ \E s \in Sessions : Die(s) /\ Frame
         \/ Finish /\ UNCHANGED models
         \/ Crash /\ UNCHANGED models
         \/ UNCHANGED vars
  BY DEF Next, RolloutNext, Finished, Command, Working, Detached, Trouble, Frame, vars

LEMMA NextInv == RolloutInv /\ [Next]_vars => RolloutInv'
  BY Steps, RefuseInv, StartInv, GoroutineStepInv, ScriptStepInv, LoseConnectionInv,
     DieInv, FinishInv, CrashInv, StutterInv

\* While the command runs the machines it has called stay the same, but for a
\* crash.
Goes ==
  /\ UNCHANGED live
  /\ \/ exit' = "failed"
     \/ /\ \A m \in Machines : calls'[m] = "none" <=> calls[m] = "none"
        /\ exit' = exit \/ (exit' \in {"ok", "error"} /\ pc = "waiting")

LEMMA CalledStay == RolloutInv /\ (Working \/ Trouble) => Goes
<1> SUFFICES ASSUME RolloutInv, Working \/ Trouble PROVE Goes
  OBVIOUS
<1>1. ASSUME NEW m \in Machines, Goroutine(m)
      PROVE  \A n \in Machines : calls'[n] = "none" <=> calls[n] = "none"
  BY <1>1, GoroutineHeard DEF RolloutInv
<1>2. ASSUME NEW m, NEW o, Answered(m, o)
      PROVE  \A n \in Machines : calls'[n] = "none" <=> calls[n] = "none"
  BY <1>2 DEF Answered, RolloutInv, CallInv, CallTypeOK
<1>3. ASSUME NEW s \in Sessions, NEW o, Ends(s, o)
      PROVE  \A n \in Machines : calls'[n] = "none" <=> calls[n] = "none"
  BY <1>2, <1>3 DEF Ends, callVars
<1>4. ASSUME NEW s \in Sessions, ScriptStep(s) \/ ScriptFails(s)
      PROVE  \A n \in Machines : calls'[n] = "none" <=> calls[n] = "none"
  <2>1. UNCHANGED callVars \/ \E o : Ends(s, o)
    BY <1>4 DEF ScriptStep, ScriptFails, Copy, Test, DoOp, ReadFormat, NextAgent,
                CopyFails, DoOpFails
  <2> QED
    BY <1>3, <2>1 DEF callVars
<1>5. CASE Working
  <2>1. CASE Finish
    BY <2>1 DEF Finish, callVars, Goes
  <2>2. ASSUME NEW m \in Machines, Goroutine(m), UNCHANGED <<host, script, pc, run, live, exit>>
        PROVE  Goes
    BY <1>1, <2>2 DEF Goes
  <2>3. ASSUME NEW s \in Sessions, ScriptStep(s) \/ ScriptFails(s),
               UNCHANGED <<pc, run, live, exit>>
        PROVE  Goes
    BY <1>4, <2>3 DEF Goes
  <2> QED
    BY <1>5, <2>1, <2>2, <2>3 DEF Working
<1>6. CASE Trouble
  BY <1>2, <1>6 DEF Trouble, LoseConnection, Crash, Goes
<1> QED
  BY <1>5, <1>6

LEMMA RolloutInvariant == Spec => []RolloutInv
  BY InitInv, NextInv, PTL DEF Spec

-----------------------------------------------------------------------------
\* Every variable of upgrade-agents and of the machines has its type.
THEOREM RolloutTypeCorrect == Spec => []TypeOK
<1>1. ASSUME RolloutInv PROVE TypeOK
  <2>1. \A m \in Machines : HostOK(m)
    <3> SUFFICES ASSUME NEW m \in Machines PROVE HostOK(m)
      OBVIOUS
    <3>1. host[m] \in HostSet(m)
      BY <1>1 DEF RolloutInv, HostsInv, HostInv
    <3> QED
      BY <3>1 DEF HostSet, HostOK
  <2>2. \A s \in Sessions : ScriptOK(s)
    <3> SUFFICES ASSUME NEW s \in Sessions PROVE ScriptOK(s)
      OBVIOUS
    <3>1. script[s] \in ScriptSet(s[2])
      BY <1>1 DEF RolloutInv
    <3>2. /\ script[s].at \in Ats
          /\ script[s].at # "none" => script[s].todo # <<>>
          /\ script[s].todo \in Seq(AgentSet(s[2]))
      BY <3>1 DEF ScriptSet
    <3>3. \A i \in 1..Len(script[s].todo) : script[s].todo[i] \in AgentSet(s[2])
      BY <3>2, ElementOfSeq
    <3> QED
      BY <3>2, <3>3 DEF ScriptOK, Ats
  <2> QED
    BY <1>1, <2>1, <2>2 DEF RolloutInv, CallInv, TypeOK
<1> QED
  BY <1>1, RolloutInvariant, PTL

\* One result for each machine, and the lock is free, whenever the command has
\* ended by itself (upgradeagents.go:52-75).
THEOREM RolloutAnswersOnce == Spec => []EveryMachineAnswersOnce
<1>1. RolloutInv => EveryMachineAnswersOnce
  BY EveryAnswerCounted DEF RolloutInv, EveryMachineAnswersOnce, Answers
<1> QED
  BY <1>1, RolloutInvariant, PTL

\* Also scripts that overtake each other rewrite no agent.conf twice
\* (upgradeagents.go:206-215).
THEOREM RewrittenOnce == Spec => []ConfRewrittenOnce
<1>1. RolloutInv => ConfRewrittenOnce
  BY DEF RolloutInv, HostsInv, HostInv, Versions, ConfRewrittenOnce
<1> QED
  BY <1>1, RolloutInvariant, PTL

-----------------------------------------------------------------------------
(* Scripts that end with their connection.                                 *)

SwitchedAgent(h, a) ==
  /\ h.link[a] = "2.0"
  /\ FoundConf[a].format = "1.18" => h.conf[a].format = "2.0"

\* The directory of the tools in the first run, by the command that comes next.
DirAt(at) ==
  IF at \in {"scp", "copying", "test", "mkdir"} THEN "none"
  ELSE IF at = "tar" THEN "made"
  ELSE IF at = "jujuc" THEN "unpacked"
  ELSE "linked"

\* In a later run it may be there from the start.
DirKept(h, at) == at \notin {"scp", "copying", "test", "mkdir"} => h.dir # "none"

\* How far a script that does not only echo its commands has come: the agents
\* it has left behind are switched, and the one it is at is half-way there.
Progress(h, m, r, at, todo) ==
  LET a == Head(todo)
  IN  /\ \A x \in AgentSet(m) \ Range1(todo) : SwitchedAgent(h, x)
      /\ at = "ln" => h.link[a] = "none"
      /\ at \in {"head", "cp", "sed", "next"} => h.link[a] = "2.0"
      /\ at \in {"cp", "sed"} => h.conf[a].format = "1.18"
      /\ at = "sed" => h.old[a] = <<FoundConf[a]>>
      /\ at = "next" => (FoundConf[a].format = "1.18" => h.conf[a].format = "2.0")
      /\ r = 1 => h.dir = DirAt(at)
      /\ DirKept(h, at)

Stage(s) ==
  /\ Attached(s) /\ script[s].live = live
  /\ live => Progress(host[s[2]], s[2], run, script[s].at, script[s].todo)

MachineSwitched(m) ==
  /\ \A a \in AgentSet(m) : SwitchedAgent(host[m], a)
  /\ run = 1 => host[m].dir = "linked"
  /\ host[m].dir # "none"

BackupOf(m) ==
  \A a \in AgentSet(m) :
    host[m].conf[a] # FoundConf[a] => host[m].old[a] = <<FoundConf[a]>>

\* The inductive invariant of a rollout whose scripts do not detach.
AttachedInv ==
  /\ RolloutInv
  /\ \A s \in Sessions : script[s].at # "none" => Stage(s)
  /\ \A m \in Machines : BackupOf(m)
  /\ pc = "waiting" => exit = "running"
  /\ exit \in {"running", "ok", "error"} /\ live =>
       \A m \in Machines : Heard(m, "clean") => MachineSwitched(m)
  /\ run = 0 => \A m \in Machines : host[m].dir = "none"
  /\ ControllerUUID = "" => \A m \in Machines : calls[m] = "none"

LEMMA SameSession == \A s, t \in Sessions : s[1] = t[1] /\ s[2] = t[2] => s = t
  BY DEF Sessions

\* A script that has not ended is the only one on its machine, and nothing has
\* been heard from there.
LEMMA OneScript ==
  ASSUME AttachedInv, NEW s \in Sessions, script[s].at # "none" \/ Attached(s)
  PROVE  /\ script[s].at # "none" => Stage(s)
         /\ Attached(s) /\ pc = "waiting" /\ run # 0 /\ s[2] \in Machines
         /\ calls[s[2]] = "running" /\ ControllerUUID # ""
         /\ \A o : ~Heard(s[2], o)
         /\ \A t \in Sessions : t # s /\ script[t].at # "none" => t[2] # s[2]
<1>1. /\ script[s].at # "none" => Stage(s)
      /\ Attached(s) /\ pc = "waiting" /\ s[1] = run /\ calls[s[2]] = "running"
  BY DEF AttachedInv, Stage, Attached
<1>2. s[2] \in Machines /\ s[1] \in 1..MaxRuns /\ s = <<s[1], s[2]>>
  BY DEF Sessions
<1>3. \A o : ~Heard(s[2], o)
  BY <1>1, <1>2 DEF AttachedInv, RolloutInv, CallInv, Heard, Recorded
<1>4. ASSUME NEW t \in Sessions, script[t].at # "none", t[2] = s[2]
      PROVE  t = s
  <2>1. t[1] = run
    BY <1>4 DEF AttachedInv, Stage, Attached
  <2> QED
    BY <1>1, <1>4, <2>1, SameSession
<1>5. run # 0
  BY <1>1, <1>2
<1> QED
  BY <1>1, <1>2, <1>3, <1>4, <1>5 DEF AttachedInv

\* The other scripts do not notice.
LEMMA OthersStay ==
  ASSUME AttachedInv, NEW s \in Sessions, script[s].at # "none" \/ Attached(s), NEW r,
         script' = [script EXCEPT ![s] = r], Frame,
         \A n \in Machines : n # s[2] => host'[n] = host[n] /\ calls'[n] = calls[n],
         NEW t \in Sessions, t # s, script'[t].at # "none"
  PROVE  Stage(t)'
<1>1. script'[t] = script[t]
  BY DEF AttachedInv, RolloutInv
<1>2. Stage(t) /\ t[2] # s[2] /\ t[2] \in Machines
  BY <1>1, OneScript DEF AttachedInv, Sessions
<1>3. host'[t[2]] = host[t[2]] /\ calls'[t[2]] = calls[t[2]]
  BY <1>2
<1> QED
  BY <1>1, <1>2, <1>3 DEF Stage, Attached, Frame

\* A script goes on and answers nothing.
LEMMA GoesOn ==
  ASSUME AttachedInv, RolloutInv', NEW s \in Sessions, script[s].at # "none",
         NEW r, r.at # "none", script' = [script EXCEPT ![s] = r],
         UNCHANGED callVars, Frame,
         \A n \in Machines : n # s[2] => host'[n] = host[n],
         r.live = script[s].live, live => Progress(host'[s[2]], s[2], run, r.at, r.todo), BackupOf(s[2])'
  PROVE  AttachedInv'
<1>1. /\ Stage(s) /\ pc = "waiting" /\ s[2] \in Machines /\ run # 0
      /\ \A o : ~Heard(s[2], o)
  BY OneScript
<1>2. script'[s] = r
  BY DEF AttachedInv, RolloutInv
<1>3. \A n \in Machines : calls'[n] = calls[n] /\ (Heard(n, "clean")' <=> Heard(n, "clean"))
  BY DEF callVars, Heard
<1>4. Stage(s)'
  BY <1>1, <1>2, <1>3 DEF Stage, Attached, Frame
<1>5. \A t \in Sessions : script'[t].at # "none" => Stage(t)'
  BY <1>3, <1>4, OthersStay
<1>6. \A n \in Machines : BackupOf(n)'
  BY DEF AttachedInv, BackupOf
<1>7. \A n \in Machines : n # s[2] => (MachineSwitched(n)' <=> MachineSwitched(n))
  BY DEF MachineSwitched, Frame
<1>8. ControllerUUID' = ControllerUUID
  BY SetsStay DEF Frame
<1>9. exit' \in {"running", "ok", "error"} /\ live' =>
       \A m \in Machines : Heard(m, "clean")' => MachineSwitched(m)'
  BY <1>1, <1>3, <1>7 DEF AttachedInv, Frame
<1> QED
  BY <1>1, <1>3, <1>5, <1>6, <1>8, <1>9 DEF AttachedInv, Frame

\* A script ends; if it ends cleanly its machine is switched.
LEMMA EndsAttached ==
  ASSUME AttachedInv, NEW s \in Sessions, script[s].at # "none" \/ Attached(s),
         NEW o \in Outcomes, Ends(s, o), UNCHANGED host, Frame,
         o = "clean" /\ live => MachineSwitched(s[2])
  PROVE  AttachedInv'
<1>1. /\ Attached(s) /\ pc = "waiting" /\ s[2] \in Machines /\ run # 0
      /\ ControllerUUID # ""
  BY OneScript
<1>2. Answered(s[2], o) /\ script' = [script EXCEPT ![s] = NoScript]
  BY <1>1 DEF Ends
<1>3. RolloutInv'
  BY EndsInv DEF AttachedInv
<1>4. \A n \in Machines : n # s[2] => host'[n] = host[n] /\ calls'[n] = calls[n]
  BY <1>2 DEF Answered, AttachedInv, RolloutInv, CallInv, CallTypeOK
<1>5. script'[s].at = "none"
  BY <1>2 DEF NoScript, AttachedInv, RolloutInv
<1>6. \A t \in Sessions : script'[t].at # "none" => Stage(t)'
  BY <1>2, <1>4, <1>5, OthersStay
<1>7. \A n \in Machines : /\ MachineSwitched(n)' <=> MachineSwitched(n)
                          /\ BackupOf(n)' <=> BackupOf(n)
  BY DEF MachineSwitched, BackupOf, Frame
<1>8. \A n \in Machines : Heard(n, "clean")' => Heard(n, "clean") \/ (n = s[2] /\ o = "clean")
  BY <1>1, <1>2, AnsweredHeard DEF AttachedInv, RolloutInv
<1>9. ControllerUUID' = ControllerUUID
  BY SetsStay DEF Frame
<1>10. exit' \in {"running", "ok", "error"} /\ live' =>
        \A m \in Machines : Heard(m, "clean")' => MachineSwitched(m)'
  BY <1>7, <1>8 DEF AttachedInv, Frame
<1> QED
  BY <1>1, <1>3, <1>6, <1>7, <1>9, <1>10 DEF AttachedInv, Frame

\* A script goes on with the same agents.
LEMMA GotoAttached ==
  ASSUME AttachedInv, RolloutInv', NEW s \in Sessions, script[s].at # "none",
         NEW at \in Ats \ {"none"}, Goto(s, at), UNCHANGED callVars, Frame,
         \A n \in Machines : n # s[2] => host'[n] = host[n],
         live => Progress(host'[s[2]], s[2], run, at, script[s].todo), BackupOf(s[2])'
  PROVE  AttachedInv'
<1> DEFINE r == [script[s] EXCEPT !.at = at]
<1>1. script' = [script EXCEPT ![s] = r]
  BY ScriptGoesOn DEF AttachedInv
<1>2. r.at = at /\ r.todo = script[s].todo /\ r.live = script[s].live
  BY DEF AttachedInv, RolloutInv, ScriptSet
<1> HIDE DEF r
<1>3. r.at # "none" /\ (live => Progress(host'[s[2]], s[2], run, r.at, r.todo))
  BY <1>2
<1> QED
  BY <1>1, <1>2, <1>3, GoesOn

\* The parts of a machine that the progress is about.
LEMMA ProgressOf ==
  ASSUME NEW m, NEW h, NEW g, NEW r, NEW at, NEW next, NEW todo,
         g.link = h.link, g.conf = h.conf, g.old = h.old, g.dir = h.dir,
         \/ next \in {"copying", "test", "mkdir"}
         \/ next = "rm" /\ h.dir # "none" /\ (r = 1 => h.dir = "linked"),
         at \in {"scp", "copying", "test"},
         Progress(h, m, r, at, todo)
  PROVE  Progress(g, m, r, next, todo)
  BY DEF Progress, SwitchedAgent, DirAt, DirKept

LEMMA CopyAttached ==
  ASSUME AttachedInv, NEW s \in Sessions, Copy(s), Frame
  PROVE  AttachedInv'
<1> DEFINE m == s[2]
<1>1. script[s].at \in {"scp", "copying"} /\ script[s].at # "none" /\ m \in Machines
  BY DEF Copy, Sessions
<1>2. PICK at \in {"copying", "test"} : Goto(s, at)
  BY DEF Copy
<1>3. /\ \A n \in Machines : n # m => host'[n] = host[n]
      /\ host'[m].link = host[m].link /\ host'[m].conf = host[m].conf
      /\ host'[m].old = host[m].old /\ host'[m].dir = host[m].dir
  <2>1. host[m] \in HostSet(m) /\ host = [n \in Machines |-> host[n]]
    BY <1>1 DEF AttachedInv, RolloutInv, HostsInv, HostInv
  <2> QED
    BY <1>1, <2>1 DEF Copy, HostSet
<1>4. live => Progress(host[m], m, run, script[s].at, script[s].todo)
  BY <1>1, OneScript DEF Stage
<1>5. live => Progress(host'[m], m, run, at, script[s].todo)
  BY <1>1, <1>2, <1>3, <1>4, ProgressOf
<1>6. BackupOf(m)'
  BY <1>1, <1>3 DEF AttachedInv, BackupOf
<1>7. RolloutInv' /\ UNCHANGED callVars
  BY CopyInv DEF AttachedInv, Copy
<1>8. at \in Ats \ {"none"}
  BY DEF Ats
<1> QED
  BY <1>1, <1>2, <1>3, <1>5, <1>6, <1>7, <1>8, GotoAttached

\* In the first run the directory is not there.
LEMMA TestAttached ==
  ASSUME AttachedInv, NEW s \in Sessions, Test(s), Frame
  PROVE  AttachedInv'
<1> DEFINE m == s[2]
<1>1. script[s].at = "test" /\ m \in Machines /\ UNCHANGED <<callVars, host>>
  BY DEF Test, Sessions
<1>2. PICK at \in {"mkdir", "rm"} : Goto(s, at) /\ (at = "rm" => host[m].dir # "none")
  BY DEF Test
<1>3. live => Progress(host[m], m, run, "test", script[s].todo)
  BY <1>1, OneScript DEF Stage
<1>4. live => Progress(host'[m], m, run, at, script[s].todo)
  <2>1. live /\ at = "rm" => run # 1
    BY <1>2, <1>3 DEF Progress, DirAt
  <2> QED
    BY <1>1, <1>2, <1>3, <2>1, ProgressOf
<1>5. BackupOf(m)'
  BY <1>1 DEF AttachedInv, BackupOf
<1>6. RolloutInv'
  BY TestInv DEF AttachedInv
<1>7. at \in Ats \ {"none"}
  BY DEF Ats, DoOps
<1> QED
  BY <1>1, <1>2, <1>4, <1>5, <1>6, <1>7, GotoAttached

\* A file of another format than 1.18 has been rewritten or is to be left.
LEMMA ReadFormatAttached ==
  ASSUME AttachedInv, NEW s \in Sessions, ReadFormat(s), Frame
  PROVE  AttachedInv'
<1> DEFINE m == s[2]
           a == Head(script[s].todo)
<1>1. script[s].at = "head" /\ m \in Machines /\ UNCHANGED <<callVars, host>>
  BY DEF ReadFormat, Sessions
<1>2. PICK at \in {"cp", "next"} :
         Goto(s, at) /\ (at = "cp" <=> host[m].conf[a].format = "1.18")
  BY DEF ReadFormat
<1>3. live => Progress(host[m], m, run, "head", script[s].todo)
  BY <1>1, OneScript DEF Stage
<1>4. a \in AgentSet(m) /\ host[m].conf[a] \in Versions(a)
  <2>1. a \in AgentSet(m)
    BY <1>1, ScriptGoesOn, HeadAndTail DEF AttachedInv, Ats
  <2> QED
    BY <1>1, <2>1 DEF AttachedInv, RolloutInv, HostsInv, HostInv
<1>5. at = "next" /\ FoundConf[a].format = "1.18" => host[m].conf[a].format = "2.0"
  BY <1>2, <1>4, SedFormat DEF Versions
<1>6. live => Progress(host'[m], m, run, at, script[s].todo)
  BY <1>1, <1>2, <1>3, <1>5 DEF Progress, DirAt, DirKept
<1>7. BackupOf(m)'
  BY <1>1 DEF AttachedInv, BackupOf
<1>8. RolloutInv'
  BY TestInv DEF AttachedInv
<1>9. at \in Ats \ {"none"}
  BY DEF Ats, DoOps
<1> QED
  BY <1>1, <1>2, <1>6, <1>7, <1>8, <1>9, GotoAttached

\* A file of format 1.18 is as it was found.
LEMMA NotRewritten ==
  ASSUME NEW a, NEW c \in Versions(a), c.format = "1.18"
  PROVE  c = FoundConf[a]
  BY SedFormat DEF Versions

\* One command of the script: what it does to the agent it is at.
LEMMA DoOpProgress ==
  ASSUME NEW m \in Machines, NEW h \in HostSet(m), NEW todo \in Seq(AgentSet(m)),
         todo # <<>>, NEW at \in DoOps, NEW r,
         \A x \in AgentSet(m) : h.conf[x] \in Versions(x),
         \A x \in AgentSet(m) : h.conf[x] # FoundConf[x] => h.old[x] = <<FoundConf[x]>>,
         Works(at, h, Head(todo)), Progress(h, m, r, at, todo)
  PROVE  LET e == Effect(at, h, Head(todo), ControllerUUID)
         IN  /\ Progress(e, m, r, After(at), todo)
             /\ \A x \in AgentSet(m) : e.conf[x] # FoundConf[x] => e.old[x] = <<FoundConf[x]>>
<1> DEFINE a == Head(todo)
           e == Effect(at, h, a, ControllerUUID)
<1>1. a \in AgentSet(m) /\ a \in Range1(todo)
  BY HeadAndTail
<1>2. /\ e.dir = CASE at = "mkdir" -> IF h.dir = "none" THEN "made" ELSE h.dir
                   [] at = "tar"   -> IF h.dir = "made" THEN "unpacked" ELSE h.dir
                   [] at = "jujuc" -> "linked"
                   [] OTHER        -> h.dir
      /\ \A x \in AgentSet(m) :
           /\ e.link[x] = IF x = a /\ at = "rm" THEN "none"
                          ELSE IF x = a /\ at = "ln" /\ h.link[a] = "none" THEN "2.0"
                          ELSE h.link[x]
           /\ e.conf[x] = IF x = a /\ at = "sed" THEN Sed(h.conf[a], ControllerUUID)
                          ELSE h.conf[x]
           /\ e.old[x] = IF x = a /\ at = "cp" THEN <<h.conf[a]>> ELSE h.old[x]
  BY <1>1, EffectOf
<1> HIDE DEF a, e
<1>3. /\ \A x \in AgentSet(m) \ Range1(todo) : SwitchedAgent(h, x)
      /\ at = "ln" => h.link[a] = "none"
      /\ at \in {"cp", "sed"} => h.link[a] = "2.0" /\ h.conf[a].format = "1.18"
      /\ at = "sed" => h.old[a] = <<FoundConf[a]>>
      /\ r = 1 => h.dir = DirAt(at)
      /\ DirKept(h, at)
  BY DEF Progress, a
<1>4. at \in {"cp", "sed"} => h.conf[a] = FoundConf[a]
  BY <1>1, <1>3, NotRewritten
<1>5. \A x \in AgentSet(m) \ Range1(todo) : SwitchedAgent(e, x)
  BY <1>1, <1>2, <1>3 DEF SwitchedAgent
<1>6. After(at) = "ln" => e.link[a] = "none"
  BY <1>1, <1>2 DEF After, DoOps
<1>7. After(at) \in {"head", "cp", "sed", "next"} => e.link[a] = "2.0"
  BY <1>1, <1>2, <1>3 DEF After, DoOps
<1>8. After(at) \in {"cp", "sed"} => e.conf[a].format = "1.18"
  BY <1>1, <1>2, <1>3 DEF After, DoOps
<1>9. After(at) = "sed" => e.old[a] = <<FoundConf[a]>>
  BY <1>1, <1>2, <1>4 DEF After, DoOps
<1>10. After(at) = "next" => (FoundConf[a].format = "1.18" => e.conf[a].format = "2.0")
  BY <1>1, <1>2, <1>3, SedFormat DEF After, DoOps
<1>11. r = 1 => e.dir = DirAt(After(at))
  BY <1>2, <1>3 DEF After, DoOps, DirAt
<1>12. DirKept(e, After(at))
  BY <1>2, <1>3 DEF After, DoOps, DirKept
<1>13. Progress(e, m, r, After(at), todo)
  BY <1>5, <1>6, <1>7, <1>8, <1>9, <1>10, <1>11, <1>12 DEF Progress, a
<1>14. ASSUME NEW x \in AgentSet(m), e.conf[x] # FoundConf[x]
       PROVE  e.old[x] = <<FoundConf[x]>>
  BY <1>1, <1>2, <1>3, <1>4, <1>14
<1> QED
  BY <1>13, <1>14 DEF e, a

LEMMA DoOpAttached ==
  ASSUME AttachedInv, NEW s \in Sessions, DoOp(s), Frame
  PROVE  AttachedInv'
<1> DEFINE m == s[2]
           a == Head(script[s].todo)
           at == script[s].at
<1>1. /\ at \in DoOps /\ at # "none" /\ m \in Machines /\ Goto(s, After(at))
      /\ UNCHANGED callVars /\ After(at) \in Ats \ {"none"}
  BY DEF DoOp, DoOps, After, Ats, Sessions
<1>2. RolloutInv'
  BY DoOpInv DEF AttachedInv
<1>3. Stage(s) /\ BackupOf(m)
  BY <1>1, OneScript DEF AttachedInv
<1>4. CASE ~script[s].live
  <2>1. UNCHANGED host /\ ~live
    BY <1>3, <1>4 DEF DoOp, Stage
  <2>2. BackupOf(m)'
    BY <1>3, <2>1 DEF BackupOf
  <2> QED
    BY <1>1, <1>2, <2>1, <2>2, GotoAttached
<1>5. CASE script[s].live
  <2> DEFINE e == Effect(at, host[m], a, ControllerUUID)
  <2>1. /\ Works(at, host[m], a)
        /\ host' = [n \in Machines |-> IF n = m THEN e ELSE host[n]]
    BY <1>5, DoOpEffect DEF AttachedInv
  <2>2. host[m] \in HostSet(m) /\ \A x \in AgentSet(m) : host[m].conf[x] \in Versions(x)
    BY <1>1 DEF AttachedInv, RolloutInv, HostsInv, HostInv
  <2>3. script[s].todo \in Seq(AgentSet(m)) /\ script[s].todo # <<>>
    BY <1>1, ScriptGoesOn DEF AttachedInv
  <2>4. Progress(host[m], m, run, at, script[s].todo)
    BY <1>3, <1>5 DEF Stage
  <2>5. \A x \in AgentSet(m) :
          host[m].conf[x] # FoundConf[x] => host[m].old[x] = <<FoundConf[x]>>
    BY <1>3 DEF BackupOf
  <2>6. /\ Progress(e, m, run, After(at), script[s].todo)
        /\ \A x \in AgentSet(m) : e.conf[x] # FoundConf[x] => e.old[x] = <<FoundConf[x]>>
    BY <1>1, <2>1, <2>2, <2>3, <2>4, <2>5, DoOpProgress
  <2> HIDE DEF e
  <2>7. host'[m] = e /\ \A n \in Machines : n # m => host'[n] = host[n]
    BY <1>1, <2>1
  <2>8. BackupOf(m)'
    BY <2>6, <2>7 DEF BackupOf
  <2> QED
    BY <1>1, <1>2, <2>6, <2>7, <2>8, GotoAttached
<1>6. script[s].live \in BOOLEAN
  BY <1>1, ScriptGoesOn DEF AttachedInv, Ats
<1> QED
  BY <1>4, <1>5, <1>6

LEMMA NextAgentAttached ==
  ASSUME AttachedInv, NEW s \in Sessions, NextAgent(s), Frame
  PROVE  AttachedInv'
<1> DEFINE m == s[2]
           todo == script[s].todo
<1>1. script[s].at = "next" /\ m \in Machines /\ UNCHANGED host
  BY DEF NextAgent, Sessions
<1>2. /\ todo \in Seq(AgentSet(m)) /\ todo # <<>> /\ script[s].live = live
      /\ live => Progress(host[m], m, run, "next", todo)
  BY <1>1, OneScript, ScriptGoesOn DEF AttachedInv, Stage, Ats
<1>3. live => SwitchedAgent(host[m], Head(todo))
  BY <1>2 DEF Progress, SwitchedAgent
<1>4. CASE Len(todo) = 1
  <2>1. Ends(s, "clean")
    BY <1>4 DEF NextAgent
  <2>2. live => MachineSwitched(m)
    <3>1. Range1(todo) = {Head(todo)}
      BY <1>2, <1>4, HeadAndTail
    <3>2. live => \A a \in AgentSet(m) \ Range1(todo) : SwitchedAgent(host[m], a)
      BY <1>2 DEF Progress
    <3>3. live => host[m].dir # "none" /\ (run = 1 => host[m].dir = "linked")
      BY <1>2 DEF Progress, DirAt, DirKept
    <3> QED
      BY <1>3, <3>1, <3>2, <3>3 DEF MachineSwitched
  <2> QED
    BY <1>1, <2>1, <2>2, EndsAttached DEF Outcomes
<1>5. CASE Len(todo) # 1
  <2> DEFINE r == [script[s] EXCEPT !.at = "rm", !.todo = Tail(script[s].todo)]
  <2>1. script' = [script EXCEPT ![s] = r] /\ UNCHANGED callVars
    BY <1>5 DEF NextAgent
  <2>2. r.at = "rm" /\ r.todo = Tail(todo) /\ r.live = script[s].live
    BY DEF AttachedInv, RolloutInv, ScriptSet
  <2>3. live => Progress(host[m], m, run, "rm", Tail(todo))
    <3>1. Range1(todo) = {Head(todo)} \cup Range1(Tail(todo))
      BY <1>2, HeadAndTail
    <3>2. live => \A a \in AgentSet(m) \ Range1(Tail(todo)) : SwitchedAgent(host[m], a)
      BY <1>2, <1>3, <3>1 DEF Progress
    <3> QED
      BY <1>2, <3>2 DEF Progress, DirAt, DirKept
  <2>4. BackupOf(m)'
    BY <1>1 DEF AttachedInv, BackupOf
  <2>5. RolloutInv'
    BY NextAgentInv DEF AttachedInv
  <2> HIDE DEF r
  <2>6. r.at # "none" /\ (live => Progress(host'[m], m, run, r.at, r.todo))
    BY <1>1, <2>2, <2>3
  <2> QED
    BY <1>1, <1>2, <2>1, <2>2, <2>4, <2>5, <2>6, GoesOn
<1> QED
  BY <1>4, <1>5

LEMMA ScriptStepAttached ==
  ASSUME AttachedInv, NEW s \in Sessions, ScriptStep(s) \/ ScriptFails(s), Frame
  PROVE  AttachedInv'
<1>1. CASE CopyFails(s) \/ DoOpFails(s)
  <2>1. script[s].at # "none" /\ UNCHANGED host /\ (Ends(s, "error") \/ Ends(s, "code"))
    BY <1>1 DEF CopyFails, DoOpFails, DoOps
  <2> QED
    BY <2>1, EndsAttached DEF Outcomes
<1> QED
  BY <1>1, CopyAttached, TestAttached, DoOpAttached, ReadFormatAttached, NextAgentAttached
  DEF ScriptStep, ScriptFails

\* A lost connection is the end of the script here.
LEMMA LoseConnectionAttached ==
  ASSUME Detaching = {}, AttachedInv, NEW s \in Sessions, LoseConnection(s), Frame
  PROVE  AttachedInv'
<1>1. PICK o \in {"code", "error"} : Answered(s[2], o)
  BY DEF LoseConnection
<1>2. Ends(s, o) /\ UNCHANGED host
  BY <1>1 DEF LoseConnection, Ends, Survivors
<1> QED
  BY <1>2, EndsAttached DEF LoseConnection, Outcomes

\* There are no scripts that nobody waits for.
LEMMA NoneDetached ==
  ASSUME AttachedInv, NEW s \in Sessions, Die(s)
  PROVE  FALSE
  BY DEF AttachedInv, Die, Unfinished, Stage

LEMMA GoroutineAttached ==
  ASSUME AttachedInv, NEW m \in Machines, Goroutine(m), UNCHANGED <<host, script>>, Frame
  PROVE  AttachedInv'
<1>1. RolloutInv' /\ CallInv
  BY GoroutineStepInv DEF AttachedInv, RolloutInv
<1>2. \A n \in Machines : /\ calls'[n] = "running" <=> calls[n] = "running"
                          /\ calls'[n] = "none" <=> calls[n] = "none"
                          /\ Heard(n, "clean")' => Heard(n, "clean")
  BY <1>1, GoroutineHeard
<1>3. ASSUME NEW s \in Sessions, script'[s].at # "none"
      PROVE  Stage(s)'
  <2>1. Stage(s) /\ s[2] \in Machines
    BY <1>3 DEF AttachedInv, Sessions
  <2> QED
    BY <1>2, <2>1 DEF Stage, Attached, Frame
<1>4. \A n \in Machines : /\ MachineSwitched(n)' <=> MachineSwitched(n)
                          /\ BackupOf(n)' <=> BackupOf(n)
  BY DEF MachineSwitched, BackupOf, Frame
<1>5. ControllerUUID' = ControllerUUID
  BY SetsStay DEF Frame
<1> QED
  BY <1>1, <1>2, <1>3, <1>4, <1>5 DEF AttachedInv, Frame

\* No script is left when nobody waits.
LEMMA IdleNoScript ==
  ASSUME AttachedInv, pc = "idle" \/ AllDone, NEW s \in Sessions
  PROVE  script[s].at = "none"
<1>1. CASE pc = "idle"
  BY <1>1 DEF AttachedInv, Stage, Attached
<1>2. CASE AllDone
  <2>1. Busy = {}
    BY <1>2, NoneBusy DEF AttachedInv, RolloutInv
  <2>2. calls[s[2]] # "running"
    BY <2>1 DEF Busy, Sessions
  <2> QED
    BY <2>2 DEF AttachedInv, Stage, Attached
<1> QED
  BY <1>1, <1>2

\* Nobody has been called, so nobody has answered.
LEMMA NotCalledNotHeard ==
  ASSUME CallInv, NEW m \in Machines, calls[m] = "none", NEW o
  PROVE  ~Heard(m, o)
  BY DEF CallInv, Heard, Recorded

LEMMA RefuseAttached ==
  ASSUME AttachedInv, NEW forReal \in BOOLEAN, Refuse(forReal), UNCHANGED models
  PROVE  AttachedInv'
<1>1. RolloutInv' /\ UNCHANGED <<callVars, host, script, pc>> /\ pc = "idle"
  BY RefuseInv DEF AttachedInv, Refuse, Begin
<1>2. \A s \in Sessions : script'[s].at = "none"
  BY <1>1, IdleNoScript
<1>3. \A n \in Machines : calls'[n] = "none" /\ calls[n] = "none"
  BY <1>1 DEF AttachedInv, Refuse, callVars
<1>4. \A n \in Machines : ~Heard(n, "clean")'
  <2>1. \A n \in Machines : ~Heard(n, "clean")
    BY <1>3, NotCalledNotHeard DEF AttachedInv, RolloutInv
  <2> QED
    BY <1>1, <2>1 DEF Heard, callVars
<1>5. \A n \in Machines : BackupOf(n)'
  BY <1>1 DEF AttachedInv, BackupOf
<1>6. run' # 0
  <2>1. run \in Nat /\ run' = run + 1
    BY RunType DEF AttachedInv, Refuse, Begin
  <2> QED
    BY <2>1
<1> QED
  BY <1>1, <1>2, <1>3, <1>4, <1>5, <1>6 DEF AttachedInv

LEMMA StartAttached ==
  ASSUME AttachedInv, NEW forReal \in BOOLEAN, NEW addresses, Start(forReal, addresses),
         UNCHANGED models
  PROVE  AttachedInv'
<1>1. RolloutInv' /\ UNCHANGED host /\ pc = "idle" /\ pc' = "waiting" /\ exit' = "running"
  BY StartInv DEF AttachedInv, Start, Begin
<1>2. live' = forReal /\ run' = run + 1 /\ run \in Nat
  BY RunType DEF Start, Begin, AttachedInv
<1>3. ASSUME NEW s \in Sessions, script'[s].at # "none"
      PROVE  Stage(s)'
  <2>1. script[s].at = "none"
    BY <1>1, IdleNoScript
  <2>2. /\ s[1] = run + 1 /\ s[2] \in Chosen(addresses)
        /\ script'[s] = [at |-> "scp", todo |-> AgentsOn[s[2]], live |-> forReal,
                         tag |-> ControllerUUID]
    BY <1>3, <2>1 DEF Start
  <2>3. s[2] \in Machines /\ calls'[s[2]] = "running"
    BY <2>2 DEF Start, Spawn, Sessions
  <2>4. Attached(s)' /\ script'[s].live = live'
    BY <1>1, <1>2, <2>2, <2>3 DEF Attached
  <2>5. Progress(host[s[2]], s[2], run', "scp", AgentsOn[s[2]])
    <3>1. AgentSet(s[2]) \ Range1(AgentsOn[s[2]]) = {}
      BY <2>3, AgentsType
    <3>2. run' = 1 => host[s[2]].dir = "none"
      <4>1. run' = 1 => run = 0
        BY <1>2
      <4> QED
        BY <2>3, <4>1 DEF AttachedInv
    <3> QED
      BY <3>1, <3>2 DEF Progress, DirAt, DirKept
  <2>6. Progress(host'[s[2]], s[2], run', script'[s].at, script'[s].todo)
    BY <1>1, <2>2, <2>5
  <2> QED
    BY <2>4, <2>6 DEF Stage
<1>4. \A n \in Machines : ~Heard(n, "clean")'
  BY SpawnHeard DEF Start
<1>5. \A n \in Machines : BackupOf(n)'
  BY <1>1 DEF AttachedInv, BackupOf
<1>6. run' # 0
  BY <1>2
<1>7. ControllerUUID' # ""
  BY SetsStay DEF Start
<1> QED
  BY <1>1, <1>3, <1>4, <1>5, <1>6, <1>7 DEF AttachedInv

LEMMA FinishAttached ==
  ASSUME AttachedInv, Finish, UNCHANGED models
  PROVE  AttachedInv'
<1>1. RolloutInv' /\ UNCHANGED <<callVars, host, script, run, live>> /\ pc' = "idle"
  BY FinishInv DEF AttachedInv, Finish
<1>2. \A s \in Sessions : script'[s].at = "none"
  BY <1>1, IdleNoScript DEF Finish
<1>3. \A n \in Machines : /\ MachineSwitched(n)' <=> MachineSwitched(n)
                          /\ BackupOf(n)' <=> BackupOf(n)
                          /\ Heard(n, "clean")' <=> Heard(n, "clean")
                          /\ calls'[n] = calls[n]
  BY <1>1 DEF MachineSwitched, BackupOf, Heard, callVars
<1>4. exit = "running"
  BY DEF AttachedInv, Finish
<1>5. ControllerUUID' = ControllerUUID
  BY SetsStay
<1> QED
  BY <1>1, <1>2, <1>3, <1>4, <1>5 DEF AttachedInv

LEMMA CrashAttached ==
  ASSUME Detaching = {}, AttachedInv, Crash, UNCHANGED models
  PROVE  AttachedInv'
<1>1. RolloutInv' /\ UNCHANGED <<host, run, live>> /\ pc' = "idle" /\ exit' = "failed"
  BY CrashInv DEF AttachedInv, Crash
<1>2. ASSUME NEW s \in Sessions PROVE script'[s].at = "none"
  <2>1. script'[s] = IF Attached(s) THEN NoScript ELSE script[s]
    <3>1. Survivors = {}
      BY DEF Survivors
    <3> QED
      BY <3>1 DEF Crash
  <2>2. ~Attached(s) => script[s].at = "none"
    BY DEF AttachedInv, Stage
  <2>3. NoScript.at = "none"
    BY DEF NoScript
  <2>4. CASE Attached(s)
    BY <2>1, <2>3, <2>4
  <2>5. CASE ~Attached(s)
    BY <2>1, <2>2, <2>5
  <2> QED
    BY <2>4, <2>5
<1>3. \A n \in Machines : BackupOf(n)' /\ calls'[n] = "none"
  BY <1>1 DEF AttachedInv, BackupOf, Crash, Abandoned
<1> QED
  BY <1>1, <1>2, <1>3 DEF AttachedInv

LEMMA StutterAttached ==
  ASSUME AttachedInv, UNCHANGED vars
  PROVE  AttachedInv'
<1> USE DEF vars, rolloutVars
<1>1. RolloutInv'
  BY StutterInv DEF AttachedInv
<1>2. \A s \in Sessions : Stage(s)' <=> Stage(s)
  BY DEF Stage, Attached, callVars
<1>3. \A n \in Machines : /\ MachineSwitched(n)' <=> MachineSwitched(n)
                          /\ BackupOf(n)' <=> BackupOf(n)
                          /\ Heard(n, "clean")' <=> Heard(n, "clean")
                          /\ calls'[n] = calls[n]
  BY DEF MachineSwitched, BackupOf, Heard, callVars
<1>4. ControllerUUID' = ControllerUUID
  BY SetsStay
<1> QED
  BY <1>1, <1>2, <1>3, <1>4 DEF AttachedInv

LEMMA InitAttached == Init => AttachedInv
<1> SUFFICES ASSUME Init PROVE AttachedInv
  OBVIOUS
<1>1. RolloutInv
  BY InitInv
<1> USE DEF Init, RolloutInit
<1>2. \A s \in Sessions : script[s].at = "none"
  BY DEF NoScript
<1>3. \A m \in Machines : BackupOf(m) /\ host[m].dir = "none" /\ calls[m] = "none"
  BY DEF BackupOf, FoundHost, CallInit
<1> QED
  BY <1>1, <1>2, <1>3 DEF AttachedInv

LEMMA NextAttached == Detaching = {} /\ AttachedInv /\ [Next]_vars => AttachedInv'
  BY Steps, RefuseAttached, StartAttached, GoroutineAttached, ScriptStepAttached,
     LoseConnectionAttached, NoneDetached, FinishAttached, CrashAttached, StutterAttached

LEMMA AttachedInvariant ==
  ASSUME Detaching = {}
  PROVE  Spec => []AttachedInv
  BY InitAttached, NextAttached, PTL DEF Spec

LEMMA AttachedClean == AttachedInv => CleanMeansSwitched
<1> SUFFICES ASSUME AttachedInv, exit \in {"ok", "error"}, live, NEW m \in Called,
                    OutcomesOf(m) = {"clean"}
             PROVE  MachineSwitched(m) /\ host[m].dir \in Dirs
  BY DEF CleanMeansSwitched, MachineSwitched, Switched, SwitchedAgent, Dirs
<1>1. m \in Machines
  BY DEF Called
<1>2. <<m, "clean">> \in results
  <2>1. PICK r \in results : r[1] = m /\ r[2] = "clean"
    BY DEF OutcomesOf
  <2>2. r \in Machines \X Outcomes
    BY DEF AttachedInv, RolloutInv, CallInv, CallTypeOK
  <2> QED
    BY <2>1, <2>2
<1>3. host[m].dir \in Dirs
  BY <1>1 DEF AttachedInv, RolloutInv, HostsInv, HostInv, HostSet
<1> QED
  BY <1>1, <1>2, <1>3 DEF AttachedInv, Heard

\* What a clean answer of a live command tells, where scripts end with their
\* connection: the link of every agent of that machine leads to the directory
\* of the new tools, and its agent.conf is rewritten if it is of format 1.18,
\* whatever earlier scripts left behind; the tools are in the directory if this
\* is the first command, and else the directory is there, no more
\* (upgradeagents.go:156-217).
THEOREM CleanIsSwitched ==
  ASSUME Detaching = {}
  PROVE  Spec => []CleanMeansSwitched
  BY AttachedClean, AttachedInvariant, PTL

\* However often the command is given, the backup of agent.conf is the file of
\* beta 7 (upgradeagents.go:208-211).
THEOREM BackupsKept ==
  ASSUME Detaching = {}
  PROVE  Spec => []BackupKept
<1>1. AttachedInv => BackupKept
  BY DEF AttachedInv, BackupOf, BackupKept
<1> QED
  BY <1>1, AttachedInvariant, PTL
=============================================================================
