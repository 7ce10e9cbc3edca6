---------------------------- MODULE AgentRollout ----------------------------
(***************************************************************************)
(* upgrade-agents (upgradeagents.go): the 2.0 tools are copied to every    *)
(* machine, and a shell script unpacks them, points the symlink of every   *)
(* agent to them and rewrites its agent.conf. The script runs under        *)
(* set -e: the first command that fails ends it. Connections are lost,     *)
(* scripts are killed between any two commands or go on without their      *)
(* connection, and the operator gives the command again.                   *)
(***************************************************************************)
EXTENDS ParallelCall, Sequences

CONSTANTS
  AgentsOn,    \* the agents of each machine in the order of the shell's glob
  FoundConf,   \* the agent.conf of each of them before anything is done
  FoundModels, \* the controller UUIDs that upgrade-db may have left, see models
  Detaching,   \* the machines where a script may outlive its connection
  MaxRuns      \* bound on the number of commands the operator gives

\* The names of the agents, unique in the whole.
Agents == UNION {{AgentsOn[m][i] : i \in 1..Len(AgentsOn[m])} : m \in Machines}

AgentSet(m) == {AgentsOn[m][i] : i \in 1..Len(AgentsOn[m])}

\* A machine has at least its machine agent, and no agent of 2.0 yet. verify-db
\* has been run, which refuses machines without an address.
ASSUME AgentsAssumption ==
  /\ NoAddressMissing
  /\ AgentsOn \in [Machines -> Seq(Agents)]
  /\ \A m \in Machines : AgentsOn[m] # <<>>
  /\ \A m \in Machines : \A a \in AgentSet(m) :
       FoundConf[a].format # "2.0" /\ FoundConf[a].controller = <<>>
  /\ \A uuids \in FoundModels : uuids # <<>>
  /\ Detaching \subseteq Machines
  /\ MaxRuns \in Nat

VARIABLES
  host,     \* the disk of each machine
  script,   \* the script of each run on each machine
  models,   \* the controller UUIDs of the model documents, in their order
  pc,       \* "idle" between two commands, or "waiting" in wg.Wait
  run,      \* the number of the last command
  live,     \* its --live flag
  exit      \* how it ended

rolloutVars == <<callVars, host, script, pc, run, live, exit>>
vars == <<rolloutVars, models>>

Sessions == (1..MaxRuns) \X Machines

-----------------------------------------------------------------------------
(* The disk of a machine.                                                  *)

\* The tools of 2.0 in their directory: none, the directory made, the tarball
\* unpacked in it, and with the symlinks of the jujuc commands. "partial" is a
\* tarball that is only partly there.
Dirs == {"none", "made", "unpacked", "linked"}
Tarballs == {"none", "partial", "whole"}
Links == {"2.0-beta7", "none", "2.0"}

FoundHost(m) ==
  [tarball |-> "none",
   dir     |-> "none",
   link    |-> [a \in AgentSet(m) |-> "2.0-beta7"],
   conf    |-> [a \in AgentSet(m) |-> FoundConf[a]],
   old     |-> [a \in AgentSet(m) |-> <<>>]]

\* A mistake: the tag is added whatever the version.
SedAnyVersion(conf, tag) ==
  [format     |-> IF conf.format = "1.18" THEN "2.0" ELSE conf.format,
   upgradedTo |-> "2.0-rc1",
   build      |-> conf.build,
   controller |-> conf.controller \o <<tag>>]

\* sed replaces the format, and where it finds the version of beta 7 it puts
\* the new one and a line with the tag of the controller. What follows the
\* version on its line, as the build number of a locally built agent does,
\* ends up behind the tag; the parts of the line are a sequence.
Sed(conf, tag) ==
  LET beta7 == conf.upgradedTo = "2.0-beta7"
  IN  [format     |-> IF conf.format = "1.18" THEN "2.0" ELSE conf.format,
       upgradedTo |-> IF beta7 THEN "2.0-rc1" ELSE conf.upgradedTo,
       build      |-> IF beta7 THEN <<>> ELSE conf.build,
       controller |-> IF beta7 THEN <<tag>> \o conf.build ELSE conf.controller]

-----------------------------------------------------------------------------
(* The script.                                                             *)

NoScript == [at |-> "none", todo |-> <<>>, live |-> FALSE, tag |-> ""]

\* A mistake: the new link is made before the old one is removed.
AfterLinkFirst(at) ==
  CASE at = "mkdir" -> "tar"
    [] at = "tar"   -> "jujuc"
    [] at = "jujuc" -> "ln"
    [] at = "ln"    -> "rm"
    [] at = "rm"    -> "head"
    [] at = "cp"    -> "sed"
    [] at = "sed"   -> "next"

\* The command that follows the one given; "test" and "head" are conditions.
After(at) ==
  CASE at = "mkdir" -> "tar"
    [] at = "tar"   -> "jujuc"
    [] at = "jujuc" -> "rm"
    [] at = "rm"    -> "ln"
    [] at = "ln"    -> "head"
    [] at = "cp"    -> "sed"
    [] at = "sed"   -> "next"

\* The commands that a dry run echoes instead.
DoOps == {"mkdir", "tar", "jujuc", "rm", "ln", "cp", "sed"}

\* Whether a command can succeed on h, for agent a: tar needs the tarball, rm
\* its file, and the symlinks of jujuc must not be there.
Works(at, h, a) ==
  CASE at = "tar"   -> h.tarball = "whole"
    [] at = "jujuc" -> h.dir # "linked"
    [] at = "rm"    -> h.link[a] # "none"
    [] OTHER        -> TRUE

\* ln makes its symlink inside the directory that one of that name points to.
Effect(at, h, a, tag) ==
  CASE at = "mkdir" -> [h EXCEPT !.dir = IF @ = "none" THEN "made" ELSE @]
    [] at = "tar"   -> [h EXCEPT !.dir = IF @ = "made" THEN "unpacked" ELSE @]
    [] at = "jujuc" -> [h EXCEPT !.dir = "linked"]
    [] at = "rm"    -> [h EXCEPT !.link[a] = "none"]
    [] at = "ln"    -> [h EXCEPT !.link[a] = IF @ = "none" THEN "2.0" ELSE @]
    [] at = "cp"    -> [h EXCEPT !.old[a] = <<h.conf[a]>>]
    [] at = "sed"   -> [h EXCEPT !.conf[a] = Sed(@, tag)]

Goto(s, at) == script' = [script EXCEPT ![s].at = at]

\* The goroutine of the running command still waits for this script.
Attached(s) == pc = "waiting" /\ s[1] = run /\ calls[s[2]] = "running"

Unfinished == {s \in Sessions : script[s].at # "none"}

\* The script is over; its outcome is lost if nobody waits for it any more.
Ends(s, outcome) ==
  /\ script' = [script EXCEPT ![s] = NoScript]
  /\ IF Attached(s) THEN Answered(s[2], outcome) ELSE UNCHANGED callVars

\* scp truncates the file before it fills it.
Copy(s) ==
  /\ script[s].at \in {"scp", "copying"}
  /\ LET m == s[2] IN
     IF script[s].live
     THEN /\ host' = [host EXCEPT ![m].tarball =
                        IF script[s].at = "scp" THEN "partial" ELSE "whole"]
          /\ Goto(s, IF script[s].at = "scp" THEN "copying" ELSE "test")
     ELSE Goto(s, "test") /\ UNCHANGED host
  /\ UNCHANGED callVars

\* ssh.Copy fails, and there is no script.
CopyFails(s) ==
  /\ script[s].at \in {"scp", "copying"}
  /\ script[s].live
  /\ Ends(s, "error")
  /\ UNCHANGED host

\* Nothing is unpacked if the directory is there.
Test(s) ==
  /\ script[s].at = "test"
  /\ Goto(s, IF host[s[2]].dir = "none" THEN "mkdir" ELSE "rm")
  /\ UNCHANGED <<callVars, host>>

DoOp(s) ==
  LET at == script[s].at
      m  == s[2]
      a  == Head(script[s].todo)
  IN  /\ at \in DoOps
      /\ IF script[s].live
         THEN /\ Works(at, host[m], a)
              /\ host' = [host EXCEPT ![m] = Effect(at, @, a, script[s].tag)]
         ELSE UNCHANGED host
      /\ Goto(s, After(at))
      /\ UNCHANGED callVars

\* A mistake: the code of the script is not looked at.
DoOpFailsUnnoticed(s) ==
  /\ script[s].at \in DoOps
  /\ script[s].live
  /\ Ends(s, "clean")
  /\ UNCHANGED host

\* A command fails: it cannot work, or the disk is full.
DoOpFails(s) ==
  /\ script[s].at \in DoOps
  /\ script[s].live
  /\ Ends(s, "code")
  /\ UNCHANGED host

\* A mistake: the backup is made whatever the format.
ReadFormatAndCopy(s) ==
  /\ script[s].at = "head"
  /\ Goto(s, "cp")
  /\ UNCHANGED <<callVars, host>>

\* The first line of agent.conf decides whether the file is rewritten.
ReadFormat(s) ==
  /\ script[s].at = "head"
  /\ Goto(s, IF host[s[2]].conf[Head(script[s].todo)].format = "1.18" THEN "cp" ELSE "next")
  /\ UNCHANGED <<callVars, host>>

\* A mistake: the script goes on after the last agent.
NextAgentPastTheLast(s) ==
  /\ script[s].at = "next"
  /\ script' = [script EXCEPT ![s].at = "rm", ![s].todo = Tail(@)]
  /\ UNCHANGED <<callVars, host>>

NextAgent(s) ==
  /\ script[s].at = "next"
  /\ IF Len(script[s].todo) = 1
     THEN Ends(s, "clean")
     ELSE /\ script' = [script EXCEPT ![s].at = "rm", ![s].todo = Tail(@)]
          /\ UNCHANGED callVars
  /\ UNCHANGED host

ScriptStep(s) == Copy(s) \/ Test(s) \/ DoOp(s) \/ ReadFormat(s) \/ NextAgent(s)
ScriptFails(s) == CopyFails(s) \/ DoOpFails(s)

\* The scripts that can go on without their connection: those that have begun.
Survivors ==
  {s \in Sessions : s[2] \in Detaching /\ script[s].at \notin {"scp", "copying", "test"}}

\* The connection is lost, or never made. ssh ends with a code of its own or
\* with an error; the script may go on.
LoseConnection(s) ==
  /\ Attached(s)
  /\ \E outcome \in {"code", "error"} : Answered(s[2], outcome)
  /\ \/ script' = [script EXCEPT ![s] = NoScript]
     \/ s \in Survivors /\ UNCHANGED script
  /\ UNCHANGED host

\* A script that lost its connection is killed.
Die(s) ==
  /\ s \in Unfinished
  /\ ~Attached(s)
  /\ script' = [script EXCEPT ![s] = NoScript]
  /\ UNCHANGED <<callVars, host>>

-----------------------------------------------------------------------------
(* The command.                                                            *)

RolloutInit ==
  /\ CallInit
  /\ host = [m \in Machines |-> FoundHost(m)]
  /\ script = [s \in Sessions |-> NoScript]
  /\ pc = "idle" /\ run = 0 /\ live = FALSE /\ exit = "none"

\* A mistake: the database is not asked whether it has been upgraded.
AnyControllerUUID == "controller"

\* ControllerUUID: that of the first model document.
ControllerUUID == Head(models)

Begin(forReal) ==
  /\ pc = "idle"
  /\ run < MaxRuns
  /\ run' = run + 1
  /\ live' = forReal

\* upgrade-db has not been run.
Refuse(forReal) ==
  /\ Begin(forReal)
  /\ ControllerUUID = ""
  /\ exit' = "error"
  /\ UNCHANGED <<callVars, host, script, pc>>

Start(forReal, addresses) ==
  /\ Begin(forReal)
  /\ ControllerUUID # ""
  /\ Spawn(Chosen(addresses))
  /\ script' = [s \in Sessions |->
       IF s[1] = run + 1 /\ s[2] \in Chosen(addresses)
       THEN [at |-> "scp", todo |-> AgentsOn[s[2]], live |-> forReal, tag |-> ControllerUUID]
       ELSE script[s]]
  /\ pc' = "waiting"
  /\ exit' = "running"
  /\ UNCHANGED host

\* Only an error makes the command fail; a code is printed.
Finish ==
  /\ pc = "waiting"
  /\ AllDone
  /\ exit' = IF \E r \in results : r[2] = "error" THEN "error" ELSE "ok"
  /\ pc' = "idle"
  /\ UNCHANGED <<callVars, host, script, run, live>>

\* b7-upgrade is killed in the middle; its scripts go on as after any loss of
\* a connection.
Crash ==
  /\ pc = "waiting"
  /\ pc' = "idle"
  /\ exit' = "failed"
  /\ Abandoned
  /\ \E over \in {{}, Survivors} :
       script' = [s \in Sessions |->
         IF Attached(s) /\ s \notin over THEN NoScript ELSE script[s]]
  /\ UNCHANGED <<host, run, live>>

\* The goroutines, and the scripts they wait for.
Working ==
  \/ \E m \in Machines : Goroutine(m) /\ UNCHANGED <<host, script, pc, run, live, exit>>
  \/ \E s \in Sessions : /\ Attached(s)
                         /\ ScriptStep(s) \/ ScriptFails(s)
                         /\ UNCHANGED <<pc, run, live, exit>>
  \/ Finish

\* Scripts nobody waits for.
Detached ==
  \E s \in Sessions : /\ ~Attached(s)
                      /\ ScriptStep(s) \/ ScriptFails(s) \/ Die(s)
                      /\ UNCHANGED <<pc, run, live, exit>>

Trouble ==
  \/ \E s \in Sessions : LoseConnection(s) /\ UNCHANGED <<pc, run, live, exit>>
  \/ Crash

\* The operator gives the command for some of the addresses, or for all.
Command ==
  \E forReal \in BOOLEAN :
    \/ Refuse(forReal)
    \/ \E addresses \in {{}} \cup {{MachineDoc[m].address} : m \in Machines} :
         Start(forReal, addresses)

RolloutNext == Command \/ Working \/ Detached \/ Trouble

\* The operator has given up.
Finished ==
  /\ pc = "idle"
  /\ run = MaxRuns
  /\ UNCHANGED rolloutVars

Init == RolloutInit /\ models \in FoundModels

Next == (RolloutNext \/ Finished) /\ UNCHANGED models

Spec == Init /\ [][Next]_vars

\* Every ssh call returns some time. Nothing in the code sees to it: a machine
\* that accepts the connection and hangs makes the command wait for ever.
FairSpec == Spec /\ WF_vars(Working /\ UNCHANGED models)

-----------------------------------------------------------------------------
(* Properties.                                                             *)

HostOK(m) ==
  /\ host[m].tarball \in Tarballs
  /\ host[m].dir \in Dirs
  /\ host[m].link \in [AgentSet(m) -> Links]
  /\ DOMAIN host[m].conf = AgentSet(m)
  /\ DOMAIN host[m].old = AgentSet(m)

ScriptOK(s) ==
  /\ script[s].at \in DoOps \cup {"none", "scp", "copying", "test", "head", "next"}
  /\ script[s].at # "none" => script[s].todo # <<>>
  /\ \A i \in 1..Len(script[s].todo) : script[s].todo[i] \in AgentSet(s[2])

\* Every variable of the process and of the machines has its type.
TypeOK ==
  /\ CallTypeOK
  /\ \A m \in Machines : HostOK(m)
  /\ \A s \in Sessions : ScriptOK(s)
  /\ pc \in {"idle", "waiting"}
  /\ run \in 0..MaxRuns
  /\ live \in BOOLEAN
  /\ exit \in {"none", "running", "ok", "error", "failed"}

\* When the command ends by itself, the shared slice holds one result for each
\* machine it was sent to, however the goroutines took turns, and nobody holds
\* the lock (upgradeagents.go:52-72, exec.go:14-46).
EveryMachineAnswersOnce ==
  pc = "idle" /\ exit \in {"ok", "error"} =>
    /\ \A m \in Machines : Cardinality(OutcomesOf(m)) = IF m \in Called THEN 1 ELSE 0
    /\ lock = {}

Switched(m) ==
  \A a \in AgentSet(m) : /\ host[m].link[a] = "2.0"
                         /\ FoundConf[a].format = "1.18" => host[m].conf[a].format = "2.0"

\* What an answer without an error and without a code tells in a live run: on
\* that machine the link of every agent leads to the directory of the new tools
\* and its agent.conf is rewritten, also if an earlier script stopped anywhere,
\* between rm and ln for one. It tells that the directory is there, and that the
\* tools are in it if this is the first command. A later one trusts the
\* directory it finds (upgradeagents.go:157): when an earlier script stopped
\* in mkdir, in tar or in the symlinks, the next one answers cleanly and what
\* the links lead to is empty or incomplete.
\* A script that outlives its connection may undo the links of the next one.
CleanMeansSwitched ==
  exit \in {"ok", "error"} /\ live =>
    \A m \in Called \ Detaching : OutcomesOf(m) = {"clean"} =>
      /\ Switched(m)
      /\ host[m].dir \in IF run = 1 THEN {"linked"} ELSE {"made", "unpacked", "linked"}

\* The backup of a rewritten agent.conf is the file as it was found, however
\* often the command is run: the second run must not copy the new file over it.
\* Two scripts at once on a machine can do just that, between head and cp.
BackupKept ==
  \A m \in Machines \ Detaching : \A a \in AgentSet(m) :
    host[m].conf[a] # FoundConf[a] => host[m].old[a] = <<FoundConf[a]>>

\* An agent.conf is as it was found or rewritten once, with one controller line
\* that names the controller of the database, even when two scripts on the
\* machine overtake each other.
ConfRewrittenOnce ==
  \A m \in Machines : \A a \in AgentSet(m) :
    host[m].conf[a] \in {FoundConf[a], Sed(FoundConf[a], ControllerUUID)}

\* The command ends, whatever the machines answer.
EveryRunEnds == (pc = "waiting") ~> (pc = "idle")

-----------------------------------------------------------------------------
(* What README.md says of a successful run.                                *)

Succeeded == exit = "ok" /\ live

\* README.md:17: a rewritten agent.conf has the tag of the controller.
RewrittenConfHasTag ==
  Succeeded => \A m \in Called : \A a \in AgentSet(m) :
    host[m].conf[a].format = "2.0" => host[m].conf[a].controller = <<ControllerUUID>>
=============================================================================
