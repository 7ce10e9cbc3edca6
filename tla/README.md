# A verification of b7-upgrade

b7-upgrade is a command line program that an operator runs once, on machine 0
of a juju controller of version 2.0-beta7, to turn the controller's database
and the agents of its machines into those of juju 2.0. It has no second chance:
what it leaves half done nobody repairs. These modules model what it does to
the database, to the machines and to the agents' configurations, check it with
TLC on small instances, and prove with TLAPS what matters most for every
instance: that the identity it gives the controller stays one identity whatever
happens, that its credentials are never lost, that a first run is never stopped half-way
by its own assertions, that a reported success is a complete upgrade, that what a machine answers can be relied on as far as it can,
and that an agent's configuration survives being written, read and copied.

Contents: [the system](#the-system), [the plan](#the-plan),
[the modules](#the-modules), [the runs](#the-runs), [fairness](#fairness),
[the proofs](#the-proofs),
[where code and documentation disagree](#where-code-and-documentation-disagree),
[what is left out](#what-is-left-out).

## The system

All paths are relative to `src/`. The operator follows the order of
`README.md`: verify-db, agents stop, upgrade-db, upgrade-agents, agents
start-controller, agents start-others. Nothing in the code enforces it.

| component | code | state | operations | what makes it correct | modelled in |
|---|---|---|---|---|---|
| upgrade-db | `upgradedb.go` | the juju database, indexes, tools storage, `/etc/juju/lxd-*` | precheck, txn-queue repair, about thirty stages that each run one transaction, drops, storing the 2.0 binaries | one controller UUID for ever; nothing lost; references resolve; success means complete; a dry run changes nothing | `UpgradeDB` |
| clean-db | `cleandb.go` | the cleanups collection | one transaction that removes them | changes nothing else | `UpgradeDB` |
| database access | `db.go` | sessions | RunTransaction and ResumeTransactions (dry run or live), lists of models and machines | a dry run never reaches mgo; the lists cover every machine | `MgoTxn`, `MachineLists` |
| command line | `command.go`, `main.go` | flags | one action per process; an error exits with 1 | every command ends | `UpgradeProcess` |
| verify-db | `verifydb.go` | none | the precheck and lists, read only | accepts what upgrade-db accepts | partly |
| agents | `service.go`, `exec.go` | the services of every machine | status, stop, start-controller, start-others, in parallel over ssh | one result per machine; what a clean one tells; the controller started alone | `AgentService`, `ParallelCall` |
| upgrade-agents | `upgradeagents.go`, `agent.go` | per machine: the tarball, the tools directory, its symlinks, agent.conf and its backup | copy the tarball, run a script | a clean answer means links and files of 2.0; an agent.conf is rewritten once and its backup is the original, whatever scripts were killed | `AgentRollout`, `ParallelCall` |
| agent configuration | `agent/agent.go`, `agent/format*.go` | one agent.conf | read, setters, clone, write, two formats | what is written is what is read; a clone is independent | `AgentConf`, `AgentConfig` |
| identity, uninstall files | `agent/identity.go`, `agent/uninstall.go` | one file each | write or remove | as their names say | `AgentConfig` |
| documents and tags | `b7/`, `rc/` | none | types, ParseServiceTag | | `ControllerOps`, `RenameOps` |
| server | `server.go` | none | an empty stub | | no |

How they interact. upgrade-db and clean-db change the database through the
transactions of `gopkg.in/mgo.v2/txn`, a package outside the repository that
keeps its log in the database: a transaction that was killed stays in the log
and is completed by whoever resumes or touches its documents. The juju agents
use the same log, so upgrade-db also finds transactions of theirs. verify-db
shares the precheck with upgrade-db. upgrade-agents reads the controller UUID
that upgrade-db recorded (`ControllerUUID`, `db.go:79`) and writes it into every
agent.conf; agent.conf of machine 0 in turn tells every command how to reach
the database (`getConfig`, `agent.go:15`). An agent that is started runs the
binary its symlink leads to, with its agent.conf: both are the work of
upgrade-agents.

What is hard. The process can die between any two of some hundred writes; a
run generates a UUID of its own each time (`upgradedb.go:118`) and keeps no
record of how far an earlier one got; a killed transaction of one run may be
completed in the middle of another; some writes are outside transactions (the
certificates, the dropped collections and indexes, the status history, the
tools); the dry run goes through the same code with the flag tested in many
places; documents that name each other are renamed by different transactions;
credentials are copied by one stage and removed from the source by the next.
On the machines: goroutines append to one slice; a script under `set -e` stops
at any command and is given again; it may outlive its connection and overtake
its successor; one agents command succeeds whatever the machines say.
`PROJECT.json` lists these hazards at their lines, each with the properties that
would catch it or the reason why none does. The repository's tests are about
the agent package only.

## The plan

Done, in this order:

1. `BsonDoc`, `MgoTxn`, `ControllerOps`, `RenameOps`, `SchemaOps`, `MovedDocs`, `References`,
   `UpgradeDB` with its properties, invariants and proofs.
2. `ParallelCall`, `AgentRollout`, `AgentService`: the commands over ssh, with
   their proofs.
3. `AgentConf`, `AgentConfig`: the configuration of an agent, with its proofs.
4. `SchemaUpgrade`: what upgrade-db promises; `UpgradeDB` implements it, checked
   (`KeepsPromise`) and proved (`PromiseKept`).
5. `UpgradeProcess`: the whole upgrade, which composes `SchemaUpgrade`,
   `AgentRollout` and `AgentService`, with its proofs from theirs.

Left: reference definitions for the pure parts, the document helpers and the service
tags, checked over bounded inputs.

## The modules

### The database

`BsonDoc` is `readBsonDField` and its siblings (`upgradedb.go:1503-1580`). A
document is a function from field names to values. Nested documents that the
code addresses with a dot are flattened. An id such as `m:s#app` is the tuple
`<<m, "s", app>>`: what the code cuts at the first `:` is the head.

`MgoTxn` (external) is what the code asks of mgo/txn: operations with their
assertions, the test of all assertions before any change, the changes, and the
parts of a transaction that a killed process may have carried out. A
transaction is a set of operations: the code never puts two operations that
depend on each other's order in one, apart from two insertions of one document,
which `Asserted` refuses as mgo/txn does.

`ControllerOps`, `RenameOps`, `SchemaOps` hold one operator per stage, named
after its function with `Ops` added: `UpdateModelsOps(d, uuid, context)` is the
list of operations that `updateModels` builds when it reads the database d.
The four provider id functions differ in a collection and a word and share
`ProviderIDOps`; likewise the five calls of `updateCollectionIDGlobalKey`.

`MovedDocs` lists the documents that the upgrade moves: the place where the agents
of beta 7 look for each and the one where those of 2.0 do, and what the move
rewrites in it. It is what an assumption, an invariant and a property say of all
moves alike. `References` does the same for the documents that name services,
and for what an operation makes them name.

`UpgradeDB` is the state machine. Its variables:

| variable | in the code |
|---|---|
| `db` | the juju database, by collection, document id and field |
| `txns` | the transaction log: started, not completed; `done` and `applying` say how far it got |
| `certs` | the files of `writeLXDCerts` |
| `indexes` | which generations of indexes exist: beta 7's, those `state.Open` makes, the blobstore's |
| `tools` | the agent binaries in the tools storage |
| `pc`, `inTxn`, `ops` | the stage; whether it is in RunTransaction, and with which operations |
| `cmd`, `live`, `uuid` | the command, its flag, its UUID: the number of the run, so all differ |
| `context` | `cloud` and `owner` of `dbUpgradeContext` |
| `exit` | how the command ended: with success, an error, a refused transaction, a panic, or killed |
| `b7` | the database as it was found; history that no action reads |

A stage that runs a transaction is two steps. In the first (`Reads`) it reads
the documents and takes its error exits; in the second the transaction commits
(`Commit`), is refused (`Abort`), does nothing in a dry run
(`DryRunTransaction`), meets a pending transaction on one of its documents and
completes that first (`FlushTransaction`) or stops at a broken queue
(`StuckTransaction`). Between the two, and in the middle of the second, the
process may fail. The other stages are single actions named after what they do
(`DropIndexes`, `UpdateStatusHistory`, one document per step, `DropServices`,
`DropBlobIndex`, ...). `Follows` is the order of the calls in `upgradeDB`,
`renameServiceToApplication` and `otherSchemaUpgrades`; `NextStage` is the
places where a dry run jumps.

`UpgradeDBProperties` has the properties, `UpgradeDBInvariant` the inductive
invariants of the identity and the credentials and the refinement mapping,
`UpgradeDBStages` that of success, `UpgradeDBHomes` that of the documents that move,
`UpgradeDBReferences` that of the names in the others, `UpgradeDBFirstRun` that of
the assertions of a first run, `UpgradeDBCounts` that of the reference counts,
`MCUpgradeDB` the databases for TLC.

`SchemaUpgrade` is the abstract specification: the controller's UUID, the UUID
each model names, whether a command is running and how the last one ended. The
identity is given once and is the number of a run; models join it and never
another; a dry run changes neither; a command reports "upgraded" only if the
identity is its own and every model has joined. The mapping (`Promised`) takes
the UUID from the four places where the database records it and the outcome
from the exit status.

### The machines

`MachineLists` is `db.go:153-288`: the machines of the models there are, the one
that is the controller's machine 0, the others, and the choice by address.

`ParallelCall` is `parallelCall` (`exec.go`) and the same goroutines in
`upgradeAgents`. `calls[m]` is how far the goroutine of machine m is, `lock`,
`wg` and `results` are the mutex, the wait group and the shared slice. Appending
is two steps, the reading of the slice (`seen`) and its writing, because that is
what the mutex is for; `Unlock` and `Done` are deferred and run in the opposite
order. What happens on a machine is left to the two modules that extend it.

`AgentRollout` is upgrade-agents. `host[m]` is a machine's disk: the tarball, the
tools directory, and for every agent its symlink, its agent.conf and the backup
`agent.conf.old`. `script[<<r, m>>]` is the script of run r on machine m: the
command it is at, the agents it has yet to come to. Each command of the shell
script is a step (`Copy`, `Test`, `DoOp` for mkdir, tar, the jujuc links, rm, ln,
cp and sed); any can fail and end the script (`set -e`), the connection can be
lost before any of them, with an error or with a code, and b7-upgrade itself can
be killed. On the machines in `Detaching` the shell goes on without its
connection, beside the script of the next run. `Sed` is the sed command with its
two substitutions, the second of which needs the version of beta 7.

`AgentService` is the agents commands. `running[m]` are the agents that run,
`script[<<c, m>>]` the loop of the script of command c on machine m: what it does,
the agents it has yet to come to, and the code of its last command. There is no
`set -e`, so that is all a machine answers with. The loops go through the same
`runViaSSH` as upgrade-agents: on the machines in `Detaching` they too go on when
the connection is lost or b7-upgrade is killed, beside those of later commands,
until they end or die.

`UpgradeProcess` puts them together: `SchemaUpgrade` for the database (which
`UpgradeDB` is proved to implement), `AgentRollout` and `AgentService` on the same
machines, by INSTANCE. `models`, which `AgentRollout` reads, are what upgrade-db
has written, in the order a query returns them; `serviceScript` is `script` of
`AgentService`; `binary` is the jujud each agent was started with: the one its
symlink led to (`Jujud`), which is none if the directory of the new tools was
made and its tarball not unpacked ("unfinished"). The operator is one of two: anyone
who gives the commands in any order, or a careful one, who gives those of
`README.md` in its order, repeats one until it has succeeded and every machine
has answered cleanly, and goes on only then.

### The configuration of an agent

`AgentConf` has configurations and agent.conf as values: `NewConfig` and
`Accepted` (`NewAgentConfig` with `check`), `APIInfo`, `MongoInfo`, and the formats
as `Marshal`, `MarshalOld`, `Readable` and `Unmarshal`. An address is a record, a
password or a certificate a model value. `None` is nil and the empty string; nil
and empty lists of addresses differ, as APIInfo tells them apart.

`AgentConfig` is the life of one configuration: `agent` and its last `copy` refer
to details and values in `details` and `maps`, as the Go structs have pointers and
a map, so that a clone is a copy only as far as `Clone` makes one. Setters,
`Clone`, `Write` and the two small files are actions; a crash loses the memory and
keeps the files; between two processes upgrade-agents may convert agent.conf
(`UpgradeConf`). `saved` and `seen` are histories.

### Simplifications, and why they are harmless

- The three certificate files are written in one step. A crash between two of
  them leaves the settings untouched, and they are the copy that counts then.
- A dropped collection is an empty one.
- Errors of reading (a cursor, the session, a missing argument) end the command
  at the same places as `Fail`.
- Time stamps and the fields of inserted documents that nothing reads again are
  left out.
- Documents of one collection are read in one step, and so are the lists of
  machines. Nobody changes them meanwhile if the agents are stopped.
- The goroutines of a call are made in one step: none of them touches what the
  others need before it has its answer. The symlinks of the jujuc commands are
  made in one step, which can fail and leaves the directory "unpacked", whichever
  of them were made; a later script finds the directory and skips them all.
- A lost connection may give an error or a code: which of the two ssh reports
  depends on the moment.
- The slice of results is a set of pairs. Its capacity, and who copies it when,
  is Go's; the mutex covers the whole append.

The operators whose comment begins with "A mistake:" or "Mistake:" are not part
of the model: each is a definition with a plausible bug, and replacing the real
one by it makes TLC find a violation of the property that `PROJECT.json` names
with it.

## The runs

| run | configuration | question | instance | result |
|---|---|---|---|---|
| upgrade_db | `UpgradeDB.cfg` | what upgrade-db and clean-db promise, whatever fails; the refinement; every command ends | 7 databases, 3 commands, `FairSpec` | 20 properties hold, 119533 states |
| rollout | `AgentRollout.cfg` | one answer per machine, clean answers are true, the backup is the original, the command ends | 2 machines with an agent each, 2 runs, `FairSpec` | 5 hold, 146032 states |
| rollout_detached | `AgentRollout_Detached.cfg` | is any agent.conf rewritten twice, when scripts overtake each other? | 1 machine with 2 agents, 3 runs | holds, 524041 states |
| service | `AgentService.cfg` | one answer per machine, what a clean one tells, the controller alone, the command ends | 2 machines with 3 agents, scripts that detach on one, 3 commands, `FairSpec` | 5 hold, 625565 states |
| process | `UpgradeProcess.cfg` | the tags are those of the database; what a careful operator achieves | 2 models, 2 machines, two kinds of operators | 3 hold, 1466553 states |
| agent_config | `AgentConfig.cfg` | write and read, clones, passwords, the port | 5 calls, any number of restarts | 5 hold, 452091 states |
| moved_docs | `UpgradeDB_MovedDocs.cfg` | do moved documents lose env-uuid and model-uuid? | one command | violated |
| shared_images | `UpgradeDB_SharedImages.cfg` | does the metadata of every model become global? | one command, two models with the same image | violated |
| pending_cleanup | `UpgradeDB_PendingCleanup.cfg` | are all cleanups done before the upgrade? | one command, a pending transaction that makes one | violated |
| rollout_tag | `AgentRollout_Tag.cfg` | does every rewritten agent.conf have the tag? | a locally built agent and one of beta 6 | violated |
| agent_mongo_info | `AgentConfig_Panic.cfg` | does MongoInfo report whether it has details? | 3 calls | violated |
| agent_write | `AgentConfig_Write.cfg` | can what was written be read? | 3 calls | violated |

**The databases.** `MCUpgradeDB` has a controller model and a hosted model with
two services of one charm, one of which has a unit, a relation, a resource and
an annotation. Two services share the charm's reference count; one of two leases
has no name; one of two status histories is a service's. Every collection a
stage moves or rewrites has at least one document it changes, and most one it
must leave alone. The seven databases: LXD; LXD with a transaction of the agents
pending (a second unit is being added); MAAS with that transaction half carried
out; a cloud the program does not know; MAAS with a cleanup, so that the
precheck refuses and clean-db has work; the same with a broken queue on the
cleanup, which stops clean-db; and LXD with a broken queue on a unit that a
pending transaction touches, which stops the resumption. Three commands are what
the interesting stories take: one that fails, one that completes or is refused
by what the first left behind, and one that meets the result of both (or a dry
run or clean-db between two upgrades). A killed transaction has done none, one,
all but one or all of its operations (`Cuts`): the properties look at single
documents and at pairs (the two ends of a move, settings and model), and each
pair of a transaction is cut in both ways.

**The machines.** The controller's machine 0 and machine 0 of a hosted model, so
that an id alone does not tell them apart. Two machines are enough for two
goroutines to meet at the lock; two agents on a machine for a loop that stops
half-way (rollout_detached, service); two runs for a script that finds what an
earlier one left; three, with detached scripts, for one script that two others
overtake. rollout is about machines whose scripts end with their connection: a
detached script may undo the links of the next one, and may take its new
agent.conf for the original, so that CleanMeansSwitched and BackupKept are stated
for the others (`Detaching`). ConfRewrittenOnce needs no such restriction. In service the
scripts of the controller's machine detach and those of the hosted machine do not:
there CleanSpeaksOfLastAgent says what a clean answer tells, and on the other
ControllerStartsAlone allows for a loop that is left behind. Three commands are one
whose script is left behind and two that meet it.

**The process.** Two upgrades and two rollouts in any order for the tags
(`Anyone`, without agents commands, which do not touch an agent.conf); for the
careful operator (`Careful`) two upgrades, two rollouts and four agents commands: each of the
five commands once, and each kind given again after a failure. Scripts end with their
connection here (`Detaching` is empty in both instances): what CarefulUpgrade and
QuietUpgrade say is said of such machines.

**The configuration.** Five calls: a setter, a clone, a setter, a write and one
more, with restarts between any two; files of beta 7 with and without a state
port, of a controller, a machine and a unit; parameters that are refused.

The properties:

- *Identity.* `ControllerUUIDAgrees`, `UUIDIsPermanent`, `OneRunMigrates`: however
  often the command is killed and run again, one UUID, for ever, and only its
  run migrates. `OnlyRepeatedRunsAbort`: the assertions that make this so never
  stop a first run. `KeepsPromise`: the whole implements `SchemaUpgrade`.
- *Nothing lost.* `CredentialsKept` (a credential of the controller model is in
  its settings or where 2.0 looks for it, with the value found), `EveryDocumentHasOneHome`,
  `ReferencesResolve`, `RefcountsMatch`. The last three speak of the states in
  which no transaction is half carried out, which is all a reader of a database
  with client-side transactions may rely on.
- *Success.* `OkMeansUpgraded`: exit status 0 of a live upgrade-db means that no
  transaction is pending, the identity is given, every document that moves is where
  2.0 looks for it (`EverythingMoved`), no unit, relation, resource or reference
  speaks of services (`NoServiceLeft`), every application has all its documents,
  charms, users, model users and machines have the form of 2.0 (`OthersRenewed`),
  the agents have what they need, and the 2.0 binary is stored. What the stages
  write besides is not looked at: the indexes of beta 7 that remain because the
  error of DropIndexName is ignored, and fields that the runs below are about.
  `CleanMeansSwitched`: on a machine that answers a live upgrade-agents without an
  error and a code the links of all agents lead to the directory of the new tools,
  their agent.conf is rewritten, and the directory is there. That the tools are in
  it is only known after a first run: a later one trusts the directory that it
  finds (`upgradeagents.go:157`). `CarefulUpgrade`: the careful operator ends with
  every model in the controller and, if upgrade-agents was given once, with last
  agents of 2.0 that know it; if it was repeated, an agent may have found no jujud.
- *Answers.* `EveryMachineAnswersOnce`, twice: no result is lost or doubled.
  `CleanSpeaksOfLastAgent` is all that a clean answer to an agents command says.
  `QuietUpgrade`: it is enough to keep the last agent of every machine away from
  the database while it is upgraded; of the others the operator cannot know.
- *Files.* `BackupKept`, `ConfRewrittenOnce`, `ConfsNameTheController`,
  `WrittenConfReadsBack`, `PasswordsAgree`, `CloneUnaffected`.
- *Steps.* `DryRunChangesNothing`, `ControllerStartsAlone`, `EveryCommandEnds` (of
  upgrade-db and clean-db), `EveryRunEnds`, `EveryAgentsCommandEnds`. `MongoPortKnown`
  is a step too: a process of a controller that starts knows the port of its
  database. While it runs it may lose it, for SetStateServingInfo takes an info
  without a port (`agent/agent.go:638`).

A run of upgrade-db that failed after updateController cannot be repeated: a
later one is refused by an assertion or panics on a missing setting. That is
what the code does, and OneRunMigrates shows that it is at least safe; no
property claims that an upgrade can be resumed. Likewise a machine on which a
script stopped between rm and ln answers every later run with a code, because rm
fails: CleanMeansSwitched says that it is not taken for upgraded, not that it can
be. A machine on which a script stopped earlier, in mkdir, tar or the jujuc links, is
the opposite: the next run finds the directory, skips all three (`Test` goes on with
rm) and may answer cleanly, with tools that are missing or incomplete.

Deadlock is checked in every run but those of `AgentConfig`, whose behaviours end
when the bound on the calls is reached and a file cannot be read. In the others
`Finished` lets the operator stop, and a running command without a step would be
found.

## Fairness

`UpgradeDB`'s `FairSpec` adds weak fairness of `Step`, the steps of a running
command: the process is one goroutine that blocks on the database only. In
`AgentRollout` and `AgentService` it is weak fairness of `Working`: the goroutines
and the scripts they wait for take their steps, so that every ssh call returns.
The goroutines are Go's to schedule; that ssh returns is an assumption which
nothing in the code ensures, for it sets no timeout: a machine that hangs hangs
the command. What the liveness properties then show is that nothing else does:
the lock is released and the wait group reaches zero on every path. Nothing is
assumed of the operator, who need not give another command, nor of failures,
which need not happen.

## The proofs

| module | theorems | assumptions |
|---|---|---|
| `UpgradeDB_proofs` | lemmas on `Apply` and on the transaction of every stage; TypeCorrect, DryRunKept, IdentityInvariant, UUIDsAgree, UUIDsStay, OneMigration, PromiseKept, CredentialsInvariant, CredentialsAreKept | `B7Assumption`, `MaxRunsAssumption`; the last two `ControllerAssumption` |
| `UpgradeSuccess_proofs` | StagesInvariant, HomesInvariant, OneHomeEach, SuccessMeansUpgraded | the same; `ConsistencyAssumption`, `HomesAssumption` |
| `UpgradeDocuments_proofs` | ReferencesInvariant, ReferencesAlwaysResolve, FirstRunInvariant, FirstRunsGoThrough, CountsInvariant, RefcountsAlwaysMatch, NoCleanupSurvives | the same; `ReferencesAssumption`, `FirstRunAssumption`; FirstRunsGoThrough `ImagesApart`; CountsInvariant and RefcountsAlwaysMatch `CountsAssumption`; NoCleanupSurvives `AgentsMakeNoCleanup` |
| `ParallelCall_proofs` | lemmas on the goroutines | `MachinesAssumption` |
| `AgentService_proofs` | ServiceTypeCorrect, ServiceAnswersOnce, CleanOfLastAgent, ControllerAlone | `MachinesAssumption`, `AgentsAssumption` |
| `AgentRollout_proofs` | RolloutTypeCorrect, RolloutAnswersOnce, RewrittenOnce, CleanIsSwitched, BackupsKept | `MachinesAssumption`, `AgentsAssumption` |
| `AgentConfig_proofs` | ConfigTypeCorrect, ConfReadsBack, PasswordsStayEqual, ClonesStay, PortKnown | `ConfAssumption`, `ConfigAssumption` |
| `UpgradeProcess_proofs` | ConfsNamed, QuietUpgradeKept, CarefulUpgradeKept | `MachinesAssumption`, `ProcessAssumption` |

TLC evaluates every assumption in every run of its module. `B7Assumption`: the
databases found know no controller UUID, and the pending transactions of the
agents neither record one nor make controller settings, as beta 7 has no such
fields. `ControllerAssumption`: the controller has a model with an owner and a
cloud type, which juju writes when it is set up and without which updateController
ends before it changes anything; and the transactions that its agents left behind
touch neither these, nor the credentials in the settings of that model, nor the
documents that 2.0 keeps the credentials in, which beta 7 does not know. (A
pending change of a credential by a beta 7 agent would be carried out by
upgrade-db before it reads: nothing is lost, but the value found is not the one
kept.) `ConsistencyAssumption`: beta 7 has services and no applications; a service
has the documents that state.AddService of juju writes with it in one
transaction; a provider id begins with the model at most once; and no transaction
that the agents left behind makes, upgrades or destroys a service, removes one of
its documents or rewrites a provider id. `HomesAssumption`, for the documents that
move only: nothing stands yet where one goes to, for beta 7 knows no such ids; a
sequence is kept under the model that it names; and a pending transaction of the
agents changes none of them, but for the number of units of a service.
`ReferencesAssumption`: units, resources, relations and references of models say in
the words of beta 7 which services they belong to, and these are there, as juju
checks in the transactions that make them; and a pending transaction of the agents
keeps it so. `FirstRunAssumption`: what the stages assert of the ids they compute
holds in the database found, because beta 7 has no documents of those forms (an
application, a reserved provider id, a model called controller, a workload version);
the settings of the controller model are those of its cloud; and what the agents
left behind does not touch these. It does not include the images: two models may
have cached the same one, and FirstRunsGoThrough has as a hypothesis that none have
(`ImagesApart`). `CountsAssumption`: a service of beta 7 says how many units it has,
unless a transaction is changing that; juju adds and removes a unit in the transaction
that changes the number (state.AddUnit, removeUnit). No two of them are pending at one
service or one unit: mgo/txn completes the first before it carries out the second, so
both are left only if the agents were killed in both at once. That case is left out,
because an operation of the model writes the number that juju says to increment.
`MachinesAssumption`: finitely many machines. `AgentsAssumption`: every
machine has an agent, none of which is of 2.0 yet, and an address, which
verify-db has seen to; in `AgentService` only that every machine has one. `ProcessAssumption` has the same of the whole upgrade,
that no two machines of a model share an id and no two machines an agent, and
that at most three UUIDs are generated, for they have names; its theorems are about
scripts that end with their connection. `ConfigAssumption`: what the agents of beta 7
wrote is of version 2.0-beta7, has a port in every address, equal passwords and, for
a controller, an address and a key. Nothing is assumed of what SetStateServingInfo
is given. The rest says that model values
differ. Everything is for any databases, machines, agents, files and bounds.

**The identity.** `UpgradeDB_proofs` classifies the transaction of every stage:
updateController's *founds* the identity, updateModels' *joins* it, all others
are *neutral*. TypeOK needs `ProcessInv`: that a dry run never gets to a stage
that writes without testing the flag, and never into a transaction that applies,
has to be known of `pc`. The properties of the identity look at the database,
and are not inductive because the danger is in the log: a transaction that was
killed in a run with UUID 1 may be completed while the run with UUID 2 is under
way. `IdentityInv` therefore says:

- what is pending: each transaction is neutral, or founds the identity of some
  run, or joins one whose settings exist (`TxnsKind`), and at most one of them
  is not neutral (`OneIdentityTxn`);
- what a half applied founding transaction means: all that is recorded is its
  own, and the settings are there or still to come (`HalfFounded`);
- where else a recorded UUID can come from: the controller settings name it
  (`RecordedBySettings`, `SettingsNamed`, `ModelsSeated`);
- what a running command may rely on: past the resumption nothing is pending
  (`NothingPending`), past updateController the settings name its own UUID
  (`OwnSeat`), and the transaction in hand is of the kind of its stage (`OpsKind`).

The heart of it: a founding transaction asserts that the controller settings
are missing, a live upgrade has resumed every transaction before it founds, so
when it commits nothing is recorded and nothing can be recorded later by
another. Without the resumption the invariant fails, and TLC shows how.

**The refinement.** `PromiseKept` (`Spec => KeepsPromise`) needs three more facts
(`PromiseInv`): what is or will be recorded is the number of a run there has been
(`UUIDsGiven`); past updateModels every model has joined and no transaction
touches one (`ModelsJoined`), because that transaction names every model that
exists when it is read and nothing is pending that could add one; and only
clean-db removes cleanups. The steps of the forty stages are of six kinds
(`ReadsFor`, `Quits`, `Passes`, `Within`, `DryRunTransaction`, `Commit`), and each
kind is a `Proceed`, a `Stop`, a `Succeed` or a stutter: SameUUIDs of the identity
proofs makes it a `Change`, and the end of addTools a `Succeed`.

**The credentials.** `CredentialsKept` is not inductive either: a transaction of
updateModels that was killed still wants to remove the settings, and whoever
completes it does not look whether they were saved. `CredentialsInv` adds:

- what the rest is found by stays as it was found: the controller's model, its
  owner, its cloud (`LandmarksStay`), and a setting as long as it is there
  (`SettingsAsFound`);
- every operation, in hand of a live run or pending, is careful: it removes a
  setting only if that has been saved, and it makes the document a setting is
  saved in with the value found, or after that value is saved (`AllCareful`);
- the transaction of updateController in hand saves what is not saved
  (`SavesInTime`), and past updateController everything is saved (`SavedInTime`).

The second run is what makes it hard. It may find the settings already removed,
and would save a document without them; it gets away with it because a document
is made only if it is missing (`d-`), and a setting that is gone has been saved
by an earlier run, in that very document.

**The success.** `OkMeansUpgraded` speaks of the last state of some forty stages,
and what a stage has made could be undone by the next, by a transaction of a
killed run, or never have been made because the stage ran on other documents than
it read. `StagesInv` excludes the three. A live upgrade past updateController has
found that nothing was recorded, so the database is still that of beta 7
(`StillConsistent`); nothing else is pending, by `NothingPending` of the identity;
so the transaction that commits is the one that was built from this very database
(`ReadFor`, `InHand`). The rest is what holds once a stage is done, by its place
in the order (`Rank`):

- every collection that changes its form, among them relations, charms, users,
  modelusers and the containers of machines (`ContainersLeft`), has one stage after
  which it has the form of 2.0 (`StageOf`, `IsNew`, `RenewedByStage`). The lemmas of the proof show
  for each transaction which collections it writes, and that none of them has its
  stage behind it;
- `ApplicationsFollow` follows the documents of an application: they keep the key
  of its service until the stage of their collection, and have the new one after
  it. Two services never get one key, because the model and the name stay;
- what a stage needs of earlier ones or of beta 7 waits for it: the services and
  their documents (`ServicesWait`), the provider ids (`ProviderIDsWait`, for a
  prefix is only removed once), the cloud and the credential that updateModels
  writes into every model (`ContextKnown`, `ModelsTold`).

Without `ConsistencyAssumption` the theorem is false: a service that lacks its
status document becomes an application without one.

**The homes.** `EveryDocumentHasOneHome` leaves out the states in which a
transaction is half carried out, and is not inductive for that reason: what the
next run makes of such a state depends on what the killed one has done.
`HomesInv` follows the moves through the log. Everything is said once for all
moves, whichever of the ten collections a document is in:

- a transaction in the log leaves a document where it is (`Stays`) or moves it as
  a whole (`Carries`: it removes it, inserts in the new place a document that says
  the same, asserts that there was none, and does nothing else to the two places);
  or two of its own operations clash, and it is refused (`TxnsCarry`);
- at most one transaction in the log moves anything (`OneCarrier`): only a run that
  has recorded its controller moves documents, no second run ever records one, and
  the first had resumed all others. That is where the identity comes in;
- of a transaction that is half carried out, exactly what is done has happened:
  the document is gone from the old place if the removal is done, and in the new one
  if the insertion is (`HalfMoved`, `HalfCarried`);
- otherwise a document is in one place, with what it said (`EachHasAHome`), and in
  the old one as long as no controller is recorded (`NothingMoved`);
- a live upgrade past updateController finds every document where beta 7 had it
  when its stage comes (`MovesWait`), and dropServices drops a collection whose
  documents are elsewhere (`HaveMoved`). Of two stages that write in a
  collection which another renames, updateModels in settings and updateUnits in
  statuses, the lemmas show that they touch no key of a service.

That a document "says the same" is an equality up to a set of fields (`Alike`), which
`AlikeOn` composes. The proof needs that the new id is the same whether it is
computed from the document that was found or from the one that is read, and it is
computed from fields that nobody changes. With `HomesAssumption` dropped the
theorem is false: a sequence that names another model than its id does moves to
that model.

**The references.** The services are renamed by one transaction and named by
documents of four collections, which four later ones rewrite. `HomesInv` shows
that a service that was found is a service or an application; `ReferencesInv`
shows that the others name none but those that were found, whichever of the two
fields says so:

- in the documents, and in every document that a pending transaction inserts or
  gives another name (`NamesKept`). Nothing need be said of which part of a
  transaction has been carried out: each operation keeps this by itself;
- what makes an operation of the upgrade keep it is that its stage still finds the
  old field. `updateUnits` run twice would set the application to nil. A live
  upgrade past updateController has found that no controller was recorded; then no
  document has been renamed, and no transaction in the log will rename one
  (`NothingRenamed`), and it stays so until the stage that renames them
  (`NamesWait`).

That a stage renames in the document that is there what it has read in the
database is `InHand` of `StagesInv`. The document of a relation is one value with a
sequence of endpoints; all its endpoints are renamed at once or none.

**The first run.** `OnlyRepeatedRunsAbort` says that the assertions which refuse a
second run never refuse a first one. Every stage asserts that nothing stands where
it will put a document, and which documents it will put where depends on what the
stages before it have made of them. `FirstRunInv` says of every stage what it needs of the
database (`Fit`), and that it gets it:

- the UUID of a command is new until updateController has recorded it
  (`FreshUUID`), so a controller that is recorded is that of an earlier run, or of
  this one;
- as long as none is recorded, every stage that the database found accepts is still
  accepted, and no transaction in the log takes anything it needs
  (`NothingClaimed`); what updateController makes is missing, unless a transaction
  of an earlier run is making it (`NothingFounded`): a run that resumes it will find
  a controller recorded;
- a live upgrade past updateController keeps what a stage needs until its turn
  (`ClaimsWait`). That is a statement about every pair of stages. Most write in
  different collections (`Claimants`, `ClaimsApart`); the pairs that do not are
  the four which share providerIDs, where the kind in the id keeps the next one's ids
  free (`ReservingFit`), updateModels, which writes settings, and updateUnits,
  which writes statuses: none that the later rename has in view (`ModelsUnkeyed`,
  `UnitsUnkeyed`);
- what a stage needs is enough: the operations it builds from the database satisfy
  their assertions and do not clash with each other (`FitAsserted`);
- clean-db asserts nothing (`CleansFreely`).

A database in which two models have cached the same image is accepted by every
stage but `upgradeCloudImageMetadata`; `Accepted` keeps the two cases in one
invariant. `Refusals` shows that only a refused transaction and a missing setting
end a command so.

**The reference counts.** `moveServices` adds up what the services say of the number
of their units; nobody compares that with the units. `RefcountsMatch` says that the sums
are right for the applications and units that are there, whoever completes the
transaction of `moveServices`, and when. The invariant (`CountsInv`):

- a service says how many units it has, or one transaction of the agents is pending
  that changes the number, and completing it makes it right (`UnitsCounted`). The
  transactions may be completed in any order, for no two are at one service or unit
  (`AgentsComplete`);
- either nothing of the upgrade has been carried out or is pending, or nothing of the
  agents is: then no transaction makes or removes a unit (`UnitsSettled`). The live
  upgrade that first gets past resumeTransactions has completed them all;
- the stages that rename the service of a unit rename it to itself (`ServicesKept`),
  so that the units that were counted are those that are there in the end;
- a transaction makes nothing of what moveServices makes, or all of it with the right
  counts (`MadeRight`). As the counts are those of the units now and units no longer
  change, it does not matter when it is completed;
- all is made or nothing, unless a transaction is at it (`AllOrNone`).

That the sum is the number of units is arithmetic on finite sets (`SumOfSizes`): the
sum over a set of services of one and the number of units of each is the size of the
set and of the union of the units, as no unit is of two services. The prover has no
induction for that. It has that the subsets of a finite set are well-founded: a least
subset for which it is not so would have an element, and without that it is so.

**The cleanups.** Run pending_cleanup shows that a successful upgrade may leave a
cleanup, because a transaction of the agents made one after upgradePrecheck had
counted none. `NoCleanupSurvives` assumes that the agents were making none
(`AgentsMakeNoCleanup`, true of every database of run upgrade_db) and proves that none
is left then. The invariant (`CleanupsCleared`): no transaction makes a cleanup, and
a live upgrade past upgradePrecheck finds none. A clean-db that is killed leaves at
most a transaction that removes some.

**The goroutines.** `CallInv`: the machines at "locked" are those that hold the
lock, at most one; while one does, the slice is what it read; the wait group
counts those that are not done; the slice has exactly one result of each machine
that has appended. Both users of `ParallelCall` inherit it.

**The machines.** `ServiceInv` adds that on a machine outside `Detaching` a script is
waited for, and one which is through and has the code 0 has just done what was wanted
to the last agent. `RolloutInv` holds with
detached scripts too: an agent.conf is the one found or that one after `Sed`,
because only one in format 1.18 is rewritten and `Sed` twice is `Sed` once
(`SedTwice`: a file that was rewritten under a script's feet has no 1.18 and no
beta 7 left). `AttachedInv`, for `Detaching = {}`, follows a script: the agents it
has left behind are upgraded, the one it is at is as far as its command
(`Progress`), the directory of the tools is there once a script is past its test, and the
only script of a machine is the one that is waited for.

**The whole upgrade.** `UpgradeProcess_proofs` instantiates the proofs of the two
commands over ssh as `R` and `S`, proves that what their modules assume follows
from `ProcessAssumption` (`Assumptions`), and that an operator of `UpgradeProcess`
is the same through either instance (`SameRollout`, `SameService`). The goroutines
belong now to the one and now to the other command, so neither inductive
invariant holds all the time. `AnyoneInv` keeps of `RolloutInv` what does not
speak of them (`MachinesInv`) and adds whose turn it is (`TurnsInv`) and that no
machine is touched as long as upgrade-agents would read no UUID: that is what
makes it harmless that upgrade-db changes the UUID that `RolloutInv` mentions.
`CarefulInv` follows a careful operator through the five commands of `README.md`.
Each step hands on what the next needs: after stop the last agents are down
(`Stopped`, from `CleanSpeaksOfLastAgent`); upgrade-db and upgrade-agents leave
them so (`AgentsRest`); a clean rollout of machines found untouched
(`FirstRollout`) leaves links and files of 2.0 and, if it was the first, complete tools
(`Ready`, from `CleanMeansSwitched`);
and then `ServiceInv` can be had again (`ServiceAgain`). Without the demand that
every machine answers cleanly no step but the first would hold.

**The configuration.** `IInv`: agent.conf is the marshalled form of what was
saved, or what upgrade-agents makes of a file of beta 7 (`ConfInv`); its passwords
agree (`SavedAgrees`); the references of a configuration are its own, so that a
setter on one leaves the other alone.

Only checked by TLC, on the instances above: liveness, which with ENABLED is beyond
the prover. Every invariant and action property that a run checks is a theorem.
Inductions over data and RECURSIVE operators are beyond the prover as well; the
theorems use none.

## Where code and documentation disagree

Each of these is a run that TLC ends with a counterexample.

- `removeBsonDField` returns the shortened document and leaves its argument. Two
  of its callers drop the result: endpoint bindings keep `env-uuid`
  (`upgradedb.go:1319`, against the comment at 1316 and `README.md:61`), and image
  metadata keeps `model-uuid` (`upgradedb.go:1266`, against `README.md:55`). A
  third, at 682, does no harm: mgo/txn overwrites what should have been removed.
- Image metadata becomes global (`README.md:54`) only if no two models have cached
  the same image. If they have, the transaction inserts one id twice and is
  refused, in the middle of the upgrade.
- "All cleanups should have been executed" (`upgradedb.go:195`) is tested before
  the pending transactions are resumed, and one of those may add a cleanup.
  `NoCleanupSurvives` proves that nothing else can leave one.
- upgrade-agents "will add controller tag" to agent.conf (`README.md:17`) only
  where the line of the version ends with `2.0-beta7`. The format becomes 2.0 all
  the same, and what follows the version, such as a build number, ends up behind
  the tag (`upgradeagents.go:212`).
- MongoInfo "reports whether those details are available" (`agent/agent.go:230`),
  and panics for a controller's configuration without state addresses, which
  `NewStateMachineConfig` accepts.
- What Write wrote can be read (`agent/agent_test.go:446`), except what was read
  in format 1.18: the 2.0 format gives the missing controller an empty tag and
  refuses it (`agent/format-2.0.go:158`, `:81`).

Only read in the code, and visible in the models:

- The tools are unpacked only where their directory is missing
  (`upgradeagents.go:157`): after a script that stopped in mkdir, tar or the jujuc
  links, the next one answers cleanly and leaves them as they are.
- upgrade-agents succeeds although a script ended with a code other than 0
  (`upgradeagents.go:102`), and the agents commands always succeed
  (`service.go:83`): the operator has to read the answers.
- The gate of upgrade-agents is a controller UUID in the first model
  (`upgradeagents.go:41`): it is open once updateModels is done, whatever became of
  the rest of upgrade-db.
- "config.mongoVersion should not be empty under any circumstance" (the comment
  at `agent/format-2.0.go:148`), but it stays empty when the file has none.
- A clone of a configuration with nil addresses has empty ones, and answers
  APIInfo where the original did not (`agent/agent.go:333`, `:740`).
- `README.md:169` speaks of rc2.1 where the script writes 2.0-rc1.

## What is left out

- verify-db, which changes nothing, but for its precheck, which is upgrade-db's,
  and its test of the addresses, which the models of the agents assume.
- The server stub; sessions, flags, output, logging.
- The agents themselves. That none runs during upgrade-db is an assumption of
  `UpgradeDB`; QuietUpgrade says how far the operator can see to it.
- Of the configuration: jobs and nonce, which nothing changes; the text of the
  formats; `WriteCommands`, which renders what `Write` writes; `Paths.Migrate`;
  `prefer-ipv6` of format 1.18, which nothing reads.
- A database without some collection at all: dropping it would be an error in
  the code, and is nothing in the model. Juju creates every collection when it
  sets up its state.
- Hosted models that are called admin: `updateModels` would rename them too, and
  the databases checked have none.
- The grammar of tags and ids: ids are tuples, so two documents never collide
  by concatenation of their parts. A UUID is a number or a model value.
