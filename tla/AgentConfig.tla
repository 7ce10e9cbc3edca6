----------------------------- MODULE AgentConfig -----------------------------
(***************************************************************************)
(* The life of one agent's configuration (agent/agent.go, identity.go,     *)
(* uninstall.go): a process makes it or reads it from agent.conf, changes  *)
(* it through the setters, hands out clones, writes it, and dies at any    *)
(* point; between two processes upgrade-agents may convert the file.       *)
(*                                                                         *)
(* The connection details are behind pointers and the values are a map, so *)
(* a configuration refers to them: a clone is a copy only as far as Clone  *)
(* copies what they refer to.                                              *)
(***************************************************************************)
EXTENDS AgentConf

CONSTANTS
    BetaConfigs,    \* what the agent of a beta 7 wrote into its agent.conf
    Params, Infos,  \* arguments of NewAgentConfig and SetStateServingInfo
    AddressLists,   \* arguments of SetAPIHostPorts, in the order of preference
    UUID,           \* of the controller, from its database
    MaxCalls        \* bound on the calls of a behaviour that change anything

(* The passwords for the database and for the API are the same. *)
Agree(c) == (c.state # None /\ c.api # None) => c.state.password = c.api.password

Owners == {"agent", "copy"}
Refs == Owners \X {"state", "api"}

(* A configuration in memory refers to nothing but its own. *)
Held(owner) ==
    [tag : Tags, paths : [PathNames -> Dirs \cup {"default"}],
     controller : Maybe(Controllers), model : Maybe(Models),
     upgradedTo : Versions, caCert : Maybe(Secrets),
     oldPassword : Maybe(Secrets), values : {owner},
     mongo : Maybe(MongoVersions), state : Maybe({<<owner, "state">>}),
     api : Maybe({<<owner, "api">>}), serving : Maybe(ServingInfo)]

ASSUME ConfigAssumption ==
    /\ BetaConfigs \subseteq Configs
    /\ \A c \in BetaConfigs : /\ c.controller = None
                              /\ c.upgradedTo = "2.0-beta7"
                              /\ c.paths["conf"] = "default"
                              /\ \A d \in {c.state, c.api} \ {None} : ValidAddrs(d)
                              /\ c.serving # None => /\ HasAddress(c.state)
                                                      /\ c.serving.key # None
                              /\ Agree(c)
    /\ Params \subseteq AgentConfigParams
    /\ Infos \subseteq ServingInfo
    /\ AddressLists \subseteq Seq(Addresses) \ {<< >>}
    /\ UUID \in Controllers
    /\ MaxCalls \in Nat
    /\ None \notin Refs /\ \A o \in Owners : None \notin Held(o)

VARIABLES
    agent,      \* the configuration of the process; None when none runs
    copy,       \* the last clone of it
    details,    \* the connection details that the two refer to
    maps,       \* the maps of values that the two refer to
    conf,       \* agent.conf
    saved,      \* history: the configuration conf was written from
    seen,       \* history: what was cloned
    identity,   \* the file system-identity
    uninstall,  \* whether the file uninstall-agent exists
    calls       \* the calls made so far

vars == <<agent, copy, details, maps, conf, saved, seen, identity, uninstall, calls>>

Blank == [addresses |-> None, password |-> None]

(* The value of a configuration, and the memory that a new one takes. *)
At(r, d) == IF r = None THEN None ELSE d[r]
ValueIn(c, d, m) == [c EXCEPT !.state = At(@, d), !.api = At(@, d), !.values = m[@]]
Value(c) == ValueIn(c, details, maps)

RefTo(d, r) == IF d = None THEN None ELSE r
Object(d) == IF d = None THEN Blank ELSE d

Referring(c, owner) ==
    [c EXCEPT !.state = RefTo(@, <<owner, "state">>),
              !.api = RefTo(@, <<owner, "api">>), !.values = owner]

Stored(c, owner) ==
    /\ details' = [details EXCEPT ![<<owner, "state">>] = Object(c.state),
                                  ![<<owner, "api">>] = Object(c.api)]
    /\ maps' = [maps EXCEPT ![owner] = c.values]

ConfigInit ==
    /\ agent = None /\ copy = None /\ seen = None
    /\ details = [r \in Refs |-> Blank]
    /\ maps = [o \in Owners |-> {}]
    /\ \/ conf = None /\ saved = None
       \/ \E c \in BetaConfigs : conf = MarshalOld(c) /\ saved = c
    /\ identity = None /\ uninstall = FALSE /\ calls = 0

-----------------------------------------------------------------------------
(* Getting a configuration. *)

Loaded(c) ==
    /\ agent = None
    /\ agent' = Referring(c, "agent")
    /\ Stored(c, "agent")
    /\ UNCHANGED <<copy, conf, saved, seen, identity, uninstall, calls>>

NewAgentConfig(p) ==
    /\ conf = None
    /\ Accepted(p)
    /\ Loaded(NewConfig(p))

NewStateMachineConfig(p, info) ==
    /\ conf = None
    /\ AcceptedInfo(info)
    /\ Accepted(p)
    /\ Loaded([NewConfig(p) EXCEPT !.serving = info])

ReadConfig ==
    /\ conf # None
    /\ Readable(conf)
    /\ Loaded(Unmarshal(conf))

(* The process dies, with its memory. *)
Crash ==
    /\ agent # None
    /\ agent' = None /\ copy' = None /\ seen' = None
    /\ details' = [r \in Refs |-> Blank]
    /\ maps' = [o \in Owners |-> {}]
    /\ UNCHANGED <<conf, saved, identity, uninstall, calls>>

(* upgrade-agents, between two processes: sed makes the format 2.0 and,    *)
(* where it finds the version of the beta 7, adds the controller.          *)
UpgradeConf ==
    LET Sed(f) == [f EXCEPT !.upgradedTo = "2.0-rc1", !.controller = UUID]
    IN  /\ agent = None /\ conf # None
        /\ conf.format = "1.18"
        /\ conf' = [(IF conf.upgradedTo = "2.0-beta7" THEN Sed(conf) ELSE conf)
                        EXCEPT !.format = "2.0"]
        /\ saved' = Sed(saved)
        /\ UNCHANGED <<agent, copy, details, maps, seen, identity, uninstall, calls>>

-----------------------------------------------------------------------------
(* Changing it. *)

Call ==
    /\ agent # None
    /\ calls < MaxCalls
    /\ calls' = calls + 1

Set(c) ==
    /\ Call
    /\ agent' = c
    /\ UNCHANGED <<copy, details, maps, conf, saved, seen, identity, uninstall>>

SetUpgradedToVersion(v) == Set([agent EXCEPT !.upgradedTo = v])
SetCACert(cert) == Set([agent EXCEPT !.caCert = cert])
SetOldPassword(p) == Set([agent EXCEPT !.oldPassword = p])
SetMongoVersion(v) == Set([agent EXCEPT !.mongo = v])
SetStateServingInfo(info) == Set([agent EXCEPT !.serving = info])

SetDetails(new) ==
    /\ Call
    /\ details' = new
    /\ UNCHANGED <<agent, copy, maps, conf, saved, seen, identity, uninstall>>

(* Without a server, or one with an address, the list is nil. *)
SetAPIHostPorts(addresses) ==
    SetDetails(IF agent.api = None THEN details
               ELSE [details EXCEPT ![agent.api].addresses = addresses])

(* Mistake: only one of the two passwords is set. *)
SetPasswordOnce(p) ==
    SetDetails([r \in Refs |->
        IF r # None /\ r = (IF agent.state = None THEN agent.api ELSE agent.state)
          THEN [details[r] EXCEPT !.password = p]
          ELSE details[r]])

SetPassword(p) ==
    SetDetails([r \in Refs |-> IF r \in {agent.state, agent.api}
                                 THEN [details[r] EXCEPT !.password = p]
                                 ELSE details[r]])

(* An empty value takes the key away. *)
SetValue(key, empty) ==
    /\ Call
    /\ maps' = [maps EXCEPT ![agent.values] = IF empty THEN @ \ {key} ELSE @ \cup {key}]
    /\ UNCHANGED <<agent, copy, details, conf, saved, seen, identity, uninstall>>

-----------------------------------------------------------------------------
(* Copying it and writing it. *)

CloneDetails(d) ==
    IF d = None THEN None
    ELSE [d EXCEPT !.addresses = IF @ = None THEN << >> ELSE @]

(* Mistake: the clone shares the details of the original. *)
CloneShallow ==
    /\ Call
    /\ copy' = agent
    /\ seen' = Value(agent)
    /\ UNCHANGED <<agent, details, maps, conf, saved, identity, uninstall>>

Clone ==
    LET c == [Value(agent) EXCEPT !.state = CloneDetails(@), !.api = CloneDetails(@)]
    IN  /\ Call
        /\ copy' = Referring(c, "copy")
        /\ Stored(c, "copy")
        /\ seen' = Value(agent)
        /\ UNCHANGED <<agent, conf, saved, identity, uninstall>>

(* The file is replaced in one step (utils.AtomicWriteFile). *)
Write ==
    /\ Call
    /\ conf' = Marshal(Value(agent))
    /\ saved' = Value(agent)
    /\ UNCHANGED <<agent, copy, details, maps, seen, identity, uninstall>>

WriteSystemIdentityFile ==
    /\ Call
    /\ \E c \in {agent, copy} \ {None} :
          c.serving # None /\ identity' = c.serving.identity
    /\ UNCHANGED <<agent, copy, details, maps, conf, saved, seen, uninstall>>

SetCanUninstall ==
    /\ Call
    /\ agent.tag \in MachineTags
    /\ uninstall' = TRUE
    /\ UNCHANGED <<agent, copy, details, maps, conf, saved, seen, identity>>

Setter ==
    \/ \E v \in Versions : SetUpgradedToVersion(v)
    \/ \E s \in Secrets : SetCACert(s) \/ SetOldPassword(s) \/ SetPassword(s)
    \/ \E v \in MongoVersions : SetMongoVersion(v)
    \/ \E info \in Infos : SetStateServingInfo(info)
    \/ \E a \in Maybe(AddressLists) : SetAPIHostPorts(a)
    \/ \E k \in Keys, empty \in BOOLEAN : SetValue(k, empty)

Next ==
    \/ \E p \in Params : NewAgentConfig(p)
    \/ \E p \in Params, info \in Infos : NewStateMachineConfig(p, info)
    \/ ReadConfig \/ Crash \/ UpgradeConf
    \/ Setter
    \/ Clone \/ Write \/ WriteSystemIdentityFile \/ SetCanUninstall

Spec == ConfigInit /\ [][Next]_vars

-----------------------------------------------------------------------------
(* Properties. *)

(* Every variable has its type; in particular, a configuration that has    *)
(* been read names a controller by a UUID, or none at all.                 *)
TypeOK ==
    /\ agent \in Maybe(Held("agent")) /\ copy \in Maybe(Held("copy"))
    /\ details \in [Refs -> Details]
    /\ maps \in [Owners -> SUBSET Keys]
    /\ conf \in Maybe(Files) /\ saved \in Maybe(Configs) /\ seen \in Maybe(Configs)
    /\ conf = None <=> saved = None
    /\ identity \in Maybe(Secrets)
    /\ uninstall \in BOOLEAN
    /\ calls \in 0..MaxCalls

(* What the format of 2.0 can hold: both UUIDs, an address in every        *)
(* details, the default configuration directory, and for a controller its  *)
(* key and its port.                                                       *)
Complete(c) ==
    /\ c.controller # None /\ c.model # None
    /\ c.paths["conf"] = "default"
    /\ \A d \in {c.state, c.api} \ {None} : HasAddress(d)
    /\ c.serving # None => c.serving.key # None /\ c.serving.statePort # 0

(* An agent.conf in format 2.0, written by an agent (Write, agent.go:574)  *)
(* or made by upgrade-agents from the file of a beta 7                     *)
(* (upgradeagents.go:212), is read by the next process as exactly the      *)
(* configuration it stands for, if the format can hold it.                 *)
WrittenConfReadsBack ==
    (saved # None /\ Complete(saved) /\ conf.format = "2.0")
        => Readable(conf) /\ Unmarshal(conf) = saved

(* The passwords for the database and for the API of an agent are always   *)
(* the same, through SetPassword, SetAPIHostPorts, files and restarts.     *)
PasswordsAgree == agent # None => Agree(Value(agent))

(* "Clone returns a copy of the configuration that is unaffected by        *)
(* subsequent calls to the Set* methods" (agent.go:262): whatever has been *)
(* called since, the clone is what was cloned, an empty list of addresses  *)
(* standing for a nil one.                                                 *)
CloneUnaffected ==
    copy # None =>
        Value(copy) = [seen EXCEPT !.state = CloneDetails(@), !.api = CloneDetails(@)]

(* A controller's agent that starts knows the port of its database,        *)
(* whatever the processes before it were told: SetStateServingInfo takes   *)
(* an info without a port unchecked (agent.go:638), and then this process  *)
(* has none and writes none, but the next one infers it (format-2.0.go:131,*)
(* format-1.18.go:127) or does not start.                                  *)
MongoPortKnown ==
    [][(agent = None /\ agent' # None /\ HasMongoInfo(agent'))
            => MongoPort(agent') # 0]_vars

(* What the comments and tests of the package say, and the code does not.  *)

(* MongoInfo "returns details for connecting to the controller's mongo     *)
(* database and reports whether those details are available"               *)
(* (agent.go:230): it never panics.                                        *)
MongoInfoReports == agent # None => ~MongoInfoPanics(agent)

(* A configuration that has been written can be read                       *)
(* (agent_test.go:446, TestWriteAndRead).                                  *)
WrittenConfCanBeRead ==
    (saved # None /\ conf = Marshal(saved)) => Readable(conf)
=============================================================================
