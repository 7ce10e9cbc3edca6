------------------------------ MODULE AgentConf ------------------------------
(***************************************************************************)
(* The configuration of an agent as a value, the contents of agent.conf,   *)
(* and the two formats that lead from one to the other (agent/format*.go). *)
(*                                                                         *)
(* A configuration is a record; None stands for Go's nil and for an empty  *)
(* string.  A nil list of addresses (None) differs from an empty one, as   *)
(* APIInfo tells them apart.  The jobs and the nonce, which no call        *)
(* changes and both formats keep, are left out, and the certificate, the   *)
(* keys and the shared secret of a controller go with its private key.     *)
(***************************************************************************)
EXTENDS Integers, Sequences

CONSTANTS
    None,           \* nil, the empty string, an absent key
    EmptyTag,       \* "controller-" or "model-", the tag of an empty UUID
    Tags,           \* the entities that have agents
    MachineTags,    \* those of them that are machines
    Controllers, Models,    \* UUIDs
    Versions,       \* of juju
    MongoVersions,
    Secrets,        \* passwords, certificates, keys and identities
    Keys,           \* of the values of a configuration
    Addresses,      \* records with a host and a port
    Ports,
    Dirs            \* directories

Maybe(S) == S \cup {None}

-----------------------------------------------------------------------------
(* Configurations. *)

PathNames == {"data", "log", "spool", "conf"}
DefaultPaths == [n \in PathNames |-> "default"]

(* Paths left empty take their defaults. *)
NewPathsWithDefaults(p) ==
    [n \in PathNames |-> IF n \in DOMAIN p /\ p[n] # None THEN p[n]
                                                          ELSE DefaultPaths[n]]

Details == [addresses : Maybe(Seq(Addresses)), password : Maybe(Secrets)]

ServingInfo ==
    [key : Maybe(Secrets), statePort : Ports \cup {0},
     apiPort : Ports \cup {0}, identity : Maybe(Secrets)]

Configs ==
    [tag : Tags, paths : [PathNames -> Dirs \cup {"default"}],
     controller : Maybe(Controllers), model : Maybe(Models),
     upgradedTo : Versions, caCert : Maybe(Secrets),
     oldPassword : Maybe(Secrets), values : SUBSET Keys,
     mongo : Maybe(MongoVersions), state : Maybe(Details),
     api : Maybe(Details), serving : Maybe(ServingInfo)]

HasAddress(d) == d # None /\ d.addresses # None /\ d.addresses # << >>

ValidAddrs(d) == HasAddress(d) /\ \A i \in 1..Len(d.addresses) : d.addresses[i].port # None

(* check: some address, and every one of them with a port. *)
Checked(c) ==
    /\ c.state # None \/ c.api # None
    /\ \A d \in {c.state, c.api} \ {None} : ValidAddrs(d)

(* A new configuration has no password of its own: the one it is given is  *)
(* the fallback, until the agent has changed it.                           *)
NewDetails(addresses) ==
    IF addresses = << >> THEN None ELSE [addresses |-> addresses, password |-> None]

NewConfig(p) ==
    [tag |-> p.tag, paths |-> NewPathsWithDefaults(p.paths),
     controller |-> p.controller, model |-> p.model,
     upgradedTo |-> p.upgradedTo, caCert |-> p.caCert,
     oldPassword |-> p.password, values |-> p.values, mongo |-> p.mongo,
     state |-> NewDetails(p.stateAddresses), api |-> NewDetails(p.apiAddresses),
     serving |-> None]

(* The parameters of NewAgentConfig, complete or not. *)
AgentConfigParams ==
    [tag : Maybe(Tags),
     paths : UNION {[D -> Maybe(Dirs)] : D \in {P \in SUBSET PathNames : "data" \in P}},
     controller : Maybe(Controllers), model : Maybe(Models),
     upgradedTo : Maybe(Versions), caCert : Maybe(Secrets),
     password : Maybe(Secrets), values : SUBSET Keys, mongo : Maybe(MongoVersions),
     stateAddresses : Seq(Addresses), apiAddresses : Seq(Addresses)]

Accepted(p) ==
    /\ p.paths.data # None
    /\ p.tag \in Tags
    /\ None \notin {p.upgradedTo, p.password, p.caCert}
    /\ p.controller \in Controllers /\ p.model \in Models
    /\ Checked(NewConfig(p))

AcceptedInfo(info) ==
    info.key # None /\ info.statePort # 0 /\ info.apiPort # 0

(* APIInfo: the addresses of the API servers, with this machine's own when *)
(* it is a controller, and the password for them.                          *)
HasAPIInfo(c) == c.api # None /\ c.api.addresses # None

LocalAPI(info) == [host |-> "localhost", port |-> info.apiPort]

APIInfo(c) ==
    [addresses |-> IF \/ c.serving = None
                      \/ \E i \in 1..Len(c.api.addresses) :
                            c.api.addresses[i] = LocalAPI(c.serving)
                     THEN c.api.addresses
                     ELSE Append(c.api.addresses, LocalAPI(c.serving)),
     password |-> c.api.password]

(* MongoInfo: the port and the password for the database of this machine;  *)
(* the password is read whether there are state details or not.            *)
HasMongoInfo(c) == c.serving # None
MongoInfoPanics(c) == HasMongoInfo(c) /\ c.state = None
MongoPort(c) == c.serving.statePort

-----------------------------------------------------------------------------
(* The file. *)

WrittenPaths == PathNames \ {"conf"}

Files ==
    [format : {"1.18", "2.0"}, tag : Tags,
     paths : [WrittenPaths -> Dirs \cup {"default"}],
     controller : Maybe(Controllers \cup {EmptyTag}),
     model : Maybe(Models \cup {EmptyTag}),
     upgradedTo : Versions, caCert : Maybe(Secrets),
     oldPassword : Maybe(Secrets), values : SUBSET Keys,
     mongo : Maybe(MongoVersions), state : Maybe(Details),
     api : Maybe(Details), serving : Maybe(ServingInfo)]

ASSUME ConfAssumption ==
    /\ MachineTags \subseteq Tags
    /\ EmptyTag \notin Controllers \cup Models
    /\ None \notin Controllers \cup Models \cup Versions \cup Secrets \cup Dirs
    /\ None # EmptyTag /\ None # "default"
    /\ {"1.16.0", "2.0-beta7", "2.0-rc1"} \subseteq Versions
    /\ Ports \subseteq Nat \ {0}
    /\ \A a \in Addresses : a.port \in Ports \cup {None}
    /\ None \notin Seq(Addresses) /\ None \notin Details
    /\ None \notin ServingInfo /\ None \notin Configs /\ None \notin Files

TagOf(uuid) == IF uuid = None THEN EmptyTag ELSE uuid

(* Mistake: the passwords are not written. *)
WrittenNoPassword(d) ==
    IF HasAddress(d) THEN [d EXCEPT !.password = None] ELSE None

Written(d) == IF HasAddress(d) THEN d ELSE None

(* The format of 2.0: details without an address are not written, and a    *)
(* missing UUID is written as an empty tag.                                *)
Marshal(c) ==
    [format |-> "2.0", tag |-> c.tag,
     paths |-> [n \in WrittenPaths |-> c.paths[n]],
     controller |-> TagOf(c.controller), model |-> TagOf(c.model),
     upgradedTo |-> c.upgradedTo, caCert |-> c.caCert,
     oldPassword |-> c.oldPassword, values |-> c.values, mongo |-> c.mongo,
     state |-> Written(c.state), api |-> Written(c.api), serving |-> c.serving]

(* The format of 1.18 does not know the controller. *)
MarshalOld(c) ==
    [Marshal(c) EXCEPT !.format = "1.18", !.controller = None, !.model = c.model,
                       !.state = c.state, !.api = c.api]

HasKey(f) == f.serving # None /\ f.serving.key # None

(* Mistake: only the reader of the old format infers the state port. *)
InfersOldPort(f) == HasKey(f) /\ f.serving.statePort = 0 /\ f.format = "1.18"

(* A controller's file without a state port needs a state address. *)
InfersPort(f) == HasKey(f) /\ f.serving.statePort = 0

(* Mistake: the tags of a 2.0 file are not parsed. *)
ReadableUnparsed(f) ==
    InfersPort(f) => HasAddress(f.state) /\ f.state.addresses[1].port # None

Readable(f) ==
    /\ f.format = "2.0" => /\ f.controller \in Controllers
                           /\ f.model \in Models
                           /\ f.upgradedTo # None
    /\ f.format = "1.18" => f.model \in Maybe(Models)
    /\ InfersPort(f) => HasAddress(f.state) /\ f.state.addresses[1].port # None

Unmarshal(f) ==
    [tag |-> f.tag, paths |-> NewPathsWithDefaults(f.paths),
     controller |-> IF f.format = "2.0" THEN f.controller ELSE None,
     model |-> f.model,
     upgradedTo |-> IF f.upgradedTo = None THEN "1.16.0" ELSE f.upgradedTo,
     caCert |-> f.caCert, oldPassword |-> f.oldPassword, values |-> f.values,
     mongo |-> f.mongo, state |-> Written(f.state), api |-> Written(f.api),
     serving |-> CASE ~HasKey(f) -> None
                   [] InfersPort(f) -> [f.serving EXCEPT
                                          !.statePort = f.state.addresses[1].port]
                   [] OTHER -> f.serving]
=============================================================================
