-------------------------- MODULE AgentConfig_proofs --------------------------
(***************************************************************************)
(* What is proved about an agent's configuration, for all names, files and *)
(* parameters: the types, that agent.conf reads back as what it was        *)
(* written from, that the two passwords agree, and that a clone stays what *)
(* it was.  The first part is about the formats, the second about memory,  *)
(* the third about the steps of AgentConfig.                               *)
(***************************************************************************)
EXTENDS AgentConfig, TLAPS

-----------------------------------------------------------------------------
(* The formats. *)

(* Paths with defaults name a directory each. *)
LEMMA PathsType ==
    ASSUME NEW D \in SUBSET PathNames, NEW p \in [D -> Maybe(Dirs)]
    PROVE  NewPathsWithDefaults(p) \in [PathNames -> Dirs \cup {"default"}]
  BY DEF NewPathsWithDefaults, DefaultPaths, Maybe

(* The paths of a file are complete but for the configuration directory,   *)
(* which takes its default.                                                *)
LEMMA FilePaths ==
    ASSUME NEW q \in [PathNames -> Dirs \cup {"default"}]
    PROVE  /\ [n \in WrittenPaths |-> q[n]] \in [WrittenPaths -> Dirs \cup {"default"}]
           /\ q["conf"] = "default" =>
                NewPathsWithDefaults([n \in WrittenPaths |-> q[n]]) = q
  BY ConfAssumption DEF NewPathsWithDefaults, DefaultPaths, WrittenPaths, PathNames

(* Details made from a list of addresses. *)
LEMMA NewDetailsType ==
    ASSUME NEW a \in Seq(Addresses)
    PROVE  /\ NewDetails(a) \in Maybe(Details)
           /\ NewDetails(a) # None => NewDetails(a).password = None
  BY DEF NewDetails, Details, Maybe

(* A configuration made from accepted parameters. *)
LEMMA NewConfigType ==
    ASSUME NEW p \in AgentConfigParams, Accepted(p)
    PROVE  NewConfig(p) \in Configs /\ Agree(NewConfig(p))
<1>1. NewPathsWithDefaults(p.paths) \in [PathNames -> Dirs \cup {"default"}]
  BY PathsType DEF AgentConfigParams
<1>2. /\ NewDetails(p.stateAddresses) \in Maybe(Details)
      /\ NewDetails(p.apiAddresses) \in Maybe(Details)
  BY NewDetailsType DEF AgentConfigParams
<1>3. Agree(NewConfig(p))
  BY NewDetailsType DEF Agree, NewConfig, AgentConfigParams
<1>4. /\ p.tag \in Tags /\ p.controller \in Maybe(Controllers)
      /\ p.model \in Maybe(Models) /\ p.upgradedTo \in Versions
      /\ p.caCert \in Maybe(Secrets) /\ p.password \in Maybe(Secrets)
      /\ p.values \in SUBSET Keys /\ p.mongo \in Maybe(MongoVersions)
  BY DEF AgentConfigParams, Accepted, Maybe
<1>5. None \in Maybe(ServingInfo)
  BY DEF Maybe
<1> QED  BY <1>1, <1>2, <1>3, <1>4, <1>5 DEF NewConfig, Configs

(* What is written of details are details. *)
LEMMA WrittenType ==
    ASSUME NEW d \in Maybe(Details)
    PROVE  Written(d) \in Maybe(Details) /\ Written(Written(d)) = Written(d)
  BY DEF Written, Maybe

(* The port that a readable file gives. *)
LEMMA ServingType ==
    ASSUME NEW f \in Files, Readable(f), HasKey(f)
    PROVE  /\ f.serving \in ServingInfo
           /\ InfersPort(f) => [f.serving EXCEPT
                !.statePort = f.state.addresses[1].port] \in ServingInfo
<1>1. f.serving \in ServingInfo
  BY DEF Files, Maybe, HasKey
<1>2. ASSUME InfersPort(f)
      PROVE  f.state.addresses[1].port \in Ports
  <2>1. HasAddress(f.state) /\ f.state.addresses[1].port # None
    BY <1>2 DEF Readable
  <2>2. f.state.addresses \in Seq(Addresses) /\ f.state.addresses # << >>
    BY <2>1 DEF HasAddress, Files, Details, Maybe
  <2>3. f.state.addresses[1] \in Addresses
    BY <2>2
  <2> QED  BY <2>1, <2>3, ConfAssumption
<1> QED  BY <1>1, <1>2 DEF ServingInfo

(* A readable file gives a configuration. *)
LEMMA UnmarshalType ==
    ASSUME NEW f \in Files, Readable(f)
    PROVE  Unmarshal(f) \in Configs
<1>1. NewPathsWithDefaults(f.paths) \in [PathNames -> Dirs \cup {"default"}]
  BY DEF Files, NewPathsWithDefaults, DefaultPaths, WrittenPaths, PathNames
<1>2. Written(f.state) \in Maybe(Details) /\ Written(f.api) \in Maybe(Details)
  BY WrittenType DEF Files
<1>3. Unmarshal(f).serving \in Maybe(ServingInfo)
  <2>1. CASE ~HasKey(f)
    <3>1. Unmarshal(f).serving = None
      BY <2>1 DEF Unmarshal, InfersPort
    <3> QED  BY <3>1 DEF Maybe
  <2>2. CASE InfersPort(f)
    <3>1. HasKey(f)
      BY <2>2 DEF InfersPort
    <3>2. Unmarshal(f).serving = [f.serving EXCEPT !.statePort = f.state.addresses[1].port]
      BY <2>2, <3>1 DEF Unmarshal
    <3> QED  BY <2>2, <3>1, <3>2, ServingType DEF Maybe
  <2>3. CASE HasKey(f) /\ ~InfersPort(f)
    <3>1. Unmarshal(f).serving = f.serving
      BY <2>3 DEF Unmarshal
    <3> QED  BY <2>3, <3>1, ServingType DEF Maybe
  <2> QED  BY <2>1, <2>2, <2>3
<1>4. /\ (IF f.format = "2.0" THEN f.controller ELSE None) \in Maybe(Controllers)
      /\ f.model \in Maybe(Models)
      /\ (IF f.upgradedTo = None THEN "1.16.0" ELSE f.upgradedTo) \in Versions
  BY ConfAssumption DEF Files, Readable, Maybe
<1>5. /\ f.tag \in Tags /\ f.caCert \in Maybe(Secrets)
      /\ f.oldPassword \in Maybe(Secrets) /\ f.values \in SUBSET Keys
      /\ f.mongo \in Maybe(MongoVersions)
  BY DEF Files
<1> QED  BY <1>1, <1>2, <1>3, <1>4, <1>5 DEF Unmarshal, Configs

(* The fields of a configuration. *)
LEMMA ConfigFields ==
    ASSUME NEW c \in Configs
    PROVE  /\ c.tag \in Tags /\ c.paths \in [PathNames -> Dirs \cup {"default"}]
           /\ c.controller \in Maybe(Controllers) /\ c.model \in Maybe(Models)
           /\ c.upgradedTo \in Versions /\ c.caCert \in Maybe(Secrets)
           /\ c.oldPassword \in Maybe(Secrets) /\ c.values \in SUBSET Keys
           /\ c.mongo \in Maybe(MongoVersions) /\ c.serving \in Maybe(ServingInfo)
           /\ c.state \in Maybe(Details) /\ c.api \in Maybe(Details)
           /\ c = [tag |-> c.tag, paths |-> c.paths, controller |-> c.controller,
                   model |-> c.model, upgradedTo |-> c.upgradedTo,
                   caCert |-> c.caCert, oldPassword |-> c.oldPassword,
                   values |-> c.values, mongo |-> c.mongo, state |-> c.state,
                   api |-> c.api, serving |-> c.serving]
  BY DEF Configs

(* The fields of a file. *)
LEMMA FileFields ==
    ASSUME NEW f \in Files
    PROVE  f = [format |-> f.format, tag |-> f.tag, paths |-> f.paths,
                controller |-> f.controller, model |-> f.model,
                upgradedTo |-> f.upgradedTo, caCert |-> f.caCert,
                oldPassword |-> f.oldPassword, values |-> f.values,
                mongo |-> f.mongo, state |-> f.state, api |-> f.api,
                serving |-> f.serving]
  BY DEF Files

(* Both formats make files. *)
LEMMA MarshalType ==
    ASSUME NEW c \in Configs
    PROVE  Marshal(c) \in Files /\ MarshalOld(c) \in Files
<1>1. [n \in WrittenPaths |-> c.paths[n]] \in [WrittenPaths -> Dirs \cup {"default"}]
  BY ConfigFields DEF WrittenPaths
<1>2. /\ TagOf(c.controller) \in Maybe(Controllers \cup {EmptyTag})
      /\ TagOf(c.model) \in Maybe(Models \cup {EmptyTag})
      /\ c.model \in Maybe(Models \cup {EmptyTag})
      /\ None \in Maybe(Controllers \cup {EmptyTag})
  BY ConfigFields DEF TagOf, Maybe
<1>3. Written(c.state) \in Maybe(Details) /\ Written(c.api) \in Maybe(Details)
  BY WrittenType, ConfigFields
<1>4. Marshal(c) \in Files
  BY <1>1, <1>2, <1>3, ConfigFields DEF Marshal, Files
<1>5. c.state \in Maybe(Details) /\ c.api \in Maybe(Details)
  BY ConfigFields
<1> QED  BY <1>2, <1>4, <1>5 DEF MarshalOld, Files

(* "complete" configurations have addresses in their details, and a port.  *)
LEMMA CompleteFields ==
    ASSUME NEW c \in Configs, Complete(c)
    PROVE  /\ c.controller \in Controllers /\ c.model \in Models
           /\ c.paths["conf"] = "default"
           /\ Written(c.state) = c.state /\ Written(c.api) = c.api
           /\ c.serving # None => c.serving.key # None /\ c.serving.statePort # 0
<1>1. c.state # None => HasAddress(c.state)
  BY DEF Complete
<1>2. c.api # None => HasAddress(c.api)
  BY DEF Complete
<1> QED  BY <1>1, <1>2, ConfigFields DEF Complete, Written, Maybe

(* What format 2.0 can hold reads back as it was.                          *)
LEMMA RoundTrip ==
    ASSUME NEW c \in Configs, Complete(c)
    PROVE  Readable(Marshal(c)) /\ Unmarshal(Marshal(c)) = c
<1> DEFINE f == Marshal(c)
<1>1. /\ f.format = "2.0" /\ f.tag = c.tag
      /\ f.paths = [n \in WrittenPaths |-> c.paths[n]]
      /\ f.controller = c.controller /\ f.model = c.model
      /\ f.upgradedTo = c.upgradedTo /\ f.caCert = c.caCert
      /\ f.oldPassword = c.oldPassword /\ f.values = c.values
      /\ f.mongo = c.mongo /\ f.state = c.state /\ f.api = c.api
      /\ f.serving = c.serving
  BY CompleteFields, ConfAssumption DEF Marshal, TagOf
<1> HIDE DEF f
<1>2. ~InfersPort(f)
  BY <1>1, CompleteFields DEF InfersPort, HasKey
<1>3. Readable(f)
  BY <1>1, <1>2, CompleteFields, ConfigFields, ConfAssumption DEF Readable
<1>4. NewPathsWithDefaults(f.paths) = c.paths
  BY <1>1, FilePaths, ConfigFields, CompleteFields
<1>5. Unmarshal(f).serving = c.serving
  <2>1. CASE HasKey(f)
    BY <2>1, <1>1, <1>2 DEF Unmarshal
  <2>2. CASE ~HasKey(f)
    <3>1. c.serving = None
      BY <2>2, <1>1, CompleteFields DEF HasKey
    <3> QED  BY <2>2, <3>1, <1>2 DEF Unmarshal
  <2> QED  BY <2>1, <2>2
<1>6. /\ Unmarshal(f).controller = c.controller
      /\ Unmarshal(f).upgradedTo = c.upgradedTo
      /\ Unmarshal(f).state = c.state /\ Unmarshal(f).api = c.api
  BY <1>1, CompleteFields, ConfigFields, ConfAssumption DEF Unmarshal
<1>7. Unmarshal(f) = c
  <2>1. Unmarshal(f) = [tag |-> f.tag, paths |-> NewPathsWithDefaults(f.paths),
          controller |-> Unmarshal(f).controller, model |-> f.model,
          upgradedTo |-> Unmarshal(f).upgradedTo, caCert |-> f.caCert,
          oldPassword |-> f.oldPassword, values |-> f.values, mongo |-> f.mongo,
          state |-> Unmarshal(f).state, api |-> Unmarshal(f).api,
          serving |-> Unmarshal(f).serving]
    BY DEF Unmarshal
  <2> QED  BY <2>1, <1>1, <1>4, <1>5, <1>6, ConfigFields
<1> QED  BY <1>3, <1>7 DEF f

(* What upgrade-agents makes of the file of a beta 7 is what the writer of *)
(* format 2.0 would have written.                                          *)
Upgraded(c) == [c EXCEPT !.upgradedTo = "2.0-rc1", !.controller = UUID]
UpgradedFile(f) ==
    [f EXCEPT !.upgradedTo = "2.0-rc1", !.controller = UUID, !.format = "2.0"]

(* ... for a model that is known: otherwise the 2.0 writer leaves a tag.  *)
LEMMA SedMarshals ==
    ASSUME NEW c \in BetaConfigs
    PROVE  /\ Upgraded(c) \in Configs /\ Agree(Upgraded(c))
           /\ c.model # None =>
                UpgradedFile(MarshalOld(c)) = Marshal(Upgraded(c))
           /\ UpgradedFile(MarshalOld(c)) \in Files
<1>1. c \in Configs /\ UUID \in Controllers
  BY ConfigAssumption
<1>2. Written(c.state) = c.state /\ Written(c.api) = c.api
  <2>1. c.state # None => HasAddress(c.state)
    BY ConfigAssumption DEF ValidAddrs
  <2>2. c.api # None => HasAddress(c.api)
    BY ConfigAssumption DEF ValidAddrs
  <2> QED  BY <2>1, <2>2 DEF Written
<1>3. UUID # None /\ TagOf(UUID) = UUID
  BY <1>1, ConfAssumption DEF TagOf
<1>4. Upgraded(c) \in Configs
  BY <1>1, ConfAssumption DEF Upgraded, Configs, Maybe
<1>5. Agree(Upgraded(c))
  BY <1>1, ConfigAssumption DEF Upgraded, Agree, Configs
<1>6. UpgradedFile(MarshalOld(c)) \in Files
  <2>1. MarshalOld(c) \in Files
    BY <1>1, MarshalType
  <2> QED  BY <2>1, <1>1, ConfAssumption DEF UpgradedFile, Files, Maybe
<1>7. ASSUME c.model # None
      PROVE  UpgradedFile(MarshalOld(c)) = Marshal(Upgraded(c))
  <2>1. TagOf(c.model) = c.model
    BY <1>7 DEF TagOf
  <2>2. LET d == Upgraded(c)
        IN  /\ d.controller = UUID /\ d.upgradedTo = "2.0-rc1"
            /\ d.tag = c.tag /\ d.paths = c.paths /\ d.model = c.model
            /\ d.caCert = c.caCert /\ d.oldPassword = c.oldPassword
            /\ d.values = c.values /\ d.mongo = c.mongo
            /\ d.state = c.state /\ d.api = c.api /\ d.serving = c.serving
    BY <1>1 DEF Upgraded, Configs
  <2>3. Marshal(Upgraded(c)) =
          [format |-> "2.0", tag |-> c.tag,
           paths |-> [n \in WrittenPaths |-> c.paths[n]],
           controller |-> UUID, model |-> c.model,
           upgradedTo |-> "2.0-rc1", caCert |-> c.caCert,
           oldPassword |-> c.oldPassword, values |-> c.values, mongo |-> c.mongo,
           state |-> c.state, api |-> c.api, serving |-> c.serving]
    BY <2>1, <2>2, <1>2, <1>3 DEF Marshal
  <2>4. LET f == MarshalOld(c)
        IN  /\ f \in Files
            /\ f.tag = c.tag /\ f.paths = [n \in WrittenPaths |-> c.paths[n]]
            /\ f.model = c.model /\ f.caCert = c.caCert
            /\ f.oldPassword = c.oldPassword /\ f.values = c.values
            /\ f.mongo = c.mongo /\ f.state = c.state /\ f.api = c.api
            /\ f.serving = c.serving
    BY <1>1, MarshalType DEF MarshalOld, Marshal
  <2>5. LET f == MarshalOld(c)
            g == UpgradedFile(f)
        IN  /\ g.format = "2.0" /\ g.tag = f.tag /\ g.paths = f.paths
            /\ g.controller = UUID /\ g.model = f.model
            /\ g.upgradedTo = "2.0-rc1" /\ g.caCert = f.caCert
            /\ g.oldPassword = f.oldPassword /\ g.values = f.values
            /\ g.mongo = f.mongo /\ g.state = f.state /\ g.api = f.api
            /\ g.serving = f.serving
    BY <2>4 DEF UpgradedFile, Files
  <2> QED  BY <2>3, <2>4, <2>5, <1>6, FileFields
<1> QED  BY <1>4, <1>5, <1>6, <1>7

-----------------------------------------------------------------------------
(* Memory. *)

DetailsMemory == [Refs -> Details]
MapsMemory == [Owners -> SUBSET Keys]

(* The fields of a configuration in memory. *)
LEMMA HeldFields ==
    ASSUME NEW o \in Owners, NEW h \in Held(o)
    PROVE  /\ h # None
           /\ h.tag \in Tags /\ h.paths \in [PathNames -> Dirs \cup {"default"}]
           /\ h.controller \in Maybe(Controllers) /\ h.model \in Maybe(Models)
           /\ h.upgradedTo \in Versions /\ h.caCert \in Maybe(Secrets)
           /\ h.oldPassword \in Maybe(Secrets)
           /\ h.mongo \in Maybe(MongoVersions) /\ h.serving \in Maybe(ServingInfo)
           /\ h.state \in {None, <<o, "state">>} /\ h.api \in {None, <<o, "api">>}
           /\ h.values = o
  BY ConfigAssumption DEF Held, Maybe

(* What a configuration in memory is. *)
LEMMA ValueType ==
    ASSUME NEW o \in Owners, NEW h \in Held(o),
           NEW d \in DetailsMemory, NEW m \in MapsMemory
    PROVE  LET v == ValueIn(h, d, m)
           IN  /\ v \in Configs
               /\ v.tag = h.tag /\ v.paths = h.paths /\ v.controller = h.controller
               /\ v.model = h.model /\ v.upgradedTo = h.upgradedTo
               /\ v.caCert = h.caCert /\ v.oldPassword = h.oldPassword
               /\ v.mongo = h.mongo /\ v.serving = h.serving
               /\ v.state = At(h.state, d) /\ v.api = At(h.api, d)
               /\ v.values = m[o]
<1>1. At(h.state, d) \in Maybe(Details) /\ At(h.api, d) \in Maybe(Details)
  BY HeldFields DEF At, Maybe, DetailsMemory, Refs, Owners
<1>2. m[o] \in SUBSET Keys
  BY DEF MapsMemory
<1> QED  BY <1>1, <1>2, HeldFields DEF ValueIn, Held, Configs

(* It depends on its own objects only. *)
LEMMA ValueSame ==
    ASSUME NEW o \in Owners, NEW h \in Held(o), NEW d, NEW m, NEW e, NEW n,
           d[<<o, "state">>] = e[<<o, "state">>],
           d[<<o, "api">>] = e[<<o, "api">>], m[o] = n[o]
    PROVE  ValueIn(h, d, m) = ValueIn(h, e, n)
<1>1. At(h.state, d) = At(h.state, e) /\ At(h.api, d) = At(h.api, e)
  BY HeldFields DEF At
<1>2. m[h.values] = n[h.values]
  BY HeldFields
<1> QED  BY <1>1, <1>2 DEF ValueIn

(* What a configuration takes when it is put into memory. *)
PutDetails(d, c, o) == [d EXCEPT ![<<o, "state">>] = Object(c.state),
                                 ![<<o, "api">>] = Object(c.api)]
PutMap(m, c, o) == [m EXCEPT ![o] = c.values]

(* It becomes what it was, and disturbs no other.                          *)
LEMMA Put ==
    ASSUME NEW o \in Owners, NEW c \in Configs,
           NEW d \in DetailsMemory, NEW m \in MapsMemory
    PROVE  /\ PutDetails(d, c, o) \in DetailsMemory
           /\ PutMap(m, c, o) \in MapsMemory
           /\ Referring(c, o) \in Held(o)
           /\ Referring(c, o).serving = c.serving
           /\ ValueIn(Referring(c, o), PutDetails(d, c, o), PutMap(m, c, o)) = c
           /\ \A q \in Owners \ {o} : \A h \in Held(q) :
                 ValueIn(h, PutDetails(d, c, o), PutMap(m, c, o)) = ValueIn(h, d, m)
<1> DEFINE e == PutDetails(d, c, o)
           n == PutMap(m, c, o)
           r == Referring(c, o)
<1>1. Object(c.state) \in Details /\ Object(c.api) \in Details
  BY ConfigFields DEF Object, Blank, Details, Maybe
<1>2. <<o, "state">> \in Refs /\ <<o, "api">> \in Refs
  BY DEF Refs
<1>3. e \in DetailsMemory
  BY <1>1 DEF PutDetails, DetailsMemory
<1>4. n \in MapsMemory
  BY ConfigFields DEF PutMap, MapsMemory
<1>5. e[<<o, "state">>] = Object(c.state) /\ e[<<o, "api">>] = Object(c.api)
  BY <1>2 DEF PutDetails, DetailsMemory
<1>6. n[o] = c.values
  BY DEF PutMap, MapsMemory
<1>7. /\ r \in Held(o)
      /\ r.tag = c.tag /\ r.paths = c.paths /\ r.controller = c.controller
      /\ r.model = c.model /\ r.upgradedTo = c.upgradedTo
      /\ r.caCert = c.caCert /\ r.oldPassword = c.oldPassword
      /\ r.mongo = c.mongo /\ r.serving = c.serving
      /\ r.state = RefTo(c.state, <<o, "state">>)
      /\ r.api = RefTo(c.api, <<o, "api">>)
  <2>1. /\ r.tag = c.tag /\ r.paths = c.paths /\ r.controller = c.controller
        /\ r.model = c.model /\ r.upgradedTo = c.upgradedTo
        /\ r.caCert = c.caCert /\ r.oldPassword = c.oldPassword
        /\ r.mongo = c.mongo /\ r.serving = c.serving /\ r.values = o
        /\ r.state = RefTo(c.state, <<o, "state">>)
        /\ r.api = RefTo(c.api, <<o, "api">>)
    BY DEF Referring, Configs
  <2>2. /\ RefTo(c.state, <<o, "state">>) \in Maybe({<<o, "state">>})
        /\ RefTo(c.api, <<o, "api">>) \in Maybe({<<o, "api">>})
    BY DEF RefTo, Maybe
  <2>3. r \in Held(o)
    BY <2>2 DEF Referring, Configs, Held
  <2> QED  BY <2>1, <2>3
<1> HIDE DEF e, n, r
<1>8. None \notin Refs
  BY ConfigAssumption
<1>9. At(r.state, e) = c.state /\ At(r.api, e) = c.api
  BY <1>2, <1>5, <1>7, <1>8 DEF At, RefTo, Object
<1>10. ValueIn(r, e, n) = c
  <2>1. LET v == ValueIn(r, e, n)
        IN  /\ v \in Configs
            /\ v.tag = c.tag /\ v.paths = c.paths /\ v.controller = c.controller
            /\ v.model = c.model /\ v.upgradedTo = c.upgradedTo
            /\ v.caCert = c.caCert /\ v.oldPassword = c.oldPassword
            /\ v.mongo = c.mongo /\ v.serving = c.serving
            /\ v.state = c.state /\ v.api = c.api /\ v.values = c.values
    BY <1>3, <1>4, <1>6, <1>7, <1>9, ValueType
  <2> QED  BY <2>1, ConfigFields
<1>11. ASSUME NEW q \in Owners \ {o}, NEW h \in Held(q)
       PROVE  ValueIn(h, e, n) = ValueIn(h, d, m)
  <2>1. /\ e[<<q, "state">>] = d[<<q, "state">>] /\ e[<<q, "api">>] = d[<<q, "api">>]
        /\ n[q] = m[q]
    BY DEF e, n, PutDetails, PutMap, DetailsMemory, MapsMemory, Refs
  <2> QED  BY <2>1, ValueSame
<1> QED  BY <1>3, <1>4, <1>7, <1>10, <1>11 DEF e, n, r

(* A setter of one field of the configuration itself. *)
LEMMA SetFields ==
    ASSUME NEW h \in Held("agent"), NEW d \in DetailsMemory, NEW m \in MapsMemory,
           NEW g \in Held("agent"), g.state = h.state, g.api = h.api,
           Agree(ValueIn(h, d, m))
    PROVE  Agree(ValueIn(g, d, m))
  BY ValueType DEF Agree, Owners

-----------------------------------------------------------------------------
(* The invariant. *)

(* What agent.conf holds was written by a beta 7, by Write, or by          *)
(* upgrade-agents.                                                         *)
ConfInv ==
    \/ conf = None /\ saved = None
    \/ saved \in BetaConfigs /\ conf = MarshalOld(saved)
    \/ saved \in Configs /\ conf = Marshal(saved)
    \/ \E c \in BetaConfigs : saved = Upgraded(c) /\ conf = UpgradedFile(MarshalOld(c))

SavedAgrees == saved # None => Agree(saved)

IInv ==
    /\ TypeOK /\ ConfInv /\ SavedAgrees
    /\ PasswordsAgree /\ CloneUnaffected
    /\ copy # None => seen # None

(* A file and the configuration it was written from have the same details, *)
(* as far as a reader sees them, so that a file read agrees.               *)
LEMMA ReadAgrees ==
    ASSUME TypeOK, ConfInv, SavedAgrees, conf # None
    PROVE  Agree(Unmarshal(conf))
<1>1. /\ Unmarshal(conf).state = Written(conf.state)
      /\ Unmarshal(conf).api = Written(conf.api)
  BY DEF Unmarshal
<1>2. saved # None /\ saved \in Configs
  BY DEF TypeOK, Maybe
<1>3. /\ Written(conf.state) = Written(saved.state)
      /\ Written(conf.api) = Written(saved.api)
  <2>1. CASE saved \in BetaConfigs /\ conf = MarshalOld(saved)
    BY <2>1 DEF MarshalOld, Marshal
  <2>2. CASE conf = Marshal(saved)
    BY <2>2, <1>2, ConfigFields, WrittenType DEF Marshal
  <2>3. ASSUME NEW c \in BetaConfigs, saved = Upgraded(c),
               conf = UpgradedFile(MarshalOld(c))
        PROVE  Written(conf.state) = Written(saved.state) /\ Written(conf.api) = Written(saved.api)
    <3>1. c \in Configs
      BY ConfigAssumption
    <3>2. saved.state = c.state /\ saved.api = c.api
      BY <2>3, <3>1 DEF Upgraded, Configs
    <3>3. conf.state = c.state /\ conf.api = c.api
      BY <2>3 DEF UpgradedFile, MarshalOld, Marshal
    <3> QED  BY <3>2, <3>3
  <2> QED  BY <2>1, <2>2, <2>3 DEF ConfInv
<1>4. Agree(saved)
  BY <1>2 DEF SavedAgrees
<1> QED
  <2>1. \A d \in {saved.state, saved.api} : Written(d) # None => Written(d) = d /\ d # None
    BY DEF Written, HasAddress
  <2> QED  BY <1>1, <1>3, <1>4, <2>1 DEF Agree

(* It follows that a complete configuration reads back.                    *)
LEMMA SavedReadsBack ==
    ASSUME TypeOK, ConfInv
    PROVE  WrittenConfReadsBack
<1> SUFFICES ASSUME saved # None, Complete(saved), conf.format = "2.0"
             PROVE  Readable(conf) /\ Unmarshal(conf) = saved
  BY DEF WrittenConfReadsBack
<1>1. saved \in Configs
  BY DEF TypeOK, Maybe
<1>2. conf = Marshal(saved)
  <2>1. ~(saved \in BetaConfigs /\ conf = MarshalOld(saved))
    BY DEF MarshalOld, Marshal
  <2>2. ASSUME NEW c \in BetaConfigs, saved = Upgraded(c),
               conf = UpgradedFile(MarshalOld(c))
        PROVE  conf = Marshal(saved)
    <3>1. saved.model = c.model
      BY <2>2, ConfigAssumption DEF Upgraded, Configs
    <3>2. c.model # None
      BY <3>1 DEF Complete
    <3> QED  BY <2>2, <3>2, SedMarshals
  <2> QED  BY <2>1, <2>2 DEF ConfInv
<1> QED  BY <1>1, <1>2, RoundTrip

-----------------------------------------------------------------------------
(* The steps. *)

(* A step that only replaces the details in memory, with those of the copy *)
(* left alone, or nothing in memory, keeps the copy what it was.           *)
LEMMA CopyKept ==
    ASSUME IInv, copy' = copy, seen' = seen, maps' = maps,
           details'[<<"copy", "state">>] = details[<<"copy", "state">>],
           details'[<<"copy", "api">>] = details[<<"copy", "api">>]
    PROVE  CloneUnaffected' /\ (copy # None => seen # None)'
<1>1. ASSUME copy # None
      PROVE  ValueIn(copy, details', maps') = ValueIn(copy, details, maps)
  <2>1. copy \in Held("copy")
    BY <1>1 DEF IInv, TypeOK, Maybe
  <2> QED  BY <2>1, ValueSame DEF Owners
<1> QED  BY <1>1 DEF IInv, CloneUnaffected, Value

(* The invariant holds at first.                                           *)
LEMMA InitInv == ASSUME ConfigInit PROVE IInv
<1>1. TypeOK /\ ConfInv /\ SavedAgrees
  <2>1. /\ [r \in Refs |-> Blank] \in [Refs -> Details]
        /\ [o \in Owners |-> {}] \in [Owners -> SUBSET Keys]
        /\ 0 \in 0..MaxCalls
    BY ConfigAssumption DEF Blank, Details, Maybe
  <2>2. \/ conf = None /\ saved = None
        \/ saved \in BetaConfigs /\ conf = MarshalOld(saved)
    BY DEF ConfigInit
  <2>3. ASSUME saved \in BetaConfigs, conf = MarshalOld(saved)
        PROVE  saved \in Configs /\ conf \in Files /\ Agree(saved)
    BY <2>3, ConfigAssumption, MarshalType
  <2>4. conf \in Maybe(Files) /\ saved \in Maybe(Configs)
    BY <2>2, <2>3 DEF Maybe
  <2>5. conf = None <=> saved = None
    BY <2>2, <2>3, ConfAssumption
  <2>6. SavedAgrees
    BY <2>2, <2>3 DEF SavedAgrees
  <2> QED  BY <2>1, <2>2, <2>4, <2>5, <2>6 DEF ConfigInit, TypeOK, ConfInv, Maybe
<1> QED  BY <1>1 DEF IInv, ConfigInit, PasswordsAgree, CloneUnaffected

(* A configuration comes into memory. *)
LEMMA LoadedStep ==
    ASSUME IInv, NEW c \in Configs, Agree(c),
           Loaded(c)
    PROVE  IInv'
<1> USE DEF IInv
<1>1. details \in DetailsMemory /\ maps \in MapsMemory /\ "agent" \in Owners
  BY DEF TypeOK, DetailsMemory, MapsMemory, Owners
<1>2. /\ details' = PutDetails(details, c, "agent") /\ maps' = PutMap(maps, c, "agent")
      /\ agent' = Referring(c, "agent")
  BY DEF Loaded, Stored, PutDetails, PutMap
<1>3. /\ details' \in DetailsMemory /\ maps' \in MapsMemory
      /\ agent' \in Held("agent") /\ agent'.serving = c.serving
      /\ ValueIn(agent', details', maps') = c
      /\ \A h \in Held("copy") :
            ValueIn(h, details', maps') = ValueIn(h, details, maps)
  BY <1>1, <1>2, Put DEF Owners
<1>4. TypeOK'
  BY <1>3 DEF TypeOK, Loaded, Maybe, DetailsMemory, MapsMemory
<1>5. PasswordsAgree'
  BY <1>3 DEF PasswordsAgree, Value
<1>6. CloneUnaffected' /\ (copy # None => seen # None)'
  BY <1>3 DEF Loaded, CloneUnaffected, Value, TypeOK, Maybe
<1>7. ConfInv' /\ SavedAgrees'
  BY DEF Loaded, ConfInv, SavedAgrees
<1> QED  BY <1>4, <1>5, <1>6, <1>7

(* A configuration made by NewAgentConfig or NewStateMachineConfig.        *)
LEMMA NewStep ==
    ASSUME IInv, NEW p \in Params,
           NewAgentConfig(p) \/ \E info \in Infos : NewStateMachineConfig(p, info)
    PROVE  IInv'
<1>1. ASSUME Accepted(p)
      PROVE  /\ NewConfig(p) \in Configs /\ Agree(NewConfig(p))
             /\ NewConfig(p).serving = None
  BY <1>1, ConfigAssumption, NewConfigType DEF NewConfig
<1>2. CASE NewAgentConfig(p)
  BY <1>1, <1>2, LoadedStep DEF NewAgentConfig
<1>3. ASSUME NEW info \in Infos, NewStateMachineConfig(p, info)
      PROVE  IInv'
  <2> DEFINE c == [NewConfig(p) EXCEPT !.serving = info]
  <2>1. Accepted(p) /\ info \in ServingInfo /\ Loaded(c)
    BY <1>3, ConfigAssumption DEF NewStateMachineConfig
  <2>2. /\ c \in Configs /\ c.serving = info
        /\ c.state = NewConfig(p).state /\ c.api = NewConfig(p).api
    BY <1>1, <2>1 DEF Configs, Maybe
  <2>3. Agree(c)
    BY <1>1, <2>1, <2>2 DEF Agree
  <2> HIDE DEF c
  <2> QED  BY <2>1, <2>2, <2>3, LoadedStep
<1> QED  BY <1>2, <1>3

(* A configuration read from agent.conf.                                   *)
LEMMA ReadStep == ASSUME IInv, ReadConfig PROVE IInv'
<1> DEFINE c == Unmarshal(conf)
<1>1. conf \in Files /\ Readable(conf)
  BY DEF IInv, TypeOK, ReadConfig, Maybe
<1>2. c \in Configs
  BY <1>1, UnmarshalType
<1>3. Agree(c)
  BY ReadAgrees DEF IInv, ReadConfig
<1> HIDE DEF c
<1>4. Loaded(c)
  BY DEF ReadConfig, c
<1> QED  BY <1>2, <1>3, <1>4, LoadedStep

(* The process dies: the file stays.                                       *)
LEMMA CrashStep == ASSUME IInv, Crash PROVE IInv'
<1>1. /\ [r \in Refs |-> Blank] \in [Refs -> Details]
      /\ [o \in Owners |-> {}] \in [Owners -> SUBSET Keys]
  BY DEF Blank, Details, Maybe
<1>2. TypeOK'
  BY <1>1 DEF IInv, TypeOK, Crash, Maybe
<1> QED  BY <1>2 DEF IInv, Crash, ConfInv, SavedAgrees, PasswordsAgree,
                     CloneUnaffected

(* upgrade-agents converts the file of a beta 7.                           *)
LEMMA UpgradeStep == ASSUME IInv, UpgradeConf PROVE IInv'
<1>1. conf # None /\ saved # None /\ conf.format = "1.18"
  BY DEF IInv, TypeOK, UpgradeConf
<1>2. saved \in BetaConfigs /\ conf = MarshalOld(saved)
  <2>1. conf # Marshal(saved)
    BY <1>1 DEF Marshal
  <2>2. ASSUME NEW c \in BetaConfigs, conf = UpgradedFile(MarshalOld(c))
        PROVE  FALSE
    BY <1>1, <2>2 DEF UpgradedFile, MarshalOld, Marshal
  <2> QED  BY <1>1, <2>1, <2>2 DEF IInv, ConfInv
<1>3. conf.upgradedTo = "2.0-beta7"
  BY <1>2, ConfigAssumption DEF MarshalOld, Marshal
<1>4. saved' = Upgraded(saved) /\ conf' = UpgradedFile(MarshalOld(saved))
  BY <1>2, <1>3 DEF UpgradeConf, Upgraded, UpgradedFile, MarshalOld, Marshal
<1>5. saved' \in Configs /\ conf' \in Files /\ Agree(saved')
  BY <1>2, <1>4, SedMarshals
<1>6. TypeOK'
  BY <1>5, ConfAssumption DEF IInv, TypeOK, UpgradeConf, Maybe
<1>7. ConfInv'
  BY <1>2, <1>4 DEF ConfInv
<1>8. SavedAgrees'
  BY <1>5 DEF SavedAgrees
<1> QED  BY <1>6, <1>7, <1>8 DEF IInv, UpgradeConf, PasswordsAgree, CloneUnaffected, Value

(* A setter of a field of the configuration itself. *)
LEMMA SetStep ==
    ASSUME IInv, NEW c \in Held("agent"), Set(c),
           c.state = agent.state, c.api = agent.api
    PROVE  IInv'
<1>1. /\ agent \in Held("agent") /\ agent' = c
      /\ details \in DetailsMemory /\ maps \in MapsMemory
  BY DEF IInv, TypeOK, Set, Call, Maybe, DetailsMemory, MapsMemory
<1>2. TypeOK'
  BY <1>1, ConfigAssumption DEF IInv, TypeOK, Set, Call, Maybe
<1>3. PasswordsAgree'
  <2>1. Agree(ValueIn(agent, details, maps))
    BY <1>1, HeldFields DEF IInv, PasswordsAgree, Value, Owners
  <2>2. Agree(ValueIn(c, details, maps))
    BY <1>1, <2>1, SetFields
  <2>3. details' = details /\ maps' = maps
    BY DEF Set
  <2> QED  BY <1>1, <2>2, <2>3 DEF PasswordsAgree, Value
<1> QED  BY <1>2, <1>3 DEF IInv, Set, ConfInv, SavedAgrees, CloneUnaffected, Value

(* A setter of the connection details. *)
LEMMA DetailsStep ==
    ASSUME IInv, NEW d \in DetailsMemory, SetDetails(d),
           d[<<"copy", "state">>] = details[<<"copy", "state">>],
           d[<<"copy", "api">>] = details[<<"copy", "api">>],
           (agent.state # None /\ agent.api # None)
              => d[agent.state].password = d[agent.api].password
    PROVE  IInv'
<1>1. /\ agent \in Held("agent") /\ agent' = agent /\ details' = d /\ maps' = maps
      /\ maps \in MapsMemory
  BY DEF IInv, TypeOK, SetDetails, Call, Maybe, MapsMemory
<1>2. TypeOK'
  BY <1>1, ConfigAssumption DEF IInv, TypeOK, SetDetails, Call, DetailsMemory
<1>3. PasswordsAgree'
  <2>1. LET v == ValueIn(agent, d, maps)
        IN  v.state = At(agent.state, d) /\ v.api = At(agent.api, d)
    BY <1>1, ValueType DEF Owners
  <2> QED  BY <1>1, <2>1 DEF PasswordsAgree, Value, Agree, At
<1>4. CloneUnaffected' /\ (copy # None => seen # None)'
  BY <1>1, CopyKept DEF SetDetails
<1> QED  BY <1>1, <1>2, <1>3, <1>4 DEF IInv, SetDetails, ConfInv, SavedAgrees

(* The agent's details before and after, seen from its configuration. *)
LEMMA AgentDetails ==
    ASSUME IInv, agent # None
    PROVE  /\ agent \in Held("agent")
           /\ details \in [Refs -> Details] /\ maps \in MapsMemory
           /\ agent.state \in {None, <<"agent", "state">>}
           /\ agent.api \in {None, <<"agent", "api">>}
           /\ agent.values = "agent"
           /\ (agent.state # None /\ agent.api # None)
                => details[agent.state].password = details[agent.api].password
<1>1. /\ agent \in Held("agent") /\ details \in DetailsMemory /\ maps \in MapsMemory
  BY DEF IInv, TypeOK, Maybe, DetailsMemory, MapsMemory
<1>2. LET v == ValueIn(agent, details, maps)
      IN  v.state = At(agent.state, details) /\ v.api = At(agent.api, details)
  BY <1>1, ValueType DEF Owners
<1>3. /\ agent.state \in {None, <<"agent", "state">>}
      /\ agent.api \in {None, <<"agent", "api">>} /\ agent.values = "agent"
  BY <1>1, HeldFields DEF Owners
<1>4. ASSUME agent.state # None, agent.api # None
      PROVE  details[agent.state].password = details[agent.api].password
  <2>1. details[agent.state] \in Details /\ details[agent.api] \in Details
    BY <1>1, <1>3, <1>4 DEF DetailsMemory, Refs, Owners
  <2>2. /\ Value(agent).state = details[agent.state]
        /\ Value(agent).api = details[agent.api]
    BY <1>2, <1>4 DEF At, Value
  <2> QED  BY <2>1, <2>2, ConfAssumption DEF IInv, PasswordsAgree, Agree
<1> QED  BY <1>1, <1>3, <1>4 DEF DetailsMemory

(* Every setter.                                                           *)
LEMMA SetterStep == ASSUME IInv, Setter PROVE IInv'
<1> agent # None
  BY DEF Setter, SetUpgradedToVersion, SetCACert, SetOldPassword, SetPassword,
         SetMongoVersion, SetStateServingInfo, SetAPIHostPorts, SetValue, Set,
         SetDetails, Call
<1>1. agent \in Held("agent")
  BY AgentDetails
<1>2. ASSUME NEW v \in Versions, SetUpgradedToVersion(v)
      PROVE  IInv'
  <2>1. LET c == [agent EXCEPT !.upgradedTo = v]
        IN  /\ c \in Held("agent") /\ c.state = agent.state /\ c.api = agent.api
            /\ c.serving = agent.serving
    BY <1>1 DEF Held
  <2> QED  BY <1>1, <1>2, <2>1, SetStep DEF SetUpgradedToVersion
<1>3. ASSUME NEW s \in Secrets, SetCACert(s)
      PROVE  IInv'
  <2>1. LET c == [agent EXCEPT !.caCert = s]
        IN  /\ c \in Held("agent") /\ c.state = agent.state /\ c.api = agent.api
            /\ c.serving = agent.serving
    BY <1>1 DEF Held, Maybe
  <2> QED  BY <1>1, <1>3, <2>1, SetStep DEF SetCACert
<1>4. ASSUME NEW s \in Secrets, SetOldPassword(s)
      PROVE  IInv'
  <2>1. LET c == [agent EXCEPT !.oldPassword = s]
        IN  /\ c \in Held("agent") /\ c.state = agent.state /\ c.api = agent.api
            /\ c.serving = agent.serving
    BY <1>1 DEF Held, Maybe
  <2> QED  BY <1>1, <1>4, <2>1, SetStep DEF SetOldPassword
<1>5. ASSUME NEW v \in MongoVersions, SetMongoVersion(v)
      PROVE  IInv'
  <2>1. LET c == [agent EXCEPT !.mongo = v]
        IN  /\ c \in Held("agent") /\ c.state = agent.state /\ c.api = agent.api
            /\ c.serving = agent.serving
    BY <1>1 DEF Held, Maybe
  <2> QED  BY <1>1, <1>5, <2>1, SetStep DEF SetMongoVersion
<1>6. ASSUME NEW info \in Infos, SetStateServingInfo(info)
      PROVE  IInv'
  <2>1. info \in ServingInfo
    BY ConfigAssumption
  <2>2. LET c == [agent EXCEPT !.serving = info]
        IN  /\ c \in Held("agent") /\ c.state = agent.state /\ c.api = agent.api
            /\ c.serving = info
    BY <1>1, <2>1 DEF Held, Maybe
  <2> QED  BY <1>6, <2>1, <2>2, SetStep DEF SetStateServingInfo
<1>7. ASSUME NEW s \in Secrets, SetPassword(s)
      PROVE  IInv'
  <2> DEFINE d == [r \in Refs |-> IF r \in {agent.state, agent.api}
                                    THEN [details[r] EXCEPT !.password = s]
                                    ELSE details[r]]
  <2>1. \A r \in Refs : details[r] \in Details
                        /\ [details[r] EXCEPT !.password = s] \in Details
    BY AgentDetails DEF Details, Maybe
  <2>2. d \in DetailsMemory
    BY <2>1 DEF DetailsMemory
  <2>3. /\ d[<<"copy", "state">>] = details[<<"copy", "state">>]
        /\ d[<<"copy", "api">>] = details[<<"copy", "api">>]
    BY AgentDetails, ConfigAssumption DEF Refs, Owners
  <2>4. \A r \in Refs \cap {agent.state, agent.api} : d[r].password = s
    BY <2>1 DEF Details
  <2>5. (agent.state # None /\ agent.api # None)
            => agent.state \in Refs /\ agent.api \in Refs
    BY AgentDetails DEF Refs, Owners
  <2>6. SetDetails(d)
    BY <1>7 DEF SetPassword
  <2> HIDE DEF d
  <2> QED  BY <2>2, <2>3, <2>4, <2>5, <2>6, DetailsStep
<1>8. ASSUME NEW a \in Maybe(AddressLists), SetAPIHostPorts(a)
      PROVE  IInv'
  <2> DEFINE d == IF agent.api = None THEN details
                  ELSE [details EXCEPT ![agent.api].addresses = a]
  <2>1. a \in Maybe(Seq(Addresses))
    BY ConfigAssumption DEF Maybe
  <2>2. agent.api # None =>
            /\ agent.api = <<"agent", "api">> /\ agent.api \in Refs
            /\ details[agent.api] \in Details
            /\ [details[agent.api] EXCEPT !.addresses = a] \in Details
    BY <2>1, AgentDetails DEF Refs, Owners, Details
  <2>3. d \in DetailsMemory
    BY <2>2, AgentDetails DEF DetailsMemory
  <2>4. \A r \in Refs : d[r].password = details[r].password
    BY <2>2, AgentDetails DEF Details
  <2>5. \A r \in Refs : r # <<"agent", "api">> => d[r] = details[r]
    BY <2>2, AgentDetails
  <2>6. /\ d[<<"copy", "state">>] = details[<<"copy", "state">>]
        /\ d[<<"copy", "api">>] = details[<<"copy", "api">>]
    BY <2>5 DEF Refs, Owners
  <2>7. (agent.state # None /\ agent.api # None)
            => agent.state \in Refs /\ agent.api \in Refs
    BY AgentDetails DEF Refs, Owners
  <2>8. SetDetails(d)
    BY <1>8 DEF SetAPIHostPorts
  <2> HIDE DEF d
  <2> QED  BY <2>3, <2>4, <2>6, <2>7, <2>8, AgentDetails, DetailsStep
<1>9. ASSUME NEW k \in Keys, NEW empty \in BOOLEAN, SetValue(k, empty)
      PROVE  IInv'
  <2> DEFINE m == [maps EXCEPT !["agent"] = IF empty THEN @ \ {k} ELSE @ \cup {k}]
  <2>1. m \in MapsMemory /\ m["copy"] = maps["copy"] /\ maps' = m
    BY <1>9, AgentDetails DEF SetValue, MapsMemory, Owners
  <2> HIDE DEF m
  <2>2. /\ Value(agent)'.state = Value(agent).state
        /\ Value(agent)'.api = Value(agent).api
    <3>1. agent' = agent /\ details' = details /\ maps' = m
          /\ details \in DetailsMemory
      BY <1>9, <2>1, AgentDetails DEF SetValue, DetailsMemory
    <3>2. /\ ValueIn(agent, details, m).state = ValueIn(agent, details, maps).state
          /\ ValueIn(agent, details, m).api = ValueIn(agent, details, maps).api
      BY <2>1, <3>1, AgentDetails, ValueType DEF Owners
    <3> QED  BY <3>1, <3>2 DEF Value
  <2>3. PasswordsAgree'
    BY <2>2 DEF IInv, PasswordsAgree, Agree
  <2>4. ASSUME copy # None
        PROVE  Value(copy)' = Value(copy)
    <3>1. copy \in Held("copy") /\ copy' = copy /\ details' = details
      BY <2>4, <1>9 DEF IInv, TypeOK, SetValue, Maybe
    <3>2. ValueIn(copy, details, m) = ValueIn(copy, details, maps)
      BY <2>1, <3>1, ValueSame DEF Owners
    <3> QED  BY <2>1, <3>1, <3>2 DEF Value
  <2>5. TypeOK'
    <3>1. calls' \in 0..MaxCalls
      BY <1>9, ConfigAssumption DEF IInv, TypeOK, SetValue, Call
    <3>2. maps' \in [Owners -> SUBSET Keys]
      BY <2>1 DEF MapsMemory
    <3> QED  BY <1>9, <3>1, <3>2 DEF IInv, TypeOK, SetValue
  <2> QED  BY <1>9, <2>3, <2>4, <2>5 DEF IInv, SetValue, ConfInv, SavedAgrees,
                        CloneUnaffected
<1> QED  BY <1>2, <1>3, <1>4, <1>5, <1>6, <1>7, <1>8, <1>9 DEF Setter

(* The copy of details is details.                                         *)
LEMMA CloneDetailsType ==
    ASSUME NEW d \in Maybe(Details)
    PROVE  CloneDetails(d) \in Maybe(Details)
<1>1. CASE d = None
  BY <1>1 DEF CloneDetails, Maybe
<1>2. CASE d # None /\ d.addresses = None
  <2>1. d \in Details /\ << >> \in Seq(Addresses)
    BY <1>2 DEF Maybe
  <2>2. CloneDetails(d) = [d EXCEPT !.addresses = << >>]
    BY <1>2 DEF CloneDetails
  <2> QED  BY <2>1, <2>2 DEF Details, Maybe
<1>3. CASE d # None /\ d.addresses # None
  <2>1. d \in Details
    BY <1>3 DEF Maybe
  <2>2. CloneDetails(d) = [d EXCEPT !.addresses = d.addresses]
    BY <1>3 DEF CloneDetails
  <2> QED  BY <2>1, <2>2 DEF Details, Maybe
<1> QED  BY <1>1, <1>2, <1>3

(* A clone takes memory of its own.                                        *)
LEMMA CloneStep == ASSUME IInv, Clone PROVE IInv'
<1> DEFINE v == Value(agent)
           c == [v EXCEPT !.state = CloneDetails(@), !.api = CloneDetails(@)]
<1>1. agent # None
  BY DEF Clone, Call
<1>2. v \in Configs
  BY <1>1, AgentDetails, ValueType DEF Value, Owners, DetailsMemory
<1>3. /\ CloneDetails(v.state) \in Maybe(Details)
      /\ CloneDetails(v.api) \in Maybe(Details)
  <2>1. v.state \in Maybe(Details) /\ v.api \in Maybe(Details)
    BY <1>2, ConfigFields
  <2> HIDE DEF v
  <2> QED  BY <2>1, CloneDetailsType
<1>4. c \in Configs
  BY <1>2, <1>3 DEF Configs
<1>5. /\ copy' = Referring(c, "copy") /\ seen' = v
      /\ details' = PutDetails(details, c, "copy") /\ maps' = PutMap(maps, c, "copy")
      /\ agent' = agent
  BY DEF Clone, Stored, PutDetails, PutMap
<1> HIDE DEF c, v
<1>6. /\ details' \in DetailsMemory /\ maps' \in MapsMemory
      /\ copy' \in Held("copy")
      /\ ValueIn(copy', details', maps') = c
      /\ ValueIn(agent, details', maps') = v
  BY <1>1, <1>4, <1>5, AgentDetails, Put DEF Owners, DetailsMemory, v, Value
<1>7. TypeOK'
  BY <1>2, <1>5, <1>6, ConfigAssumption DEF IInv, TypeOK, Clone, Call, Maybe,
     DetailsMemory, MapsMemory
<1>8. PasswordsAgree'
  BY <1>1, <1>5, <1>6 DEF IInv, PasswordsAgree, Value, v
<1>9. CloneUnaffected' /\ (copy # None => seen # None)'
  BY <1>2, <1>5, <1>6, ConfAssumption DEF CloneUnaffected, Value, c
<1> QED  BY <1>5, <1>7, <1>8, <1>9 DEF IInv, Clone, ConfInv, SavedAgrees

(* Write replaces the file.                                                *)
LEMMA WriteStep == ASSUME IInv, Write PROVE IInv'
<1>1. agent # None /\ saved' = Value(agent) /\ conf' = Marshal(Value(agent))
  BY DEF Write, Call
<1>2. Value(agent) \in Configs /\ Agree(Value(agent))
  BY <1>1, AgentDetails, ValueType DEF Value, Owners, DetailsMemory, IInv, PasswordsAgree
<1>3. saved' \in Configs /\ conf' \in Files
  BY <1>1, <1>2, MarshalType
<1>4. TypeOK'
  BY <1>3, ConfAssumption, ConfigAssumption DEF IInv, TypeOK, Write, Call, Maybe
<1>5. ConfInv' /\ SavedAgrees'
  BY <1>1, <1>2, <1>3 DEF ConfInv, SavedAgrees
<1> QED  BY <1>4, <1>5 DEF IInv, Write, PasswordsAgree, CloneUnaffected, Value

(* The two other files.                                                    *)
LEMMA FileStep ==
    ASSUME IInv, WriteSystemIdentityFile \/ SetCanUninstall
    PROVE  IInv'
<1>1. calls' \in 0..MaxCalls
  BY ConfigAssumption DEF IInv, TypeOK, WriteSystemIdentityFile, SetCanUninstall, Call
<1>2. identity' \in Maybe(Secrets)
  <2>1. CASE SetCanUninstall
    BY <2>1 DEF IInv, TypeOK, SetCanUninstall
  <2>2. ASSUME NEW c \in {agent, copy} \ {None}, c.serving # None,
               identity' = c.serving.identity
        PROVE  identity' \in Maybe(Secrets)
    <3>1. c.serving \in ServingInfo
      BY <2>2 DEF IInv, TypeOK, Maybe, Held
    <3> QED  BY <2>2, <3>1 DEF ServingInfo
  <2> QED  BY <2>1, <2>2 DEF WriteSystemIdentityFile
<1>3. TypeOK'
  BY <1>1, <1>2 DEF IInv, TypeOK, WriteSystemIdentityFile, SetCanUninstall, Maybe
<1> QED  BY <1>3 DEF IInv, WriteSystemIdentityFile, SetCanUninstall, ConfInv, SavedAgrees,
              PasswordsAgree, CloneUnaffected, Value

(* The invariant is inductive.                                             *)
LEMMA StepInv == IInv /\ [Next]_vars => IInv'
<1> SUFFICES ASSUME IInv, [Next]_vars PROVE IInv'
  OBVIOUS
<1>1. CASE UNCHANGED vars
  BY <1>1 DEF vars, IInv, TypeOK, ConfInv, SavedAgrees, PasswordsAgree, CloneUnaffected,
              Value
<1>2. CASE Next
  BY <1>2, NewStep, ReadStep, CrashStep, UpgradeStep, SetterStep, CloneStep, WriteStep,
     FileStep DEF Next
<1> QED  BY <1>1, <1>2

(* A file that can be read gives a port, or no controller at all.          *)
LEMMA ReadPort ==
    ASSUME NEW f \in Files, Readable(f), Unmarshal(f).serving # None
    PROVE  Unmarshal(f).serving.statePort # 0
<1> DEFINE c == Unmarshal(f)
<1>0. f \in Files /\ Readable(f) /\ c \in Configs
  BY UnmarshalType
<1>1. CASE InfersPort(f)
  <2>1. HasKey(f)
    BY <1>1 DEF InfersPort
  <2>2. c.serving = [f.serving EXCEPT !.statePort = f.state.addresses[1].port]
    BY <1>1, <2>1 DEF Unmarshal
  <2>3. f.serving \in ServingInfo /\ c.serving \in ServingInfo
    BY <1>0, <1>1, <2>1, <2>2, ServingType
  <2>4. f.state.addresses[1].port \in Ports
    <3>1. HasAddress(f.state) /\ f.state.addresses[1].port # None
      BY <1>0, <1>1 DEF Readable
    <3>2. f.state.addresses \in Seq(Addresses) /\ f.state.addresses # << >>
      BY <1>0, <3>1 DEF HasAddress, Files, Details, Maybe
    <3>3. f.state.addresses[1] \in Addresses
      BY <3>2
    <3> QED  BY <3>1, <3>3, ConfAssumption
  <2>5. c.serving.statePort = f.state.addresses[1].port
    BY <2>2, <2>3 DEF ServingInfo
  <2> QED  BY <2>4, <2>5, ConfAssumption
<1>2. CASE ~HasKey(f)
  BY <1>2 DEF Unmarshal, InfersPort
<1>3. CASE HasKey(f) /\ ~InfersPort(f)
  BY <1>3 DEF Unmarshal, InfersPort
<1> QED  BY <1>1, <1>2, <1>3

-----------------------------------------------------------------------------
(* The theorems. *)

(* The type invariant; a configuration that has been read names a          *)
(* controller by its UUID, or none at all.                                 *)
THEOREM ConfigTypeCorrect == Spec => []TypeOK
<1>1. ConfigInit => IInv
  BY InitInv
<1>2. IInv => TypeOK
  BY DEF IInv
<1> QED  BY <1>1, <1>2, StepInv, PTL DEF Spec

(* An agent.conf of format 2.0, written by the agent or made by            *)
(* upgrade-agents, reads back as the configuration it was made from.       *)
THEOREM ConfReadsBack == Spec => []WrittenConfReadsBack
<1>1. ConfigInit => IInv
  BY InitInv
<1>2. IInv => WrittenConfReadsBack
  BY SavedReadsBack DEF IInv
<1> QED  BY <1>1, <1>2, StepInv, PTL DEF Spec

(* An agent's passwords for the database and for the API agree, through    *)
(* any setters, files and restarts.                                        *)
THEOREM PasswordsStayEqual == Spec => []PasswordsAgree
<1>1. ConfigInit => IInv
  BY InitInv
<1>2. IInv => PasswordsAgree
  BY DEF IInv
<1> QED  BY <1>1, <1>2, StepInv, PTL DEF Spec

(* No setter reaches a clone. *)
THEOREM ClonesStay == Spec => []CloneUnaffected
<1>1. ConfigInit => IInv
  BY InitInv
<1>2. IInv => CloneUnaffected
  BY DEF IInv
<1> QED  BY <1>1, <1>2, StepInv, PTL DEF Spec

(* A controller's agent that starts knows the port of its database, also   *)
(* when an agent before it was given an info without one.                  *)
THEOREM PortKnown == Spec => MongoPortKnown
<1>1. ConfigInit => IInv
  BY InitInv
<1>2. ASSUME IInv, Next, agent = None, agent' # None, HasMongoInfo(agent')
      PROVE  MongoPort(agent') # 0
  <2>1. ASSUME NEW p \in Params, NewAgentConfig(p)
        PROVE  FALSE
    BY <1>2, <2>1 DEF NewAgentConfig, Loaded, Referring, NewConfig, HasMongoInfo
  <2>2. ASSUME NEW p \in Params, NEW info \in Infos, NewStateMachineConfig(p, info)
        PROVE  MongoPort(agent') # 0
    BY <2>2 DEF NewStateMachineConfig, AcceptedInfo, Loaded, Referring, NewConfig,
                MongoPort
  <2>3. CASE ReadConfig
    <3>1. conf \in Files /\ Readable(conf)
      BY <1>2, <2>3 DEF IInv, TypeOK, ReadConfig, Maybe
    <3>2. agent'.serving = Unmarshal(conf).serving
      BY <2>3 DEF ReadConfig, Loaded, Referring, Unmarshal
    <3> QED  BY <1>2, <3>1, <3>2, ReadPort DEF HasMongoInfo, MongoPort
  <2>4. CASE Crash \/ UpgradeConf
    BY <1>2, <2>4 DEF Crash, UpgradeConf
  <2>5. CASE Setter \/ Clone \/ Write \/ WriteSystemIdentityFile \/ SetCanUninstall
    BY <1>2, <2>5 DEF Setter, SetUpgradedToVersion, SetCACert, SetOldPassword,
       SetPassword, SetMongoVersion, SetStateServingInfo, SetAPIHostPorts, SetValue,
       Set, SetDetails, Clone, Write, WriteSystemIdentityFile, SetCanUninstall, Call
  <2> QED  BY <1>2, <2>1, <2>2, <2>3, <2>4, <2>5 DEF Next
<1>3. IInv /\ [Next]_vars =>
        [(agent = None /\ agent' # None /\ HasMongoInfo(agent'))
            => MongoPort(agent') # 0]_vars
  BY <1>2
<1> QED  BY <1>1, <1>3, StepInv, PTL DEF Spec, MongoPortKnown
===============================================================================
