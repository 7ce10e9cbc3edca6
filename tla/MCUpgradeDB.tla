----------------------------- MODULE MCUpgradeDB -----------------------------
(***************************************************************************)
(* Databases of a beta 7 controller for TLC: a controller model m0 and a   *)
(* hosted model m1 with two services, pg and wp, of the same charm.        *)
(***************************************************************************)
EXTENDS UpgradeDBCounts

\* A collection with one document per id.
Docs(ids, doc(_)) == [id \in ids |-> doc(id)]

Ms == {"m0", "m1"}
Services == {<<"m1", "pg">>, <<"m1", "wp">>}
KeyIDs(parts) == {<<id[1], "s", id[2]>> \o parts : id \in Services}

CloudSettings(cloud) ==
  CASE cloud = "lxd"  -> [s \in LXDCerts \cup {"namespace"} |-> s]
    [] cloud = "maas" -> [s \in {"maas-server", "maas-oauth"} |-> s]
    [] OTHER          -> Field("region", "us-east-1")

ModelSettings(cloud) ==
  [type |-> cloud] ++ CloudSettings(cloud) ++ Field("ca-cert", "ca-cert")
    ++ Field("agent-version", "2.0-beta7")

\* images: the ids of the image metadata the models have cached.
Beta7(cloud, images) ==
  [c \in Collections |->
    CASE c = "controllers" ->
           Docs({<<"e">>, <<"stateServingInfo">>, <<"apiHostPorts">>},
                LAMBDA id : CASE id = <<"e">> -> Field("model-uuid", "m0")
                              [] id = <<"apiHostPorts">> -> Field("txn-queue", {"gone"})
                              [] OTHER -> [apiport |-> 17070, stateport |-> 37017])
      [] c = "models" ->
           Docs({<<"m0">>, <<"m1">>},
                LAMBDA id : IF id = <<"m0">>
                  THEN [name |-> "admin", owner |-> "admin@local"]
                         ++ Field("server-uuid", "m0") ++ Field("txn-queue", {"gone"})
                  ELSE [name |-> "prod", owner |-> "admin@local"]
                         ++ Field("server-uuid", "m0"))
      [] c = "settings" ->
           Docs({<<"m0", "e">>, <<"m1", "e">>} \cup KeyIDs(<<"ch">>),
                LAMBDA id : IF id[2] = "e" THEN ModelSettings(cloud)
                                           ELSE Field("port", id[3]))
      [] c = "usermodelname" ->
           Docs({<<AdminUser, "admin">>, <<AdminUser, "prod">>}, LAMBDA id : NoDoc)
      [] c = "services" ->
           Docs(Services, LAMBDA id :
                [charmurl |-> "ch", ownertag |-> "user-admin",
                 unitcount |-> IF id[2] = "pg" THEN 1 ELSE 0])
      [] c = "units" ->
           Docs({<<"m1", "pg/0">>}, LAMBDA id :
                [name |-> "pg/0", service |-> "pg", ports |-> "80"]
                  ++ Field("model-uuid", "m1"))
      [] c = "storageconstraints" -> Docs(KeyIDs(<<>>), LAMBDA id : Field("pool", id[3]))
      [] c = "settingsrefs" -> Docs(KeyIDs(<<"ch">>), LAMBDA id : Field("refcount", 1))
      [] c = "annotations" -> Docs({<<"m1", "s", "pg">>}, LAMBDA id :
                [globalkey |-> Tail(id), note |-> "x"])
      [] c = "constraints" -> Docs(KeyIDs(<<>>) \cup {<<"m1", "e">>}, LAMBDA id : Field("mem", 1))
      [] c = "endpointbindings" -> Docs(KeyIDs(<<>>), LAMBDA id :
                Field("env-uuid", "m1") ++ Field("bindings", id[3]))
      [] c = "statuses" ->
           Docs(KeyIDs(<<>>) \cup {<<"m1", "u", "pg/0">>}, LAMBDA id : Field("status", id[3]))
      [] c = "statuseshistory" ->
           Docs({<<"h1">>, <<"h2">>}, LAMBDA id :
                Field("globalkey", IF id = <<"h1">> THEN <<"s", "pg">> ELSE <<"u", "pg/0">>))
      [] c = "sequence" ->
           Docs({<<"m1", "service", "pg">>, <<"m1", "machine">>}, LAMBDA id :
                Field("name", Tail(id)) ++ Field("model-uuid", "m1") ++ Field("counter", 1))
      [] c = "leases" ->
           Docs({<<"m1", "lease", "service-leadership", "pg">>,
                 <<"m1", "clock", "service-leadership">>,
                 <<"m0", "lease", "singular-controller", "m0">>}, LAMBDA id :
                Field("model-uuid", id[1]) ++ [type |-> id[2], namespace |-> id[3]]
                  ++ (IF Len(id) > 3 THEN Field("name", id[4]) ELSE NoDoc))
      [] c = "modelEntityRefs" ->
           Docs({<<"m1">>}, LAMBDA id : Field("services", {"pg", "wp"}))
      [] c = "relations" ->
           Docs({<<"m1", "wp:db pg:db">>}, LAMBDA id :
                Field("endpoints", <<[servicename |-> "wp", role |-> "requirer"],
                                     [servicename |-> "pg", role |-> "provider"]>>))
      [] c = "resources" ->
           Docs({<<"m1", "dump">>}, LAMBDA id :
                Field("service-id", "pg") ++ Field("env-uuid", "m1"))
      [] c = "charms" -> Docs({<<"m1", "ch">>}, LAMBDA id : NoDoc)
      [] c = "users" -> Docs({<<"admin">>}, LAMBDA id : Field("deactivated", "false"))
      [] c = "modelusers" -> Docs({<<m, AdminUser>> : m \in Ms}, LAMBDA id :
                Field("model-uuid", id[1]) ++ Field("access", "admin"))
      [] c = "machines" -> Docs({<<m, "0">> : m \in Ms}, LAMBDA id :
                Field("supportedcontainers", {"lxc", "lxd"}))
      [] c = "cloudimagemetadata" -> Docs(images, LAMBDA id : Field("model-uuid", id[1]))
      [] c \in {"spaces", "subnets"} ->
           Docs({<<"m1", c>>}, LAMBDA id :
                Field("model-uuid", "m1") ++ Field("providerid", <<"m1", "1">>))
      [] c \in {"linklayerdevices", "ip.addresses"} ->
           Docs({<<"m1", c>>}, LAMBDA id :
                Field("model-uuid", "m1") ++ Field("providerid", <<>>))
      [] OTHER -> NoDoc]

Images == {<<"m0", "released", "xenial">>}

\* Two models have cached the metadata of the same image.
SharedImages == {<<m, "released", "xenial">> : m \in Ms}

\* The agents were adding a second unit to pg when they were stopped.
AddUnit ==
  {UpdateOp("services", <<"m1", "pg">>, Field("unitcount", 2), {}),
   InsertOp("units", <<"m1", "pg/1">>,
            [name |-> "pg/1", service |-> "pg"] ++ Field("model-uuid", "m1"), <<>>),
   InsertOp("statuses", <<"m1", "u", "pg/1">>, Field("status", "allocating"), <<>>)}

\* They were removing the application wp, whose units are to be cleaned up.
AddCleanup == {InsertOp("cleanups", <<"1">>, Field("kind", "units"), <<>>)}

Pending(t) == [ops |-> t, done |-> {}, applying |-> FALSE]

HalfDone(t) ==
  LET done == {op \in t : op.c = "units"}
  IN  [ops |-> t, done |-> done, applying |-> TRUE]

Found(d, pending) == [db |-> d, txns |-> pending]

\* The txn-queue of one more document names a transaction that is gone.
Dangling(d, c, id) == [d EXCEPT ![c][id] = @ ++ Field("txn-queue", {"gone"})]

LXD  == Beta7("lxd", Images)
MAAS == Beta7("maas", Images)

MCB7States ==
  {Found(LXD, {}),
   Found(LXD, {Pending(AddUnit)}),
   Found(Apply(MAAS, HalfDone(AddUnit).done), {HalfDone(AddUnit)}),
   Found(Beta7("ec2", Images), {}),
   Found(Apply(MAAS, AddCleanup), {}),
   Found(Dangling(Apply(MAAS, AddCleanup), "cleanups", <<"1">>), {}),
   Found(Dangling(LXD, "units", <<"m1", "pg/0">>), {Pending(AddUnit)})}

MCSmallStates == {Found(LXD, {}), Found(MAAS, {Pending(AddUnit)})}

MCSharedImages == {Found(LXD, {}), Found(Beta7("lxd", SharedImages), {})}

MCPendingCleanup == {Found(LXD, {Pending(AddCleanup)})}
=============================================================================
