------------------------- MODULE UpgradeSuccess_proofs -------------------------
(***************************************************************************)
(* What the success of upgrade-db means, for every database of beta 7 that *)
(* is consistent and every number of runs, and where the documents are     *)
(* that it moves, however it ends.                                         *)
(***************************************************************************)
EXTENDS UpgradeDB_proofs, UpgradeDBHomes, SequenceTheorems, FiniteSetTheorems

-----------------------------------------------------------------------------
(* What the transaction of a stage makes of a collection.                  *)

\* What an operation removes is gone.
LEMMA ApplyGone ==
  ASSUME NEW d, NEW O, NEW op \in O, op.c \in DOMAIN d, op.change = "remove"
  PROVE  op.id \notin DOMAIN Apply(d, O)[op.c]
<1>1. op \in On(O, op.c)
  BY DEF On
<1>2. Apply(d, O)[op.c] = ApplyTo(d[op.c], On(O, op.c))
  BY <1>1 DEF Apply
<1> QED
  BY <1>1, <1>2 DEF ApplyTo

\* Where every document is updated, each is what one of the updates makes of it.
LEMMA AllUpdated ==
  ASSUME NEW d, NEW O, NEW c \in DOMAIN d,
         \A op \in O : op.c = c => op.change = "update",
         \A id \in DOMAIN d[c] : \E op \in O : op.c = c /\ op.id = id
  PROVE  /\ DOMAIN Apply(d, O)[c] = DOMAIN d[c]
         /\ \A id \in DOMAIN d[c] : \E op \in O :
              /\ op.c = c /\ op.id = id
              /\ Apply(d, O)[c][id] = Without(d[c][id], op.unset) ++ op.set
<1>1. DOMAIN Apply(d, O)[c] = DOMAIN d[c]
  <2>1. \A op \in O : op.c = c => op.change # "insert" /\ op.change # "remove"
    OBVIOUS
  <2>2. \A id \in DOMAIN Apply(d, O)[c] : id \in DOMAIN d[c]
    BY <2>1, ApplyIDs
  <2>3. \A id \in DOMAIN d[c] : id \in DOMAIN Apply(d, O)[c]
    BY <2>1, ApplyIDs
  <2> QED
    BY <2>2, <2>3
<1>2. ASSUME NEW id \in DOMAIN d[c]
      PROVE  \E op \in O : /\ op.c = c /\ op.id = id
                           /\ Apply(d, O)[c][id] = Without(d[c][id], op.unset) ++ op.set
  <2>1. PICK op \in O : op.c = c /\ op.id = id
    OBVIOUS
  <2> QED
    BY <1>1, <2>1, ApplyUpdate
<1> QED
  BY <1>1, <1>2

\* A rename consists of these two.
LEMMA MoveOpsHave ==
  ASSUME NEW from, NEW old, NEW to, NEW new, NEW doc
  PROVE  LET O == MoveOps(from, old, to, new, doc)
         IN  /\ \E op \in O : op.c = from /\ op.id = old /\ op.change = "remove"
             /\ \E op \in O : op.c = to /\ op.id = new /\ op.change = "insert"
                               /\ op.set = CopyBsonDField(doc) /\ op.assert = "d-"
<1>1. /\ RemoveOp(from, old) \in MoveOps(from, old, to, new, doc)
      /\ InsertOp(to, new, doc, old) \in MoveOps(from, old, to, new, doc)
  BY DEF MoveOps
<1>2. LET op == RemoveOp(from, old) IN op.c = from /\ op.id = old /\ op.change = "remove"
  BY DEF RemoveOp
<1>3. LET op == InsertOp(to, new, doc, old)
      IN  op.c = to /\ op.id = new /\ op.change = "insert"
          /\ op.set = CopyBsonDField(doc) /\ op.assert = "d-"
  BY DEF InsertOp
<1> QED
  BY <1>1, <1>2, <1>3

\* updateCollectionIDGlobalKey: no key of a service is left, and every document is
\* under its key or the new one.
LEMMA KeysRenamed ==
  ASSUME NEW d, NEW c \in DOMAIN d, NEW keyName
  PROVE  LET e == Apply(d, GlobalKeyOps(d, c, keyName))
         IN  /\ ServiceKeyed(e, c) = {}
             /\ \A id \in DOMAIN d[c] :
                  IF IsServiceKeyID(id) THEN NewKeyID(id) \in DOMAIN e[c] ELSE id \in DOMAIN e[c]
<1> DEFINE O == GlobalKeyOps(d, c, keyName)
           e == Apply(d, O)
<1>1. ASSUME NEW op \in O
      PROVE  /\ op.c = c
             /\ \E id \in ServiceKeyed(d, c) :
                  \/ op.change = "remove" /\ op.id = id
                  \/ op.change = "insert" /\ op.id = NewKeyID(id)
  BY DEF GlobalKeyOps, MoveOps, RemoveOp, InsertOp
<1>2. ASSUME NEW id \in ServiceKeyed(d, c)
      PROVE  /\ \E op \in O : op.c = c /\ op.id = id /\ op.change = "remove"
             /\ \E op \in O : op.c = c /\ op.id = NewKeyID(id) /\ op.change = "insert"
  <2> DEFINE doc == ReplaceBsonDField(CopyBsonDField(d[c][id]), keyName, NewKey(LocalID(id)))
  <2>1. MoveOps(c, id, c, NewKeyID(id), doc) \subseteq O
    BY DEF GlobalKeyOps
  <2> QED
    BY <2>1, MoveOpsHave
<1>3. ASSUME NEW id, IsServiceKeyID(id)
      PROVE  ~IsServiceKeyID(NewKeyID(id))
  BY <1>3 DEF IsServiceKeyID, NewKeyID
<1> HIDE DEF O
<1>4. ASSUME NEW id \in ServiceKeyed(e, c)
      PROVE  FALSE
  <2>1. IsServiceKeyID(id) /\ id \in DOMAIN e[c]
    BY DEF ServiceKeyed
  <2>2. id \in DOMAIN d[c]
    BY <1>1, <1>3, <2>1, ApplyIDs DEF ServiceKeyed
  <2>3. id \in ServiceKeyed(d, c)
    BY <2>1, <2>2 DEF ServiceKeyed
  <2> QED
    BY <1>2, <2>1, <2>3, ApplyGone
<1>5. ASSUME NEW id \in ServiceKeyed(d, c)
      PROVE  NewKeyID(id) \in DOMAIN e[c]
  <2>1. PICK op \in O : op.c = c /\ op.id = NewKeyID(id) /\ op.change = "insert"
    BY <1>2
  <2>2. \A q \in O : q.change = "remove" => q.id # op.id
    BY <1>1, <1>3, <2>1 DEF ServiceKeyed
  <2> QED
    BY <2>1, <2>2, ApplyIDs
<1>6. ASSUME NEW id \in DOMAIN d[c], ~IsServiceKeyID(id)
      PROVE  id \in DOMAIN e[c]
  BY <1>1, <1>6, ApplyIDs DEF ServiceKeyed
<1> QED
  BY <1>4, <1>5, <1>6 DEF ServiceKeyed, O

\* updateLeases
LEMMA LeasesRenamed ==
  ASSUME NEW d, "leases" \in DOMAIN d
  PROVE  ServiceLeases(Apply(d, UpdateLeasesOps(d))) = {}
<1> DEFINE O == UpdateLeasesOps(d)
           e == Apply(d, O)
           doc(id) == ReplaceBsonDField(CopyBsonDField(d["leases"][id]),
                                        "namespace", "application-leadership")
<1>1. ASSUME NEW op \in O, op.change # "remove"
      PROVE  op.change = "insert" /\ \E id \in ServiceLeases(d) : op.set = CopyBsonDField(doc(id))
  BY <1>1 DEF UpdateLeasesOps, MoveOps, RemoveOp, InsertOp
<1>2. ASSUME NEW id \in ServiceLeases(d)
      PROVE  \E op \in O : op.c = "leases" /\ op.id = id /\ op.change = "remove"
  <2>1. MoveOps("leases", id, "leases", NewLeaseID(doc(id)), doc(id)) \subseteq O
    BY DEF UpdateLeasesOps
  <2> QED
    BY <2>1, MoveOpsHave
<1>3. ASSUME NEW id \in ServiceLeases(d)
      PROVE  GetStringField(CopyBsonDField(doc(id)), "namespace") # "service-leadership"
  BY DEF ServiceLeases, GetStringField, Has, CopyBsonDField, ReplaceBsonDField, Without
<1> HIDE DEF O, doc
<1>4. ASSUME NEW id \in ServiceLeases(e)
      PROVE  FALSE
  <2>1. id \in DOMAIN e["leases"] /\ GetStringField(e["leases"][id], "namespace") = "service-leadership"
    BY DEF ServiceLeases
  <2>2. id \notin ServiceLeases(d)
    BY <1>2, <2>1, ApplyGone
  <2>3. e["leases"][id] # d["leases"][id] \/ id \notin DOMAIN d["leases"]
    BY <2>1, <2>2 DEF ServiceLeases
  <2>4. \E op \in O : op.change # "remove" /\ e["leases"][id] = op.set
    BY <1>1, <2>1, <2>3, ApplyDoc
  <2> QED
    BY <1>1, <1>3, <2>1, <2>4
<1> QED
  BY <1>4 DEF ServiceLeases, O

\* updateSequences
LEMMA SequencesRenamed ==
  ASSUME NEW d, "sequence" \in DOMAIN d
  PROVE  ServiceSequences(Apply(d, UpdateSequencesOps(d))) = {}
<1> DEFINE O == UpdateSequencesOps(d)
           e == Apply(d, O)
           doc(id) == ReplaceBsonDField(CopyBsonDField(d["sequence"][id]), "name",
                                        ApplicationTag(d["sequence"][id]["name"]))
<1>1. ASSUME NEW op \in O, op.change # "remove"
      PROVE  op.change = "insert" /\ \E id \in ServiceSequences(d) : op.set = CopyBsonDField(doc(id))
  BY <1>1 DEF UpdateSequencesOps, MoveOps, RemoveOp, InsertOp
<1>2. ASSUME NEW id \in ServiceSequences(d)
      PROVE  \E op \in O : op.c = "sequence" /\ op.id = id /\ op.change = "remove"
  <2> DEFINE new == DocID(GetStringField(doc(id), "model-uuid"),
                          ApplicationTag(d["sequence"][id]["name"]))
  <2>1. MoveOps("sequence", id, "sequence", new, doc(id)) \subseteq O
    BY DEF UpdateSequencesOps
  <2> QED
    BY <2>1, MoveOpsHave
<1>3. ASSUME NEW id \in ServiceSequences(d)
      PROVE  /\ Has(CopyBsonDField(doc(id)), "name")
             /\ CopyBsonDField(doc(id))["name"] = ApplicationTag(d["sequence"][id]["name"])
  BY DEF ServiceSequences, Has, CopyBsonDField, ReplaceBsonDField, Without
<1>4. \A tag : ~IsServiceTag(ApplicationTag(tag))
  BY DEF IsServiceTag, ApplicationTag
<1> HIDE DEF O, doc
<1>5. ASSUME NEW id \in ServiceSequences(e)
      PROVE  FALSE
  <2>1. id \in DOMAIN e["sequence"] /\ IsServiceTag(e["sequence"][id]["name"])
    BY DEF ServiceSequences
  <2>2. id \notin ServiceSequences(d)
    BY <1>2, <2>1, ApplyGone
  <2>3. e["sequence"][id] # d["sequence"][id] \/ id \notin DOMAIN d["sequence"]
    BY <2>2 DEF ServiceSequences
  <2>4. \E op \in O : op.change # "remove" /\ e["sequence"][id] = op.set
    BY <1>1, <2>1, <2>3, ApplyDoc
  <2> QED
    BY <1>1, <1>3, <1>4, <2>1, <2>4
<1> QED
  BY <1>5 DEF ServiceSequences, O

\* updateModelEntityRefs and updateResources
LEMMA ReferencesRenamed ==
  ASSUME NEW d, DOMAIN d = Collections
  PROVE  /\ NoneHas(Apply(d, UpdateModelEntityRefsOps(d)), "modelEntityRefs", {"services"})
         /\ NoneHas(Apply(d, UpdateResourcesOps(d)), "resources", {"service-id", "env-uuid"})
<1>0. {"modelEntityRefs", "resources"} \subseteq DOMAIN d
  BY DEF Collections
<1>1. ASSUME NEW c \in DOMAIN d, NEW O, NEW fields,
             \A op \in O : op.change = "update" /\ fields \subseteq op.unset \ DOMAIN op.set,
             \A id \in DOMAIN d[c] : \E op \in O : op.c = c /\ op.id = id
      PROVE  NoneHas(Apply(d, O), c, fields)
  <2>1. /\ DOMAIN Apply(d, O)[c] = DOMAIN d[c]
        /\ \A id \in DOMAIN d[c] : \E op \in O :
             Apply(d, O)[c][id] = Without(d[c][id], op.unset) ++ op.set
    BY <1>1, AllUpdated
  <2>2. ASSUME NEW doc, NEW op \in O
        PROVE  DOMAIN (Without(doc, op.unset) ++ op.set) \cap fields = {}
    BY <1>1 DEF Without, ++
  <2> QED
    BY <2>1, <2>2 DEF NoneHas
<1>2. NoneHas(Apply(d, UpdateModelEntityRefsOps(d)), "modelEntityRefs", {"services"})
  <2> DEFINE op(id) == UpdateOp("modelEntityRefs", id,
                  Field("applications", ReadBsonDField(d["modelEntityRefs"][id], "services")),
                  {"services"})
  <2>1. UpdateModelEntityRefsOps(d) = {op(id) : id \in DOMAIN d["modelEntityRefs"]}
    BY DEF UpdateModelEntityRefsOps, UpdateAllOps
  <2>2. \A id : /\ op(id).c = "modelEntityRefs" /\ op(id).id = id /\ op(id).change = "update"
                /\ {"services"} \subseteq op(id).unset \ DOMAIN op(id).set
    BY DEF UpdateOp, Field
  <2> HIDE DEF op
  <2> QED
    BY <1>0, <1>1, <2>1, <2>2
<1>3. NoneHas(Apply(d, UpdateResourcesOps(d)), "resources", {"service-id", "env-uuid"})
  <2> DEFINE op(id) == UpdateOp("resources", id,
                  Field("application-id", ReadBsonDField(d["resources"][id], "service-id")),
                  {"service-id", "env-uuid"})
  <2>1. UpdateResourcesOps(d) = {op(id) : id \in DOMAIN d["resources"]}
    BY DEF UpdateResourcesOps, UpdateAllOps
  <2>2. \A id : /\ op(id).c = "resources" /\ op(id).id = id /\ op(id).change = "update"
                /\ {"service-id", "env-uuid"} \subseteq op(id).unset \ DOMAIN op(id).set
    BY DEF UpdateOp, Field
  <2> HIDE DEF op
  <2> QED
    BY <1>0, <1>1, <2>1, <2>2
<1> QED
  BY <1>2, <1>3

\* What updateAll makes of every document, when the fields to set are given by a function.
UpdatesEach(O, d, c, set, unset) ==
  /\ \A q \in O : \E id \in DOMAIN d[c] : q = UpdateOp(c, id, set[id], unset)
  /\ \A id \in DOMAIN d[c] : UpdateOp(c, id, set[id], unset) \in O

EachIsUpdated(e, d, c, set, unset) ==
  /\ DOMAIN e[c] = DOMAIN d[c]
  /\ \A id \in DOMAIN d[c] : e[c][id] = Without(d[c][id], unset) ++ set[id]

LEMMA EachUpdated ==
  ASSUME NEW d, NEW c \in DOMAIN d, NEW O, NEW set, NEW unset,
         UpdatesEach(O, d, c, set, unset)
  PROVE  EachIsUpdated(Apply(d, O), d, c, set, unset)
<1> DEFINE op(id) == UpdateOp(c, id, set[id], unset)
<1>1. \A id : /\ op(id).c = c /\ op(id).id = id /\ op(id).change = "update"
              /\ op(id).unset = unset /\ op(id).set = set[id]
  BY DEF UpdateOp
<1>2. /\ \A q \in O : \E id \in DOMAIN d[c] : q = op(id)
      /\ \A id \in DOMAIN d[c] : op(id) \in O
  BY DEF UpdatesEach
<1> HIDE DEF op
<1>3. \A q \in O : q.change = "update" /\ q.unset = unset /\ q.set = set[q.id]
  BY <1>1, <1>2
<1>4. \A id \in DOMAIN d[c] : \E q \in O : q.c = c /\ q.id = id
  BY <1>1, <1>2
<1>5. /\ DOMAIN Apply(d, O)[c] = DOMAIN d[c]
      /\ \A id \in DOMAIN d[c] : \E q \in O :
           /\ q.c = c /\ q.id = id
           /\ Apply(d, O)[c][id] = Without(d[c][id], q.unset) ++ q.set
  BY <1>3, <1>4, AllUpdated
<1> QED
  BY <1>3, <1>5 DEF EachIsUpdated

\* updateRelations
LEMMA RelationsRenamed ==
  ASSUME NEW d, "relations" \in DOMAIN d
  PROVE  EndpointsRenamed(Apply(d, UpdateRelationsOps(d)))
<1> DEFINE O == UpdateRelationsOps(d)
           e == Apply(d, O)
           gone == {}
           set == [id \in DOMAIN d["relations"] |-> RenamedEndpoints(d["relations"][id])]
           made(doc) == Without(doc, gone) ++ RenamedEndpoints(doc)
<1>1. UpdatesEach(O, d, "relations", set, gone)
  BY DEF UpdateRelationsOps, UpdateAllOps, UpdatesEach
<1>2. \A id \in DOMAIN d["relations"] : Without(d["relations"][id], gone) ++ set[id] = made(d["relations"][id])
  OBVIOUS
<1>3. ASSUME NEW doc
      PROVE  /\ Has(made(doc), "endpoints")
             /\ \A i \in DOMAIN made(doc)["endpoints"] :
                  LET ep == made(doc)["endpoints"][i]
                  IN  Has(ep, "applicationname") /\ ~Has(ep, "servicename")
  BY DEF RenamedEndpoints, RenamedEndpoint, Without, Field, ++, Has
<1> HIDE DEF O, gone, set, made
<1>4. EachIsUpdated(e, d, "relations", set, gone)
  BY <1>1, EachUpdated
<1> HIDE DEF e
<1>5. EndpointsRenamed(e)
  BY <1>2, <1>3, <1>4 DEF EachIsUpdated, EndpointsRenamed
<1> QED
  BY <1>5 DEF e, O

\* upgradeCharms
LEMMA CharmsUpgraded ==
  ASSUME NEW d, "charms" \in DOMAIN d
  PROVE  CharmsAlive(Apply(d, UpgradeCharmsOps(d)))
<1> DEFINE O == UpgradeCharmsOps(d)
           e == Apply(d, O)
           gone == {}
           set == [id \in DOMAIN d["charms"] |-> Field("life", 0)]
           made(doc) == Without(doc, gone) ++ Field("life", 0)
<1>1. UpdatesEach(O, d, "charms", set, gone)
  BY DEF UpgradeCharmsOps, UpdateAllOps, UpdatesEach
<1>2. \A id \in DOMAIN d["charms"] : Without(d["charms"][id], gone) ++ set[id] = made(d["charms"][id])
  OBVIOUS
<1>3. ASSUME NEW doc
      PROVE  Has(made(doc), "life") /\ made(doc)["life"] = 0
  BY DEF Has, ++, Field
<1> HIDE DEF O, gone, set, made
<1>4. EachIsUpdated(e, d, "charms", set, gone)
  BY <1>1, EachUpdated
<1> HIDE DEF e
<1>5. CharmsAlive(e)
  BY <1>2, <1>3, <1>4 DEF EachIsUpdated, CharmsAlive
<1> QED
  BY <1>5 DEF e, O

\* upgradeUsers
LEMMA UsersUpgraded ==
  ASSUME NEW d, "users" \in DOMAIN d
  PROVE  NoneHas(Apply(d, UpgradeUsersOps(d)), "users", {"deactivated"})
<1> DEFINE O == UpgradeUsersOps(d)
           e == Apply(d, O)
           gone == {"deactivated"}
           set == [id \in DOMAIN d["users"] |-> NoDoc]
           made(doc) == Without(doc, gone) ++ NoDoc
<1>1. UpdatesEach(O, d, "users", set, gone)
  BY DEF UpgradeUsersOps, UpdateAllOps, UpdatesEach
<1>2. \A id \in DOMAIN d["users"] : Without(d["users"][id], gone) ++ set[id] = made(d["users"][id])
  OBVIOUS
<1>3. ASSUME NEW doc
      PROVE  DOMAIN made(doc) \cap {"deactivated"} = {}
  BY DEF Without, ++, NoDoc
<1> HIDE DEF O, gone, set, made
<1>4. EachIsUpdated(e, d, "users", set, gone)
  BY <1>1, EachUpdated
<1> HIDE DEF e
<1>5. NoneHas(e, "users", {"deactivated"})
  BY <1>2, <1>3, <1>4 DEF EachIsUpdated, NoneHas
<1> QED
  BY <1>5 DEF e, O

\* upgradeModelUsers
LEMMA ModelUsersUpgraded ==
  ASSUME NEW d, "modelusers" \in DOMAIN d
  PROVE  UsersOfObjects(Apply(d, UpgradeModelUsersOps(d)))
<1> DEFINE O == UpgradeModelUsersOps(d)
           e == Apply(d, O)
           gone == {"access"}
           set == [id \in DOMAIN d["modelusers"] |-> Field("object-uuid", ReadBsonDField(d["modelusers"][id], "model-uuid"))]
           made(doc) == Without(doc, gone) ++ Field("object-uuid", ReadBsonDField(doc, "model-uuid"))
<1>1. UpdatesEach(O, d, "modelusers", set, gone)
  BY DEF UpgradeModelUsersOps, UpdateAllOps, UpdatesEach
<1>2. \A id \in DOMAIN d["modelusers"] : Without(d["modelusers"][id], gone) ++ set[id] = made(d["modelusers"][id])
  OBVIOUS
<1>3. ASSUME NEW doc
      PROVE  /\ Has(made(doc), "object-uuid") /\ ~Has(made(doc), "access")
             /\ made(doc)["object-uuid"] = ReadBsonDField(made(doc), "model-uuid")
  BY DEF Has, Without, ++, Field, ReadBsonDField
<1> HIDE DEF O, gone, set, made
<1>4. EachIsUpdated(e, d, "modelusers", set, gone)
  BY <1>1, EachUpdated
<1> HIDE DEF e
<1>5. UsersOfObjects(e)
  BY <1>2, <1>3, <1>4 DEF EachIsUpdated, UsersOfObjects
<1> QED
  BY <1>5 DEF e, O

\* upgradeMachines
LEMMA MachinesUpgraded ==
  ASSUME NEW d, "machines" \in DOMAIN d
  PROVE  LXCGone(Apply(d, UpgradeMachinesOps(d)))
<1> DEFINE O == UpgradeMachinesOps(d)
           e == Apply(d, O)
           gone == {}
           set == [id \in DOMAIN d["machines"] |-> ContainersWithoutLXC(d["machines"][id])]
           made(doc) == Without(doc, gone) ++ ContainersWithoutLXC(doc)
<1>1. UpdatesEach(O, d, "machines", set, gone)
  BY DEF UpgradeMachinesOps, UpdateAllOps, UpdatesEach
<1>2. \A id \in DOMAIN d["machines"] : Without(d["machines"][id], gone) ++ set[id] = made(d["machines"][id])
  OBVIOUS
<1>3. ASSUME NEW doc
      PROVE  /\ Has(made(doc), "supportedcontainers")
             /\ "lxc" \notin made(doc)["supportedcontainers"]
  BY DEF Has, ++, Field, ContainersWithoutLXC
<1> HIDE DEF O, gone, set, made
<1>4. EachIsUpdated(e, d, "machines", set, gone)
  BY <1>1, EachUpdated
<1> HIDE DEF e
<1>5. LXCGone(e)
  BY <1>2, <1>3, <1>4 DEF EachIsUpdated, LXCGone
<1> QED
  BY <1>5 DEF e, O

\* upgradeSpaces and the like
LEMMA PrefixesStripped ==
  ASSUME NEW d, DOMAIN d = Collections, NEW c \in Provided, NEW kind,
         \A id \in DOMAIN d[c] : PrefixedOnce(d[c][id])
  PROVE  Prefixed(Apply(d, ProviderIDOps(d, c, kind)), c) = {}
<1> DEFINE O == ProviderIDOps(d, c, kind)
           e == Apply(d, O)
           stripped(id) == Field("providerid", LocalID(d[c][id]["providerid"]))
<1>0. c \in DOMAIN d /\ c # "providerIDs"
  BY DEF Provided, Collections
<1>1. ASSUME NEW op \in O, op.c = c
      PROVE  op.change = "update" /\ op.id \in Prefixed(d, c) /\ op.unset = {}
             /\ op.set = stripped(op.id)
  BY <1>0, <1>1 DEF ProviderIDOps, UpdateOp, InsertOp
<1>2. ASSUME NEW id \in Prefixed(d, c)
      PROVE  \E op \in O : op.c = c /\ op.id = id /\ op.change = "update"
  <2>1. UpdateOp(c, id, stripped(id), {}) \in O
    BY DEF ProviderIDOps
  <2> HIDE DEF O, stripped
  <2> QED
    BY <2>1 DEF UpdateOp
<1>3. ASSUME NEW id \in Prefixed(d, c)
      PROVE  ~HasModelPrefix(Without(d[c][id], {}) ++ stripped(id))
  <2>1. Without(d[c][id], {}) ++ stripped(id) = d[c][id] ++ stripped(id)
    BY DEF Without, ++
  <2> QED
    BY <2>1 DEF PrefixedOnce, Prefixed
<1> HIDE DEF O, stripped
<1>4. ASSUME NEW id \in Prefixed(e, c)
      PROVE  FALSE
  <2>1. id \in DOMAIN e[c] /\ HasModelPrefix(e[c][id])
    BY DEF Prefixed
  <2>2. id \in DOMAIN d[c]
    BY <1>0, <1>1, <2>1, ApplyIDs
  <2>3. CASE id \in Prefixed(d, c)
    <3>1. PICK op \in O : op.c = c /\ op.id = id /\ op.change = "update"
      BY <1>2, <2>3
    <3>2. PICK o \in O : o.c = c /\ o.id = id /\ e[c][id] = Without(d[c][id], o.unset) ++ o.set
      BY <1>0, <2>1, <2>2, <3>1, ApplyUpdate
    <3> QED
      BY <1>1, <1>3, <2>1, <2>3, <3>2
  <2>4. CASE id \notin Prefixed(d, c)
    <3>1. e[c][id] = d[c][id]
      BY <1>0, <1>1, <2>1, <2>2, <2>4, ApplyDoc
    <3> QED
      BY <2>1, <2>2, <2>4, <3>1 DEF Prefixed
  <2> QED
    BY <2>3, <2>4
<1> QED
  BY <1>4 DEF O

\* updateAgentTools
LEMMA ToolsUpdated ==
  ASSUME NEW d, DOMAIN d = Collections, NEW c \in {"machines", "units"}
  PROVE  LET e == Apply(d, UpdateAgentToolsOps(d))
         IN  /\ DOMAIN e[c] = DOMAIN d[c]
             /\ \A id \in DOMAIN d[c] :
                  e[c][id] = Without(d[c][id], {}) ++ Field("tools.version", AgentVersion)
<1> DEFINE O == UpdateAgentToolsOps(d)
           version == Field("tools.version", AgentVersion)
<1>1. O = {UpdateOp("machines", id, version, {}) : id \in DOMAIN d["machines"]}
            \cup {UpdateOp("units", id, version, {}) : id \in DOMAIN d["units"]}
  BY DEF UpdateAgentToolsOps, UpdateAllOps
<1>2. \A k, id : LET op == UpdateOp(k, id, version, {})
                 IN  op.c = k /\ op.id = id /\ op.change = "update" /\ op.unset = {} /\ op.set = version
  BY DEF UpdateOp
<1> HIDE DEF O, version
<1>3. \A op \in O : op.change = "update" /\ op.unset = {} /\ op.set = version
  BY <1>1, <1>2
<1>4. ASSUME NEW id \in DOMAIN d[c]
      PROVE  \E op \in O : op.c = c /\ op.id = id
  <2>1. UpdateOp(c, id, version, {}) \in O
    BY <1>1
  <2> QED
    BY <1>2, <2>1
<1>5. c \in DOMAIN d
  BY DEF Collections
<1> DEFINE e == Apply(d, O)
<1>6. /\ DOMAIN e[c] = DOMAIN d[c]
      /\ \A id \in DOMAIN d[c] : \E op \in O : e[c][id] = Without(d[c][id], op.unset) ++ op.set
  BY <1>3, <1>4, <1>5, AllUpdated
<1>7. \A id \in DOMAIN d[c] : e[c][id] = Without(d[c][id], {}) ++ version
  BY <1>3, <1>6
<1> QED
  BY <1>6, <1>7 DEF O, version

\* updateController makes the cloud and the credential that updateModels refers to.
LEMMA CloudMade ==
  ASSUME NEW d, DOMAIN d = Collections, NEW u
  PROVE  LET e == Apply(d, UpdateControllerOps(d, u))
             ctx == ControllerContext(d)
         IN  /\ <<ctx.cloud>> \in DOMAIN e["clouds"]
             /\ CredentialID(ctx.cloud, ctx.owner) \in DOMAIN e["cloudCredentials"]
<1> DEFINE O == UpdateControllerOps(d, u)
           e == Apply(d, O)
           cloud == ControllerContext(d).cloud
           owner == ControllerContext(d).owner
           o2 == InsertOp("clouds", <<cloud>>, CloudDoc(d, cloud), <<>>)
           o3 == InsertOp("cloudCredentials", CredentialID(cloud, owner),
                          CredentialDoc(d, cloud, owner), <<>>)
<1>1. o2 \in O /\ o3 \in O
  BY DEF UpdateControllerOps
<1>2. /\ o2.c = "clouds" /\ o2.id = <<cloud>> /\ o2.change = "insert"
      /\ o3.c = "cloudCredentials" /\ o3.id = CredentialID(cloud, owner) /\ o3.change = "insert"
  BY DEF InsertOp
<1>3. \A op \in O : op.change # "remove"
  BY DEF UpdateControllerOps, UpdateOp, InsertOp
<1>4. {"clouds", "cloudCredentials"} \subseteq DOMAIN d
  BY DEF Collections
<1> HIDE DEF O, o2, o3
<1>5. o2.id \in DOMAIN e["clouds"] /\ o3.id \in DOMAIN e["cloudCredentials"]
  BY <1>1, <1>2, <1>3, <1>4, ApplyIDs
<1> QED
  BY <1>2, <1>5 DEF O

\* updateModels tells every model, and removes no document but the old name of
\* the controller model.
LEMMA ModelsAreTold ==
  ASSUME NEW d, DOMAIN d = Collections, NEW u, NEW ctx
  PROVE  LET e == Apply(d, UpdateModelsOps(d, u, ctx))
         IN  /\ \A id \in DOMAIN e["models"] :
                  /\ Has(e["models"][id], "controller-uuid")
                  /\ e["models"][id]["cloud"] = ctx.cloud
                  /\ e["models"][id]["cloud-credential"] = CredentialID(ctx.cloud, ctx.owner)
             /\ DOMAIN d["settings"] \subseteq DOMAIN e["settings"]
<1> DEFINE O == UpdateModelsOps(d, u, ctx)
           e == Apply(d, O)
           told(set) == /\ Has(set, "controller-uuid")
                        /\ Has(set, "cloud") /\ set["cloud"] = ctx.cloud
                        /\ Has(set, "cloud-credential")
                        /\ set["cloud-credential"] = CredentialID(ctx.cloud, ctx.owner)
           ok(op) == /\ op.c = "models" => op.change = "update" /\ told(op.set)
                     /\ op.c = "settings" => op.change # "remove"
<1>1. ASSUME NEW id, NEW op \in UpdateModelOps(d, id, u, ctx)
      PROVE  ok(op)
  <2> DEFINE named == IF GetStringField(d["models"][id], "name") = "admin"
                      THEN Field("name", "controller") ELSE NoDoc
             o1 == UpdateOp("models", id, ModelUpdates(d["models"][id], u, ctx),
                            {"server-uuid"})
  <2>1. told(ModelUpdates(d["models"][id], u, ctx))
    <3>1. DOMAIN named \subseteq {"name"}
      BY DEF Field, NoDoc
    <3>2. ModelUpdates(d["models"][id], u, ctx)
            = ((Field("cloud", ctx.cloud) ++ Field("cloud-credential", CredentialID(ctx.cloud, ctx.owner)))
                 ++ Field("controller-uuid", u)) ++ named
      BY DEF ModelUpdates
    <3> HIDE DEF named
    <3> QED
      BY <3>1, <3>2 DEF Has, Field, ++
  <2>2. o1.c = "models" /\ o1.change = "update" /\ o1.set = ModelUpdates(d["models"][id], u, ctx)
    BY DEF UpdateOp
  <2>3. ok(o1)
    BY <2>1, <2>2
  <2>4. op = o1 \/ op.c = "permissions" \/ (op.c = "settings" /\ op.change = "update")
    BY <1>1 DEF UpdateModelOps, UpdateOp, InsertOp
  <2> QED
    BY <2>3, <2>4
<1>2. \A op \in MoveOps("usermodelname", <<AdminUser, "admin">>,
                        "usermodelname", <<AdminUser, "controller">>, NoDoc) : ok(op)
  BY MoveOpsAbout DEF About
<1>3. \A op \in O : ok(op)
  BY <1>1, <1>2 DEF UpdateModelsOps
<1>4. \A id \in DOMAIN d["models"] : \E op \in O : op.c = "models" /\ op.id = id
  BY UpdateModelsJoinAll DEF JoinsModels
<1>5. {"models", "settings"} \subseteq DOMAIN d
  BY DEF Collections
<1> HIDE DEF O, told
<1>6. /\ DOMAIN e["models"] = DOMAIN d["models"]
      /\ \A id \in DOMAIN d["models"] : \E op \in O :
           op.c = "models" /\ e["models"][id] = Without(d["models"][id], op.unset) ++ op.set
  BY <1>3, <1>4, <1>5, AllUpdated
<1>7. \A doc, set : told(set) => told(doc ++ set)
  BY DEF told, Has, ++
<1>8. DOMAIN d["settings"] \subseteq DOMAIN e["settings"]
  BY <1>3, <1>5, ApplyIDs
<1>9. \A id \in DOMAIN e["models"] : told(e["models"][id])
  BY <1>3, <1>6, <1>7
<1> QED
  BY <1>8, <1>9 DEF told, O

\* moveDocsFromServicesToApplications: the applications are the services with their
\* charms, and their storage constraints are with them.
LEMMA ServicesMoved ==
  ASSUME NEW d, DOMAIN d = Collections, DOMAIN d["applications"] = {},
         NEW id \in DOMAIN Apply(d, MoveServicesOps(d))["applications"]
  PROVE  LET e == Apply(d, MoveServicesOps(d))
             charm == CharmURL(e["applications"][id])
         IN  /\ id \in DOMAIN d["services"] /\ charm = CharmURL(d["services"][id])
             /\ NewConstraintID(id, charm) \in DOMAIN e["storageconstraints"]
<1> DEFINE O == MoveServicesOps(d)
           e == Apply(d, O)
           doc(s) == RemoveBsonDField(CopyBsonDField(d["services"][s]), "ownertag")
           new(s) == NewConstraintID(s, CharmURL(doc(s)))
<1>0. {"applications", "services", "storageconstraints"} \subseteq DOMAIN d
  BY DEF Collections
<1>1. \A s : CharmURL(CopyBsonDField(doc(s))) = CharmURL(d["services"][s])
             /\ CharmURL(doc(s)) = CharmURL(d["services"][s])
  BY DEF CharmURL, GetStringField, Has, RemoveBsonDField, CopyBsonDField, Without
<1>2. ASSUME NEW op \in O
      PROVE  \/ op.c \in {"services", "refcounts"}
             \/ \E s \in DOMAIN d["services"] :
                  \/ /\ op.c = "applications" /\ op.id = s /\ op.change = "insert"
                     /\ op.set = CopyBsonDField(doc(s))
                  \/ /\ op.c = "storageconstraints"
                     /\ \/ op.change = "remove" /\ op.id = OldConstraintID(s)
                        \/ op.change = "insert"
  BY DEF MoveServicesOps, MoveServiceOps, MoveOps, RemoveOp, InsertOp
<1>3. ASSUME NEW s \in DOMAIN d["services"]
      PROVE  \E op \in O : op.c = "storageconstraints" /\ op.change = "insert" /\ op.id = new(s)
  <2> DEFINE old == OldConstraintID(s)
  <2>1. MoveOps("storageconstraints", old, "storageconstraints", new(s),
                d["storageconstraints"][old]) \subseteq O
    BY DEF MoveServicesOps, MoveServiceOps
  <2> HIDE DEF new
  <2> QED
    BY <2>1, MoveOpsHave
<1>4. \A s, t, charm : NewConstraintID(s, charm) # OldConstraintID(t)
  BY DEF NewConstraintID, OldConstraintID, DocID
<1> HIDE DEF O, doc, new
<1>5. PICK op \in O : op.c = "applications" /\ op.id = id /\ op.change = "insert"
                      /\ e["applications"][id] = op.set
  BY <1>0, ApplyDoc DEF O
<1>6. id \in DOMAIN d["services"] /\ e["applications"][id] = CopyBsonDField(doc(id))
  BY <1>2, <1>5
<1>7. new(id) \in DOMAIN e["storageconstraints"]
  BY <1>0, <1>2, <1>3, <1>4, <1>6, ApplyIDs DEF new
<1> QED
  BY <1>1, <1>6, <1>7 DEF O, new

\* updateUnits
LEMMA UnitsUpdated ==
  ASSUME NEW d, DOMAIN d = Collections
  PROVE  LET e == Apply(d, UpdateUnitsOps(d))
         IN  /\ NoneHas(e, "units", {"service", "ports", "privateaddress", "publicaddress"})
             /\ \A id \in DOMAIN e["units"] : WorkloadStatusID(e["units"][id]) \in DOMAIN e["statuses"]
             /\ DOMAIN d["statuses"] \subseteq DOMAIN e["statuses"]
<1> DEFINE O == UpdateUnitsOps(d)
           e == Apply(d, O)
           old == {"service", "ports", "privateaddress", "publicaddress"}
           set(id) == Field("application", ReadBsonDField(d["units"][id], "service"))
           o1(id) == UpdateOp("units", id, set(id), {"ports", "privateaddress", "publicaddress", "service"})
           o2(id) == InsertOp("statuses", WorkloadStatusID(d["units"][id]),
                              [status |-> "unknown", updated |-> "now"], id)
<1>0. {"units", "statuses"} \subseteq DOMAIN d
  BY DEF Collections
<1>1. O = {o1(id) : id \in DOMAIN d["units"]} \cup {o2(id) : id \in DOMAIN d["units"]}
  BY DEF UpdateUnitsOps, UpdateAllOps
<1>2. ASSUME NEW id
      PROVE  /\ o1(id).c = "units" /\ o1(id).id = id /\ o1(id).change = "update"
             /\ o1(id).unset = old /\ DOMAIN o1(id).set = {"application"}
             /\ o2(id).c = "statuses" /\ o2(id).change = "insert"
             /\ o2(id).id = WorkloadStatusID(d["units"][id])
  BY DEF UpdateOp, InsertOp, Field
<1> HIDE DEF O, o1, o2, old
<1>3. /\ \A op \in O : op.c = "units" =>
           op.change = "update" /\ op.unset = old /\ DOMAIN op.set = {"application"}
      /\ \A op \in O : op.c = "statuses" => op.change = "insert"
  BY <1>1, <1>2
<1>4. ASSUME NEW id \in DOMAIN d["units"]
      PROVE  /\ \E op \in O : op.c = "units" /\ op.id = id
             /\ \E op \in O : op.c = "statuses" /\ op.change = "insert"
                               /\ op.id = WorkloadStatusID(d["units"][id])
  BY <1>1, <1>2
<1>5. /\ DOMAIN e["units"] = DOMAIN d["units"]
      /\ \A id \in DOMAIN d["units"] : \E op \in O :
           op.c = "units" /\ e["units"][id] = Without(d["units"][id], op.unset) ++ op.set
  BY <1>0, <1>3, <1>4, AllUpdated
<1>6. ASSUME NEW id \in DOMAIN e["units"]
      PROVE  /\ DOMAIN e["units"][id] \cap old = {}
             /\ WorkloadStatusID(e["units"][id]) = WorkloadStatusID(d["units"][id])
  <2>1. PICK op \in O : op.c = "units" /\ e["units"][id] = Without(d["units"][id], op.unset) ++ op.set
    BY <1>5
  <2>2. op.unset = old /\ DOMAIN op.set = {"application"}
    BY <1>3, <2>1
  <2> QED
    BY <2>1, <2>2 DEF old, Without, ++, WorkloadStatusID, ReadBsonDField, Has
<1>7. \A id \in DOMAIN d["units"] : WorkloadStatusID(d["units"][id]) \in DOMAIN e["statuses"]
  BY <1>0, <1>3, <1>4, ApplyIDs
<1>8. DOMAIN d["statuses"] \subseteq DOMAIN e["statuses"]
  BY <1>0, <1>3, ApplyIDs
<1> QED
  BY <1>5, <1>6, <1>7, <1>8 DEF NoneHas, O, old

-----------------------------------------------------------------------------
(* The order of the stages.                                                *)

\* The stages have the ranks 0 to 37 in their order.
LEMMA Ranks ==
  /\ \A s \in Stages : Rank[s] \in 0..37
  /\ \A s \in Stages : Follows[s] # "done" => Rank[Follows[s]] = Rank[s] + 1
  /\ \A s \in Stages : Follows[s] = "done" => s \in {"addTools", "removeCleanups"}
  BY DEF Stages, Follows, Rank

\* Those past updateController come after it.
LEMMA LateRanks ==
  \A s \in Stages : s \in AfterController <=> Rank[s] > 6
  BY DEF Stages, Follows, Rank, AfterController

\* No two stages have the same rank.
LEMMA RanksDiffer ==
  \A s, t \in Stages : Rank[s] = Rank[t] => s = t
  BY DEF Stages, Follows, Rank

\* Past a stage is past all before it.
LEMMA DoneByRank ==
  ASSUME Running, live, pc \in Stages
  PROVE  /\ Progress = Rank[pc]
         /\ \A s \in Stages : Done(s) <=> Rank[pc] > Rank[s]
  BY IdleNoStage DEF Running, Done, Progress, Succeeded

\* When the command goes on, the stage is done, unless no upgrade is under way.
LEMMA DoneNext ==
  ASSUME Running, CleanupsOfCleanDB, live, pc \in Stages, Continue
  PROVE  \/ \A s \in Stages : Done(s)' <=> Done(s) \/ s = pc
         \/ \A s \in Stages : ~Done(s)'
<1>1. CASE NextStage(pc) # "done"
  <2>1. /\ pc' = NextStage(pc) /\ exit' = exit /\ live' = live
        /\ NextStage(pc) = Follows[pc] /\ pc' \in Stages
    BY <1>1, FollowsType DEF Continue, NextStage
  <2>2. Progress = Rank[pc] /\ Progress' = Rank[pc] + 1
    BY <1>1, <2>1, Ranks, IdleNoStage DEF Running, Progress, Succeeded
  <2>3. \A s \in Stages : Rank[pc] + 1 > Rank[s] <=> (Rank[pc] > Rank[s] \/ s = pc)
    BY Ranks, RanksDiffer
  <2> QED
    BY <2>1, <2>2, <2>3 DEF Done
<1>2. CASE NextStage(pc) = "done"
  <2>1. Follows[pc] = "done" /\ pc' = "idle" /\ exit' = "ok" /\ live' = live /\ cmd' = cmd
    BY <1>2 DEF Continue, NextStage, Exit
  <2>2. CASE cmd = "upgrade-db"
    <3>1. pc = "addTools"
      BY <2>1, <2>2, Ranks DEF CleanupsOfCleanDB
    <3>2. Progress = 37 /\ Progress' = 38 /\ Rank[pc] = 37
      BY <2>1, <2>2, <3>1 DEF Running, Progress, Succeeded, Rank
    <3>3. \A s \in Stages : 37 > Rank[s] \/ s = pc
      BY <3>2, Ranks, RanksDiffer
    <3> QED
      BY <2>1, <3>2, <3>3, Ranks DEF Done
  <2>3. CASE cmd # "upgrade-db"
    BY <2>1, <2>3, Ranks DEF Done, Progress, Succeeded
  <2> QED
    BY <2>2, <2>3
<1> QED
  BY <1>1, <1>2

-----------------------------------------------------------------------------
(* What the steps of a running command are, seen from the stages.          *)

\* A stage has read the database for its transaction.
StageReads ==
  /\ pc \in Transacting /\ ~inTxn /\ inTxn' = TRUE
  /\ UNCHANGED <<db, txns, indexes, tools, pc, cmd, live, uuid, exit, b7>>
  /\ ReadFor'
  /\ pc # "updateController" => context' = context
  /\ pc = "removeCleanups" => ops' = RemoveCleanupsOps(db)

\* A stage before updateController is done, or there are no cleanups.
StagePrepares ==
  /\ pc \in Stages \ (AfterController \cup {"updateController"})
  /\ Continue
  /\ db' = db \/ \E c \in {"controllers", "models"} : \E ids : db' = ClearQueues(db, c, ids)
  /\ txns' = txns
  /\ pc = "upgradePrecheck" => \A c \in MustBeEmpty : DOMAIN db[c] = {}

\* A pending transaction is completed.
StageCompletes ==
  /\ pc \in Stages /\ live
  /\ \E t \in txns : Complete(t)
  /\ UNCHANGED <<pc, cmd, live, uuid, context, ops, inTxn, exit, b7>>

\* One document of the status history has its key renamed.
StageRenames ==
  /\ pc = "statusHistory" /\ live
  /\ \E id \in StaleHistory(db) : db' = Apply(db, {HistoryUpdate(db, id)})
  /\ UNCHANGED <<txns, indexes, tools, pc, cmd, live, uuid, context, ops, inTxn, exit, b7>>

\* The stages that drop a collection.
Drops ==
  [dropServices |-> "services", dropSettingsRefs |-> "settingsrefs",
   dropIPAddresses |-> "ipaddresses"]

\* One of them is done.
StageFinishes ==
  /\ pc \in Writing
  /\ Continue /\ txns' = txns
  /\ IF pc \in DOMAIN Drops /\ live THEN db' = [db EXCEPT ![Drops[pc]] = NoDoc] ELSE db' = db
  /\ pc = "statusHistory" /\ live => StaleHistory(db) = {}
  /\ "2.0" \in indexes \/ pc = "reopenState" => "2.0" \in indexes'
  /\ pc = "addTools" => AgentVersion \in tools' /\ "blobstore" \in indexes'

\* One stage that reads.
LEMMA ReadsAs ==
  ASSUME NEW stage \in Transacting \ {"updateController"}, NEW O, Reads(stage, O),
         pc = stage /\ ops' = O /\ UNCHANGED <<db, uuid, context, pc>> => ReadFor',
         stage = "removeCleanups" => O = RemoveCleanupsOps(db)
  PROVE  StageReads
  BY DEF Reads, At, StageReads, disk

\* A stage that gives up.
LEMMA GiveUpQuits ==
  ASSUME NEW stage \in Stages, At(stage), NEW how \in {"error", "panic"}, Exit(how), UNCHANGED disk
  PROVE  Quits
  BY DEF At, Quits, disk

\* updateController and updateModels.
LEMMA ControllerReads ==
  ASSUME UpdateController \/ UpdateModels
  PROVE  StageReads \/ Quits
<1>0. {"updateController", "updateModels"} \subseteq Stages \cap Transacting
  BY DEF Transacting, Writing, AfterController, Stages, Follows
<1>1. CASE UpdateModels
  <2>1. pc = "updateModels" /\ ops' = UpdateModelsOps(db, uuid, context)
        /\ UNCHANGED <<db, uuid, context, pc>> => ReadFor'
    BY DEF ReadFor, GlobalKeyed
  <2> QED
    BY <1>0, <1>1, <2>1, ReadsAs DEF UpdateModels
<1>2. CASE UpdateController
  <2>1. CASE \E how \in {"error", "panic"} : Exit(how) /\ UNCHANGED disk
    BY <1>0, <1>2, <2>1, GiveUpQuits DEF UpdateController
  <2>2. CASE /\ context' = ControllerContext(db)
             /\ ops' = UpdateControllerOps(db, uuid)
             /\ inTxn' = TRUE
             /\ UNCHANGED <<db, txns, indexes, tools, pc, cmd, live, uuid, exit, b7>>
    <3>1. pc = "updateController" /\ ~inTxn
      BY <1>2 DEF UpdateController, At
    <3>2. ReadFor'
      BY <2>2, <3>1 DEF ReadFor, GlobalKeyed
    <3> QED
      BY <1>0, <2>2, <3>1, <3>2 DEF StageReads
  <2> QED
    BY <1>2, <2>1, <2>2 DEF UpdateController
<1> QED
  BY <1>1, <1>2

\* The stages of renameServiceToApplication that run a transaction.
LEMMA RenameReads ==
  ASSUME \/ MoveServices \/ UpdateUnits \/ UpdateSequences \/ UpdateLeases
         \/ UpdateModelEntityRefs \/ UpdateRelations \/ UpdateResources
         \/ \E c \in GlobalKeyed : UpdateCollectionIDGlobalKey(c)
  PROVE  StageReads \/ Quits
<1>0. /\ {"moveServices", "updateUnits", "updateSequences", "updateLeases", "updateModelEntityRefs",
          "updateRelations", "updateResources"} \subseteq (Stages \cap Transacting) \ {"updateController"}
      /\ GlobalKeyed \subseteq Transacting \ {"updateController"}
      /\ "removeCleanups" \notin GlobalKeyed
  BY DEF Transacting, Writing, AfterController, Stages, Follows, GlobalKeyed
<1> USE DEF ReadFor, GlobalKeyed
<1>1. CASE MoveServices
  BY <1>0, <1>1, ReadsAs, GiveUpQuits DEF MoveServices
<1>2. CASE UpdateUnits
  BY <1>0, <1>2, ReadsAs DEF UpdateUnits
<1>3. CASE UpdateSequences
  BY <1>0, <1>3, ReadsAs DEF UpdateSequences
<1>4. CASE UpdateLeases
  BY <1>0, <1>4, ReadsAs, GiveUpQuits DEF UpdateLeases
<1>5. CASE UpdateModelEntityRefs
  BY <1>0, <1>5, ReadsAs DEF UpdateModelEntityRefs
<1>6. CASE UpdateRelations
  BY <1>0, <1>6, ReadsAs DEF UpdateRelations
<1>7. CASE UpdateResources
  BY <1>0, <1>7, ReadsAs DEF UpdateResources
<1>8. ASSUME NEW c \in GlobalKeyed, UpdateCollectionIDGlobalKey(c) PROVE StageReads
  BY <1>0, <1>8, ReadsAs DEF UpdateCollectionIDGlobalKey
<1> QED
  BY <1>1, <1>2, <1>3, <1>4, <1>5, <1>6, <1>7, <1>8

\* The stages of otherSchemaUpgrades and updateAgentTools.
LEMMA SchemaReads ==
  ASSUME OtherSchemaUpgrades
  PROVE  StageReads
<1>0. {"upgradeCharms", "upgradeUsers", "upgradeModelUsers", "upgradeMachines",
       "upgradeCloudImageMetadata", "upgradeSpaces", "upgradeSubnets", "upgradeLinkLayerDevices",
       "upgradeIPAddresses", "updateAgentTools"} \subseteq Transacting \ {"updateController"}
  BY DEF Transacting, Writing, AfterController, Stages, Follows
<1> USE DEF ReadFor, GlobalKeyed
<1>1. CASE UpgradeCharms
  BY <1>0, <1>1, ReadsAs DEF UpgradeCharms
<1>2. CASE UpgradeUsers
  BY <1>0, <1>2, ReadsAs DEF UpgradeUsers
<1>3. CASE UpgradeModelUsers
  BY <1>0, <1>3, ReadsAs DEF UpgradeModelUsers
<1>4. CASE UpgradeMachines
  BY <1>0, <1>4, ReadsAs DEF UpgradeMachines
<1>5. CASE UpgradeCloudImageMetadata
  BY <1>0, <1>5, ReadsAs DEF UpgradeCloudImageMetadata
<1>6. CASE UpgradeSpaces
  BY <1>0, <1>6, ReadsAs DEF UpgradeSpaces
<1>7. CASE UpgradeSubnets
  BY <1>0, <1>7, ReadsAs DEF UpgradeSubnets
<1>8. CASE UpgradeLinkLayerDevices
  BY <1>0, <1>8, ReadsAs DEF UpgradeLinkLayerDevices
<1>9. CASE UpgradeIPAddresses
  BY <1>0, <1>9, ReadsAs DEF UpgradeIPAddresses
<1>10. CASE UpdateAgentTools
  BY <1>0, <1>10, ReadsAs DEF UpdateAgentTools
<1> QED
  BY <1>1, <1>2, <1>3, <1>4, <1>5, <1>6, <1>7, <1>8, <1>9, <1>10 DEF OtherSchemaUpgrades

\* The stages of upgradeDB before updateController.
LEMMA PreparationStages ==
  ASSUME ProcessInv,
         \/ UpgradePrecheck \/ RepairTxnQueue \/ NothingToResume
         \/ \E t \in txns : ResumeTransaction(t)
         \/ ClearModelQueues \/ DropIndexes
  PROVE  Quits \/ StagePrepares \/ StageCompletes
<1>0. /\ {"upgradePrecheck", "repairTxnQueue", "resumeTransactions", "clearModelQueues", "dropIndexes"}
           \subseteq Stages \ (AfterController \cup {"updateController"})
      /\ {"controllers", "models"} \subseteq Collections
  BY DEF Stages, Follows, AfterController, Collections
<1>1. CASE UpgradePrecheck
  BY <1>0, <1>1, GiveUpQuits DEF UpgradePrecheck, StagePrepares, At, disk
<1>2. CASE RepairTxnQueue
  BY <1>0, <1>2, GiveUpQuits DEF RepairTxnQueue, StagePrepares, At, disk
<1>3. CASE NothingToResume
  BY <1>0, <1>3 DEF NothingToResume, StagePrepares, At, disk
<1>4. ASSUME NEW t \in txns, ResumeTransaction(t) PROVE Quits \/ StageCompletes
  <2>1. live
    BY <1>4 DEF ResumeTransaction, At, ProcessInv, LiveStages
  <2> QED
    BY <1>0, <1>4, <2>1, GiveUpQuits DEF ResumeTransaction, StageCompletes, At
<1>5. CASE ClearModelQueues
  BY <1>0, <1>5 DEF ClearModelQueues, StagePrepares, At
<1>6. CASE DropIndexes
  BY <1>0, <1>6 DEF DropIndexes, StagePrepares, At
<1> QED
  BY <1>1, <1>2, <1>3, <1>4, <1>5, <1>6

\* The stages that write without a transaction.
LEMMA WritingStages ==
  ASSUME UpdateStatusHistory \/ Drop \/ AddTwoZeroBinariesToDB
  PROVE  Quits \/ StageRenames \/ StageFinishes
<1>0. Writing \subseteq Stages
  BY DEF Writing, Drops, Stages, Follows
<1> USE DEF Writing, Drops, At, StageFinishes
<1>1. CASE UpdateStatusHistory
  BY <1>1 DEF UpdateStatusHistory, StageRenames
<1>2. CASE Drop
  BY <1>2 DEF Drop, DropServices, DropSettingsRefs, DropIPAddresses, DropCollection
<1>3. CASE ReopenState
  BY <1>3 DEF ReopenState
<1>4. CASE OpenTools
  BY <1>0, <1>4, GiveUpQuits DEF OpenTools, disk
<1>5. CASE DropBlobIndex
  BY <1>0, <1>5, GiveUpQuits DEF DropBlobIndex, disk
<1>6. CASE AddTools
  BY <1>6 DEF AddTools
<1> QED
  BY <1>1, <1>2, <1>3, <1>4, <1>5, <1>6 DEF AddTwoZeroBinariesToDB

\* RunTransaction and clean-db
LEMMA TransactionStages ==
  ASSUME ProcessInv, RunTransaction \/ RemoveCleanups
  PROVE  Quits \/ DryRunTransaction \/ Commit \/ StageCompletes \/ StageReads \/ StagePrepares
<1>0. /\ inTxn => pc \in Stages
      /\ "removeCleanups" \in Stages \ (AfterController \cup {"updateController"})
      /\ "removeCleanups" \in Transacting
  BY DEF ProcessInv, Stages, Follows, AfterController, Transacting
<1>1. ASSUME live, inTxn, StopAtQueue PROVE Quits
  BY <1>0, <1>1 DEF StopAtQueue, Quits, LeavesBehind
<1>2. ASSUME NEW t \in txns, FlushTransaction(t) PROVE Quits \/ StageCompletes
  BY <1>0, <1>1, <1>2 DEF FlushTransaction, StageCompletes
<1>3. CASE StuckTransaction
  BY <1>1, <1>3 DEF StuckTransaction, CanRun
<1>4. CASE Abort
  BY <1>0, <1>4 DEF Abort, CanRun, Quits, disk
<1>5. CASE RemoveCleanups
  BY <1>0, <1>5, ReadsAs DEF RemoveCleanups, At, disk, StagePrepares, ReadFor, GlobalKeyed
<1> QED
  BY <1>2, <1>3, <1>4, <1>5 DEF RunTransaction

\* Every step of a running command.
LEMMA StageKinds ==
  ASSUME ProcessInv, Step \/ Failure
  PROVE  \/ StageReads \/ Quits \/ StagePrepares \/ StageCompletes
         \/ StageRenames \/ StageFinishes \/ DryRunTransaction \/ Commit
<1>1. CASE Failure
  BY <1>1, FailureKind
<1>2. CASE RenameServiceToApplication
  BY <1>2, RenameReads, WritingStages DEF RenameServiceToApplication, Drop
<1> QED
  BY <1>1, <1>2, PreparationStages, ControllerReads, SchemaReads, WritingStages, TransactionStages
     DEF Step

-----------------------------------------------------------------------------
(* The database before updateController.                                   *)

\* A provider id is prefixed once if that is so in a document that says the same.
LEMMA SamePrefix ==
  ASSUME NEW doc, NEW other, PrefixedOnce(doc),
         \A f \in {"providerid", "model-uuid"} :
           /\ Has(doc, f) <=> Has(other, f)
           /\ Has(doc, f) => doc[f] = other[f]
  PROVE  PrefixedOnce(other)
<1>1. HasModelPrefix(other) <=> HasModelPrefix(doc)
  BY DEF HasModelPrefix, GetStringField
<1>2. ASSUME HasModelPrefix(doc)
      PROVE  ~HasModelPrefix(other ++ Field("providerid", LocalID(other["providerid"])))
  <2> DEFINE bare(e) == e ++ Field("providerid", LocalID(e["providerid"]))
  <2>1. Has(doc, "providerid") /\ doc["providerid"] = other["providerid"]
    BY <1>2 DEF HasModelPrefix
  <2>2. \A e : Has(bare(e), "providerid") /\ bare(e)["providerid"] = LocalID(e["providerid"])
    BY DEF Has, Field, ++
  <2>3. \A e : GetStringField(bare(e), "model-uuid") = GetStringField(e, "model-uuid")
    BY DEF GetStringField, Has, Field, ++
  <2>4. GetStringField(other, "model-uuid") = GetStringField(doc, "model-uuid")
    BY DEF GetStringField
  <2>5. ~HasModelPrefix(bare(doc))
    BY <1>2 DEF PrefixedOnce
  <2> HIDE DEF bare
  <2>6. ~HasModelPrefix(bare(other))
    BY <2>1, <2>2, <2>3, <2>4, <2>5 DEF HasModelPrefix
  <2> QED
    BY <2>6 DEF bare
<1> QED
  BY <1>1, <1>2 DEF PrefixedOnce

\* The keys of a service are keys of services.
LEMMA KeysOfServices ==
  ASSUME NEW c, NEW id, NEW charm
  PROVE  /\ IsServiceKeyID(KeyedDoc(c, "s", id, charm))
         /\ NewKeyID(KeyedDoc(c, "s", id, charm)) = KeyedDoc(c, "a", id, charm)
<1>1. CASE c = "settings"
  BY <1>1 DEF KeyedDoc, IsServiceKeyID, NewKeyID
<1>2. CASE c # "settings"
  BY <1>2 DEF KeyedDoc, IsServiceKeyID, NewKeyID
<1> QED
  BY <1>1, <1>2

\* The operations of the agents leave the database as beta 7 does.
LEMMA SparingKeeps ==
  ASSUME NEW d, DOMAIN d = Collections, Consistent(d), NEW O, Sparing(O)
  PROVE  Consistent(Apply(d, O))
<1> DEFINE e == Apply(d, O)
<1>0. ApplicationKeyed \cup Provided \cup {"applications", "services"} \subseteq DOMAIN d
  BY DEF ApplicationKeyed, Provided, Collections
<1>1. DOMAIN e["applications"] = {}
  BY <1>0, ApplyElsewhere DEF Consistent, Sparing, SparesServices
<1>2. ASSUME NEW id \in DOMAIN e["services"], NEW c \in ApplicationKeyed
      PROVE  KeyedDoc(c, "s", id, CharmURL(e["services"][id])) \in DOMAIN e[c]
  <2>1. id \in DOMAIN d["services"]
    BY <1>0, ApplyIDs DEF Sparing, SparesServices
  <2>2. CharmURL(e["services"][id]) = CharmURL(d["services"][id])
    <3>1. \/ e["services"][id] = d["services"][id]
          \/ \E op \in O : /\ op.c = "services"
                           /\ e["services"][id] = Without(d["services"][id], op.unset) ++ op.set
      BY <1>0, <2>1, ApplyDoc
    <3> QED
      BY <3>1 DEF Sparing, SparesServices, CharmURL, GetStringField, Has, Without, ++
  <2> DEFINE key == KeyedDoc(c, "s", id, CharmURL(d["services"][id]))
  <2>3. key \in DOMAIN d[c] /\ IsServiceKeyID(key)
    BY <2>1, KeysOfServices DEF Consistent, ServicesComplete
  <2> HIDE DEF key
  <2>4. key \in DOMAIN e[c]
    BY <1>0, <2>3, ApplyIDs DEF Sparing, SparesServices
  <2> QED
    BY <2>2, <2>4 DEF key
<1>3. ASSUME NEW c \in Provided, NEW id \in DOMAIN e[c]
      PROVE  PrefixedOnce(e[c][id])
  <2>1. CASE id \in DOMAIN d[c] /\ e[c][id] = d[c][id]
    BY <2>1 DEF Consistent
  <2>2. ASSUME id \in DOMAIN d[c], NEW op \in O, op.c = c, op.change = "update",
               e[c][id] = Without(d[c][id], op.unset) ++ op.set
        PROVE  PrefixedOnce(e[c][id])
    <3>1. {"providerid", "model-uuid"} \cap (op.unset \cup DOMAIN op.set) = {}
      BY <2>2 DEF Sparing, SparesProviderIDs
    <3>2. \A f \in {"providerid", "model-uuid"} :
            /\ Has(d[c][id], f) <=> Has(e[c][id], f)
            /\ Has(d[c][id], f) => d[c][id][f] = e[c][id][f]
      BY <2>2, <3>1 DEF Has, Without, ++
    <3>3. PrefixedOnce(d[c][id])
      BY <2>2 DEF Consistent
    <3> HIDE DEF e
    <3> QED
      BY <3>2, <3>3, SamePrefix
  <2>3. ASSUME NEW op \in O, op.c = c, op.change = "insert", e[c][id] = op.set
        PROVE  PrefixedOnce(e[c][id])
    BY <2>3 DEF Sparing, SparesProviderIDs
  <2> QED
    BY <1>0, <2>1, <2>2, <2>3, ApplyDoc
<1> HIDE DEF e
<1>4. Consistent(e)
  BY <1>1, <1>2, <1>3 DEF Consistent, ServicesComplete
<1> QED
  BY <1>4 DEF e

\* So does emptying transaction queues.
LEMMA ClearKeeps ==
  ASSUME NEW d, DOMAIN d = Collections, Consistent(d), NEW k \in Collections, NEW ids
  PROVE  Consistent(ClearQueues(d, k, ids))
<1> DEFINE e == ClearQueues(d, k, ids)
<1>0. ApplicationKeyed \cup Provided \cup {"applications", "services"} \subseteq DOMAIN d
  BY DEF ApplicationKeyed, Provided, Collections
<1>1. \A c \in DOMAIN d : DOMAIN e[c] = DOMAIN d[c]
  BY DEF ClearQueues
<1>2. \A c \in DOMAIN d : \A id \in DOMAIN d[c] :
        e[c][id] = d[c][id] \/ e[c][id] = d[c][id] ++ Field("txn-queue", {})
  BY DEF ClearQueues
<1> HIDE DEF e
<1>3. ASSUME NEW c \in DOMAIN d, NEW id \in DOMAIN d[c], NEW f, f # "txn-queue"
      PROVE  /\ Has(d[c][id], f) <=> Has(e[c][id], f)
             /\ Has(d[c][id], f) => d[c][id][f] = e[c][id][f]
  <2>1. \A doc : LET new == doc ++ Field("txn-queue", {})
                IN  (Has(doc, f) <=> Has(new, f)) /\ (Has(doc, f) => doc[f] = new[f])
    BY <1>3 DEF Has, ++, Field
  <2> QED
    BY <1>2, <2>1
<1>4. \A id \in DOMAIN d["services"] : CharmURL(e["services"][id]) = CharmURL(d["services"][id])
  BY <1>0, <1>3 DEF CharmURL, GetStringField
<1>5. ServicesComplete(e)
  BY <1>0, <1>1, <1>4 DEF Consistent, ServicesComplete
<1>6. ASSUME NEW c \in Provided, NEW id \in DOMAIN e[c] PROVE PrefixedOnce(e[c][id])
  <2>1. PrefixedOnce(d[c][id])
    BY <1>0, <1>1 DEF Consistent
  <2> QED
    BY <1>0, <1>1, <1>3, <2>1, SamePrefix
<1>7. Consistent(e)
  BY <1>0, <1>1, <1>5, <1>6 DEF Consistent
<1> QED
  BY <1>7 DEF e

\* Part of sparing operations is sparing.
LEMMA SparingPart ==
  ASSUME NEW O, Sparing(O), NEW S \in SUBSET O
  PROVE  Sparing(S)
  BY DEF Sparing

\* updateController and clean-db leave services and provider ids alone.
LEMMA FirstSparing ==
  ASSUME NEW d, NEW u
  PROVE  Sparing(UpdateControllerOps(d, u)) /\ Sparing(RemoveCleanupsOps(d))
<1>1. ASSUME NEW O, NEW cs, About(O, cs),
             cs \cap ({"applications", "services"} \cup ApplicationKeyed \cup Provided) = {}
      PROVE  Sparing(O)
  BY <1>1 DEF About, Sparing, SparesServices, SparesProviderIDs
<1>2. Sparing(UpdateControllerOps(d, u))
  <2>1. {"controllers", "clouds", "cloudCredentials", "permissions", "controllerusers"}
          \cap ({"applications", "services"} \cup ApplicationKeyed \cup Provided) = {}
    BY DEF ApplicationKeyed, Provided
  <2> QED
    BY <1>1, <2>1, ControllerAbout
<1>3. Sparing(RemoveCleanupsOps(d))
  <2>1. {"cleanups"} \cap ({"applications", "services"} \cup ApplicationKeyed \cup Provided) = {}
    BY DEF ApplicationKeyed, Provided
  <2> QED
    BY <1>1, <2>1, SchemaAbout
<1> QED
  BY <1>2, <1>3

\* A command changes nothing of that before it records its controller UUID.
LEMMA ConsistentStep ==
  ASSUME IdentityInv, OneRunMigrates, StillConsistent, SameUUIDs(db, db'),
         \/ StageReads \/ Quits \/ StagePrepares \/ StageCompletes
         \/ StageRenames \/ StageFinishes \/ DryRunTransaction \/ Commit
  PROVE  StillConsistent'
<1> SUFFICES ASSUME RecordedUUIDs(db)' = {}
             PROVE  /\ Consistent(db')
                    /\ \A t \in txns' : Sparing(t.ops)
                    /\ live' /\ inTxn' => Sparing(ops')
  BY DEF StillConsistent
<1>1. RecordedUUIDs(db) = {}
  BY RecordedStay
<1>2. /\ Consistent(db) /\ \A t \in txns : Sparing(t.ops)
      /\ live /\ inTxn => Sparing(ops)
  BY <1>1 DEF StillConsistent
<1>3. ~(live /\ pc \in AfterController)
  BY <1>1 DEF OneRunMigrates
<1>4. DOMAIN db = Collections
  BY DEF IdentityInv, ProcessInv, TypeOK, DiskOK
<1>5. ASSUME Continue \/ \E how : Exit(how) PROVE inTxn' = FALSE
  BY <1>5 DEF Continue, Exit
<1>6. CASE StageReads
  <2>1. UNCHANGED <<db, txns, pc, live, uuid>>
    BY <1>6 DEF StageReads
  <2>2. live => pc \in {"updateController", "removeCleanups"}
    BY <1>3, <1>6 DEF StageReads, Transacting
  <2>3. pc = "updateController" => ops' = UpdateControllerOps(db, uuid)
    BY <1>6, <2>1 DEF StageReads, ReadFor
  <2>4. pc = "removeCleanups" => ops' = RemoveCleanupsOps(db)
    BY <1>6 DEF StageReads
  <2> QED
    BY <1>2, <2>1, <2>2, <2>3, <2>4, FirstSparing
<1>7. CASE Quits
  <2>1. inTxn' = FALSE
    BY <1>5, <1>7 DEF Quits
  <2>2. Consistent(db')
    <3>1. CASE db' = db
      BY <1>2, <3>1
    <3>2. ASSUME live, inTxn, NEW done \in SUBSET ops, db' = Apply(db, done)
          PROVE  Consistent(db')
      BY <1>2, <1>4, <3>2, SparingPart, SparingKeeps
    <3> QED
      BY <1>7, <3>1, <3>2, LeftBehind DEF Quits
  <2>3. \A t \in txns' : Sparing(t.ops)
    BY <1>2, <1>7, LeftBehind DEF Quits
  <2> QED
    BY <2>1, <2>2, <2>3
<1>8. CASE StagePrepares
  <2>1. inTxn' = FALSE /\ txns' = txns
    BY <1>5, <1>8 DEF StagePrepares
  <2>2. Consistent(db')
    BY <1>2, <1>4, <1>8, ClearKeeps DEF StagePrepares, Collections
  <2> QED
    BY <1>2, <2>1, <2>2
<1>9. ASSUME NEW t \in txns, Complete(t), UNCHANGED <<live, ops, inTxn>>
      PROVE  /\ Consistent(db')
             /\ \A q \in txns' : Sparing(q.ops)
             /\ live' /\ inTxn' => Sparing(ops')
  <2>1. Consistent(Apply(db, t.ops)) /\ Consistent(Apply(db, t.ops \ t.done))
    BY <1>2, <1>4, SparingPart, SparingKeeps
  <2> QED
    BY <1>2, <1>9, <2>1 DEF Complete
<1>10. ~StageRenames
  <2>1. "statusHistory" \in AfterController
    BY DEF AfterController, Stages, Follows
  <2> QED
    BY <1>3, <2>1 DEF StageRenames
<1>11. CASE StageFinishes
  <2>1. Writing \subseteq AfterController
    BY DEF Writing, AfterController, Stages, Follows
  <2> QED
    BY <1>2, <1>3, <1>5, <1>11, <2>1 DEF StageFinishes
<1>12. CASE DryRunTransaction
  BY <1>2, <1>5, <1>12 DEF DryRunTransaction, disk
<1>13. CASE Commit
  <2>1. Consistent(db') /\ txns' = txns
    BY <1>2, <1>4, <1>13, SparingKeeps DEF Commit, CanRun
  <2> QED
    BY <1>2, <1>5, <1>13, <2>1 DEF Commit
<1> QED
  BY <1>6, <1>7, <1>8, <1>9, <1>10, <1>11, <1>12, <1>13 DEF StageCompletes

-----------------------------------------------------------------------------
(* What the late stages leave alone.                                       *)

\* The collections that a stage past updateController writes.
Writes ==
  [updateModels              |-> {"models", "permissions", "settings", "usermodelname"},
   moveServices              |-> {"services", "applications", "storageconstraints", "refcounts"},
   updateUnits               |-> {"units", "statuses"},
   updateSequences           |-> {"sequence"},
   updateLeases              |-> {"leases"},
   updateModelEntityRefs     |-> {"modelEntityRefs"},
   updateRelations           |-> {"relations"},
   updateResources           |-> {"resources"},
   annotations               |-> {"annotations"},
   constraints               |-> {"constraints"},
   endpointbindings          |-> {"endpointbindings"},
   settings                  |-> {"settings"},
   statuses                  |-> {"statuses"},
   statusHistory             |-> {"statuseshistory"},
   dropServices              |-> {"services"},
   dropSettingsRefs          |-> {"settingsrefs"},
   dropIPAddresses           |-> {"ipaddresses"},
   upgradeCharms             |-> {"charms"},
   upgradeUsers              |-> {"users"},
   upgradeModelUsers         |-> {"modelusers"},
   upgradeMachines           |-> {"machines"},
   upgradeCloudImageMetadata |-> {"cloudimagemetadata"},
   upgradeSpaces             |-> {"spaces", "providerIDs"},
   upgradeSubnets            |-> {"subnets", "providerIDs"},
   upgradeLinkLayerDevices   |-> {"linklayerdevices", "providerIDs"},
   upgradeIPAddresses        |-> {"ip.addresses", "providerIDs"},
   updateAgentTools          |-> {"machines", "units"},
   reopenState |-> {}, openTools |-> {}, dropBlobIndex |-> {}, addTools |-> {}]

\* The transaction of a stage stays within them.
LEMMA OpsAbout ==
  ASSUME ReadFor, pc \in AfterController \ Writing
  PROVE  About(ops, Writes[pc])
<1> USE DEF ReadFor, Writes
<1>1. CASE pc = "updateModels"
  BY <1>1, ControllerAbout
<1>2. CASE pc = "moveServices"
  BY <1>2, MoveServicesAbout
<1>3. CASE pc = "updateUnits"
  BY <1>3, UpdateAllAbout
<1>4. CASE pc = "updateModelEntityRefs"
  BY <1>4, UpdateAllAbout
<1>5. CASE pc = "updateRelations"
  BY <1>5, UpdateAllAbout
<1>6. CASE pc = "updateResources"
  BY <1>6, UpdateAllAbout
<1>7. CASE pc = "updateSequences"
  BY <1>7, RekeyAbout
<1>8. CASE pc = "updateLeases"
  BY <1>8, RekeyAbout
<1>9. CASE pc = "upgradeCloudImageMetadata"
  BY <1>9, RekeyAbout
<1>10. CASE pc = "upgradeCharms"
  BY <1>10, SchemaAbout
<1>11. CASE pc = "upgradeUsers"
  BY <1>11, SchemaAbout
<1>12. CASE pc = "upgradeModelUsers"
  BY <1>12, SchemaAbout
<1>13. CASE pc = "upgradeMachines"
  BY <1>13, SchemaAbout
<1>14. CASE pc = "updateAgentTools"
  BY <1>14, SchemaAbout
<1>15. CASE pc \in GlobalKeyed
  <2>1. ops = GlobalKeyOps(db, pc, KeyName(pc))
    BY <1>15
  <2>2. Writes[pc] = {pc}
    <3>1. /\ Writes["annotations"] = {"annotations"} /\ Writes["constraints"] = {"constraints"}
          /\ Writes["endpointbindings"] = {"endpointbindings"}
          /\ Writes["settings"] = {"settings"} /\ Writes["statuses"] = {"statuses"}
      BY DEF Writes
    <3> HIDE DEF Writes, ReadFor
    <3> QED
      BY <1>15, <3>1 DEF GlobalKeyed
  <2>3. About(GlobalKeyOps(db, pc, KeyName(pc)), {pc})
    BY RekeyAbout
  <2> HIDE DEF Writes, ReadFor
  <2>4. {pc} = Writes[pc]
    BY <2>2
  <2> QED
    BY <2>1, <2>3, <2>4
<1>16. CASE pc = "upgradeSpaces"
  <2>1. About(ProviderIDOps(db, "spaces", "space"), {"spaces", "providerIDs"})
    BY SchemaAbout
  <2> QED
    BY <1>16, <2>1
<1>17. CASE pc = "upgradeSubnets"
  <2>1. About(ProviderIDOps(db, "subnets", "subnet"), {"subnets", "providerIDs"})
    BY SchemaAbout
  <2> QED
    BY <1>17, <2>1
<1>18. CASE pc = "upgradeLinkLayerDevices"
  <2>1. About(ProviderIDOps(db, "linklayerdevices", "linklayerdevice"), {"linklayerdevices", "providerIDs"})
    BY SchemaAbout
  <2> QED
    BY <1>18, <2>1
<1>19. CASE pc = "upgradeIPAddresses"
  <2>1. About(ProviderIDOps(db, "ip.addresses", "address"), {"ip.addresses", "providerIDs"})
    BY SchemaAbout
  <2> QED
    BY <1>19, <2>1
<1>20. \/ pc \in {"updateModels", "moveServices", "updateUnits", "updateModelEntityRefs",
                 "updateRelations", "updateResources", "updateSequences", "updateLeases"}
       \/ pc \in {"upgradeCloudImageMetadata", "upgradeCharms", "upgradeUsers", "upgradeModelUsers",
                 "upgradeMachines", "updateAgentTools", "upgradeSpaces", "upgradeSubnets",
                 "upgradeLinkLayerDevices", "upgradeIPAddresses"}
       \/ pc \in GlobalKeyed
  BY ONLY pc \in AfterController \ Writing
     DEF AfterController, Stages, Follows, Writing, GlobalKeyed
<1> HIDE DEF ReadFor, Writes
<1> QED
  BY <1>1, <1>2, <1>3, <1>4, <1>5, <1>6, <1>7, <1>8, <1>9, <1>10,
     <1>11, <1>12, <1>13, <1>14, <1>15, <1>16, <1>17, <1>18, <1>19, <1>20

\* A live upgrade past updateController finishes a stage.
LateStep ==
  /\ live /\ pc \in AfterController
  /\ (Commit /\ pc \notin Writing /\ ReadFor) \/ StageFinishes

\* It writes no other collection.
LEMMA WritesOnly ==
  ASSUME ProcessInv, LateStep \/ StageRenames, NEW c \in Collections \ Writes[pc]
  PROVE  db'[c] = db[c]
<1>0. c \in DOMAIN db
  BY DEF ProcessInv, TypeOK, DiskOK
<1>1. CASE LateStep /\ Commit /\ pc \notin Writing /\ ReadFor
  <2>1. About(ops, Writes[pc])
    BY <1>1, OpsAbout DEF LateStep
  <2> QED
    BY <1>0, <1>1, <2>1, ApplyElsewhere DEF Commit, About
<1>2. CASE StageFinishes
  BY <1>0, <1>2 DEF StageFinishes, Writes, Drops, Writing
<1>3. CASE StageRenames
  <2>1. \A id : About({HistoryUpdate(db, id)}, {"statuseshistory"})
    BY SchemaAbout
  <2>2. c # "statuseshistory"
    BY <1>3 DEF StageRenames, Writes
  <2> QED
    BY <1>0, <1>3, <2>1, <2>2, ApplyElsewhere DEF StageRenames, About
<1> QED
  BY <1>1, <1>2, <1>3 DEF LateStep

\* What a stage has made is written by none that comes after it.
LEMMA StagesOf ==
  /\ \A c \in GlobalKeyed : StageOf(c) = c
  /\ StageOf("sequence") = "updateSequences" /\ StageOf("leases") = "updateLeases"
  /\ StageOf("modelEntityRefs") = "updateModelEntityRefs"
  /\ StageOf("relations") = "updateRelations"
  /\ StageOf("resources") = "updateResources" /\ StageOf("statuseshistory") = "statusHistory"
  /\ StageOf("services") = "dropServices" /\ StageOf("settingsrefs") = "dropSettingsRefs"
  /\ StageOf("ipaddresses") = "dropIPAddresses" /\ StageOf("charms") = "upgradeCharms"
  /\ StageOf("users") = "upgradeUsers" /\ StageOf("modelusers") = "upgradeModelUsers"
  /\ StageOf("spaces") = "upgradeSpaces"
  /\ StageOf("subnets") = "upgradeSubnets"
  /\ StageOf("linklayerdevices") = "upgradeLinkLayerDevices"
  /\ StageOf("ip.addresses") = "upgradeIPAddresses"
  /\ StageOf("machines") = "updateAgentTools" /\ StageOf("units") = "updateAgentTools"
  BY DEF StageOf, GlobalKeyed

LEMMA WrittenEarly ==
  ASSUME NEW s \in AfterController, NEW c \in Renewed, c \in Writes[s]
  PROVE  s = StageOf(c) \/ Rank[s] < Rank[StageOf(c)]
<1>0. AfterController = DOMAIN Writes
  BY DEF AfterController, Stages, Follows, Writes
<1> HIDE DEF AfterController
<1> USE StagesOf DEF Renewed, Provided, GlobalKeyed
<1>1. CASE s \in {"updateModels", "moveServices", "updateUnits", "upgradeMachines"}
  <2>1. \/ c = "settings" /\ Rank[s] = 7
        \/ c \in {"services", "applications", "storageconstraints", "refcounts"} /\ Rank[s] = 8
        \/ c \in {"units", "statuses"} /\ Rank[s] = 9
        \/ c = "machines" /\ Rank[s] = 27
    BY <1>1 DEF Writes, Rank
  <2>2. /\ Rank["settings"] = 18 /\ Rank["statuses"] = 19 /\ Rank["dropServices"] = 21
        /\ Rank["updateAgentTools"] = 33
    BY DEF Rank
  <2> QED
    BY <2>1, <2>2
<1>2. CASE s \in {"updateSequences", "updateLeases", "updateModelEntityRefs", "updateResources",
                  "updateRelations"}
  BY <1>2 DEF Writes
<1>3. CASE s \in GlobalKeyed
  BY <1>3 DEF Writes
<1>4. CASE s \in {"statusHistory", "dropServices", "dropSettingsRefs", "dropIPAddresses"}
  BY <1>4 DEF Writes
<1>5. CASE s \in {"upgradeSpaces", "upgradeSubnets", "upgradeLinkLayerDevices", "upgradeIPAddresses"}
  BY <1>5 DEF Writes
<1>6. CASE s = "updateAgentTools"
  BY <1>6 DEF Writes
<1>7. CASE s \in {"upgradeCharms", "upgradeUsers", "upgradeModelUsers"}
  BY <1>7 DEF Writes
<1>8. s \notin {"upgradeCloudImageMetadata", "reopenState", "openTools", "dropBlobIndex", "addTools"}
  BY DEF Writes
<1> QED
  BY <1>0, <1>1, <1>2, <1>3, <1>4, <1>5, <1>6, <1>7, <1>8 DEF Writes

\* The stages that write what an application, a model or a unit needs.
LEMMA Writers ==
  ASSUME NEW s \in AfterController
  PROVE  /\ "models" \in Writes[s] => s = "updateModels"
         /\ "clouds" \notin Writes[s] /\ "cloudCredentials" \notin Writes[s]
         /\ "applications" \in Writes[s] => s = "moveServices"
         /\ "storageconstraints" \in Writes[s] => s = "moveServices"
         /\ "services" \in Writes[s] => s \in {"moveServices", "dropServices"}
         /\ "units" \in Writes[s] => s \in {"updateUnits", "updateAgentTools"}
         /\ "machines" \in Writes[s] => s \in {"upgradeMachines", "updateAgentTools"}
         /\ \A c \in ApplicationKeyed : c \in Writes[s] =>
              \/ s = c
              \/ c = "settings" /\ s = "updateModels"
              \/ c = "statuses" /\ s = "updateUnits"
         /\ \A c \in Provided : c \in Writes[s] => s = StageOf(c)
<1>0. AfterController = DOMAIN Writes
  BY DEF AfterController, Stages, Follows, Writes
<1> HIDE DEF AfterController
<1>1. CASE s \in {"updateModels", "moveServices", "updateUnits", "upgradeMachines", "updateAgentTools"}
  BY <1>1 DEF Writes, ApplicationKeyed, Provided
<1>2. CASE s \in {"updateSequences", "updateLeases", "updateModelEntityRefs", "updateResources",
                  "updateRelations"}
  BY <1>2 DEF Writes, ApplicationKeyed, Provided
<1>3. CASE s \in GlobalKeyed
  BY <1>3 DEF Writes, GlobalKeyed, ApplicationKeyed, Provided
<1>4. CASE s \in {"statusHistory", "dropServices", "dropSettingsRefs", "dropIPAddresses"}
  BY <1>4 DEF Writes, ApplicationKeyed, Provided
<1>5. CASE s \in {"upgradeSpaces", "upgradeSubnets", "upgradeLinkLayerDevices", "upgradeIPAddresses"}
  BY <1>5, StagesOf DEF Writes, ApplicationKeyed, Provided
<1>6. CASE s \in {"upgradeCharms", "upgradeUsers", "upgradeModelUsers", "upgradeCloudImageMetadata",
                  "reopenState", "openTools", "dropBlobIndex", "addTools"}
  BY <1>6 DEF Writes, ApplicationKeyed, Provided
<1> QED
  BY <1>0, <1>1, <1>2, <1>3, <1>4, <1>5, <1>6 DEF Writes, GlobalKeyed

\* What IsNew says of each of them.
LEMMA NewMeans ==
  ASSUME NEW d
  PROVE  /\ \A c \in GlobalKeyed : IsNew(d, c) <=> ServiceKeyed(d, c) = {}
         /\ \A c \in Provided : IsNew(d, c) <=> Prefixed(d, c) = {}
         /\ IsNew(d, "sequence") <=> ServiceSequences(d) = {}
         /\ IsNew(d, "leases") <=> ServiceLeases(d) = {}
         /\ IsNew(d, "modelEntityRefs") <=> NoneHas(d, "modelEntityRefs", {"services"})
         /\ IsNew(d, "relations") <=> EndpointsRenamed(d)
         /\ IsNew(d, "charms") <=> CharmsAlive(d)
         /\ IsNew(d, "users") <=> NoneHas(d, "users", {"deactivated"})
         /\ IsNew(d, "modelusers") <=> UsersOfObjects(d)
         /\ IsNew(d, "resources") <=> NoneHas(d, "resources", {"service-id", "env-uuid"})
         /\ IsNew(d, "statuseshistory") <=> StaleHistory(d) = {}
         /\ \A c \in {"services", "settingsrefs", "ipaddresses"} : IsNew(d, c) <=> DOMAIN d[c] = {}
         /\ \A c \in {"machines", "units"} : IsNew(d, c) <=>
              \A id \in DOMAIN d[c] : GetStringField(d[c][id], "tools.version") = AgentVersion
  BY DEF IsNew, GlobalKeyed, Provided

\* It is a matter of that collection alone.
LEMMA SameNew ==
  ASSUME NEW d, NEW e, NEW c \in Renewed, d[c] = e[c], IsNew(d, c)
  PROVE  IsNew(e, c)
<1> USE NewMeans
<1>1. CASE c \in GlobalKeyed
  BY <1>1 DEF ServiceKeyed
<1>2. CASE c \in Provided
  BY <1>2 DEF Prefixed
<1>3. CASE c \in {"sequence", "leases", "statuseshistory"}
  BY <1>3 DEF ServiceSequences, ServiceLeases, StaleHistory
<1>4. CASE c \in {"modelEntityRefs", "resources", "users"}
  BY <1>4 DEF NoneHas
<1>5. CASE c \in {"services", "settingsrefs", "ipaddresses"}
  BY <1>5
<1>6. CASE c \in {"machines", "units"}
  BY <1>6
<1>7. CASE c \in {"relations", "charms", "modelusers"}
  BY <1>7 DEF EndpointsRenamed, CharmsAlive, UsersOfObjects
<1> QED
  BY <1>1, <1>2, <1>3, <1>4, <1>5, <1>6, <1>7 DEF Renewed

\* A stage makes its collection new.
LEMMA MadeNew ==
  ASSUME ProcessInv, LateStep, ProviderIDsWait, Done("updateController"), ~Done(pc),
         NEW c \in Renewed, StageOf(c) = pc
  PROVE  IsNew(db', c)
<1>0. DOMAIN db = Collections
  BY DEF ProcessInv, TypeOK, DiskOK
<1>1. pc \notin Writing => ReadFor /\ db' = Apply(db, ops)
  BY DEF LateStep, StageFinishes, Commit
<1>2. CASE c \in GlobalKeyed
  <2>1. pc = c /\ pc \notin Writing /\ c \in DOMAIN db
    BY <1>0, <1>2, StagesOf DEF GlobalKeyed, Writing, Collections
  <2>2. ops = GlobalKeyOps(db, c, KeyName(c))
    BY <1>1, <1>2, <2>1 DEF ReadFor
  <2>3. ServiceKeyed(db', c) = {}
    BY <1>1, <2>1, <2>2, KeysRenamed
  <2> QED
    BY <1>2, <2>3, NewMeans
<1>3. CASE c \in Provided
  <2>1. pc \notin Writing /\ \E kind : ReadFor => ops = ProviderIDOps(db, c, kind)
    BY <1>3, StagesOf DEF Provided, Writing, ReadFor
  <2>2. \A id \in DOMAIN db[c] : PrefixedOnce(db[c][id])
    BY <1>3 DEF ProviderIDsWait
  <2>3. Prefixed(db', c) = {}
    BY <1>0, <1>1, <1>3, <2>1, <2>2, PrefixesStripped
  <2> QED
    BY <1>3, <2>3, NewMeans
<1>4. CASE c \in {"sequence", "leases", "modelEntityRefs", "resources"}
  <2>1. CASE c = "sequence"
    <3>1. pc = "updateSequences" /\ pc \notin Writing
      BY <2>1, StagesOf DEF Writing
    <3>2. ServiceSequences(db') = {}
      BY <1>0, <1>1, <3>1, SequencesRenamed DEF ReadFor, Collections
    <3> QED
      BY <2>1, <3>2, NewMeans
  <2>2. CASE c = "leases"
    <3>1. pc = "updateLeases" /\ pc \notin Writing
      BY <2>2, StagesOf DEF Writing
    <3>2. ServiceLeases(db') = {}
      BY <1>0, <1>1, <3>1, LeasesRenamed DEF ReadFor, Collections
    <3> QED
      BY <2>2, <3>2, NewMeans
  <2>3. CASE c = "modelEntityRefs"
    <3>1. pc = "updateModelEntityRefs" /\ pc \notin Writing
      BY <2>3, StagesOf DEF Writing
    <3>2. NoneHas(db', c, {"services"})
      BY <1>0, <1>1, <2>3, <3>1, ReferencesRenamed DEF ReadFor
    <3> QED
      BY <2>3, <3>2, NewMeans
  <2>4. CASE c = "resources"
    <3>1. pc = "updateResources" /\ pc \notin Writing
      BY <2>4, StagesOf DEF Writing
    <3>2. NoneHas(db', c, {"service-id", "env-uuid"})
      BY <1>0, <1>1, <2>4, <3>1, ReferencesRenamed DEF ReadFor
    <3> QED
      BY <2>4, <3>2, NewMeans
  <2> QED
    BY <1>4, <2>1, <2>2, <2>3, <2>4
<1>5. CASE c = "statuseshistory"
  <2>1. pc = "statusHistory"
    BY <1>5, StagesOf
  <2>2. StageFinishes /\ StaleHistory(db) = {} /\ db' = db
    BY <2>1 DEF LateStep, StageFinishes, Writing, Drops
  <2> QED
    BY <1>5, <2>2, NewMeans
<1>6. CASE c \in {"services", "settingsrefs", "ipaddresses"}
  <2>1. pc \in DOMAIN Drops /\ Drops[pc] = c
    BY <1>6, StagesOf DEF Drops
  <2>2. db' = [db EXCEPT ![c] = NoDoc]
    BY <2>1 DEF LateStep, StageFinishes, Drops, Writing
  <2>3. DOMAIN db'[c] = {}
    BY <1>0, <1>6, <2>2 DEF Collections, NoDoc
  <2> QED
    BY <1>6, <2>3, NewMeans
<1>7. CASE c \in {"machines", "units"}
  <2>1. pc = "updateAgentTools" /\ pc \notin Writing
    BY <1>7, StagesOf DEF Writing
  <2>2. /\ DOMAIN db'[c] = DOMAIN db[c]
        /\ \A id \in DOMAIN db[c] :
             db'[c][id] = Without(db[c][id], {}) ++ Field("tools.version", AgentVersion)
    BY <1>0, <1>1, <1>7, <2>1, ToolsUpdated DEF ReadFor
  <2>3. \A doc : GetStringField(doc ++ Field("tools.version", AgentVersion), "tools.version") = AgentVersion
    BY DEF GetStringField, Has, Field, ++
  <2> QED
    BY <1>7, <2>2, <2>3, NewMeans
<1>8. CASE c = "relations"
  <2>1. pc = "updateRelations" /\ pc \notin Writing
    BY <1>8, StagesOf DEF Writing
  <2>2. EndpointsRenamed(db')
    BY <1>0, <1>1, <2>1, RelationsRenamed DEF ReadFor, Collections
  <2> QED
    BY <1>8, <2>2, NewMeans
<1>9. CASE c \in {"charms", "users", "modelusers"}
  <2>1. pc \notin Writing
    BY <1>9, StagesOf DEF Writing
  <2>2. \/ c = "charms" /\ db' = Apply(db, UpgradeCharmsOps(db))
        \/ c = "users" /\ db' = Apply(db, UpgradeUsersOps(db))
        \/ c = "modelusers" /\ db' = Apply(db, UpgradeModelUsersOps(db))
    BY <1>1, <1>9, <2>1, StagesOf DEF ReadFor
  <2> QED
    BY <1>0, <2>2, CharmsUpgraded, UsersUpgraded, ModelUsersUpgraded, NewMeans DEF Collections
<1> QED
  BY <1>2, <1>3, <1>4, <1>5, <1>6, <1>7, <1>8, <1>9 DEF Renewed

\* Where a late stage is done, so are those before it.
LEMMA LateDone ==
  ASSUME Running, live, pc \in AfterController
  PROVE  /\ Done("updateController") /\ ~Done(pc)
         /\ \A s \in Stages : Done(s) <=> Rank[pc] > Rank[s]
<1>1. pc \in Stages /\ "updateController" \in Stages /\ Rank["updateController"] = 6
  BY DEF AfterController, Stages, Follows, Rank
<1> QED
  BY <1>1, DoneByRank, LateRanks, Ranks

\* The collections that are new stay so, and that of the stage becomes so.
LEMMA RenewedNext ==
  ASSUME ProcessInv, Running, CleanupsOfCleanDB, LateStep, Continue,
         RenewedByStage, ProviderIDsWait
  PROVE  RenewedByStage' /\ ProviderIDsWait'
<1>0. /\ live /\ pc \in AfterController /\ pc \in Stages
      /\ Renewed \subseteq Collections /\ Provided \subseteq Renewed
      /\ "updateController" \in Stages
  BY DEF LateStep, AfterController, Renewed, Collections, GlobalKeyed, Provided, Stages, Follows
<1>1. \A c \in Renewed : StageOf(c) \in Stages
  BY StagesOf DEF Renewed, GlobalKeyed, Provided, Stages, Follows
<1>2. CASE \A s \in Stages : ~Done(s)'
  BY <1>0, <1>1, <1>2 DEF RenewedByStage, ProviderIDsWait
<1>3. CASE \A s \in Stages : Done(s)' <=> Done(s) \/ s = pc
  <2>1. ASSUME NEW c \in Renewed, Done(StageOf(c))'
        PROVE  IsNew(db', c)
    <3>1. CASE StageOf(c) = pc
      BY <1>0, <3>1, MadeNew, LateDone
    <3>2. CASE Done(StageOf(c))
      <4>1. Rank[pc] > Rank[StageOf(c)] /\ Rank[pc] \in Nat /\ Rank[StageOf(c)] \in Nat
        BY <1>0, <1>1, <3>2, LateDone, Ranks
      <4>2. c \notin Writes[pc]
        BY <1>0, <4>1, WrittenEarly
      <4>3. db[c] = db'[c]
        BY <1>0, <4>2, WritesOnly
      <4> QED
        BY <3>2, <4>3, SameNew DEF RenewedByStage
    <3> QED
      BY <1>1, <1>3, <2>1, <3>1, <3>2
  <2>2. ASSUME NEW c \in Provided, ~Done(StageOf(c))'
        PROVE  \A id \in DOMAIN db'[c] : PrefixedOnce(db'[c][id])
    <3>1. ~Done(StageOf(c)) /\ StageOf(c) # pc
      BY <1>0, <1>1, <1>3, <2>2
    <3>2. db'[c] = db[c]
      BY <1>0, <3>1, Writers, WritesOnly
    <3> QED
      BY <1>0, <3>1, <3>2, LateDone DEF ProviderIDsWait
  <2>3. RenewedByStage'
    BY <2>1 DEF RenewedByStage
  <2>4. ProviderIDsWait'
    BY <2>2 DEF ProviderIDsWait
  <2> QED
    BY <2>3, <2>4
<1> QED
  BY <1>0, <1>2, <1>3, DoneNext

\* The models are told at updateModels and left alone by all stages after it.
LEMMA ModelsNext ==
  ASSUME ProcessInv, Running, CleanupsOfCleanDB, LateStep, Continue, ContextKnown, ModelsTold
  PROVE  ModelsTold'
<1>0. /\ live /\ pc \in AfterController /\ pc \in Stages /\ "updateModels" \in Stages
      /\ DOMAIN db = Collections /\ {"models", "clouds", "cloudCredentials"} \subseteq Collections
  BY DEF LateStep, AfterController, Stages, Follows, ProcessInv, TypeOK, DiskOK, Collections
<1>1. db'["clouds"] = db["clouds"] /\ db'["cloudCredentials"] = db["cloudCredentials"]
  BY <1>0, Writers, WritesOnly
<1>2. CASE pc = "updateModels"
  <2>1. db' = Apply(db, UpdateModelsOps(db, uuid, context))
    BY <1>2 DEF LateStep, StageFinishes, Writing, Commit, ReadFor
  <2>2. \A id \in DOMAIN db'["models"] :
          /\ Has(db'["models"][id], "controller-uuid")
          /\ db'["models"][id]["cloud"] = context.cloud
          /\ db'["models"][id]["cloud-credential"] = CredentialID(context.cloud, context.owner)
    BY <1>0, <2>1, ModelsAreTold
  <2> QED
    BY <1>0, <1>1, <1>2, <2>2 DEF ModelsTold, Told, ContextKnown
<1>3. ASSUME pc # "updateModels", Done("updateModels")'
      PROVE  ModelsTold'
  <2>1. Done("updateModels")
    BY <1>0, <1>3, DoneNext
  <2>2. db'["models"] = db["models"]
    BY <1>0, <1>3, Writers, WritesOnly
  <2> QED
    BY <1>1, <2>1, <2>2 DEF ModelsTold, Told
<1> QED
  BY <1>2, <1>3 DEF ModelsTold

\* The services wait for moveServices.
LEMMA ServicesNext ==
  ASSUME ProcessInv, Running, CleanupsOfCleanDB, LateStep, Continue, ServicesWait
  PROVE  ServicesWait'
<1>0. /\ live /\ pc \in AfterController /\ pc \in Stages
      /\ {"updateController", "moveServices"} \subseteq Stages
      /\ Rank["moveServices"] = 8 /\ Rank["updateModels"] = 7 /\ "updateModels" \in Stages
      /\ DOMAIN db = Collections
      /\ ApplicationKeyed \cup {"applications", "services"} \subseteq Collections
  BY DEF LateStep, AfterController, Stages, Follows, Rank, ProcessInv, TypeOK, DiskOK,
         Collections, ApplicationKeyed
<1> SUFFICES ASSUME Done("updateController")', ~Done("moveServices")'
             PROVE  DOMAIN db'["applications"] = {} /\ ServicesComplete(db')
  BY DEF ServicesWait
<1>1. pc = "updateModels" /\ Done("updateController") /\ ~Done("moveServices")
  <2>1. ~Done("moveServices") /\ pc # "moveServices"
    BY <1>0, DoneNext
  <2>2. ~(Rank[pc] > 8) /\ Rank[pc] # 8
    BY <1>0, <2>1, LateDone, RanksDiffer
  <2>3. Rank[pc] = 7
    BY <1>0, <2>2, LateRanks, Ranks
  <2> QED
    BY <1>0, <2>1, <2>3, LateDone, RanksDiffer
<1>2. DOMAIN db["applications"] = {} /\ ServicesComplete(db)
  BY <1>1 DEF ServicesWait
<1>3. \A c \in Collections : c \notin Writes["updateModels"] => db'[c] = db[c]
  BY <1>0, <1>1, WritesOnly
<1>4. db'["applications"] = db["applications"] /\ db'["services"] = db["services"]
  BY <1>0, <1>1, <1>3, Writers
<1>5. \A c \in ApplicationKeyed : DOMAIN db[c] \subseteq DOMAIN db'[c]
  <2>1. db' = Apply(db, UpdateModelsOps(db, uuid, context))
    BY <1>1 DEF LateStep, StageFinishes, Writing, Commit, ReadFor
  <2>2. DOMAIN db["settings"] \subseteq DOMAIN db'["settings"]
    BY <1>0, <2>1, ModelsAreTold
  <2>3. \A c \in ApplicationKeyed : c # "settings" => c \notin Writes["updateModels"]
    BY <1>0, <1>1, Writers DEF ApplicationKeyed
  <2> QED
    BY <1>0, <1>3, <2>2, <2>3
<1> QED
  BY <1>2, <1>4, <1>5 DEF ServicesComplete

\* updateCollectionIDGlobalKey moves what belongs to services, and nothing else.
LEMMA KeysMoved ==
  ASSUME DOMAIN db = Collections, LateStep, NEW c \in ApplicationKeyed, pc = c
  PROVE  \A id \in DOMAIN db[c] :
           IF IsServiceKeyID(id) THEN NewKeyID(id) \in DOMAIN db'[c] ELSE id \in DOMAIN db'[c]
<1>1. c \in GlobalKeyed /\ c \notin Writing /\ c \in DOMAIN db
  BY DEF ApplicationKeyed, GlobalKeyed, Writing, Collections
<1>2. ops = GlobalKeyOps(db, c, KeyName(c))
  BY <1>1 DEF LateStep, StageFinishes, ReadFor
<1>3. db' = Apply(db, ops)
  BY <1>1 DEF LateStep, StageFinishes, Commit
<1> QED
  BY <1>1, <1>2, <1>3, KeysRenamed

\* moveServices makes an application of every service, whose documents follow.
LEMMA ApplicationsMade ==
  ASSUME ProcessInv, Running, LateStep, ServicesWait, pc = "moveServices"
  PROVE  \A id \in DOMAIN db'["applications"] :
           LET charm == CharmURL(db'["applications"][id])
           IN  /\ NewConstraintID(id, charm) \in DOMAIN db'["storageconstraints"]
               /\ \A c \in ApplicationKeyed : KeyedDoc(c, "s", id, charm) \in DOMAIN db'[c]
<1>0. /\ live /\ pc \in AfterController /\ pc \in Stages /\ DOMAIN db = Collections
      /\ ApplicationKeyed \subseteq Collections
  BY DEF LateStep, AfterController, Stages, Follows, ProcessInv, TypeOK, DiskOK,
         Collections, ApplicationKeyed
<1>1. DOMAIN db["applications"] = {} /\ ServicesComplete(db)
  BY <1>0, LateDone DEF ServicesWait
<1>2. db' = Apply(db, MoveServicesOps(db))
  BY DEF LateStep, StageFinishes, Writing, Commit, ReadFor
<1>3. \A c \in ApplicationKeyed : db'[c] = db[c]
  <2>1. \A c \in ApplicationKeyed : c \notin Writes["moveServices"]
    BY <1>0, Writers DEF ApplicationKeyed
  <2> QED
    BY <1>0, <2>1, WritesOnly
<1>4. ASSUME NEW id \in DOMAIN db'["applications"]
      PROVE  LET charm == CharmURL(db'["applications"][id])
             IN  /\ id \in DOMAIN db["services"] /\ charm = CharmURL(db["services"][id])
                 /\ NewConstraintID(id, charm) \in DOMAIN db'["storageconstraints"]
  BY <1>0, <1>1, <1>2, ServicesMoved
<1> QED
  BY <1>1, <1>3, <1>4 DEF ServicesComplete

\* From then on they keep their documents, which come under the key of the
\* application one collection after the other.
LEMMA ApplicationsNext ==
  ASSUME ProcessInv, Running, CleanupsOfCleanDB, LateStep, Continue, ServicesWait, ApplicationsFollow
  PROVE  ApplicationsFollow'
<1>0. /\ live /\ pc \in AfterController /\ pc \in Stages
      /\ ApplicationKeyed \cup {"moveServices", "updateModels"} \subseteq Stages
      /\ DOMAIN db = Collections
      /\ ApplicationKeyed \cup {"applications", "storageconstraints"} \subseteq Collections
      /\ Rank["moveServices"] = 8 /\ Rank["updateModels"] = 7
      /\ \A c \in ApplicationKeyed : Rank[c] > 8
  BY DEF LateStep, AfterController, Stages, Follows, Rank, ProcessInv, TypeOK, DiskOK,
         Collections, ApplicationKeyed
<1> SUFFICES ASSUME Done("moveServices")'
             PROVE  ApplicationsFollow'
  BY DEF ApplicationsFollow
<1>1. \A s \in Stages : Done(s)' <=> Done(s) \/ s = pc
  BY <1>0, DoneNext
<1>2. CASE pc = "moveServices"
  <2>1. \A c \in ApplicationKeyed : ~Done(c)'
    <3>1. ASSUME NEW c \in ApplicationKeyed PROVE ~(Rank[pc] > Rank[c]) /\ c # pc
      <4>1. Rank[c] > 8 /\ Rank[c] \in 0..37
        BY <1>0, Ranks
      <4>2. Rank[pc] = 8
        BY <1>0, <1>2
      <4>3. Rank[c] # Rank[pc] /\ ~(Rank[pc] > Rank[c])
        BY <4>1, <4>2
      <4> QED
        BY <4>3
    <3> QED
      BY <1>0, <1>1, <3>1, LateDone
  <2> QED
    BY <1>2, <2>1, ApplicationsMade DEF ApplicationsFollow
<1>3. CASE Done("moveServices") /\ pc # "moveServices"
  <2>1. db'["applications"] = db["applications"] /\ db'["storageconstraints"] = db["storageconstraints"]
    BY <1>0, <1>3, Writers, WritesOnly
  <2>2. pc # "updateModels"
    BY <1>0, <1>3, LateDone
  <2>3. ASSUME NEW c \in ApplicationKeyed, NEW id \in DOMAIN db["applications"], NEW charm,
               KeyedDoc(c, IF Done(c) THEN "a" ELSE "s", id, charm) \in DOMAIN db[c]
        PROVE  KeyedDoc(c, IF Done(c)' THEN "a" ELSE "s", id, charm) \in DOMAIN db'[c]
    <3>1. CASE pc = c
      <4>1. ~Done(c) /\ Done(c)'
        BY <1>0, <1>1, <3>1, LateDone
      <4> QED
        BY <1>0, <2>3, <3>1, <4>1, KeysMoved, KeysOfServices
    <3>2. CASE pc # c
      <4>1. Done(c)' <=> Done(c)
        BY <1>0, <1>1, <3>2
      <4>2. DOMAIN db[c] \subseteq DOMAIN db'[c]
        <5>1. CASE c \in Writes[pc]
          <6>1. c = "statuses" /\ pc = "updateUnits"
            BY <1>0, <2>2, <3>2, <5>1, Writers
          <6>2. db' = Apply(db, UpdateUnitsOps(db))
            BY <6>1 DEF LateStep, StageFinishes, Writing, Commit, ReadFor
          <6> QED
            BY <1>0, <6>1, <6>2, UnitsUpdated
        <5>2. CASE c \notin Writes[pc]
          BY <1>0, <5>2, WritesOnly
        <5> QED
          BY <5>1, <5>2
      <4> QED
        BY <2>3, <4>1, <4>2
    <3> QED
      BY <3>1, <3>2
  <2> QED
    BY <1>3, <2>1, <2>3 DEF ApplicationsFollow
<1> QED
  BY <1>0, <1>1, <1>2, <1>3

\* The units lose their old fields at updateUnits, where they get a status of
\* their workload version, and keep it.
LEMMA UnitsNext ==
  ASSUME ProcessInv, Running, CleanupsOfCleanDB, LateStep, Continue, UnitsMoved
  PROVE  UnitsMoved'
<1>0. /\ live /\ pc \in AfterController /\ pc \in Stages
      /\ {"updateModels", "updateUnits"} \subseteq Stages
      /\ DOMAIN db = Collections /\ {"units", "statuses"} \subseteq Collections
      /\ "statuses" \in ApplicationKeyed
  BY DEF LateStep, AfterController, Stages, Follows, ProcessInv, TypeOK, DiskOK,
         Collections, ApplicationKeyed
<1> DEFINE old == {"service", "ports", "privateaddress", "publicaddress"}
<1>1. CASE pc = "updateUnits"
  <2>1. db' = Apply(db, UpdateUnitsOps(db))
    BY <1>1 DEF LateStep, StageFinishes, Writing, Commit, ReadFor
  <2> QED
    BY <1>0, <2>1, UnitsUpdated DEF UnitsMoved
<1>2. ASSUME pc # "updateUnits", Done("updateUnits")'
      PROVE  UnitsMoved'
  <2>1. Done("updateUnits")
    BY <1>0, <1>2, DoneNext
  <2>2. /\ NoneHas(db, "units", old)
        /\ \A id \in DOMAIN db["units"] : WorkloadStatusID(db["units"][id]) \in DOMAIN db["statuses"]
    BY <2>1 DEF UnitsMoved
  <2>3. /\ DOMAIN db'["units"] = DOMAIN db["units"]
        /\ \A id \in DOMAIN db["units"] :
             \/ db'["units"][id] = db["units"][id]
             \/ db'["units"][id] = Without(db["units"][id], {}) ++ Field("tools.version", AgentVersion)
    <3>1. CASE pc = "updateAgentTools"
      <4>1. db' = Apply(db, UpdateAgentToolsOps(db))
        BY <3>1 DEF LateStep, StageFinishes, Writing, Commit, ReadFor
      <4> QED
        BY <1>0, <4>1, ToolsUpdated
    <3>2. CASE pc # "updateAgentTools"
      BY <1>0, <1>2, <3>2, Writers, WritesOnly
    <3> QED
      BY <3>1, <3>2
  <2>4. ASSUME NEW id \in DOMAIN db["units"]
        PROVE  /\ DOMAIN db'["units"][id] \cap old = {}
               /\ WorkloadStatusID(db'["units"][id]) = WorkloadStatusID(db["units"][id])
    <3>1. \A doc : LET new == Without(doc, {}) ++ Field("tools.version", AgentVersion)
                  IN  /\ DOMAIN new = DOMAIN doc \cup {"tools.version"}
                      /\ WorkloadStatusID(new) = WorkloadStatusID(doc)
      BY DEF Without, ++, Field, WorkloadStatusID, ReadBsonDField, Has
    <3>2. DOMAIN db["units"][id] \cap old = {}
      BY <2>2 DEF NoneHas
    <3> QED
      BY <2>3, <3>1, <3>2
  <2>5. \A id \in DOMAIN db["units"] : WorkloadStatusID(db["units"][id]) \in DOMAIN db'["statuses"]
    <3>1. CASE pc = "statuses"
      <4>1. \A doc : ~IsServiceKeyID(WorkloadStatusID(doc))
        BY DEF IsServiceKeyID, WorkloadStatusID
      <4> QED
        BY <1>0, <2>2, <3>1, <4>1, KeysMoved
    <3>2. CASE pc # "statuses"
      BY <1>0, <1>2, <2>2, <3>2, Writers, WritesOnly
    <3> QED
      BY <3>1, <3>2
  <2> QED
    BY <2>3, <2>4, <2>5 DEF UnitsMoved, NoneHas
<1> QED
  BY <1>1, <1>2 DEF UnitsMoved

\* The machines lose the containers of LXC at upgradeMachines, and updateAgentTools
\* gives none back.
LEMMA ContainersNext ==
  ASSUME ProcessInv, Running, CleanupsOfCleanDB, LateStep, Continue, ContainersLeft
  PROVE  ContainersLeft'
<1>0. /\ live /\ pc \in AfterController /\ pc \in Stages /\ "upgradeMachines" \in Stages
      /\ DOMAIN db = Collections /\ "machines" \in Collections
  BY DEF LateStep, AfterController, Stages, Follows, ProcessInv, TypeOK, DiskOK, Collections
<1>1. CASE pc = "upgradeMachines"
  <2>1. db' = Apply(db, UpgradeMachinesOps(db))
    BY <1>1 DEF LateStep, StageFinishes, Writing, Commit, ReadFor
  <2> QED
    BY <1>0, <2>1, MachinesUpgraded DEF ContainersLeft
<1>2. ASSUME pc # "upgradeMachines", Done("upgradeMachines")'
      PROVE  LXCGone(db')
  <2>1. Done("upgradeMachines")
    BY <1>0, <1>2, DoneNext
  <2>2. LXCGone(db)
    BY <2>1 DEF ContainersLeft
  <2>3. CASE pc = "updateAgentTools"
    <3>1. db' = Apply(db, UpdateAgentToolsOps(db))
      BY <2>3 DEF LateStep, StageFinishes, Writing, Commit, ReadFor
    <3>2. /\ DOMAIN db'["machines"] = DOMAIN db["machines"]
          /\ \A id \in DOMAIN db["machines"] :
               db'["machines"][id]
                 = Without(db["machines"][id], {}) ++ Field("tools.version", AgentVersion)
      BY <1>0, <3>1, ToolsUpdated
    <3>3. ASSUME NEW doc, Has(doc, "supportedcontainers")
          PROVE  LET new == Without(doc, {}) ++ Field("tools.version", AgentVersion)
                 IN  /\ Has(new, "supportedcontainers")
                     /\ new["supportedcontainers"] = doc["supportedcontainers"]
      BY <3>3 DEF Has, Without, ++, Field
    <3> QED
      BY <2>2, <3>2, <3>3 DEF LXCGone
  <2>4. CASE pc # "updateAgentTools"
    <3>1. db'["machines"] = db["machines"]
      BY <1>0, <1>2, <2>4, Writers, WritesOnly
    <3> QED
      BY <2>2, <3>1 DEF LXCGone
  <2> QED
    BY <2>3, <2>4
<1> QED
  BY <1>1, <1>2 DEF ContainersLeft

\* The state is reopened with the indexes of 2.0, and the last stage stores the
\* tools in a database that belongs to the run.
LEMMA OpenedNext ==
  ASSUME Running, CleanupsOfCleanDB, NothingPending, OneRunMigrates, LateStep, Continue, Opened
  PROVE  Opened'
<1>0. /\ live /\ pc \in AfterController /\ pc \in Stages /\ pc # "removeCleanups"
      /\ "reopenState" \in Stages /\ {"reopenState", "addTools"} \subseteq Writing
      /\ AfterController \subseteq AfterResume
  BY DEF LateStep, AfterController, Stages, Follows, Writing, AfterResume
<1>1. ASSUME Done("reopenState")'
      PROVE  "2.0" \in indexes'
  <2>1. Done("reopenState") \/ pc = "reopenState"
    BY <1>0, <1>1, DoneNext
  <2>2. "2.0" \in indexes \/ pc = "reopenState"
    BY <2>1 DEF Opened
  <2> QED
    BY <1>0, <2>2 DEF LateStep, Commit, StageFinishes
<1>2. ASSUME Succeeded'
      PROVE  /\ AgentVersion \in tools' /\ "blobstore" \in indexes'
             /\ txns' = {} /\ RecordedUUIDs(db') = {uuid'}
  <2>1. NextStage(pc) = "done"
    BY <1>0, <1>2, IdleNoStage DEF Continue, Running, Succeeded
  <2>2. pc = "addTools" /\ uuid' = uuid
    BY <1>0, <2>1, Ranks DEF NextStage, Continue, Exit
  <2>3. StageFinishes
    BY <1>0, <2>2 DEF LateStep
  <2>4. db' = db /\ txns' = txns /\ AgentVersion \in tools' /\ "blobstore" \in indexes'
    BY <2>2, <2>3 DEF StageFinishes, Drops
  <2> QED
    BY <1>0, <2>2, <2>4 DEF NothingPending, OneRunMigrates
<1> QED
  BY <1>1, <1>2 DEF Opened

-----------------------------------------------------------------------------
(* The steps of the upgrade.                                               *)

\* What StagesInv says, besides StillConsistent.
StagesRest ==
  /\ Running /\ InHand
  /\ ContextKnown /\ ModelsTold
  /\ ServicesWait /\ ApplicationsFollow
  /\ RenewedByStage /\ ProviderIDsWait
  /\ UnitsMoved /\ ContainersLeft /\ Opened

\* A command that goes on has no transaction in hand.
LEMMA ContinueRuns ==
  ASSUME Running, pc \in Stages, Continue
  PROVE  Running' /\ InHand'
  BY IdleNoStage DEF Running, InHand, Continue, Exit

\* Where no stage is done that writes for 2.0, nothing is said of the documents.
LEMMA NothingDone ==
  ASSUME \A s \in AfterController \cup {"updateController"} : ~Done(s)', ~Succeeded'
  PROVE  /\ ModelsTold' /\ ServicesWait' /\ ApplicationsFollow'
         /\ RenewedByStage' /\ ProviderIDsWait'
         /\ UnitsMoved' /\ ContainersLeft' /\ Opened'
<1>1. /\ {"updateModels", "moveServices", "updateUnits", "upgradeMachines", "reopenState"}
           \subseteq AfterController
      /\ \A c \in Renewed : StageOf(c) \in AfterController
  BY StagesOf DEF AfterController, Stages, Follows, Renewed, GlobalKeyed, Provided
<1> QED
  BY <1>1 DEF ModelsTold, ServicesWait, ApplicationsFollow, RenewedByStage, ProviderIDsWait,
              UnitsMoved, ContainersLeft, Opened

\* That is so when no live upgrade is under way, and up to updateController.
LEMMA EarlyNothing ==
  ASSUME \/ ~live'
         \/ pc' = "idle" /\ ~Succeeded'
         \/ pc' \in Stages \ AfterController /\ exit' = "running"
  PROVE  /\ \A s \in AfterController \cup {"updateController"} : ~Done(s)'
         /\ ~Succeeded' /\ ContextKnown'
<1>1. ASSUME NEW s \in AfterController \cup {"updateController"}
      PROVE  s \in Stages /\ Rank[s] \in 6..37
  <2>1. s \in Stages /\ Rank["updateController"] = 6
    BY DEF AfterController, Stages, Follows, Rank
  <2>2. Rank[s] \in 0..37 /\ (s \in AfterController => Rank[s] > 6)
    BY <2>1, Ranks, LateRanks
  <2> QED
    BY <2>1, <2>2
<1>2. CASE ~live'
  BY <1>2 DEF Done, Succeeded, ContextKnown
<1>3. CASE pc' = "idle" /\ ~Succeeded'
  BY <1>1, <1>3 DEF Done, Progress, ContextKnown
<1>4. CASE pc' \in Stages \ AfterController /\ exit' = "running"
  <2>1. ~Succeeded' /\ pc' # "idle" /\ pc' # "updateModels"
    BY <1>4, IdleNoStage DEF Succeeded, AfterController, Stages, Follows
  <2>2. Progress' = Rank[pc'] /\ Rank[pc'] \in 0..6
    BY <1>4, <2>1, Ranks, LateRanks DEF Progress
  <2> QED
    BY <1>1, <2>1, <2>2 DEF Done, ContextKnown
<1> QED
  BY <1>2, <1>3, <1>4

\* A late stage is finished.
LEMMA LateKept ==
  ASSUME IdentityInv, CleanupsOfCleanDB, OneRunMigrates, StagesRest, LateStep
  PROVE  StagesRest'
<1>1. Continue /\ pc \in Stages /\ live /\ pc \in AfterController
  BY DEF LateStep, Commit, StageFinishes, AfterController
<1>2. ProcessInv /\ NothingPending
  BY DEF IdentityInv, IdentityOwned
<1>3. Running' /\ InHand'
  BY <1>1, ContinueRuns DEF StagesRest
<1>4. ContextKnown'
  <2>1. Follows[pc] # "updateModels"
    BY <1>1 DEF AfterController, Stages, Follows
  <2>2. pc' # "updateModels"
    BY <1>1, <2>1 DEF Continue, NextStage, Exit
  <2> QED
    BY <2>2 DEF ContextKnown
<1> QED
  BY <1>1, <1>2, <1>3, <1>4, RenewedNext, ModelsNext, ServicesNext, ApplicationsNext, UnitsNext,
     ContainersNext, OpenedNext DEF StagesRest

\* A document of the status history is renamed.
LEMMA RenameKept ==
  ASSUME ProcessInv, StagesRest, StageRenames
  PROVE  StagesRest'
<1>0. /\ live /\ pc = "statusHistory" /\ pc \in AfterController /\ pc \in Stages
      /\ DOMAIN db = Collections /\ pc \in Writing
  BY DEF StageRenames, AfterController, Stages, Follows, Writing, ProcessInv, TypeOK, DiskOK
<1>1. UNCHANGED <<txns, indexes, tools, pc, cmd, live, uuid, context, ops, inTxn, exit, b7>>
  BY DEF StageRenames
<1>2. \A c \in Collections : c # "statuseshistory" => db'[c] = db[c]
  <2>1. Writes["statusHistory"] = {"statuseshistory"}
    BY DEF Writes
  <2> QED
    BY <1>0, <2>1, WritesOnly
<1>3. \A s : Done(s)' <=> Done(s)
  BY <1>1 DEF Done, Progress, Succeeded
<1>4. Running' /\ InHand' /\ ContextKnown'
  <2>1. ~inTxn
    BY <1>0, IdleNoStage DEF StagesRest, Running, Transacting, AfterController, Stages, Follows, Writing
  <2> QED
    BY <1>0, <1>1, <2>1 DEF StagesRest, Running, InHand, ContextKnown
<1>5. {"models", "clouds", "cloudCredentials", "applications", "services", "storageconstraints",
       "units", "machines", "statuses"} \cup ApplicationKeyed \cup Provided
        \subseteq Collections \ {"statuseshistory"}
  BY DEF Collections, ApplicationKeyed, Provided
<1>6. ModelsTold'
  BY <1>2, <1>3, <1>5 DEF StagesRest, ModelsTold, Told
<1>7. ServicesWait' /\ ApplicationsFollow'
  BY <1>2, <1>3, <1>5 DEF StagesRest, ServicesWait, ServicesComplete, ApplicationsFollow
<1>8. RenewedByStage'
  <2>1. ASSUME NEW c \in Renewed, Done(StageOf(c))
        PROVE  IsNew(db', c)
    <3>1. c # "statuseshistory"
      <4>1. ~Done("statusHistory")
        BY <1>0, LateDone DEF StagesRest
      <4> QED
        BY <2>1, <4>1, StagesOf
    <3>2. c \in Collections
      BY DEF Renewed, GlobalKeyed, Provided, Collections
    <3>3. db[c] = db'[c]
      BY <1>2, <3>1, <3>2
    <3> QED
      BY <2>1, <3>3, SameNew DEF StagesRest, RenewedByStage
  <2> QED
    BY <1>3, <2>1 DEF RenewedByStage
<1>9. ProviderIDsWait' /\ UnitsMoved' /\ ContainersLeft' /\ Opened'
  <2>1. ProviderIDsWait'
    BY <1>2, <1>3, <1>5 DEF StagesRest, ProviderIDsWait
  <2>2. UnitsMoved'
    BY <1>2, <1>3, <1>5 DEF StagesRest, UnitsMoved, NoneHas
  <2>3. ~Succeeded'
    BY <1>0, <1>1, IdleNoStage DEF StagesRest, Running, Succeeded
  <2>4. Opened'
    BY <1>1, <1>3, <2>3 DEF StagesRest, Opened
  <2>5. ContainersLeft'
    BY <1>2, <1>3, <1>5 DEF StagesRest, ContainersLeft, LXCGone
  <2> QED
    BY <2>1, <2>2, <2>4, <2>5
<1> QED
  BY <1>4, <1>6, <1>7, <1>8, <1>9 DEF StagesRest

\* A stage has read the database, which is as it was.
LEMMA ReadKept ==
  ASSUME StagesRest, StageReads
  PROVE  StagesRest'
<1>1. UNCHANGED <<db, txns, indexes, tools, pc, cmd, live, uuid, exit, b7>>
  BY DEF StageReads
<1>2. \A s : Done(s)' <=> Done(s)
  BY <1>1 DEF Done, Progress, Succeeded
<1>3. Running' /\ InHand' /\ ContextKnown'
  BY <1>1 DEF StagesRest, StageReads, Running, InHand, ContextKnown
<1>4. ModelsTold' /\ ServicesWait' /\ ApplicationsFollow' /\ ProviderIDsWait' /\ UnitsMoved'
      /\ ContainersLeft'
  BY <1>1, <1>2 DEF StagesRest, ModelsTold, Told, ServicesWait, ApplicationsFollow,
                    ProviderIDsWait, UnitsMoved, NoneHas, ContainersLeft
<1>5. RenewedByStage'
  BY <1>1, <1>2 DEF StagesRest, RenewedByStage
<1>6. Opened'
  BY <1>1, <1>2 DEF StagesRest, Opened, Succeeded
<1> QED
  BY <1>3, <1>4, <1>5, <1>6 DEF StagesRest

\* updateController asserts that no controller is recorded.
LEMMA FirstToRecord ==
  ASSUME IdentityInv, Commit, pc = "updateController"
  PROVE  RecordedUUIDs(db) = {}
<1>1. /\ live /\ inTxn /\ Asserted(db, ops) /\ pc \in AfterResume
      /\ pc \notin {"updateModels"} \cup Reading
  BY DEF Commit, CanRun, Stages, Follows, AfterResume, Reading, LiveStages
<1>2. Founds(ops, uuid)
  BY <1>1 DEF IdentityInv, IdentityOwned, OpsKind
<1>3. txns = {}
  BY <1>1 DEF IdentityInv, IdentityOwned, NothingPending
<1> QED
  BY <1>1, <1>2, <1>3, FoundersAssertion, NothingRecorded DEF IdentityInv

\* updateController is the first to write, in a database as beta 7 left it.
LEMMA ControllerCommits ==
  ASSUME IdentityInv, CleanupsOfCleanDB, StillConsistent, StagesRest,
         Commit, pc = "updateController"
  PROVE  StagesRest'
<1>0. /\ live /\ inTxn /\ Asserted(db, ops) /\ db' = Apply(db, ops) /\ Continue
      /\ pc \in Stages /\ DOMAIN db = Collections
      /\ pc \notin AfterController \cup {"updateModels", "removeCleanups"}
  BY DEF Commit, CanRun, Stages, Follows, AfterController, LiveStages,
         IdentityInv, ProcessInv, TypeOK, DiskOK
<1>1. Consistent(db')
  BY <1>0, FirstToRecord, SparingKeeps DEF StillConsistent
<1>2. pc' = "updateModels" /\ UNCHANGED <<cmd, live, uuid, context, exit>>
  BY <1>0 DEF Continue, NextStage, Follows
<1>3. ~Succeeded' /\ \A s \in Stages : Done(s)' <=> 7 > Rank[s]
  <2>1. exit' = "running" /\ pc' # "idle" /\ Rank[pc'] = 7
    BY <1>0, <1>2, IdleNoStage DEF StagesRest, Running, Rank
  <2> QED
    BY <1>0, <1>2, <2>1 DEF Done, Progress, Succeeded
<1>4. \A s \in AfterController : ~Done(s)'
  <2>1. \A s \in AfterController : s \in Stages /\ Rank[s] \in 0..37 /\ Rank[s] > 6
    BY Ranks, LateRanks DEF AfterController
  <2> QED
    BY <1>3, <2>1
<1>5. /\ {"updateModels", "moveServices", "updateUnits", "upgradeMachines", "reopenState"}
           \subseteq AfterController
      /\ \A c \in Renewed : StageOf(c) \in AfterController
  BY StagesOf DEF AfterController, Stages, Follows, Renewed, GlobalKeyed, Provided
<1>6. ContextKnown'
  <2>1. ops = UpdateControllerOps(db, uuid) /\ context = ControllerContext(db)
    BY <1>0 DEF StagesRest, InHand, ReadFor
  <2> QED
    BY <1>0, <1>2, <2>1, CloudMade DEF ContextKnown
<1>7. ModelsTold' /\ ApplicationsFollow' /\ RenewedByStage' /\ UnitsMoved' /\ ContainersLeft' /\ Opened'
  BY <1>3, <1>4, <1>5 DEF ModelsTold, ApplicationsFollow, RenewedByStage, UnitsMoved, ContainersLeft,
                          Opened
<1>8. ServicesWait' /\ ProviderIDsWait'
  BY <1>1 DEF Consistent, ServicesWait, ProviderIDsWait
<1>9. Running' /\ InHand'
  BY <1>0, ContinueRuns DEF StagesRest
<1> QED
  BY <1>6, <1>7, <1>8, <1>9 DEF StagesRest

\* A stage before updateController is done, or clean-db is: nothing is done yet that
\* writes for 2.0.
LEMMA StillEarly ==
  ASSUME CleanupsOfCleanDB, Running, Continue,
         pc \in Stages \ (AfterController \cup {"updateController"})
  PROVE  \/ ~live'
         \/ pc' = "idle" /\ ~Succeeded'
         \/ pc' \in Stages \ AfterController /\ exit' = "running"
<1>1. CASE ~live
  BY <1>1 DEF Continue, Exit
<1>2. CASE live /\ NextStage(pc) = "done"
  <2>1. pc = "removeCleanups"
    BY <1>2, Ranks DEF NextStage, AfterController
  <2>2. pc' = "idle" /\ ~Succeeded'
    BY <1>2, <2>1 DEF CleanupsOfCleanDB, Continue, Exit, Succeeded
  <2> QED
    BY <2>2
<1>3. CASE live /\ NextStage(pc) # "done"
  <2>1. pc' = Follows[pc] /\ exit' = exit
    BY <1>3 DEF Continue, NextStage
  <2>2. pc' \in Stages \ AfterController
    BY <1>3, <2>1 DEF NextStage, AfterController, Stages, Follows
  <2>3. exit' = "running"
    BY <2>1, IdleNoStage DEF Running
  <2> QED
    BY <2>2, <2>3
<1> QED
  BY <1>1, <1>2, <1>3

LEMMA PreparationKept ==
  ASSUME CleanupsOfCleanDB, StagesRest, Continue,
         pc \in Stages \ (AfterController \cup {"updateController"})
  PROVE  StagesRest'
<1>1. Running
  BY DEF StagesRest
<1> QED
  BY <1>1, StillEarly, ContinueRuns, EarlyNothing, NothingDone DEF StagesRest

\* The command stops, or runs no transaction for real.
LEMMA StoppedKept ==
  ASSUME StagesRest, Quits \/ DryRunTransaction \/ (StageFinishes /\ ~live)
  PROVE  StagesRest'
<1>1. CASE Quits
  <2>1. pc' = "idle" /\ inTxn' = FALSE /\ ~Succeeded'
    BY <1>1 DEF Quits, Exit, Succeeded
  <2>2. Running' /\ InHand'
    BY <2>1 DEF Running, InHand
  <2> QED
    BY <2>1, <2>2, EarlyNothing, NothingDone DEF StagesRest
<1>2. CASE DryRunTransaction \/ (StageFinishes /\ ~live)
  <2>1. Continue /\ ~live
    BY <1>2 DEF DryRunTransaction, StageFinishes
  <2>2. pc \in Stages
    BY <1>2 DEF DryRunTransaction, StageFinishes, StagesRest, Running, Transacting, Writing,
                AfterController, Stages, Follows
  <2>3. ~live'
    BY <2>1 DEF Continue, Exit
  <2> QED
    BY <2>1, <2>2, <2>3, ContinueRuns, EarlyNothing, NothingDone DEF StagesRest
<1> QED
  BY <1>1, <1>2

\* A transaction of others is only found before the first stage that writes.
LEMMA CompletesKept ==
  ASSUME IdentityInv, StagesRest, StageCompletes
  PROVE  StagesRest'
<1>1. /\ live /\ pc \in Stages /\ UNCHANGED <<pc, cmd, live, uuid, context, ops, inTxn, exit, b7>>
      /\ txns # {}
  BY DEF StageCompletes
<1>2. pc \notin AfterResume
  BY <1>1 DEF IdentityInv, IdentityOwned, NothingPending
<1>3. pc \notin AfterController /\ pc # "updateController"
  BY <1>1, <1>2 DEF AfterResume, AfterController
<1>4. exit = "running"
  BY <1>1, IdleNoStage DEF StagesRest, Running
<1>5. Running' /\ InHand'
  BY <1>1, <1>3 DEF StagesRest, Running, InHand, Transacting
<1> QED
  BY <1>1, <1>3, <1>4, <1>5, EarlyNothing, NothingDone DEF StagesRest

\* A transaction goes through.
LEMMA CommitKept ==
  ASSUME IdentityInv, CleanupsOfCleanDB, OneRunMigrates, StillConsistent, StagesRest, Commit
  PROVE  StagesRest'
<1>1. pc \in Transacting /\ live /\ inTxn /\ Continue
  BY DEF Commit, CanRun, StagesRest, Running
<1>2. CASE pc = "updateController"
  BY <1>2, ControllerCommits
<1>3. CASE pc = "removeCleanups"
  <2>1. pc \in Stages \ (AfterController \cup {"updateController"})
    BY <1>3 DEF Stages, Follows, AfterController
  <2> QED
    BY <1>1, <2>1, PreparationKept
<1>4. CASE pc \in AfterController \ Writing
  <2>1. LateStep
    BY <1>1, <1>4 DEF LateStep, StagesRest, InHand, AfterController
  <2> QED
    BY <2>1, LateKept
<1> QED
  BY <1>1, <1>2, <1>3, <1>4 DEF Transacting

\* Every step of a command.
LEMMA RestStep ==
  ASSUME IdentityInv, CleanupsOfCleanDB, OneRunMigrates, StillConsistent, StagesRest,
         \/ StageReads \/ Quits \/ StagePrepares \/ StageCompletes
         \/ StageRenames \/ StageFinishes \/ DryRunTransaction \/ Commit
  PROVE  StagesRest'
<1>0. ProcessInv
  BY DEF IdentityInv
<1>1. CASE StageFinishes /\ live
  <2>1. LateStep
    BY <1>1 DEF LateStep, StageFinishes, Writing, AfterController, Stages, Follows
  <2> QED
    BY <2>1, LateKept
<1>2. CASE StagePrepares
  BY <1>2, PreparationKept DEF StagePrepares
<1> QED
  BY <1>0, <1>1, <1>2, CommitKept, ReadKept, StoppedKept, CompletesKept, RenameKept

\* Every step keeps the invariant.
LEMMA StagesStep ==
  ASSUME IdentityInv, PromiseInv, OneRunMigrates, StagesInv, [Next]_vars
  PROVE  StagesInv'
<1>0. StillConsistent /\ StagesRest /\ CleanupsOfCleanDB /\ ProcessInv
  BY DEF StagesInv, StagesRest, PromiseInv, IdentityInv
<1>1. ASSUME NEW command \in DOMAIN FirstStage, NEW forReal \in BOOLEAN,
             Start(command, forReal)
      PROVE  StagesInv'
  <2>1. /\ UNCHANGED <<db, txns, ops, inTxn>> /\ exit' = "running"
        /\ pc' \in Stages \ AfterController /\ ~inTxn
    BY <1>0, <1>1, IdleNoStage DEF Start, disk, FirstStage, AfterController, Stages, Follows,
                                   StagesRest, Running, Transacting
  <2>2. StillConsistent'
    BY <1>0, <2>1 DEF StillConsistent
  <2>3. Running' /\ InHand'
    BY <2>1 DEF Running, InHand
  <2> QED
    BY <2>1, <2>2, <2>3, EarlyNothing, NothingDone DEF StagesInv
<1>2. CASE Step \/ Failure
  <2>1. \/ StageReads \/ Quits \/ StagePrepares \/ StageCompletes
        \/ StageRenames \/ StageFinishes \/ DryRunTransaction \/ Commit
    BY <1>0, <1>2, StageKinds
  <2>2. StillConsistent'
    <3>1. SameUUIDs(db, db')
      BY <1>2, IdentityStep DEF Keeps, Next
    <3> QED
      BY <1>0, <2>1, <3>1, ConsistentStep
  <2>3. StagesRest'
    BY <1>0, <2>1, RestStep
  <2> QED
    BY <2>2, <2>3 DEF StagesInv, StagesRest
<1>3. CASE UNCHANGED vars
  <2>1. UNCHANGED <<db, txns, indexes, tools, pc, cmd, live, uuid, context, ops, inTxn, exit>>
    BY <1>3 DEF vars, disk
  <2>2. Running' /\ StillConsistent' /\ ContextKnown'
    BY <1>0, <2>1 DEF StagesRest, Running, StillConsistent, ContextKnown
  <2>6. InHand'
    <3>1. db' = db /\ uuid' = uuid /\ context' = context /\ ops' = ops /\ pc' = pc
      BY <2>1
    <3>2. ReadFor => ReadFor'
      BY ONLY <3>1 DEF ReadFor
    <3> QED
      BY <1>0, <2>1, <3>2 DEF StagesRest, InHand
  <2>3. \A s : Done(s)' <=> Done(s)
    BY <2>1 DEF Done, Progress, Succeeded
  <2>4. ModelsTold' /\ ServicesWait' /\ ApplicationsFollow' /\ ProviderIDsWait' /\ UnitsMoved'
        /\ ContainersLeft'
    BY <1>0, <2>1, <2>3 DEF StagesRest, ModelsTold, Told, ServicesWait, ApplicationsFollow,
                            ProviderIDsWait, UnitsMoved, NoneHas, ContainersLeft
  <2>5. RenewedByStage' /\ Opened'
    BY <1>0, <2>1, <2>3 DEF StagesRest, RenewedByStage, Opened, Succeeded
  <2> QED
    BY <2>2, <2>4, <2>5, <2>6 DEF StagesInv
<1> QED
  BY <1>1, <1>2, <1>3 DEF Next, Finished

\* Initially the database is as beta 7 left it, and no command has run.
LEMMA StagesInit ==
  ASSUME Init
  PROVE  StagesInv
<1>1. PICK s \in B7States : db = s.db /\ txns = s.txns
  BY DEF Init
<1>2. Consistent(db) /\ \A t \in txns : Sparing(t.ops)
  BY <1>1, ConsistencyAssumption
<1>3. ~live /\ ~inTxn /\ pc = "idle"
  BY DEF Init
<1>4. Running /\ StillConsistent /\ InHand /\ ContextKnown
  BY <1>2, <1>3 DEF Running, StillConsistent, InHand, ContextKnown
<1>5. \A stage : ~Done(stage) /\ ~Succeeded
  BY <1>3 DEF Done, Succeeded
<1>6. ModelsTold /\ ServicesWait /\ ApplicationsFollow /\ ProviderIDsWait /\ UnitsMoved
      /\ ContainersLeft
  BY <1>5 DEF ModelsTold, ServicesWait, ApplicationsFollow, ProviderIDsWait, UnitsMoved, ContainersLeft
<1>7. RenewedByStage /\ Opened
  BY <1>5 DEF RenewedByStage, Opened
<1> QED
  BY <1>4, <1>6, <1>7 DEF StagesInv

\* A live upgrade past updateController finds the documents that beta 7 left, and
\* gives each of them the form of 2.0 in the stage that is meant to.
THEOREM StagesInvariant == Spec => []StagesInv
<1>1. IdentityInv /\ PromiseInv /\ OneRunMigrates /\ StagesInv /\ [Next]_vars => StagesInv'
  BY StagesStep
<1> QED
  BY <1>1, StagesInit, IdentityInvariant, PromiseInvariant, OneMigration, PTL DEF Spec

\* After a successful upgrade every stage is done.
LEMMA SuccessDone ==
  ASSUME Succeeded
  PROVE  \A s \in Stages : Done(s)
<1>1. Progress = 38 /\ live
  BY DEF Progress, Succeeded
<1>2. \A s \in Stages : 38 > Rank[s]
  BY Ranks
<1> QED
  BY <1>1, <1>2 DEF Done

-----------------------------------------------------------------------------
(* Documents that say the same.                                            *)

\* They have the same values in all other fields.
LEMMA AlikeFields ==
  ASSUME NEW doc, NEW other, NEW names
  PROVE  Alike(doc, other, names) <=>
           \A f : f \notin Bookkeeping \cup names =>
             /\ f \in DOMAIN doc <=> f \in DOMAIN other
             /\ f \in DOMAIN doc => doc[f] = other[f]
<1> DEFINE N == Bookkeeping \cup names
<1>1. ASSUME Without(doc, N) = Without(other, N), NEW f, f \notin N
      PROVE  /\ f \in DOMAIN doc <=> f \in DOMAIN other
             /\ f \in DOMAIN doc => doc[f] = other[f]
  <2>1. DOMAIN Without(doc, N) = DOMAIN doc \ N /\ DOMAIN Without(other, N) = DOMAIN other \ N
    BY DEF Without
  <2>2. f \in DOMAIN doc => Without(doc, N)[f] = doc[f]
    BY <1>1 DEF Without
  <2>3. f \in DOMAIN other => Without(other, N)[f] = other[f]
    BY <1>1 DEF Without
  <2> QED
    BY <1>1, <2>1, <2>2, <2>3
<1>2. ASSUME \A f : f \notin N => /\ f \in DOMAIN doc <=> f \in DOMAIN other
                                  /\ f \in DOMAIN doc => doc[f] = other[f]
      PROVE  Without(doc, N) = Without(other, N)
  <2>1. DOMAIN doc \ N = DOMAIN other \ N
    BY <1>2
  <2>2. \A f \in DOMAIN doc \ N : doc[f] = other[f]
    BY <1>2
  <2> QED
    BY <2>1, <2>2 DEF Without
<1> QED
  BY <1>1, <1>2 DEF Alike

\* What two documents say the same as, they say of each other.
LEMMA AlikeOn ==
  ASSUME NEW doc, NEW other, NEW third, NEW some, NEW names, NEW all,
         Alike(doc, other, some), Alike(other, third, names),
         some \subseteq Bookkeeping \cup all, names \subseteq Bookkeeping \cup all
  PROVE  Alike(doc, third, all)
<1>1. \A f : f \notin Bookkeeping \cup all =>
        f \notin Bookkeeping \cup some /\ f \notin Bookkeeping \cup names
  OBVIOUS
<1>2. \A f : f \notin Bookkeeping \cup some =>
        /\ f \in DOMAIN doc <=> f \in DOMAIN other
        /\ f \in DOMAIN doc => doc[f] = other[f]
  BY AlikeFields
<1>3. \A f : f \notin Bookkeeping \cup names =>
        /\ f \in DOMAIN other <=> f \in DOMAIN third
        /\ f \in DOMAIN other => other[f] = third[f]
  BY AlikeFields
<1>4. \A f : f \notin Bookkeeping \cup all =>
        /\ f \in DOMAIN doc <=> f \in DOMAIN third
        /\ f \in DOMAIN doc => doc[f] = third[f]
  BY <1>1, <1>2, <1>3
<1> QED
  BY <1>4, AlikeFields

\* A document says the same as itself.
LEMMA AlikeItself ==
  ASSUME NEW doc, NEW names
  PROVE  Alike(doc, doc, names)
  BY DEF Alike

\* copyBsonDField, replaceBsonDField, removeBsonDField and an update.
LEMMA AlikeCopies ==
  ASSUME NEW doc, NEW name, NEW value
  PROVE  /\ Alike(CopyBsonDField(doc), doc, {})
         /\ Alike(ReplaceBsonDField(doc, name, value), doc, {name})
         /\ Alike(RemoveBsonDField(doc, name), doc, {name})
<1>1. Alike(CopyBsonDField(doc), doc, {})
  BY DEF Alike, CopyBsonDField, Without, Bookkeeping
<1>2. Alike(ReplaceBsonDField(doc, name, value), doc, {name})
  BY DEF Alike, ReplaceBsonDField, Without
<1>3. Alike(RemoveBsonDField(doc, name), doc, {name})
  BY DEF Alike, RemoveBsonDField, Without
<1> QED
  BY <1>1, <1>2, <1>3

LEMMA AlikeUpdated ==
  ASSUME NEW doc, NEW set, NEW unset, NEW names,
         unset \cup DOMAIN set \subseteq Bookkeeping \cup names
  PROVE  Alike(Without(doc, unset) ++ set, doc, names)
  BY DEF Alike, Without, ++

\* The values of the fields that readers of a document ask for.
LEMMA AlikeString ==
  ASSUME NEW doc, NEW other, NEW names, Alike(doc, other, names),
         NEW f, f \notin Bookkeeping \cup names
  PROVE  GetStringField(doc, f) = GetStringField(other, f)
  BY AlikeFields DEF GetStringField, Has

-----------------------------------------------------------------------------
(* What a transaction does to a document that is moved.                    *)

\* Nothing, but for the fields that the agents keep up to date.
Stayed(d, e, mv) ==
  /\ mv.old \in DOMAIN d[mv.from] <=> mv.old \in DOMAIN e[mv.from]
  /\ mv.new \in DOMAIN d[mv.to] <=> mv.new \in DOMAIN e[mv.to]
  /\ mv.old \in DOMAIN d[mv.from] => Alike(e[mv.from][mv.old], d[mv.from][mv.old], mv.counted)
  /\ mv.new \in DOMAIN d[mv.to] => Alike(e[mv.to][mv.new], d[mv.to][mv.new], mv.counted)

\* That is so of a document that is only updated in these fields.
LEMMA PlaceStayed ==
  ASSUME NEW d, NEW O, NEW c \in DOMAIN d, NEW id, NEW names,
         \A op \in O : Touches(op, c, id) =>
           op.change = "update" /\ op.unset \cup DOMAIN op.set \subseteq Bookkeeping \cup names
  PROVE  /\ id \in DOMAIN d[c] <=> id \in DOMAIN Apply(d, O)[c]
         /\ id \in DOMAIN d[c] => Alike(Apply(d, O)[c][id], d[c][id], names)
<1>1. id \in DOMAIN d[c] <=> id \in DOMAIN Apply(d, O)[c]
  BY ApplyIDs DEF Touches
<1>2. ASSUME id \in DOMAIN d[c]
      PROVE  Alike(Apply(d, O)[c][id], d[c][id], names)
  <2>1. CASE Apply(d, O)[c][id] = d[c][id]
    BY <2>1, AlikeItself
  <2>2. ASSUME NEW op \in O, op.c = c, op.id = id,
               Apply(d, O)[c][id] = Without(d[c][id], op.unset) ++ op.set
        PROVE  Alike(Apply(d, O)[c][id], d[c][id], names)
    BY <2>2, AlikeUpdated DEF Touches
  <2> QED
    BY <1>1, <1>2, <2>1, <2>2, ApplyDoc
<1> QED
  BY <1>1, <1>2

\* Operations that neither move the document nor change what it says.
LEMMA StaysStayed ==
  ASSUME NEW mv, NEW d, mv.from \in DOMAIN d, mv.to \in DOMAIN d,
         NEW O, Stays(O, mv), NEW S \in SUBSET O
  PROVE  Stayed(d, Apply(d, S), mv)
<1>1. \A op \in S : Touches(op, mv.from, mv.old) =>
        op.change = "update" /\ op.unset \cup DOMAIN op.set \subseteq Bookkeeping \cup mv.counted
  BY DEF Stays
<1>2. \A op \in S : Touches(op, mv.to, mv.new) =>
        op.change = "update" /\ op.unset \cup DOMAIN op.set \subseteq Bookkeeping \cup mv.counted
  BY DEF Stays
<1>3. /\ mv.old \in DOMAIN d[mv.from] <=> mv.old \in DOMAIN Apply(d, S)[mv.from]
      /\ mv.old \in DOMAIN d[mv.from] =>
           Alike(Apply(d, S)[mv.from][mv.old], d[mv.from][mv.old], mv.counted)
  BY <1>1, PlaceStayed
<1>4. /\ mv.new \in DOMAIN d[mv.to] <=> mv.new \in DOMAIN Apply(d, S)[mv.to]
      /\ mv.new \in DOMAIN d[mv.to] =>
           Alike(Apply(d, S)[mv.to][mv.new], d[mv.to][mv.new], mv.counted)
  BY <1>2, PlaceStayed
<1> QED
  BY <1>3, <1>4 DEF Stayed

\* It is at home where it was.
LEMMA StayedHome ==
  ASSUME NEW mv, NEW d, NEW e, Stayed(d, e, mv)
  PROVE  /\ AtOld(b7, d, mv) => AtOld(b7, e, mv)
         /\ AtNew(b7, d, mv) => AtNew(b7, e, mv)
         /\ \A done : HalfMoved(d, done, mv) => HalfMoved(e, done, mv)
<1>1. AtOld(b7, d, mv) => AtOld(b7, e, mv)
  BY AlikeOn DEF Stayed, AtOld
<1>2. ASSUME mv.new \in DOMAIN d[mv.to],
             Alike(d[mv.to][mv.new], b7[mv.from][mv.old], mv.counted \cup mv.rewritten)
      PROVE  Alike(e[mv.to][mv.new], b7[mv.from][mv.old], mv.counted \cup mv.rewritten)
  <2>1. Alike(e[mv.to][mv.new], d[mv.to][mv.new], mv.counted)
    BY <1>2 DEF Stayed
  <2> QED
    BY <1>2, <2>1, AlikeOn
<1>3. AtNew(b7, d, mv) => AtNew(b7, e, mv)
  BY <1>2 DEF Stayed, AtNew
<1>4. \A done : HalfMoved(d, done, mv) => HalfMoved(e, done, mv)
  BY <1>2 DEF Stayed, HalfMoved
<1> QED
  BY <1>1, <1>3, <1>4

\* A transaction that moves a document does not leave it.
LEMMA CarriesMoves ==
  ASSUME NEW mv, NEW O, Carries(O, mv)
  PROVE  ~Stays(O, mv)
<1>1. RemoveOp(mv.from, mv.old) \in O
  BY DEF Carries
<1>2. LET op == RemoveOp(mv.from, mv.old)
      IN  Touches(op, mv.from, mv.old) /\ op.change = "remove"
  BY DEF RemoveOp, Touches
<1> QED
  BY <1>1, <1>2 DEF Stays

\* It asserts that the document is where it was.
LEMMA CarriesAsserted ==
  ASSUME NEW mv, NEW d, NEW O, Carries(O, mv), Asserted(d, O)
  PROVE  mv.old \in DOMAIN d[mv.from] /\ mv.new \notin DOMAIN d[mv.to]
<1>1. RemoveOp(mv.from, mv.old) \in O /\ \E i \in O : Puts(i, mv)
  BY DEF Carries
<1>2. LET op == RemoveOp(mv.from, mv.old)
      IN  op.c = mv.from /\ op.id = mv.old /\ op.assert = "d+"
  BY DEF RemoveOp
<1> QED
  BY <1>1, <1>2 DEF Asserted, Puts, Touches

\* An assertion fails on operations that clash.
LEMMA AssertedClear ==
  ASSUME NEW d, NEW O, Asserted(d, O)
  PROVE  ~Clashing(O)
  BY DEF Asserted, Clashing

\* Some of its operations move the document half way.
LEMMA CarriedHalf ==
  ASSUME NEW mv, NEW d, mv.from \in DOMAIN d, mv.to \in DOMAIN d,
         NEW O, Carries(O, mv), NEW S \in SUBSET O,
         mv.new \notin DOMAIN d[mv.to]
  PROVE  HalfMoved(Apply(d, S), S, mv)
<1> DEFINE e == Apply(d, S)
           r == RemoveOp(mv.from, mv.old)
<1>1. r.c = mv.from /\ r.id = mv.old /\ r.change = "remove"
  BY DEF RemoveOp
<1>2. PICK i \in O : Puts(i, mv) /\ \A op \in O : Touches(op, mv.to, mv.new) => op = i
  BY DEF Carries
<1>3. /\ i.c = mv.to /\ i.id = mv.new /\ i.change = "insert"
      /\ Alike(i.set, b7[mv.from][mv.old], mv.counted \cup mv.rewritten)
  BY <1>2 DEF Puts, Touches
<1>4. r \in S => mv.old \notin DOMAIN e[mv.from]
  BY <1>1, ApplyGone
<1> HIDE DEF r
<1>5. CASE \E op \in S : Touches(op, mv.to, mv.new)
  <2>1. i \in S
    BY <1>2, <1>5
  <2>2. \A op \in S : op.c = mv.to /\ op.id = mv.new => op = i
    BY <1>2 DEF Touches
  <2>3. mv.new \in DOMAIN e[mv.to]
    BY <1>3, <2>1, <2>2, ApplyIDs
  <2>4. e[mv.to][mv.new] = i.set
    BY <2>2, <2>3, ApplyDoc
  <2> QED
    BY <1>3, <1>4, <1>5, <2>3, <2>4 DEF HalfMoved, r
<1>6. CASE ~\E op \in S : Touches(op, mv.to, mv.new)
  <2>1. mv.new \notin DOMAIN e[mv.to]
    BY <1>6, ApplyIDs DEF Touches
  <2> QED
    BY <1>4, <1>6, <2>1 DEF HalfMoved, r
<1> QED
  BY <1>5, <1>6

\* The others complete the move.
LEMMA CarriedOver ==
  ASSUME NEW mv, NEW d, mv.from \in DOMAIN d, mv.to \in DOMAIN d,
         NEW O, Carries(O, mv), NEW done \in SUBSET O, HalfMoved(d, done, mv)
  PROVE  AtNew(b7, Apply(d, O \ done), mv)
<1> DEFINE S == O \ done
           e == Apply(d, S)
           r == RemoveOp(mv.from, mv.old)
           said(doc) == Alike(doc, b7[mv.from][mv.old], mv.counted \cup mv.rewritten)
<1>1. /\ r.c = mv.from /\ r.id = mv.old /\ r.change = "remove"
      /\ r \in O /\ \A op \in O : Touches(op, mv.from, mv.old) => op = r
  BY DEF RemoveOp, Carries
<1>2. PICK i \in O : Puts(i, mv) /\ \A op \in O : Touches(op, mv.to, mv.new) => op = i
  BY DEF Carries
<1>3. i.c = mv.to /\ i.id = mv.new /\ i.change = "insert" /\ said(i.set)
  BY <1>2 DEF Puts, Touches
<1>4. r \in done => mv.old \notin DOMAIN d[mv.from]
  BY DEF HalfMoved
<1>5. mv.old \notin DOMAIN e[mv.from]
  <2>1. CASE r \in done
    <3>1. \A op \in S : ~(op.c = mv.from /\ op.id = mv.old /\ op.change = "insert")
      BY <1>1 DEF Touches
    <3> HIDE DEF S, r
    <3> QED
      BY <1>4, <2>1, <3>1, ApplyIDs
  <2>2. CASE r \notin done
    <3>1. r \in S
      BY <1>1, <2>2
    <3> HIDE DEF S, r
    <3> QED
      BY <1>1, <3>1, ApplyGone
  <2> QED
    BY <2>1, <2>2
<1>6. mv.new \in DOMAIN e[mv.to] /\ said(e[mv.to][mv.new])
  <2>1. CASE \E op \in done : Touches(op, mv.to, mv.new)
    <3>1. i \in done
      BY <1>2, <2>1
    <3>2. \A op \in S : ~Touches(op, mv.to, mv.new)
      BY <1>2, <3>1
    <3>3. mv.new \in DOMAIN d[mv.to] /\ said(d[mv.to][mv.new])
      BY <2>1 DEF HalfMoved
    <3> HIDE DEF S
    <3>4. mv.new \in DOMAIN e[mv.to]
      BY <3>2, <3>3, ApplyIDs DEF Touches
    <3>5. e[mv.to][mv.new] = d[mv.to][mv.new]
      BY <3>2, <3>3, <3>4, ApplyDoc DEF Touches
    <3> QED
      BY <3>3, <3>4, <3>5
  <2>2. CASE ~\E op \in done : Touches(op, mv.to, mv.new)
    <3>1. i \in S
      BY <1>3, <2>2 DEF Touches
    <3>2. \A op \in S : op.c = mv.to /\ op.id = mv.new => op = i
      BY <1>2 DEF Touches
    <3>3. mv.new \notin DOMAIN d[mv.to]
      BY <2>2 DEF HalfMoved
    <3> HIDE DEF S
    <3>4. mv.new \in DOMAIN e[mv.to]
      BY <1>3, <3>1, <3>2, ApplyIDs
    <3>5. e[mv.to][mv.new] = i.set
      BY <3>2, <3>3, <3>4, ApplyDoc
    <3> QED
      BY <1>3, <3>4, <3>5
  <2> QED
    BY <2>1, <2>2
<1> QED
  BY <1>5, <1>6 DEF AtNew

\* All of them together move it.
LEMMA CarriedAtOnce ==
  ASSUME NEW mv, NEW d, mv.from \in DOMAIN d, mv.to \in DOMAIN d,
         NEW O, Carries(O, mv), mv.new \notin DOMAIN d[mv.to]
  PROVE  AtNew(b7, Apply(d, O), mv)
<1>1. HalfMoved(d, {}, mv)
  BY DEF HalfMoved
<1>2. {} \in SUBSET O /\ O \ {} = O
  OBVIOUS
<1> QED
  BY <1>1, <1>2, CarriedOver

\* The two operations of a rename, with a document that says the same, move it,
\* unless some operation has the same place in mind.
LEMMA RenameCarries ==
  ASSUME NEW mv, NEW O, NEW doc,
         MoveOps(mv.from, mv.old, mv.to, mv.new, doc) \subseteq O,
         Alike(doc, b7[mv.from][mv.old], mv.counted \cup mv.rewritten),
         \A op \in O : op.c \in {mv.from, mv.to} =>
           op.assert = "d-" \/ op = RemoveOp(op.c, op.id)
  PROVE  Clashing(O) \/ Carries(O, mv)
<1> SUFFICES ASSUME ~Clashing(O)
             PROVE  Carries(O, mv)
  OBVIOUS
<1> DEFINE r == RemoveOp(mv.from, mv.old)
           i == InsertOp(mv.to, mv.new, doc, mv.old)
<1>1. r \in O /\ i \in O
  BY DEF MoveOps
<1>2. r.c = mv.from /\ r.id = mv.old /\ r.assert = "d+"
  BY DEF RemoveOp
<1>3. i.c = mv.to /\ i.id = mv.new /\ i.assert = "d-" /\ i.change = "insert"
      /\ i.set = CopyBsonDField(doc)
  BY DEF InsertOp
<1>4. Puts(i, mv)
  <2>1. Alike(CopyBsonDField(doc), doc, {})
    BY AlikeCopies
  <2>2. Alike(CopyBsonDField(doc), b7[mv.from][mv.old], mv.counted \cup mv.rewritten)
    BY <2>1, AlikeOn
  <2> HIDE DEF i
  <2> QED
    BY <1>3, <2>2 DEF Puts, Touches
<1>5. \A op \in O : Touches(op, mv.from, mv.old) => op = r
  <2> SUFFICES ASSUME NEW op \in O, Touches(op, mv.from, mv.old)
               PROVE  op = r
    OBVIOUS
  <2>1. op.c = mv.from /\ op.id = mv.old
    BY DEF Touches
  <2>2. CASE op.assert = "d-"
    BY <1>1, <1>2, <2>1, <2>2 DEF Clashing, Touches
  <2> QED
    BY <2>1, <2>2
<1>6. \A op \in O : Touches(op, mv.to, mv.new) => op = i
  <2> HIDE DEF i
  <2> QED
    BY <1>1, <1>3 DEF Clashing, Touches
<1> QED
  BY <1>1, <1>4, <1>5, <1>6 DEF Carries

-----------------------------------------------------------------------------
(* Which stages have to do with the moves.                                 *)

LEMMA MoveFields ==
  ASSUME NEW from, NEW old, NEW to, NEW new, NEW rewritten, NEW counted
  PROVE  LET mv == Move(from, old, to, new, rewritten, counted)
         IN  /\ mv.from = from /\ mv.old = old /\ mv.to = to /\ mv.new = new
             /\ mv.rewritten = rewritten /\ mv.counted = counted
  BY DEF Move

\* A document stays in its collection, unless it is that of a service. In a
\* collection with keys it is found under the key of a service.
LEMMA MovesWhere ==
  ASSUME NEW d, NEW mv \in Moves(d)
  PROVE  /\ mv.from \in DOMAIN MovedBy
         /\ mv.to = IF mv.from = "services" THEN "applications" ELSE mv.from
         /\ mv.from \in GlobalKeyed => IsServiceKeyID(mv.old) /\ mv.new = NewKeyID(mv.old)
         /\ mv.from = "services" <=> mv \in ServiceMoves(d)
<1> USE MoveFields DEF MovedBy, GlobalKeyed
<1> HIDE DEF Moves
<1>1. CASE mv \in ServiceMoves(d)
  BY <1>1 DEF ServiceMoves
<1>2. CASE mv \in ConstraintMoves(d)
  <2>1. mv.from = "storageconstraints" /\ mv.to = "storageconstraints"
    BY <1>2 DEF ConstraintMoves
  <2> QED
    BY <2>1 DEF ServiceMoves
<1>3. CASE mv \in LeaseMoves(d)
  <2>1. mv.from = "leases" /\ mv.to = "leases"
    BY <1>3 DEF LeaseMoves
  <2> QED
    BY <2>1 DEF ServiceMoves
<1>4. CASE mv \in SequenceMoves(d)
  <2>1. mv.from = "sequence" /\ mv.to = "sequence"
    BY <1>4 DEF SequenceMoves
  <2> QED
    BY <2>1 DEF ServiceMoves
<1>5. CASE mv \in ImageMoves(d)
  <2>1. mv.from = "cloudimagemetadata" /\ mv.to = "cloudimagemetadata"
    BY <1>5 DEF ImageMoves
  <2> QED
    BY <2>1 DEF ServiceMoves
<1>6. ASSUME NEW c \in GlobalKeyed, mv \in KeyMoves(d, c)
      PROVE  /\ mv.from = c /\ mv.to = c /\ mv.from # "services"
             /\ IsServiceKeyID(mv.old) /\ mv.new = NewKeyID(mv.old)
  BY <1>6 DEF KeyMoves, ServiceKeyed
<1>7. CASE mv \in UNION {KeyMoves(d, c) : c \in GlobalKeyed}
  BY <1>6, <1>7 DEF ServiceMoves
<1> QED
  BY <1>1, <1>2, <1>3, <1>4, <1>5, <1>7 DEF Moves

LEMMA MovedByWhom ==
  /\ DOMAIN MovedBy \cup {"applications"} \subseteq Collections
  /\ \A c \in DOMAIN MovedBy : MovedBy[c] \in AfterController \ Writing /\ MovedBy[c] \in Stages
  /\ MovedBy["services"] = "moveServices" /\ "moveServices" \in Stages
  /\ "applications" \notin DOMAIN MovedBy
  BY DEF MovedBy, Collections, AfterController, Stages, Follows, Writing

\* Two stages write in the collections that another renames.
LEMMA OtherWriters ==
  ASSUME NEW s \in AfterController \ Writing, NEW c \in DOMAIN MovedBy \cup {"applications"},
         c \in Writes[s]
  PROVE  \/ s = IF c = "applications" THEN "moveServices" ELSE MovedBy[c]
         \/ c = "settings" /\ s = "updateModels"
         \/ c = "statuses" /\ s = "updateUnits"
<1>0. AfterController = DOMAIN Writes
  BY DEF AfterController, Stages, Follows, Writes
<1> HIDE DEF AfterController
<1> USE DEF MovedBy
<1>1. CASE s \in {"updateModels", "moveServices", "updateUnits", "upgradeMachines", "updateAgentTools"}
  BY <1>1 DEF Writes
<1>2. CASE s \in {"updateSequences", "updateLeases", "updateModelEntityRefs", "updateResources",
                  "updateRelations"}
  BY <1>2 DEF Writes
<1>3. CASE s \in GlobalKeyed
  BY <1>3 DEF Writes, GlobalKeyed
<1>4. CASE s \in {"upgradeSpaces", "upgradeSubnets", "upgradeLinkLayerDevices", "upgradeIPAddresses"}
  BY <1>4 DEF Writes
<1>5. CASE s \in {"upgradeCharms", "upgradeUsers", "upgradeModelUsers", "upgradeCloudImageMetadata"}
  BY <1>5 DEF Writes
<1> QED
  BY <1>0, <1>1, <1>2, <1>3, <1>4, <1>5 DEF Writes, GlobalKeyed, Writing

\* Operations on other documents leave the document where it is.
LEMMA UntouchedStays ==
  ASSUME NEW O, NEW mv, \A op \in O : ~Touches(op, mv.from, mv.old) /\ ~Touches(op, mv.to, mv.new)
  PROVE  Stays(O, mv)
  BY DEF Stays

\* The other stages past updateController leave it there.
LEMMA StageStays ==
  ASSUME ReadFor, pc \in AfterController \ Writing,
         NEW mv \in Moves(b7), MovedBy[mv.from] # pc
  PROVE  Stays(ops, mv)
<1> SUFFICES ASSUME NEW op \in ops,
                    \/ op.c = mv.from /\ op.id = mv.old
                    \/ op.c = mv.to /\ op.id = mv.new
             PROVE  FALSE
  BY DEF Stays, Touches
<1>1. op.c \in Writes[pc] /\ op.c \in DOMAIN MovedBy \cup {"applications"}
  BY OpsAbout, MovesWhere DEF About
<1>2. \/ op.c = "settings" /\ pc = "updateModels"
      \/ op.c = "statuses" /\ pc = "updateUnits"
  <2>1. op.c = mv.from \/ (op.c = "applications" /\ mv.from = "services")
    BY MovesWhere
  <2>2. pc # IF op.c = "applications" THEN "moveServices" ELSE MovedBy[op.c]
    BY <2>1, MovesWhere, MovedByWhom
  <2> QED
    BY <1>1, <2>2, OtherWriters
<1>3. op.c \in GlobalKeyed /\ op.c # "services" /\ op.c # "applications"
  BY <1>2 DEF GlobalKeyed
<1>4. op.c = mv.from
  BY <1>3, MovesWhere
<1>5. op.id = mv.old \/ op.id = NewKeyID(mv.old)
  BY <1>3, <1>4, MovesWhere
<1>6. IsServiceKeyID(mv.old)
  BY <1>3, <1>4, MovesWhere
<1>7. 2 \in DOMAIN op.id /\ op.id[2] \in {"s", "a"}
  BY <1>5, <1>6 DEF IsServiceKeyID, NewKeyID
<1>8. ASSUME op.c = "settings", ops = UpdateModelsOps(db, uuid, context)
      PROVE  FALSE
  <2>1. ASSUME NEW id, op \in UpdateModelOps(db, id, uuid, context)
        PROVE  op.id = ModelSettingsID(id[1])
    BY <1>8, <2>1 DEF UpdateModelOps, UpdateOp, InsertOp
  <2>2. op \notin MoveOps("usermodelname", <<AdminUser, "admin">>,
                          "usermodelname", <<AdminUser, "controller">>, NoDoc)
    BY <1>8, MoveOpsAbout DEF About
  <2>3. \E m : op.id = ModelSettingsID(m)
    BY <1>8, <2>1, <2>2 DEF UpdateModelsOps
  <2> QED
    BY <1>7, <2>3 DEF ModelSettingsID
<1>9. ASSUME op.c = "statuses", ops = UpdateUnitsOps(db)
      PROVE  FALSE
  <2>1. \E doc : op.id = WorkloadStatusID(doc)
    BY <1>9 DEF UpdateUnitsOps, UpdateAllOps, UpdateOp, InsertOp
  <2> QED
    BY <1>7, <2>1 DEF WorkloadStatusID
<1> QED
  BY <1>2, <1>8, <1>9 DEF ReadFor

\* So do operations on other collections.
LEMMA ElsewhereStays ==
  ASSUME NEW O, NEW cs, About(O, cs), cs \cap (DOMAIN MovedBy \cup {"applications"}) = {}
  PROVE  MovesNothing(O)
<1> SUFFICES ASSUME NEW mv \in Moves(b7)
             PROVE  Stays(O, mv)
  BY DEF MovesNothing
<1>1. {mv.from, mv.to} \subseteq DOMAIN MovedBy \cup {"applications"}
  BY MovesWhere
<1> QED
  BY <1>1, UntouchedStays DEF About, Touches

\* updateController and clean-db have nothing to do with the moves.
LEMMA FirstStays ==
  ASSUME NEW d, NEW u
  PROVE  MovesNothing(UpdateControllerOps(d, u)) /\ MovesNothing(RemoveCleanupsOps(d))
<1>1. MovesNothing(UpdateControllerOps(d, u))
  <2>1. {"controllers", "clouds", "cloudCredentials", "permissions", "controllerusers"}
          \cap (DOMAIN MovedBy \cup {"applications"}) = {}
    BY DEF MovedBy
  <2> QED
    BY <2>1, ControllerAbout, ElsewhereStays
<1>2. MovesNothing(RemoveCleanupsOps(d))
  <2>1. {"cleanups"} \cap (DOMAIN MovedBy \cup {"applications"}) = {}
    BY DEF MovedBy
  <2> QED
    BY <2>1, SchemaAbout, ElsewhereStays
<1> QED
  BY <1>1, <1>2

-----------------------------------------------------------------------------
(* The stages that move documents.                                         *)

\* All operations of a rename insert or remove.
Renames(O) == \A op \in O : op.assert = "d-" \/ op = RemoveOp(op.c, op.id)

LEMMA MoveOpsRename ==
  ASSUME NEW from, NEW old, NEW to, NEW new, NEW doc
  PROVE  Renames(MoveOps(from, old, to, new, doc))
  BY DEF Renames, MoveOps, RemoveOp, InsertOp

LEMMA RenamesAll ==
  ASSUME NEW d, NEW c, NEW keyName
  PROVE  /\ Renames(MoveServicesOps(d))
         /\ Renames(GlobalKeyOps(d, c, keyName))
         /\ Renames(UpdateLeasesOps(d))
         /\ Renames(UpdateSequencesOps(d))
         /\ Renames(UpgradeCloudImageMetadataOps(d))
<1>1. Renames(MoveServicesOps(d))
  <2>1. \A id : Renames(MoveServiceOps(d, id))
    BY MoveOpsRename DEF MoveServiceOps, Renames
  <2>2. \A key, doc : InsertOp("refcounts", key, doc, <<>>).assert = "d-"
    BY DEF InsertOp
  <2> QED
    BY <2>1, <2>2 DEF MoveServicesOps, Renames
<1>2. Renames(GlobalKeyOps(d, c, keyName))
  BY MoveOpsRename DEF GlobalKeyOps, Renames
<1>3. Renames(UpdateLeasesOps(d))
  BY MoveOpsRename DEF UpdateLeasesOps, Renames
<1>4. Renames(UpdateSequencesOps(d))
  BY MoveOpsRename DEF UpdateSequencesOps, Renames
<1>5. Renames(UpgradeCloudImageMetadataOps(d))
  BY MoveOpsRename DEF UpgradeCloudImageMetadataOps, Renames
<1> QED
  BY <1>1, <1>2, <1>3, <1>4, <1>5

\* The document that is inserted, made from the one in d that says what was found.
LEMMA MadeAlike ==
  ASSUME NEW doc, NEW found, NEW counted, Alike(doc, found, counted), NEW name, NEW value
  PROVE  /\ Alike(CopyBsonDField(doc), found, counted)
         /\ Alike(ReplaceBsonDField(CopyBsonDField(doc), name, value), found, counted \cup {name})
         /\ Alike(RemoveBsonDField(CopyBsonDField(doc), name), found, counted \cup {name})
<1> DEFINE copy == CopyBsonDField(doc)
<1>1. Alike(copy, doc, {})
  BY AlikeCopies
<1>2. Alike(copy, found, counted)
  BY <1>1, AlikeOn
<1>3. Alike(ReplaceBsonDField(copy, name, value), copy, {name})
  BY AlikeCopies
<1>4. Alike(RemoveBsonDField(copy, name), copy, {name})
  BY AlikeCopies
<1> HIDE DEF copy
<1>5. Alike(ReplaceBsonDField(copy, name, value), found, counted \cup {name})
  BY <1>2, <1>3, AlikeOn
<1>6. Alike(RemoveBsonDField(copy, name), found, counted \cup {name})
  BY <1>2, <1>4, AlikeOn
<1> QED
  BY <1>2, <1>5, <1>6 DEF copy

\* moveDocsFromServicesToApplications
LEMMA ServicesCarried ==
  ASSUME NEW d, \A mv \in ServiceMoves(b7) : AtOld(b7, d, mv),
         NEW mv \in ServiceMoves(b7)
  PROVE  Clashing(MoveServicesOps(d)) \/ Carries(MoveServicesOps(d), mv)
<1> DEFINE O == MoveServicesOps(d)
<1>1. PICK id \in DOMAIN b7["services"] :
        mv = Move("services", id, "applications", id, {"ownertag"}, {"unitcount"})
  BY DEF ServiceMoves
<1>2. /\ mv.from = "services" /\ mv.old = id /\ mv.to = "applications" /\ mv.new = id
      /\ mv.rewritten = {"ownertag"} /\ mv.counted = {"unitcount"}
  BY <1>1, MoveFields
<1>3. id \in DOMAIN d["services"] /\ Alike(d["services"][id], b7["services"][id], mv.counted)
  BY <1>2 DEF AtOld
<1> DEFINE doc == RemoveBsonDField(CopyBsonDField(d["services"][id]), "ownertag")
<1>4. Alike(doc, b7["services"][id], mv.counted \cup mv.rewritten)
  BY <1>2, <1>3, MadeAlike
<1>5. MoveOps("services", id, "applications", id, doc) \subseteq O
  <2>1. MoveServiceOps(d, id) \subseteq O
    BY <1>3 DEF MoveServicesOps
  <2> QED
    BY <2>1 DEF MoveServiceOps
<1>6. Renames(O)
  BY RenamesAll
<1> HIDE DEF doc, O
<1>7. MoveOps(mv.from, mv.old, mv.to, mv.new, doc) \subseteq O
  BY <1>2, <1>5
<1>8. Alike(doc, b7[mv.from][mv.old], mv.counted \cup mv.rewritten)
  BY <1>2, <1>4
<1>9. Clashing(O) \/ Carries(O, mv)
  BY <1>6, <1>7, <1>8, RenameCarries DEF Renames
<1> QED
  BY <1>9 DEF O

\* The storage constraints go with the service.
LEMMA ConstraintsCarried ==
  ASSUME NEW d, \A mv \in ServiceMoves(b7) : AtOld(b7, d, mv),
         NEW mv \in ConstraintMoves(b7), AtOld(b7, d, mv)
  PROVE  Clashing(MoveServicesOps(d)) \/ Carries(MoveServicesOps(d), mv)
<1> DEFINE O == MoveServicesOps(d)
<1>1. PICK id \in DOMAIN b7["services"] :
        mv = Move("storageconstraints", OldConstraintID(id), "storageconstraints",
                  NewConstraintID(id, CharmURL(b7["services"][id])), {}, {})
  BY DEF ConstraintMoves
<1>2. /\ mv.from = "storageconstraints" /\ mv.old = OldConstraintID(id)
      /\ mv.to = "storageconstraints"
      /\ mv.new = NewConstraintID(id, CharmURL(b7["services"][id]))
      /\ mv.rewritten = {} /\ mv.counted = {}
  BY <1>1, MoveFields
<1>3. id \in DOMAIN d["services"] /\ Alike(d["services"][id], b7["services"][id], {"unitcount"})
  <2> DEFINE sv == Move("services", id, "applications", id, {"ownertag"}, {"unitcount"})
  <2>1. sv \in ServiceMoves(b7)
    BY DEF ServiceMoves
  <2>2. sv.from = "services" /\ sv.old = id /\ sv.counted = {"unitcount"}
    BY MoveFields
  <2> QED
    BY <2>1, <2>2 DEF AtOld
<1> DEFINE doc == RemoveBsonDField(CopyBsonDField(d["services"][id]), "ownertag")
           moved == d["storageconstraints"][OldConstraintID(id)]
<1>4. CharmURL(doc) = CharmURL(b7["services"][id])
  <2>1. Alike(doc, b7["services"][id], {"unitcount"} \cup {"ownertag"})
    BY <1>3, MadeAlike
  <2>2. "charmurl" \notin Bookkeeping \cup ({"unitcount"} \cup {"ownertag"})
    BY DEF Bookkeeping
  <2> HIDE DEF doc
  <2> QED
    BY <2>1, <2>2, AlikeString DEF CharmURL
<1>5. MoveOps("storageconstraints", OldConstraintID(id), "storageconstraints",
              NewConstraintID(id, CharmURL(doc)), moved) \subseteq O
  <2>1. MoveServiceOps(d, id) \subseteq O
    BY <1>3 DEF MoveServicesOps
  <2> QED
    BY <2>1 DEF MoveServiceOps
<1>6. Renames(O)
  BY RenamesAll
<1>7. Alike(moved, b7[mv.from][mv.old], mv.counted \cup mv.rewritten)
  BY <1>2 DEF AtOld
<1> HIDE DEF doc, O, moved
<1>8. MoveOps(mv.from, mv.old, mv.to, mv.new, moved) \subseteq O
  BY <1>2, <1>4, <1>5
<1>9. Clashing(O) \/ Carries(O, mv)
  BY <1>6, <1>7, <1>8, RenameCarries DEF Renames
<1> QED
  BY <1>9 DEF O

\* updateCollectionIDGlobalKey
LEMMA KeysCarried ==
  ASSUME NEW d, NEW c \in GlobalKeyed, NEW mv \in KeyMoves(b7, c), AtOld(b7, d, mv)
  PROVE  LET O == GlobalKeyOps(d, c, KeyName(c)) IN Clashing(O) \/ Carries(O, mv)
<1> DEFINE O == GlobalKeyOps(d, c, KeyName(c))
<1>1. PICK id \in ServiceKeyed(b7, c) : mv = Move(c, id, c, NewKeyID(id), {KeyName(c)}, {})
  BY DEF KeyMoves
<1>2. /\ mv.from = c /\ mv.old = id /\ mv.to = c /\ mv.new = NewKeyID(id)
      /\ mv.rewritten = {KeyName(c)} /\ mv.counted = {}
  BY <1>1, MoveFields
<1>3. id \in ServiceKeyed(d, c) /\ Alike(d[c][id], b7[c][id], {})
  BY <1>2 DEF AtOld, ServiceKeyed
<1> DEFINE doc == ReplaceBsonDField(CopyBsonDField(d[c][id]), KeyName(c), NewKey(LocalID(id)))
<1>4. Alike(doc, b7[c][id], mv.counted \cup mv.rewritten)
  BY <1>2, <1>3, MadeAlike
<1>5. MoveOps(c, id, c, NewKeyID(id), doc) \subseteq O
  BY <1>3 DEF GlobalKeyOps
<1>6. Renames(O)
  BY RenamesAll
<1> HIDE DEF doc, O
<1>7. MoveOps(mv.from, mv.old, mv.to, mv.new, doc) \subseteq O
  BY <1>2, <1>5
<1>8. Alike(doc, b7[mv.from][mv.old], mv.counted \cup mv.rewritten)
  BY <1>2, <1>4
<1>9. Clashing(O) \/ Carries(O, mv)
  BY <1>6, <1>7, <1>8, RenameCarries DEF Renames
<1> QED
  BY <1>9 DEF O

\* updateLeases
LEMMA LeasesCarried ==
  ASSUME NEW d, NEW mv \in LeaseMoves(b7), AtOld(b7, d, mv)
  PROVE  Clashing(UpdateLeasesOps(d)) \/ Carries(UpdateLeasesOps(d), mv)
<1> DEFINE O == UpdateLeasesOps(d)
<1>1. PICK id \in ServiceLeases(b7) :
        mv = Move("leases", id, "leases", NewLeaseID(b7["leases"][id]), {"namespace"}, {})
  BY DEF LeaseMoves
<1>2. /\ mv.from = "leases" /\ mv.old = id /\ mv.to = "leases"
      /\ mv.new = NewLeaseID(b7["leases"][id])
      /\ mv.rewritten = {"namespace"} /\ mv.counted = {}
  BY <1>1, MoveFields
<1>3. id \in DOMAIN d["leases"] /\ Alike(d["leases"][id], b7["leases"][id], {})
  BY <1>2 DEF AtOld
<1>4. id \in ServiceLeases(d)
  <2>1. "namespace" \notin Bookkeeping \cup {}
    BY DEF Bookkeeping
  <2>2. GetStringField(d["leases"][id], "namespace") = GetStringField(b7["leases"][id], "namespace")
    BY <1>3, <2>1, AlikeString
  <2> QED
    BY <1>3, <2>2 DEF ServiceLeases
<1> DEFINE doc == ReplaceBsonDField(CopyBsonDField(d["leases"][id]),
                                    "namespace", "application-leadership")
<1>5. Alike(doc, b7["leases"][id], {} \cup {"namespace"})
  BY <1>3, MadeAlike
<1>6. NewLeaseID(doc) = NewLeaseID(b7["leases"][id])
  <2>1. \A f \in {"name", "model-uuid", "type"} : f \notin Bookkeeping \cup ({} \cup {"namespace"})
    BY DEF Bookkeeping
  <2> HIDE DEF doc
  <2>2. \A f \in {"name", "model-uuid", "type"} :
          GetStringField(doc, f) = GetStringField(b7["leases"][id], f)
    BY <1>5, <2>1, AlikeString
  <2> QED
    BY <2>2 DEF NewLeaseID
<1>7. MoveOps("leases", id, "leases", NewLeaseID(doc), doc) \subseteq O
  BY <1>4 DEF UpdateLeasesOps
<1>8. Renames(O)
  BY RenamesAll
<1> HIDE DEF doc, O
<1>9. MoveOps(mv.from, mv.old, mv.to, mv.new, doc) \subseteq O
  BY <1>2, <1>6, <1>7
<1>10. Alike(doc, b7[mv.from][mv.old], mv.counted \cup mv.rewritten)
  BY <1>2, <1>5
<1>11. Clashing(O) \/ Carries(O, mv)
  BY <1>8, <1>9, <1>10, RenameCarries DEF Renames
<1> QED
  BY <1>11 DEF O

\* updateSequences
LEMMA SequencesCarried ==
  ASSUME NEW d, NEW mv \in SequenceMoves(b7), AtOld(b7, d, mv),
         \A id \in ServiceSequences(b7) :
           GetStringField(b7["sequence"][id], "model-uuid") = ModelOf(id)
  PROVE  Clashing(UpdateSequencesOps(d)) \/ Carries(UpdateSequencesOps(d), mv)
<1> DEFINE O == UpdateSequencesOps(d)
<1>1. PICK id \in ServiceSequences(b7) :
        mv = Move("sequence", id, "sequence",
                  DocID(ModelOf(id), ApplicationTag(b7["sequence"][id]["name"])), {"name"}, {})
  BY DEF SequenceMoves
<1>2. /\ mv.from = "sequence" /\ mv.old = id /\ mv.to = "sequence"
      /\ mv.new = DocID(ModelOf(id), ApplicationTag(b7["sequence"][id]["name"]))
      /\ mv.rewritten = {"name"} /\ mv.counted = {}
  BY <1>1, MoveFields
<1>3. id \in DOMAIN d["sequence"] /\ Alike(d["sequence"][id], b7["sequence"][id], {})
  BY <1>2 DEF AtOld
<1>4. id \in ServiceSequences(d) /\ d["sequence"][id]["name"] = b7["sequence"][id]["name"]
  <2>1. "name" \notin Bookkeeping \cup {}
    BY DEF Bookkeeping
  <2>2. /\ "name" \in DOMAIN d["sequence"][id] <=> "name" \in DOMAIN b7["sequence"][id]
        /\ "name" \in DOMAIN d["sequence"][id] =>
             d["sequence"][id]["name"] = b7["sequence"][id]["name"]
    BY <1>3, <2>1, AlikeFields
  <2> QED
    BY <1>3, <2>2 DEF ServiceSequences, Has
<1> DEFINE tag == ApplicationTag(d["sequence"][id]["name"])
           doc == ReplaceBsonDField(CopyBsonDField(d["sequence"][id]), "name", tag)
<1>5. Alike(doc, b7["sequence"][id], {} \cup {"name"})
  BY <1>3, MadeAlike
<1>6. GetStringField(doc, "model-uuid") = ModelOf(id)
  <2>1. "model-uuid" \notin Bookkeeping \cup ({} \cup {"name"})
    BY DEF Bookkeeping
  <2> HIDE DEF doc
  <2> QED
    BY <1>5, <2>1, AlikeString
<1>7. MoveOps("sequence", id, "sequence", DocID(GetStringField(doc, "model-uuid"), tag), doc)
        \subseteq O
  BY <1>4 DEF UpdateSequencesOps
<1>8. Renames(O)
  BY RenamesAll
<1>9. tag = ApplicationTag(b7["sequence"][id]["name"])
  BY <1>4
<1> HIDE DEF doc, O, tag
<1>10. MoveOps(mv.from, mv.old, mv.to, mv.new, doc) \subseteq O
  BY <1>2, <1>6, <1>7, <1>9
<1>11. Alike(doc, b7[mv.from][mv.old], mv.counted \cup mv.rewritten)
  BY <1>2, <1>5
<1>12. Clashing(O) \/ Carries(O, mv)
  BY <1>8, <1>10, <1>11, RenameCarries DEF Renames
<1> QED
  BY <1>12 DEF O

\* upgradeCloudImageMetadata
LEMMA ImagesCarried ==
  ASSUME NEW d, NEW mv \in ImageMoves(b7), AtOld(b7, d, mv)
  PROVE  \/ Clashing(UpgradeCloudImageMetadataOps(d))
         \/ Carries(UpgradeCloudImageMetadataOps(d), mv)
<1> DEFINE O == UpgradeCloudImageMetadataOps(d)
<1>1. PICK id \in DOMAIN b7["cloudimagemetadata"] :
        /\ Splits(id)
        /\ mv = Move("cloudimagemetadata", id, "cloudimagemetadata", LocalID(id), {}, {})
  BY DEF ImageMoves
<1>2. /\ mv.from = "cloudimagemetadata" /\ mv.old = id /\ mv.to = "cloudimagemetadata"
      /\ mv.new = LocalID(id) /\ mv.rewritten = {} /\ mv.counted = {}
  BY <1>1, MoveFields
<1> DEFINE found == d["cloudimagemetadata"][id]
           doc == CopyBsonDField(found)
<1>3. id \in DOMAIN d["cloudimagemetadata"] /\ Alike(found, b7["cloudimagemetadata"][id], {})
  BY <1>2 DEF AtOld
<1>4. Alike(doc, b7["cloudimagemetadata"][id], {})
  <2> HIDE DEF found
  <2> QED
    BY <1>3, MadeAlike
<1>5. MoveOps("cloudimagemetadata", id, "cloudimagemetadata", LocalID(id), doc) \subseteq O
  BY <1>1, <1>3 DEF UpgradeCloudImageMetadataOps
<1>6. Renames(O)
  BY RenamesAll
<1> HIDE DEF doc, O
<1>7. MoveOps(mv.from, mv.old, mv.to, mv.new, doc) \subseteq O
  BY <1>2, <1>5
<1>8. Alike(doc, b7[mv.from][mv.old], mv.counted \cup mv.rewritten)
  BY <1>2, <1>4
<1>9. Clashing(O) \/ Carries(O, mv)
  BY <1>6, <1>7, <1>8, RenameCarries DEF Renames
<1> QED
  BY <1>9 DEF O

\* The stage whose turn it is moves all that it is meant to move.
LEMMA StageCarries ==
  ASSUME ReadFor, \A mv \in Moves(b7) : MovedBy[mv.from] = pc => AtOld(b7, db, mv),
         \A id \in ServiceSequences(b7) :
           GetStringField(b7["sequence"][id], "model-uuid") = ModelOf(id),
         NEW mv \in Moves(b7), MovedBy[mv.from] = pc
  PROVE  Clashing(ops) \/ Carries(ops, mv)
<1>0. AtOld(b7, db, mv)
  OBVIOUS
<1>1. CASE mv \in ServiceMoves(b7) \cup ConstraintMoves(b7)
  <2>1. mv.from \in {"services", "storageconstraints"}
    BY <1>1, MoveFields DEF ServiceMoves, ConstraintMoves
  <2>2. pc = "moveServices"
    BY <2>1 DEF MovedBy
  <2>3. \A sv \in ServiceMoves(b7) : AtOld(b7, db, sv)
    BY <2>2, MoveFields DEF ServiceMoves, Moves, MovedBy
  <2> QED
    BY <1>0, <1>1, <2>2, <2>3, ServicesCarried, ConstraintsCarried DEF ReadFor
<1>2. CASE mv \in LeaseMoves(b7)
  <2>1. pc = "updateLeases"
    BY <1>2, MoveFields DEF LeaseMoves, MovedBy
  <2> QED
    BY <1>0, <1>2, <2>1, LeasesCarried DEF ReadFor
<1>3. CASE mv \in SequenceMoves(b7)
  <2>1. pc = "updateSequences"
    BY <1>3, MoveFields DEF SequenceMoves, MovedBy
  <2> QED
    BY <1>0, <1>3, <2>1, SequencesCarried DEF ReadFor
<1>4. CASE mv \in ImageMoves(b7)
  <2>1. pc = "upgradeCloudImageMetadata"
    BY <1>4, MoveFields DEF ImageMoves, MovedBy
  <2> QED
    BY <1>0, <1>4, <2>1, ImagesCarried DEF ReadFor
<1>5. ASSUME NEW c \in GlobalKeyed, mv \in KeyMoves(b7, c)
      PROVE  Clashing(ops) \/ Carries(ops, mv)
  <2>1. mv.from = c
    BY <1>5, MoveFields DEF KeyMoves
  <2>2. \A k \in GlobalKeyed : MovedBy[k] = k
    BY DEF MovedBy, GlobalKeyed
  <2>3. pc = c /\ ops = GlobalKeyOps(db, c, KeyName(c))
    BY <1>5, <2>1, <2>2 DEF ReadFor
  <2> QED
    BY <1>0, <1>5, <2>3, KeysCarried
<1> QED
  BY <1>1, <1>2, <1>3, <1>4, <1>5 DEF Moves

-----------------------------------------------------------------------------
(* The transaction at hand.                                                *)

\* A database as beta 7 left it, with what is assumed of the moves.
FoundAsAssumed == \E s \in B7States : b7 = s.db

LEMMA SequencesFound ==
  ASSUME FoundAsAssumed
  PROVE  \A id \in ServiceSequences(b7) :
           GetStringField(b7["sequence"][id], "model-uuid") = ModelOf(id)
  BY HomesAssumption DEF FoundAsAssumed

\* It moves documents as a whole, each to a place that it asserts to be free.
LEMMA OpsCarry ==
  ASSUME Running, InHand, HomesWait, FoundAsAssumed, live, inTxn
  PROVE  Clashing(ops) \/ \A mv \in Moves(b7) : Stays(ops, mv) \/ Carries(ops, mv)
<1>1. pc \in Transacting /\ (pc # "removeCleanups" => ReadFor)
  BY DEF Running, InHand
<1>2. CASE pc = "updateController"
  <2>1. ops = UpdateControllerOps(db, uuid)
    BY <1>1, <1>2 DEF ReadFor
  <2> QED
    BY <2>1, FirstStays DEF MovesNothing
<1>3. CASE pc = "removeCleanups"
  <2>1. About(ops, {"cleanups"})
    BY <1>3 DEF HomesWait, CleansOnly, About
  <2> QED
    BY <2>1, ElsewhereStays DEF MovesNothing, MovedBy
<1>4. CASE pc \in AfterController \ Writing
  <2>1. ReadFor /\ Done("updateController") /\ ~Done(pc)
    BY <1>1, <1>4, LateDone DEF AfterController
  <2>2. \A mv \in Moves(b7) : MovedBy[mv.from] = pc => AtOld(b7, db, mv)
    BY <2>1 DEF HomesWait, MovesWait
  <2> QED
    BY <1>4, <2>1, <2>2, SequencesFound, StageStays, StageCarries
<1> QED
  BY <1>1, <1>2, <1>3, <1>4 DEF Transacting

\* Only a run that has recorded its controller moves any, and it has resumed the
\* transactions of all others.
LEMMA OpsAlone ==
  ASSUME IdentityInv, OneRunMigrates, Running, InHand, CleansOnly, live, inTxn
  PROVE  MovesNothing(ops) \/ (txns = {} /\ RecordedUUIDs(db) # {})
<1>1. pc \in Transacting /\ (pc # "removeCleanups" => ReadFor)
  BY DEF Running, InHand
<1>2. CASE pc = "updateController"
  <2>1. ops = UpdateControllerOps(db, uuid)
    BY <1>1, <1>2 DEF ReadFor
  <2> QED
    BY <2>1, FirstStays
<1>3. CASE pc = "removeCleanups"
  <2>1. About(ops, {"cleanups"})
    BY <1>3 DEF CleansOnly, About
  <2> QED
    BY <2>1, ElsewhereStays DEF MovedBy
<1>4. CASE pc \in AfterController
  <2>1. RecordedUUIDs(db) = {uuid}
    BY <1>4 DEF OneRunMigrates
  <2>2. txns = {}
    BY <1>4 DEF IdentityInv, IdentityOwned, NothingPending, AfterController, AfterResume
  <2> QED
    BY <2>1, <2>2
<1> QED
  BY <1>1, <1>2, <1>3, <1>4 DEF Transacting

-----------------------------------------------------------------------------
(* What a step does to the documents that move.                            *)

\* What is said of the database that was found is said of the same one.
LEMMA SameFound ==
  ASSUME b7' = b7
  PROVE  /\ Moves(b7)' = Moves(b7)
         /\ \A O, mv : Carries(O, mv)' <=> Carries(O, mv)
         /\ \A t, mv : Moving(t, mv)' <=> Moving(t, mv)
         /\ \A O : MovesNothing(O)' <=> MovesNothing(O)
         /\ \A d, done, mv : HalfMoved(d, done, mv)' <=> HalfMoved(d, done, mv)
<1>1. Moves(b7)' = Moves(b7)
  OBVIOUS
<1>2. \A O, mv : Carries(O, mv)' <=> Carries(O, mv)
  BY DEF Carries, Puts
<1>3. \A t, mv : Moving(t, mv)' <=> Moving(t, mv)
  BY <1>2 DEF Moving
<1>4. \A O : MovesNothing(O)' <=> MovesNothing(O)
  BY DEF MovesNothing
<1>5. \A d, done, mv : HalfMoved(d, done, mv)' <=> HalfMoved(d, done, mv)
  BY DEF HalfMoved
<1> QED
  BY <1>1, <1>2, <1>3, <1>4, <1>5

\* Nothing happens to a document in the same database.
LEMMA SameStayed ==
  ASSUME NEW d, NEW mv
  PROVE  Stayed(d, d, mv)
  BY AlikeItself DEF Stayed

\* A document is still in one place, or on its way.
LEMMA HomeStays ==
  ASSUME NEW mv, Stayed(db, db', mv), b7' = b7
  PROVE  /\ AtOld(b7, db, mv) => AtOld(b7, db, mv)'
         /\ AtNew(b7, db, mv) => AtNew(b7, db, mv)'
         /\ \A done : HalfMoved(db, done, mv) => HalfMoved(db, done, mv)'
  BY StayedHome, SameFound

\* A step that does nothing to the documents.
LEMMA HomesStay ==
  ASSUME HomesKept, UNCHANGED <<txns, b7>>,
         \A mv \in Moves(b7) : Stayed(db, db', mv),
         RecordedUUIDs(db) \subseteq RecordedUUIDs(db')
  PROVE  HomesKept'
<1>1. TxnsCarry' /\ OneCarrier'
  BY SameFound DEF HomesKept, TxnsCarry, OneCarrier
<1>2. HalfCarried'
  BY SameFound, HomeStays DEF HomesKept, HalfCarried
<1>3. EachHasAHome'
  BY SameFound, HomeStays DEF HomesKept, EachHasAHome
<1>4. NothingMoved'
  BY SameFound, HomeStays DEF HomesKept, NothingMoved
<1> QED
  BY <1>1, <1>2, <1>3, <1>4 DEF HomesKept

-----------------------------------------------------------------------------
(* What becomes of the transactions that move documents.                   *)

\* The documents are in collections that there are.
LEMMA MovesInDB ==
  ASSUME ProcessInv, NEW mv \in Moves(b7)
  PROVE  mv.from \in DOMAIN db /\ mv.to \in DOMAIN db
  BY MovesWhere, MovedByWhom DEF ProcessInv, TypeOK, DiskOK

\* A transaction that is not alone moves nothing.
LEMMA SoleCarrier ==
  ASSUME HomesKept, NEW s \in txns, NEW t \in txns, s # t, NEW mv \in Moves(b7), Carries(s.ops, mv)
  PROVE  \A other \in Moves(b7) : Stays(t.ops, other)
  BY CarriesMoves DEF HomesKept, OneCarrier, MovesNothing

\* The transaction at hand stays behind.
LEMMA HomesLeft ==
  ASSUME ProcessInv, HomesKept, b7' = b7, LeavesBehind,
         RecordedUUIDs(db) \subseteq RecordedUUIDs(db'),
         Clashing(ops) \/ \A mv \in Moves(b7) : Stays(ops, mv) \/ Carries(ops, mv),
         MovesNothing(ops) \/ (txns = {} /\ RecordedUUIDs(db) # {})
  PROVE  HomesKept'
<1>1. CASE db' = db /\ txns' = txns \cup {Recorded}
  <2>1. Recorded.ops = ops /\ ~Recorded.applying
    BY DEF Recorded
  <2>3. TxnsCarry'
    BY <1>1, <2>1, SameFound DEF HomesKept, TxnsCarry
  <2>4. OneCarrier'
    BY <1>1, <2>1, SameFound DEF HomesKept, OneCarrier
  <2>5. HalfCarried'
    BY <1>1, <2>1, SameFound DEF HomesKept, HalfCarried, Moving
  <2>6. EachHasAHome'
    BY <1>1, SameFound DEF HomesKept, EachHasAHome
  <2>7. NothingMoved'
    BY <1>1, <2>1, SameFound DEF HomesKept, NothingMoved
  <2> QED
    BY <2>3, <2>4, <2>5, <2>6, <2>7 DEF HomesKept
<1>2. ASSUME Asserted(db, ops), NEW done \in SUBSET ops, db' = Apply(db, done),
             NEW t, t.ops = ops, t.done = done, t.applying, txns' = txns \cup {t}
      PROVE  HomesKept'
  <2>1. \A mv \in Moves(b7) : Stays(ops, mv) \/ Carries(ops, mv)
    BY <1>2, AssertedClear
  <2>2. \A mv \in Moves(b7) : Stays(ops, mv) => Stayed(db, db', mv)
    BY <1>2, MovesInDB, StaysStayed
  <2>3. ASSUME NEW mv \in Moves(b7), Carries(ops, mv)
        PROVE  txns = {} /\ HalfMoved(db', done, mv)
    <3>1. txns = {}
      BY <2>3, CarriesMoves DEF MovesNothing
    <3>2. mv.new \notin DOMAIN db[mv.to]
      BY <1>2, <2>3, CarriesAsserted
    <3> QED
      BY <1>2, <2>3, <3>1, <3>2, MovesInDB, CarriedHalf
  <2>4. TxnsCarry'
    BY <1>2, <2>1, SameFound DEF HomesKept, TxnsCarry
  <2>5. OneCarrier'
    BY <1>2, SameFound DEF HomesKept, OneCarrier
  <2>6. HalfCarried'
    <3>1. ASSUME NEW s \in txns', NEW mv \in Moves(b7), Moving(s, mv)
          PROVE  HalfMoved(db', s.done, mv)
      <4>1. CASE Carries(ops, mv)
        BY <1>2, <2>3, <4>1
      <4>2. CASE ~Carries(ops, mv)
        <5>1. s \in txns /\ Stayed(db, db', mv)
          BY <1>2, <2>1, <2>2, <3>1, <4>2 DEF Moving
        <5> QED
          BY <3>1, <5>1, StayedHome DEF HomesKept, HalfCarried
      <4> QED
        BY <4>1, <4>2
    <3> QED
      BY <3>1, SameFound DEF HalfCarried
  <2>7. EachHasAHome'
    <3>1. ASSUME NEW mv \in Moves(b7)
          PROVE  AtOld(b7, db', mv) \/ AtNew(b7, db', mv) \/ \E s \in txns' : Moving(s, mv)
      <4>1. CASE Carries(ops, mv)
        BY <1>2, <4>1 DEF Moving
      <4>2. CASE ~Carries(ops, mv)
        <5>1. Stayed(db, db', mv)
          BY <2>1, <2>2, <4>2
        <5> QED
          BY <1>2, <5>1, StayedHome DEF HomesKept, EachHasAHome
      <4> QED
        BY <4>1, <4>2
    <3> QED
      BY <3>1, SameFound DEF EachHasAHome
  <2>8. NothingMoved'
    <3> SUFFICES ASSUME RecordedUUIDs(db)' = {}
                 PROVE  /\ \A mv \in Moves(b7) : AtOld(b7, db', mv)
                        /\ \A s \in txns' : MovesNothing(s.ops)
      BY SameFound DEF NothingMoved
    <3>1. RecordedUUIDs(db) = {} /\ MovesNothing(ops)
      OBVIOUS
    <3>2. \A mv \in Moves(b7) : Stayed(db, db', mv)
      BY <2>2, <3>1 DEF MovesNothing
    <3> QED
      BY <1>2, <3>1, <3>2, StayedHome DEF HomesKept, NothingMoved
  <2> QED
    BY <2>4, <2>5, <2>6, <2>7, <2>8 DEF HomesKept
<1>3. ASSUME Asserted(db, ops), NEW done \in SUBSET ops, db' = Apply(db, done),
             txns' = txns \cup {[ops |-> ops, done |-> done, applying |-> TRUE]}
      PROVE  HomesKept'
  <2> DEFINE t == [ops |-> ops, done |-> done, applying |-> TRUE]
  <2>1. t.ops = ops /\ t.done = done /\ t.applying /\ txns' = txns \cup {t}
    BY <1>3
  <2> HIDE DEF t
  <2> QED
    BY <1>2, <1>3, <2>1
<1> QED
  BY <1>1, <1>3 DEF LeavesBehind

\* A pending transaction is completed.
LEMMA HomesComplete ==
  ASSUME ProcessInv, HomesKept, b7' = b7, NEW t \in txns, Complete(t),
         RecordedUUIDs(db) \subseteq RecordedUUIDs(db')
  PROVE  HomesKept'
<1>1. txns' = txns \ {t}
  BY DEF Complete
<1>2. \/ db' = db
      \/ \E S \in SUBSET t.ops : db' = Apply(db, S)
  BY DEF Complete
<1>3. ASSUME NEW mv \in Moves(b7), Stays(t.ops, mv)
      PROVE  Stayed(db, db', mv)
  BY <1>2, <1>3, MovesInDB, StaysStayed, SameStayed
<1>4. ASSUME NEW mv \in Moves(b7), NEW s \in txns', Moving(s, mv)
      PROVE  Stayed(db, db', mv)
  BY <1>1, <1>3, <1>4, SoleCarrier DEF Moving
<1>5. TxnsCarry' /\ OneCarrier'
  BY <1>1, SameFound DEF HomesKept, TxnsCarry, OneCarrier
<1>6. HalfCarried'
  <2>1. ASSUME NEW s \in txns', NEW mv \in Moves(b7), Moving(s, mv)
        PROVE  HalfMoved(db', s.done, mv)
    BY <1>1, <1>4, <2>1, StayedHome DEF HomesKept, HalfCarried
  <2> QED
    BY <2>1, SameFound DEF HalfCarried
<1>7. ASSUME NEW mv \in Moves(b7)
      PROVE  AtOld(b7, db', mv) \/ AtNew(b7, db', mv) \/ \E s \in txns' : Moving(s, mv)
  <2>1. \/ AtOld(b7, db, mv) \/ AtNew(b7, db, mv)
        \/ Moving(t, mv) \/ \E s \in txns' : Moving(s, mv)
    BY <1>1 DEF HomesKept, EachHasAHome
  <2>2. CASE Clashing(t.ops) /\ ~t.applying
    <3>1. db' = db
      BY <2>2, AssertedClear DEF Complete
    <3> QED
      BY <2>1, <2>2, <3>1 DEF Moving
  <2>3. CASE Stays(t.ops, mv)
    <3>1. ~Moving(t, mv)
      BY <2>3, CarriesMoves DEF Moving
    <3> QED
      BY <1>3, <2>1, <2>3, <3>1, StayedHome
  <2>4. CASE Carries(t.ops, mv) /\ t.applying
    <3>1. HalfMoved(db, t.done, mv)
      BY <2>4 DEF HomesKept, HalfCarried, Moving
    <3>2. t.done \in SUBSET t.ops
      BY DEF ProcessInv, TypeOK, DiskOK
    <3>3. db' = Apply(db, t.ops \ t.done)
      BY <2>4 DEF Complete
    <3> QED
      BY <2>4, <3>1, <3>2, <3>3, MovesInDB, CarriedOver
  <2>5. CASE Carries(t.ops, mv) /\ ~t.applying
    <3>1. \A s \in txns' : ~Moving(s, mv)
      <4>1. \A s \in txns' : s # t /\ s \in txns
        BY <1>1
      <4> QED
        BY <2>5, <4>1, SoleCarrier, CarriesMoves DEF Moving
    <3>2. AtOld(b7, db, mv) \/ AtNew(b7, db, mv)
      BY <2>1, <2>5, <3>1 DEF Moving
    <3>3. CASE Asserted(db, t.ops)
      <4>1. mv.new \notin DOMAIN db[mv.to]
        BY <2>5, <3>3, CarriesAsserted
      <4>2. db' = Apply(db, t.ops)
        BY <2>5, <3>3 DEF Complete
      <4> QED
        BY <2>5, <4>1, <4>2, MovesInDB, CarriedAtOnce
    <3>4. CASE ~Asserted(db, t.ops)
      <4>1. db' = db
        BY <2>5, <3>4 DEF Complete
      <4> QED
        BY <3>2, <4>1
    <3> QED
      BY <3>3, <3>4
  <2> QED
    BY <2>2, <2>3, <2>4, <2>5 DEF HomesKept, TxnsCarry
<1>8. EachHasAHome'
  BY <1>7, SameFound DEF EachHasAHome
<1>9. NothingMoved'
  <2> SUFFICES ASSUME RecordedUUIDs(db)' = {}
               PROVE  /\ \A mv \in Moves(b7) : AtOld(b7, db', mv)
                      /\ \A s \in txns' : MovesNothing(s.ops)
    BY SameFound DEF NothingMoved
  <2>1. /\ \A mv \in Moves(b7) : AtOld(b7, db, mv)
        /\ \A s \in txns : MovesNothing(s.ops)
    BY DEF HomesKept, NothingMoved
  <2> QED
    BY <1>1, <1>3, <2>1, StayedHome DEF MovesNothing
<1> QED
  BY <1>5, <1>6, <1>8, <1>9 DEF HomesKept

\* The transaction at hand goes through.
LEMMA HomesCommit ==
  ASSUME ProcessInv, HomesKept, UNCHANGED <<txns, b7>>, Asserted(db, ops), db' = Apply(db, ops),
         RecordedUUIDs(db) \subseteq RecordedUUIDs(db'),
         Clashing(ops) \/ \A mv \in Moves(b7) : Stays(ops, mv) \/ Carries(ops, mv),
         MovesNothing(ops) \/ (txns = {} /\ RecordedUUIDs(db) # {})
  PROVE  HomesKept'
<1>1. ASSUME NEW mv \in Moves(b7)
      PROVE  Stayed(db, db', mv) \/ AtNew(b7, db', mv)
  <2>1. CASE Stays(ops, mv)
    BY <2>1, MovesInDB, StaysStayed
  <2>2. CASE Carries(ops, mv)
    BY <2>2, MovesInDB, CarriesAsserted, CarriedAtOnce
  <2> QED
    BY <2>1, <2>2, AssertedClear
<1>2. CASE MovesNothing(ops)
  <2>1. \A mv \in Moves(b7) : Stayed(db, db', mv)
    BY <1>2, MovesInDB, StaysStayed DEF MovesNothing
  <2> QED
    BY <2>1, HomesStay
<1>3. CASE txns = {} /\ RecordedUUIDs(db) # {}
  <2>1. TxnsCarry' /\ OneCarrier' /\ HalfCarried'
    BY <1>3 DEF TxnsCarry, OneCarrier, HalfCarried
  <2>2. NothingMoved'
    BY <1>3 DEF NothingMoved
  <2>3. \A mv \in Moves(b7) : AtOld(b7, db', mv) \/ AtNew(b7, db', mv)
    BY <1>1, <1>3, StayedHome DEF HomesKept, EachHasAHome
  <2>4. EachHasAHome'
    BY <2>3, SameFound DEF EachHasAHome
  <2> QED
    BY <2>1, <2>2, <2>4 DEF HomesKept
<1> QED
  BY <1>2, <1>3

-----------------------------------------------------------------------------
(* What a running command relies on.                                       *)

\* As long as no stage is done that writes for 2.0, there is nothing to rely on.
LEMMA EarlyWait ==
  ASSUME CleansOnly', \A s \in AfterController \cup {"updateController"} : ~Done(s)'
  PROVE  HomesWait'
<1>1. \A mv \in Moves(b7') : MovedBy[mv.from] \in AfterController
  BY MovesWhere, MovedByWhom
<1> QED
  BY <1>1 DEF HomesWait, MovesWait, HaveMoved

\* The command stops, or has not got to updateController.
LEMMA StoppedWait ==
  ASSUME IdentityInv, CleanupsOfCleanDB, Running, HomesWait,
         \/ Quits \/ DryRunTransaction \/ (StageFinishes /\ ~live)
         \/ StagePrepares \/ StageCompletes \/ (Commit /\ pc = "removeCleanups")
  PROVE  HomesWait'
<1>1. CASE Quits
  <2>1. pc' = "idle" /\ inTxn' = FALSE /\ ~Succeeded'
    BY <1>1 DEF Quits, Exit, Succeeded
  <2> QED
    BY <2>1, EarlyNothing, EarlyWait DEF CleansOnly
<1>2. CASE DryRunTransaction \/ (StageFinishes /\ ~live)
  <2>1. ~live' /\ inTxn' = FALSE
    BY <1>2 DEF DryRunTransaction, StageFinishes, Continue, Exit
  <2> QED
    BY <2>1, EarlyNothing, EarlyWait DEF CleansOnly
<1>3. CASE StagePrepares \/ (Commit /\ pc = "removeCleanups")
  <2>1. Continue /\ pc \in Stages \ (AfterController \cup {"updateController"})
    BY <1>3 DEF StagePrepares, Commit, Stages, Follows, AfterController
  <2>2. inTxn' = FALSE
    BY <2>1 DEF Continue, Exit
  <2> QED
    BY <2>1, <2>2, StillEarly, EarlyNothing, EarlyWait DEF CleansOnly
<1>4. CASE StageCompletes
  <2>1. /\ live /\ pc \in Stages /\ UNCHANGED <<pc, cmd, live, uuid, context, ops, inTxn, exit, b7>>
        /\ txns # {}
    BY <1>4 DEF StageCompletes
  <2>2. pc \notin AfterResume
    BY <2>1 DEF IdentityInv, IdentityOwned, NothingPending
  <2>3. pc \notin AfterController /\ exit = "running"
    BY <2>1, <2>2, IdleNoStage DEF AfterResume, AfterController, Running
  <2>4. CleansOnly'
    BY <2>1 DEF HomesWait, CleansOnly
  <2> QED
    BY <2>1, <2>3, <2>4, EarlyNothing, EarlyWait
<1> QED
  BY <1>1, <1>2, <1>3, <1>4

\* Nothing happens to the documents, and no stage is done.
LEMMA WaitStay ==
  ASSUME HomesWait, b7' = b7, \A mv \in Moves(b7) : Stayed(db, db', mv),
         \A s : Done(s)' <=> Done(s), CleansOnly'
  PROVE  HomesWait'
<1>1. MovesWait'
  BY HomeStays DEF HomesWait, MovesWait
<1>2. HaveMoved'
  BY HomeStays DEF HomesWait, HaveMoved
<1> QED
  BY <1>1, <1>2 DEF HomesWait

\* updateController leaves the documents where beta 7 had them.
LEMMA ControllerWait ==
  ASSUME IdentityInv, CleanupsOfCleanDB, Running, InHand, HomesKept,
         Commit, pc = "updateController"
  PROVE  HomesWait'
<1>1. /\ live /\ inTxn /\ db' = Apply(db, ops) /\ Continue /\ b7' = b7 /\ inTxn' = FALSE
      /\ pc \in Stages
  BY DEF Commit, CanRun, Continue, Exit, Stages, Follows
<1>2. MovesNothing(ops)
  <2>1. ops = UpdateControllerOps(db, uuid)
    BY <1>1 DEF InHand, ReadFor
  <2> QED
    BY <2>1, FirstStays
<1>3. \A mv \in Moves(b7) : AtOld(b7, db, mv)
  BY FirstToRecord DEF HomesKept, NothingMoved
<1>4. \A mv \in Moves(b7) : Stayed(db, db', mv)
  BY <1>1, <1>2, MovesInDB, StaysStayed DEF MovesNothing, IdentityInv
<1>5. MovesWait'
  BY <1>1, <1>3, <1>4, HomeStays DEF MovesWait
<1>6. ASSUME NEW s \in AfterController
      PROVE  ~Done(s)'
  <2>1. s \in Stages /\ s # pc
    BY DEF AfterController, Stages, Follows
  <2>2. Rank["updateController"] = 6 /\ Rank[s] > 6 /\ Rank[s] \in 0..37
    BY <2>1, Ranks, LateRanks DEF Rank
  <2>3. ~Done(s)
    BY <1>1, <2>1, <2>2, DoneByRank
  <2> QED
    BY <1>1, <2>1, <2>3, DoneNext
<1>7. HaveMoved'
  BY <1>6, MovesWhere, MovedByWhom DEF HaveMoved
<1> QED
  BY <1>1, <1>5, <1>7 DEF HomesWait, CleansOnly

\* A late stage does nothing to the documents that another one moves.
LEMMA LateStayed ==
  ASSUME ProcessInv, Running, HomesWait, LateStep,
         NEW mv \in Moves(b7), MovedBy[mv.from] # pc
  PROVE  Stayed(db, db', mv)
<1>0. mv.from \in DOMAIN db /\ mv.to \in DOMAIN db /\ DOMAIN db = Collections
  BY MovesInDB DEF ProcessInv, TypeOK, DiskOK
<1>1. CASE Commit /\ pc \notin Writing /\ ReadFor
  <2>1. Stays(ops, mv)
    BY <1>1, StageStays DEF LateStep
  <2> QED
    BY <1>0, <1>1, <2>1, StaysStayed DEF Commit
<1>2. CASE StageFinishes /\ pc = "dropServices" /\ mv.from = "services"
  <2>1. mv \in ServiceMoves(b7) /\ mv.to = "applications"
    BY <1>2, MovesWhere
  <2>2. Done("moveServices")
    <3>1. "moveServices" \in Stages /\ Rank["moveServices"] = 8 /\ Rank["dropServices"] = 21
      BY DEF Stages, Follows, Rank
    <3> QED
      BY <1>2, <3>1, LateDone DEF LateStep
  <2>3. mv.old \notin DOMAIN db["services"]
    BY <1>2, <2>1, <2>2, MovedByWhom DEF HomesWait, HaveMoved, AtNew
  <2>4. db' = [db EXCEPT !["services"] = NoDoc]
    BY <1>2 DEF StageFinishes, LateStep, Drops
  <2>5. db'["services"] = NoDoc /\ db'["applications"] = db["applications"]
    BY <1>0, <1>2, <2>1, <2>4
  <2>6. DOMAIN NoDoc = {}
    BY DEF NoDoc
  <2> QED
    BY <1>2, <2>1, <2>3, <2>5, <2>6, AlikeItself DEF Stayed
<1>3. CASE StageFinishes /\ ~(pc = "dropServices" /\ mv.from = "services")
  <2>1. mv.from \notin Writes[pc] /\ mv.to \notin Writes[pc]
    <3>1. mv.from \in DOMAIN MovedBy
          /\ mv.to = IF mv.from = "services" THEN "applications" ELSE mv.from
      BY MovesWhere
    <3> QED
      BY <1>3, <3>1 DEF StageFinishes, Writing, Writes, MovedBy
  <2>2. db'[mv.from] = db[mv.from] /\ db'[mv.to] = db[mv.to]
    BY <1>0, <2>1, WritesOnly
  <2> QED
    BY <2>2, AlikeItself DEF Stayed
<1> QED
  BY <1>1, <1>2, <1>3 DEF LateStep

\* A stage moves its documents.
LEMMA TheyGo ==
  ASSUME ProcessInv, Running, HomesWait, FoundAsAssumed, LateStep,
         NEW mv \in Moves(b7), MovedBy[mv.from] = pc
  PROVE  AtNew(b7, db', mv)
<1>1. /\ Commit /\ ReadFor /\ live /\ Asserted(db, ops) /\ db' = Apply(db, ops)
      /\ pc \in AfterController \ Writing /\ pc \in AfterController
  <2>1. pc \in AfterController \ Writing
    BY MovesWhere, MovedByWhom
  <2> QED
    BY <2>1 DEF LateStep, StageFinishes, Commit
<1>2. mv \in Moves(b7) /\ MovedBy[mv.from] = pc
  OBVIOUS
<1>3. Done("updateController") /\ ~Done(pc)
  BY <1>1, LateDone
<1>4. \A m \in Moves(b7) : MovedBy[m.from] = pc => AtOld(b7, db, m)
  BY <1>3 DEF HomesWait, MovesWait
<1>5. Carries(ops, mv)
  BY <1>1, <1>2, <1>4, SequencesFound, StageCarries, AssertedClear
<1>6. mv.new \notin DOMAIN db[mv.to]
  BY <1>1, <1>5, CarriesAsserted
<1> QED
  BY <1>1, <1>2, <1>5, <1>6, MovesInDB, CarriedAtOnce

\* A late stage moves the documents that are its own.
LEMMA LateWait ==
  ASSUME ProcessInv, CleanupsOfCleanDB, Running, HomesWait, FoundAsAssumed, LateStep
  PROVE  HomesWait'
<1>1. /\ live /\ Continue /\ pc \in AfterController /\ pc \in Stages
      /\ inTxn' = FALSE /\ b7' = b7
  BY DEF LateStep, Commit, StageFinishes, Continue, Exit, AfterController
<1>2. CleansOnly'
  BY <1>1 DEF CleansOnly
<1>3. AfterController \cup {"updateController"} \subseteq Stages /\ "moveServices" \in Stages
      /\ Done("updateController")
  BY <1>1, LateDone DEF AfterController, Stages, Follows
<1>4. CASE \A s \in Stages : ~Done(s)'
  BY <1>2, <1>3, <1>4, EarlyWait
<1>5. CASE \A s \in Stages : Done(s)' <=> Done(s) \/ s = pc
  <2>1. MovesWait'
    <3>1. ASSUME NEW mv \in Moves(b7), ~Done(MovedBy[mv.from])'
          PROVE  AtOld(b7, db', mv)
      <4>1. MovedBy[mv.from] \in Stages
        BY MovesWhere, MovedByWhom
      <4>2. ~Done(MovedBy[mv.from]) /\ MovedBy[mv.from] # pc
        BY <1>5, <3>1, <4>1
      <4>3. AtOld(b7, db, mv)
        BY <1>3, <4>2 DEF HomesWait, MovesWait
      <4> QED
        BY <4>2, <4>3, LateStayed, StayedHome
    <3> QED
      BY <1>1, <3>1 DEF MovesWait
  <2>2. HaveMoved'
    <3>1. ASSUME NEW mv \in Moves(b7), Done(MovedBy[mv.from])'
          PROVE  AtNew(b7, db', mv)
      <4>1. CASE MovedBy[mv.from] = pc
        BY <4>1, TheyGo
      <4>2. CASE MovedBy[mv.from] # pc
        <5>1. MovedBy[mv.from] \in Stages
          BY MovesWhere, MovedByWhom
        <5>2. AtNew(b7, db, mv)
          BY <1>5, <3>1, <4>2, <5>1 DEF HomesWait, HaveMoved
        <5> QED
          BY <4>2, <5>2, LateStayed, StayedHome
      <4> QED
        BY <4>1, <4>2
    <3> QED
      BY <1>1, <3>1 DEF HaveMoved
  <2> QED
    BY <1>2, <2>1, <2>2 DEF HomesWait
<1> QED
  BY <1>1, <1>4, <1>5, DoneNext

-----------------------------------------------------------------------------
(* The steps of the upgrade.                                               *)

\* Emptying transaction queues does nothing to a document.
LEMMA ClearStayed ==
  ASSUME NEW mv, NEW d, NEW c, NEW ids, mv.from \in DOMAIN d, mv.to \in DOMAIN d
  PROVE  Stayed(d, ClearQueues(d, c, ids), mv)
<1> DEFINE e == ClearQueues(d, c, ids)
<1>1. ASSUME NEW a \in DOMAIN d, NEW id
      PROVE  /\ id \in DOMAIN d[a] <=> id \in DOMAIN e[a]
             /\ id \in DOMAIN d[a] => Alike(e[a][id], d[a][id], mv.counted)
  <2>1. \/ e[a] = d[a]
        \/ e[a] = [i \in DOMAIN d[a] |->
                     IF i \in ids THEN d[a][i] ++ Field("txn-queue", {}) ELSE d[a][i]]
    BY DEF ClearQueues
  <2>2. \A doc : Alike(doc ++ Field("txn-queue", {}), doc, mv.counted)
    BY DEF Alike, Without, ++, Field, Bookkeeping
  <2> HIDE DEF e
  <2> QED
    BY <2>1, <2>2, AlikeItself
<1> HIDE DEF e
<1>2. Stayed(d, e, mv)
  BY <1>1 DEF Stayed
<1> QED
  BY <1>2 DEF e

\* Nothing happens to the documents of the status history's neighbours.
LEMMA RenameStayed ==
  ASSUME ProcessInv, StageRenames, NEW mv \in Moves(b7)
  PROVE  Stayed(db, db', mv)
<1>1. mv.from \in DOMAIN db /\ mv.to \in DOMAIN db /\ DOMAIN db = Collections
  BY MovesInDB DEF ProcessInv, TypeOK, DiskOK
<1>2. mv.from \notin Writes[pc] /\ mv.to \notin Writes[pc]
  <2>1. mv.from \in DOMAIN MovedBy
        /\ mv.to = IF mv.from = "services" THEN "applications" ELSE mv.from
    BY MovesWhere
  <2> QED
    BY <2>1 DEF StageRenames, Writes, MovedBy
<1>3. db'[mv.from] = db[mv.from] /\ db'[mv.to] = db[mv.to]
  BY <1>1, <1>2, WritesOnly
<1> QED
  BY <1>3, AlikeItself DEF Stayed

\* A stage that writes without a transaction does nothing to the documents either.
LEMMA FinishStayed ==
  ASSUME ProcessInv, Running, HomesWait, StageFinishes, NEW mv \in Moves(b7)
  PROVE  Stayed(db, db', mv)
<1>1. CASE live
  <2>1. LateStep
    BY <1>1 DEF LateStep, StageFinishes, Writing, AfterController, Stages, Follows
  <2>2. MovedBy[mv.from] # pc
    BY MovesWhere, MovedByWhom DEF StageFinishes
  <2> QED
    BY <2>1, <2>2, LateStayed
<1>2. CASE ~live
  BY <1>2, SameStayed DEF StageFinishes
<1> QED
  BY <1>1, <1>2

\* What the database and the pending transactions say of the documents.
LEMMA KeptStep ==
  ASSUME IdentityInv, OneRunMigrates, Running, InHand, HomesInv, FoundAsAssumed,
         RecordedUUIDs(db) \subseteq RecordedUUIDs(db'),
         \/ StageReads \/ Quits \/ StagePrepares \/ StageCompletes
         \/ StageRenames \/ StageFinishes \/ DryRunTransaction \/ Commit
  PROVE  HomesKept'
<1>0. ProcessInv /\ HomesKept /\ HomesWait /\ CleansOnly
  BY DEF IdentityInv, HomesInv, HomesWait
<1>1. b7' = b7
  BY DEF StageReads, Quits, StagePrepares, StageCompletes, StageRenames, StageFinishes,
         DryRunTransaction, Commit, Continue, Exit
<1>2. ASSUME live, inTxn
      PROVE  /\ Clashing(ops) \/ \A mv \in Moves(b7) : Stays(ops, mv) \/ Carries(ops, mv)
             /\ MovesNothing(ops) \/ (txns = {} /\ RecordedUUIDs(db) # {})
  BY <1>0, <1>2, OpsCarry, OpsAlone
<1>3. CASE UNCHANGED <<db, txns>>
  <2>1. \A mv \in Moves(b7) : Stayed(db, db', mv)
    BY <1>3, SameStayed
  <2> QED
    BY <1>0, <1>1, <1>3, <2>1, HomesStay
<1>4. CASE live /\ inTxn /\ LeavesBehind
  BY <1>0, <1>1, <1>2, <1>4, HomesLeft
<1>5. CASE StagePrepares
  <2>1. \A mv \in Moves(b7) : Stayed(db, db', mv)
    BY <1>0, <1>5, MovesInDB, SameStayed, ClearStayed DEF StagePrepares, Collections
  <2> QED
    BY <1>0, <1>1, <1>5, <2>1, HomesStay DEF StagePrepares
<1>6. CASE StageCompletes
  BY <1>0, <1>1, <1>6, HomesComplete DEF StageCompletes
<1>7. CASE StageRenames
  <2>1. txns' = txns
    BY <1>7 DEF StageRenames
  <2> QED
    BY <1>0, <1>1, <1>7, <2>1, RenameStayed, HomesStay
<1>8. CASE StageFinishes
  <2>1. txns' = txns
    BY <1>8 DEF StageFinishes
  <2> QED
    BY <1>0, <1>1, <1>8, <2>1, FinishStayed, HomesStay
<1>9. CASE Commit
  <2>1. live /\ inTxn /\ UNCHANGED <<txns, b7>> /\ Asserted(db, ops) /\ db' = Apply(db, ops)
    BY <1>1, <1>9 DEF Commit, CanRun
  <2> QED
    BY <1>0, <1>2, <2>1, HomesCommit
<1>10. StageReads \/ DryRunTransaction => UNCHANGED <<db, txns>>
  BY DEF StageReads, DryRunTransaction, disk
<1>11. Quits => UNCHANGED <<db, txns>> \/ (live /\ inTxn /\ LeavesBehind)
  BY DEF Quits
<1> QED
  BY <1>3, <1>4, <1>5, <1>6, <1>7, <1>8, <1>9, <1>10, <1>11

\* What the command relies on.
LEMMA WaitStep ==
  ASSUME IdentityInv, CleanupsOfCleanDB, Running, InHand, HomesInv, FoundAsAssumed,
         \/ StageReads \/ Quits \/ StagePrepares \/ StageCompletes
         \/ StageRenames \/ StageFinishes \/ DryRunTransaction \/ Commit
  PROVE  HomesWait'
<1>0. ProcessInv /\ HomesKept /\ HomesWait
  BY DEF IdentityInv, HomesInv
<1>1. CASE StageReads
  <2>1. UNCHANGED <<db, pc, cmd, live, exit, b7>>
    BY <1>1 DEF StageReads
  <2>2. \A s : Done(s)' <=> Done(s)
    BY <2>1 DEF Done, Progress, Succeeded
  <2>3. \A mv \in Moves(b7) : Stayed(db, db', mv)
    BY <2>1, SameStayed
  <2>4. CleansOnly'
    <3>1. pc' = pc /\ (pc = "removeCleanups" => ops' = RemoveCleanupsOps(db))
      BY <1>1 DEF StageReads
    <3> QED
      BY <3>1, SchemaAbout DEF CleansOnly, About
  <2> QED
    BY <1>0, <2>1, <2>2, <2>3, <2>4, WaitStay
<1>2. CASE StageRenames
  <2>1. UNCHANGED <<pc, cmd, live, ops, inTxn, exit, b7>>
    BY <1>2 DEF StageRenames
  <2>2. \A s : Done(s)' <=> Done(s)
    BY <2>1 DEF Done, Progress, Succeeded
  <2>3. CleansOnly'
    BY <1>0, <2>1 DEF HomesWait, CleansOnly
  <2> QED
    BY <1>0, <1>2, <2>1, <2>2, <2>3, RenameStayed, WaitStay
<1>3. CASE StageFinishes /\ live
  <2>1. LateStep
    BY <1>3 DEF LateStep, StageFinishes, Writing, AfterController, Stages, Follows
  <2> QED
    BY <1>0, <2>1, LateWait
<1>4. CASE Commit
  <2>1. pc \in Transacting /\ live /\ inTxn
    BY <1>4 DEF Commit, CanRun, Running
  <2>2. CASE pc \in AfterController \ Writing
    <3>1. LateStep
      BY <1>4, <2>1, <2>2 DEF LateStep, InHand, AfterController
    <3> QED
      BY <1>0, <3>1, LateWait
  <2> QED
    BY <1>0, <1>4, <2>1, <2>2, ControllerWait, StoppedWait DEF Transacting
<1> QED
  BY <1>0, <1>1, <1>2, <1>3, <1>4, StoppedWait

\* Every step keeps the invariant.
LEMMA HomesStep ==
  ASSUME IdentityInv, PromiseInv, OneRunMigrates, StagesInv, FoundAsAssumed, HomesInv,
         [Next]_vars
  PROVE  HomesInv' /\ FoundAsAssumed'
<1>0. /\ ProcessInv /\ HomesKept /\ HomesWait /\ Running /\ InHand /\ CleanupsOfCleanDB
  BY DEF IdentityInv, HomesInv, StagesInv, PromiseInv
<1>1. ASSUME NEW command \in DOMAIN FirstStage, NEW forReal \in BOOLEAN,
             Start(command, forReal)
      PROVE  HomesInv' /\ b7' = b7
  <2>1. /\ UNCHANGED <<db, txns, inTxn, b7>> /\ exit' = "running"
        /\ pc' \in Stages \ AfterController /\ ~inTxn
    BY <1>0, <1>1, IdleNoStage DEF Start, disk, FirstStage, AfterController, Stages, Follows,
                                   Running, Transacting
  <2>2. HomesKept'
    BY <1>0, <2>1, SameStayed, HomesStay
  <2>3. HomesWait'
    BY <2>1, EarlyNothing, EarlyWait DEF CleansOnly
  <2> QED
    BY <2>1, <2>2, <2>3 DEF HomesInv
<1>2. CASE Step \/ Failure
  <2>1. \/ StageReads \/ Quits \/ StagePrepares \/ StageCompletes
        \/ StageRenames \/ StageFinishes \/ DryRunTransaction \/ Commit
    BY <1>0, <1>2, StageKinds
  <2>2. RecordedUUIDs(db) \subseteq RecordedUUIDs(db')
    <3>1. SameUUIDs(db, db')
      BY <1>2, IdentityStep DEF Keeps, Next
    <3> QED
      BY <3>1, RecordedStay
  <2>3. HomesKept' /\ HomesWait'
    BY <1>0, <2>1, <2>2, KeptStep, WaitStep
  <2>4. b7' = b7
    BY <2>1 DEF StageReads, Quits, StagePrepares, StageCompletes, StageRenames, StageFinishes,
                DryRunTransaction, Commit, Continue, Exit
  <2> QED
    BY <2>3, <2>4 DEF HomesInv, FoundAsAssumed
<1>3. CASE UNCHANGED vars
  <2>1. UNCHANGED <<db, txns, pc, cmd, live, ops, inTxn, exit, b7>>
    BY <1>3 DEF vars, disk
  <2>2. \A s : Done(s)' <=> Done(s)
    BY <2>1 DEF Done, Progress, Succeeded
  <2>3. CleansOnly'
    BY <1>0, <2>1 DEF HomesWait, CleansOnly
  <2>4. \A mv \in Moves(b7) : Stayed(db, db', mv)
    BY <2>1, SameStayed
  <2>5. HomesKept' /\ HomesWait'
    BY <1>0, <2>1, <2>2, <2>3, <2>4, HomesStay, WaitStay
  <2> QED
    BY <2>1, <2>5 DEF HomesInv, FoundAsAssumed
<1> QED
  BY <1>1, <1>2, <1>3 DEF Next, Finished, FoundAsAssumed

\* Initially the documents are where beta 7 had them.
LEMMA HomesInit ==
  ASSUME Init
  PROVE  HomesInv /\ FoundAsAssumed
<1>1. PICK s \in B7States : db = s.db /\ txns = s.txns /\ b7 = s.db
  BY DEF Init
<1>2. ~live /\ ~inTxn
  BY DEF Init
<1>3. \A mv \in Moves(b7) : AtOld(b7, db, mv)
  BY <1>1, HomesAssumption, AlikeItself DEF AtOld
<1>4. \A t \in txns : MovesNothing(t.ops)
  BY <1>1, HomesAssumption DEF MovesNothing
<1>5. TxnsCarry /\ OneCarrier /\ HalfCarried
  BY <1>4, CarriesMoves DEF TxnsCarry, OneCarrier, HalfCarried, MovesNothing, Moving
<1>6. EachHasAHome /\ NothingMoved
  BY <1>3, <1>4 DEF EachHasAHome, NothingMoved
<1>7. HomesWait
  BY <1>2 DEF HomesWait, MovesWait, HaveMoved, CleansOnly, Done
<1> QED
  BY <1>1, <1>5, <1>6, <1>7 DEF HomesInv, HomesKept, FoundAsAssumed

LEMMA HomesAlways == Spec => [](HomesInv /\ FoundAsAssumed)
<1>1. IdentityInv /\ PromiseInv /\ OneRunMigrates /\ StagesInv /\ FoundAsAssumed /\ HomesInv
        /\ [Next]_vars => HomesInv' /\ FoundAsAssumed'
  BY HomesStep
<1> QED
  BY <1>1, HomesInit, IdentityInvariant, PromiseInvariant, OneMigration, StagesInvariant, PTL
     DEF Spec

\* A document that the upgrade moves is in its old place, in its new one or in the
\* hands of the one transaction that moves it, and a live upgrade finds it where
\* beta 7 had it when its stage comes.
THEOREM HomesInvariant == Spec => []HomesInv
  BY HomesAlways, PTL

\* Unless a transaction is half carried out, every document is in exactly one place
\* and says what it said.
THEOREM OneHomeEach == Spec => []EveryDocumentHasOneHome
<1>1. HomesInv => EveryDocumentHasOneHome
  <2> SUFFICES ASSUME HomesInv, ~HalfApplied, NEW mv \in Moves(b7)
               PROVE  OneHome(mv)
    BY DEF EveryDocumentHasOneHome
  <2>1. AtOld(b7, db, mv) \/ AtNew(b7, db, mv)
    BY DEF HomesInv, HomesKept, EachHasAHome, Moving, HalfApplied
  <2>2. ASSUME AtOld(b7, db, mv)
        PROVE  OneHome(mv)
    <3>1. /\ mv.old \in DOMAIN db[mv.from] /\ mv.new \notin DOMAIN db[mv.to]
          /\ Alike(db[mv.from][mv.old], b7[mv.from][mv.old], mv.counted)
      BY <2>2 DEF AtOld
    <3>2. Alike(db[mv.from][mv.old], b7[mv.from][mv.old], mv.counted \cup mv.rewritten)
      BY <3>1, AlikeItself, AlikeOn
    <3> QED
      BY <3>1, <3>2 DEF OneHome
  <2> QED
    BY <2>1, <2>2 DEF AtNew, OneHome
<1> QED
  BY <1>1, HomesInvariant, PTL

\* What a live upgrade-db that reports success has done (upgradedb.go:83-186): no
\* transaction is pending, every model knows its controller, its cloud and its
\* credential, no document speaks of services, also no endpoint of a relation, every
\* document that moves is where 2.0 looks for it, charms, users, model users and
\* machines say what 2.0 has them say, every application has all its documents and
\* the agents find their tools, units and provider ids.
THEOREM SuccessMeansUpgraded == Spec => []OkMeansUpgraded
<1>1. StagesInv /\ HomesInv => OkMeansUpgraded
  <2> SUFFICES ASSUME StagesInv, HomesInv, Succeeded
               PROVE  /\ txns = {} /\ IdentityGiven /\ NoServiceLeft /\ EverythingMoved
                      /\ OthersRenewed /\ ApplicationsComplete /\ AgentsReady
    BY DEF OkMeansUpgraded, Succeeded
  <2>0. \A s \in Stages : Done(s)
    BY SuccessDone
  <2>1. /\ {"updateModels", "moveServices", "updateUnits", "upgradeMachines", "reopenState"}
           \subseteq Stages
        /\ ApplicationKeyed \subseteq Stages
    BY DEF Stages, Follows, ApplicationKeyed
  <2>2. \A c \in Renewed : IsNew(db, c)
    <3>1. \A c \in Renewed : StageOf(c) \in Stages
      BY StagesOf DEF Renewed, GlobalKeyed, Provided, Stages, Follows
    <3> QED
      BY <2>0, <3>1 DEF StagesInv, RenewedByStage
  <2>3. txns = {} /\ IdentityGiven
    BY <2>0, <2>1 DEF StagesInv, Opened, ModelsTold, Told, IdentityGiven
  <2>4. NoServiceLeft
    BY <2>0, <2>1, <2>2, NewMeans DEF NoServiceLeft, Renewed, StagesInv, UnitsMoved
  <2>5. ApplicationsComplete
    <3>1. ASSUME NEW id \in DOMAIN db["applications"], NEW c \in ApplicationKeyed
          PROVE  KeyedDoc(c, "a", id, CharmURL(db["applications"][id])) \in DOMAIN db[c]
      BY <2>0, <2>1 DEF StagesInv, ApplicationsFollow
    <3>2. \A id \in DOMAIN db["applications"] :
            NewConstraintID(id, CharmURL(db["applications"][id])) \in DOMAIN db["storageconstraints"]
      BY <2>0, <2>1 DEF StagesInv, ApplicationsFollow
    <3> QED
      BY <3>1, <3>2 DEF ApplicationsComplete, KeyedDoc, ApplicationKeyed
  <2>6. AgentsReady
    BY <2>0, <2>1, <2>2, NewMeans DEF AgentsReady, Renewed, Provided, StagesInv, UnitsMoved, Opened
  <2>7. EverythingMoved
    BY <2>0, MovesWhere, MovedByWhom DEF HomesInv, HomesWait, HaveMoved, EverythingMoved
  <2>8. OthersRenewed
    BY <2>0, <2>1, <2>2, NewMeans DEF OthersRenewed, Renewed, StagesInv, ContainersLeft
  <2> QED
    BY <2>3, <2>4, <2>5, <2>6, <2>7, <2>8
<1> QED
  BY <1>1, StagesInvariant, HomesInvariant, PTL
=============================================================================
