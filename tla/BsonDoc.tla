------------------------------- MODULE BsonDoc -------------------------------
(***************************************************************************)
(* Documents and document ids as upgradedb.go handles them.                *)
(*                                                                         *)
(* A document is a function from field names to values; a field that is    *)
(* missing is outside the domain. The nested settings map of a settings    *)
(* document and the nested tools document are flattened, so               *)
(* "settings.type" is the field "type".                                    *)
(*                                                                         *)
(* A document id is the tuple of its parts: "m:s#app" is <<m, "s", app>>.  *)
(* The first part is what stands before the first ":".                     *)
(***************************************************************************)
EXTENDS Integers, Sequences

NoDoc == [f \in {} |-> {}]

Field(name, value) == [f \in {name} |-> value]

\* The document d with the fields of e added or overwritten (a $set of e).
d ++ e == [f \in (DOMAIN d) \cup (DOMAIN e) |->
             IF f \in DOMAIN e THEN e[f] ELSE d[f]]

Without(d, names) == [f \in (DOMAIN d) \ names |-> d[f]]

Has(d, name) == name \in DOMAIN d

-----------------------------------------------------------------------------
(* readBsonDField, getStringField, getIntField, removeBsonDField,          *)
(* replaceBsonDField, copyBsonDField. The numbers read with getIntField    *)
(* are decoded from BSON as the Go type int.                               *)

ReadBsonDField(d, name) == IF Has(d, name) THEN d[name] ELSE "nil"

GetStringField(d, name) == IF Has(d, name) THEN d[name] ELSE ""

GetIntField(d, name) == IF Has(d, name) THEN d[name] ELSE 0

RemoveBsonDField(d, name) == Without(d, {name})

\* Replaces the value of a field that is there, adds nothing.
ReplaceBsonDField(d, name, value) ==
  [f \in DOMAIN d |-> IF f = name THEN value ELSE d[f]]

CopyBsonDField(d) == Without(d, {"_id", "txn-revno", "txn-queue"})

-----------------------------------------------------------------------------
(* splitDocID: the model UUID before the first ":" and the local id after  *)
(* it; an id without ":" does not split.                                   *)

Splits(id)     == Len(id) > 1
ModelOf(id)    == Head(id)
LocalID(id)    == Tail(id)
DocID(m, local) == <<m>> \o local
=============================================================================
