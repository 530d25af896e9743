-------------------------------- MODULE Codec --------------------------------
(***************************************************************************)
(* How values cross the boundary to a host: cino-codec turns CBOR data     *)
(* items into VM values and back, and the command line tool does the same  *)
(* with JSON (json_to_vm_value, vm_value_to_json of cino-cli).             *)
(*                                                                         *)
(* A conversion that can fail gives a set of at most one value: every      *)
(* failure is the same error.                                              *)
(*                                                                         *)
(* The four conversions recur.  They are constants, and CodecEquations     *)
(* says what they are: each ...Step unfolds one of them once.  ProgramWalk *)
(* defines them by these equations for TLC; the proofs use the equations   *)
(* and nothing else.                                                       *)
(***************************************************************************)
EXTENDS VmValue

CONSTANTS
  FromCbor(_),   \* vm_value_from_cbor, an option
  ToCbor(_),     \* cbor_from_vm_value
  FromJson(_),   \* json_to_vm_value, an option
  ToJson(_)      \* vm_value_to_json

(***************************************************************************)
(* ciborium::Value.  A map is the sequence of its entries as they stood in *)
(* the bytes: keys may be of any type, in any order, and may repeat.       *)
(* "other" stands for floats, byte strings, tags and integers that do not  *)
(* fit in an i64; "malformed" for bytes that are no CBOR at all.           *)
(***************************************************************************)
NullC       == [c |-> "null"]
BoolC(b)    == [c |-> "bool", bool |-> b]
IntC(i)     == [c |-> "int", int |-> i]
TextC(s)    == [c |-> "text", text |-> s]
ArrayC(s)   == [c |-> "array", items |-> s]
MapC(es)    == [c |-> "map", entries |-> es]
OtherC      == [c |-> "other"]
MalformedC  == [c |-> "malformed"]
Entry(k, v) == [key |-> k, val |-> v]

(* All of the options there are in os, or none. *)
Every(os) ==
  IF \E i \in DOMAIN os : os[i] = {} THEN {}
  ELSE {[i \in DOMAIN os |-> CHOOSE v \in os[i] : TRUE]}

EveryCbor(s) == Every([i \in DOMAIN s |-> FromCbor(s[i])])
EveryJson(f) == Every([k \in DOMAIN f |-> FromJson(f[k])])

(***************************************************************************)
(* vm_value_from_cbor and parse_vm_map.                                    *)
(***************************************************************************)
HasTupleKey(es) == \E i \in DOMAIN es : es[i].key = TextC("$tuple")
AsTuple(es) == Len(es) = 1 /\ es[1].key = TextC("$tuple")

At(es, k) == {i \in DOMAIN es : es[i].key = TextC(k)}

(***************************************************************************)
(* The entries of es at the places S, all of whose keys must be text, as a *)
(* BTreeMap: of two with the same key the later one stays.                 *)
(***************************************************************************)
FromEntries(es, S) ==
  IF \E i \in S : es[i].key.c # "text" THEN {}
  ELSE {[k \in {es[i].key.text : i \in S} |-> vs[Max(At(es, k))]] :
          vs \in Every([i \in S |-> FromCbor(es[i].val)])}

FromFields(m) == IF m.c # "map" THEN {} ELSE FromEntries(m.entries, DOMAIN m.entries)

FromMap(es) ==
  IF AsTuple(es)
    THEN IF es[1].val.c # "array" THEN {} ELSE {TupleV(vs) : vs \in EveryCbor(es[1].val.items)}
  ELSE LET tags   == At(es, "$tag")
           fields == At(es, "$fields")
           rest   == FromEntries(es, DOMAIN es \ (tags \cup fields))
       IN  IF \/ rest = {}
              \/ \E i \in tags : es[i].val.c # "text"
              \/ \E i \in fields : FromFields(es[i].val) = {}
             THEN {}
           ELSE IF tags \cup fields = {} THEN {MapV(f) : f \in rest}
           ELSE IF tags = {} \/ fields = {} THEN {}
           ELSE {EnumV(es[Max(tags)].val.text, f) : f \in FromFields(es[Max(fields)].val)}

FromCborStep(d) ==
  CASE d.c = "null"  -> {UnitV}
    [] d.c = "bool"  -> {BoolV(d.bool)}
    [] d.c = "int"   -> {IntV(d.int)}
    [] d.c = "text"  -> {StringV(d.text)}
    [] d.c = "array" -> {ListV(vs) : vs \in EveryCbor(d.items)}
    [] d.c = "map"   -> FromMap(d.entries)
    [] OTHER         -> {}

DecodeValue(d) ==
  IF d = MalformedC THEN Err("Decode", "malformed")
  ELSE IF FromCbor(d) = {} THEN Err("InvalidFormat", "format")
  ELSE Ok(CHOOSE v \in FromCbor(d) : TRUE)

(***************************************************************************)
(* cbor_from_vm_value.  A BTreeMap iterates its keys in ascending order,   *)
(* here in any one: no reader looks at where an entry stands.              *)
(***************************************************************************)
Listed(f) ==
  LET keys == SetToSeq(DOMAIN f)
  IN  MapC([i \in DOMAIN keys |-> Entry(TextC(keys[i]), f[keys[i]])])

Entries(f) == Listed([k \in DOMAIN f |-> ToCbor(f[k])])
Items(s)   == ArrayC([i \in DOMAIN s |-> ToCbor(s[i])])

ToCborStep(v) ==
  CASE v.t = "Unit"   -> NullC
    [] v.t = "Int"    -> IntC(v.int)
    [] v.t = "Bool"   -> BoolC(v.bool)
    [] v.t = "String" -> TextC(v.string)
    [] v.t = "List"   -> Items(v.items)
    [] v.t = "Tuple"  -> MapC(<<Entry(TextC("$tuple"), Items(v.items))>>)
    [] v.t = "Map"    -> Entries(v.entries)
    [] v.t = "Enum"   -> MapC(<<Entry(TextC("$fields"), Entries(v.fields)),
                                Entry(TextC("$tag"), TextC(v.tag))>>)

EncodeValue(v) == Ok(ToCbor(v))

------------------------------------------------------------------------------
(***************************************************************************)
(* serde_json::Value.  An object is a function of its keys; "number" is a  *)
(* number that is not an i64.                                              *)
(***************************************************************************)
NullJ       == [j |-> "null"]
BoolJ(b)    == [j |-> "bool", bool |-> b]
IntJ(i)     == [j |-> "int", int |-> i]
StringJ(s)  == [j |-> "string", string |-> s]
ArrayJ(s)   == [j |-> "array", items |-> s]
ObjectJ(f)  == [j |-> "object", members |-> f]
NumberJ     == [j |-> "number"]

FromObject(f) ==
  CASE DOMAIN f = {"$tuple"} ->
         IF f["$tuple"].j # "array" THEN {}
         ELSE {TupleV(vs) : vs \in EveryJson(f["$tuple"].items)}
    [] {"$tag", "$fields"} \subseteq DOMAIN f ->
         IF f["$tag"].j # "string" \/ f["$fields"].j # "object" THEN {}
         ELSE {EnumV(f["$tag"].string, g) : g \in EveryJson(f["$fields"].members)}
    [] OTHER -> {MapV(g) : g \in EveryJson(f)}

FromJsonStep(j) ==
  CASE j.j = "null"   -> {UnitV}
    [] j.j = "bool"   -> {BoolV(j.bool)}
    [] j.j = "int"    -> {IntV(j.int)}
    [] j.j = "string" -> {StringV(j.string)}
    [] j.j = "array"  -> {ListV(vs) : vs \in EveryJson(j.items)}
    [] j.j = "object" -> FromObject(j.members)
    [] OTHER          -> {}

(* An enum with its members, or without them where there are none. *)
BareEnumJ(tag, members) ==
  ObjectJ([k \in {"$tag"} \cup {"$fields" : m \in DOMAIN members.members} |->
             IF k = "$tag" THEN StringJ(tag) ELSE members])
EnumJ(tag, members) ==
  ObjectJ([k \in {"$tag", "$fields"} |-> IF k = "$tag" THEN StringJ(tag) ELSE members])

Members(f)  == ObjectJ([k \in DOMAIN f |-> ToJson(f[k])])
Elements(s) == ArrayJ([i \in DOMAIN s |-> ToJson(s[i])])

ToJsonStep(v) ==
  CASE v.t = "Unit"   -> NullJ
    [] v.t = "Int"    -> IntJ(v.int)
    [] v.t = "Bool"   -> BoolJ(v.bool)
    [] v.t = "String" -> StringJ(v.string)
    [] v.t = "List"   -> Elements(v.items)
    [] v.t = "Tuple"  -> ObjectJ([k \in {"$tuple"} |-> Elements(v.items)])
    [] v.t = "Map"    -> Members(v.entries)
    [] v.t = "Enum"   -> EnumJ(v.tag, Members(v.fields))

CodecEquations ==
  /\ \A d : FromCbor(d) = FromCborStep(d)
  /\ \A v : ToCbor(v) = ToCborStep(v)
  /\ \A j : FromJson(j) = FromJsonStep(j)
  /\ \A v : ToJson(v) = ToJsonStep(v)

=============================================================================
