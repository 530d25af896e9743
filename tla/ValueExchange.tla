---------------------------- MODULE ValueExchange ----------------------------
(***************************************************************************)
(* A value on its way between a host and the VM.  The host hands in a CBOR *)
(* data item (cino_value_new_from_cbor and every function that reads a     *)
(* cino_value_t) or a JSON text (the command line tool); what the VM holds *)
(* is handed out again in either form (cino_state_to_value, cino_query,    *)
(* cino_update; the output of "cino run"), and the host hands it back in:  *)
(* a counter's state makes this round trip between any two invocations.    *)
(***************************************************************************)
EXTENDS Codec, FiniteSets

CONSTANTS
  CborInputs,      \* what hosts hand in as CBOR
  JsonInputs,      \* what users hand in as JSON
  CborWithin(_),   \* a data item and all that is in it
  JsonWithin(_),   \* a JSON document and all that is in it
  CborOf(_)        \* the CBOR image of a JSON document

VARIABLES
  origin,   \* the form and the data the host handed in at first
  at,       \* "cbor", "json": data in that form; "vm"; "refused"
  data,     \* what is at the host, or the value in the VM
  first     \* the value the VM had at first, as a set of at most one

vars == <<origin, at, data, first>>

Init ==
  /\ origin \in {<<"cbor", d>> : d \in CborInputs} \cup {<<"json", j>> : j \in JsonInputs}
  /\ at = origin[1]
  /\ data = origin[2]
  /\ first = {}

Decoded ==
  CASE at = "cbor" -> DecodeValue(data)
    [] at = "json" -> IF FromJson(data) = {} THEN Err("InvalidInput", "json")
                      ELSE Ok(CHOOSE v \in FromJson(data) : TRUE)

Receive ==
  /\ at \in {"cbor", "json"}
  /\ Decoded.ok
  /\ at' = "vm"
  /\ data' = Decoded.val
  /\ first' = IF first = {} THEN {data'} ELSE first
  /\ UNCHANGED origin

Refuse ==
  /\ at \in {"cbor", "json"}
  /\ ~Decoded.ok
  /\ at' = "refused"
  /\ UNCHANGED <<origin, data, first>>

SendCbor ==
  /\ at = "vm"
  /\ at' = "cbor"
  /\ data' = EncodeValue(data).val
  /\ UNCHANGED <<origin, first>>

SendJson ==
  /\ at = "vm"
  /\ at' = "json"
  /\ data' = ToJson(data)
  /\ UNCHANGED <<origin, first>>

Next == Receive \/ Refuse \/ SendCbor \/ SendJson

Spec == Init /\ [][Next]_vars

------------------------------------------------------------------------------
(***************************************************************************)
(* Documents are finite trees.  The members of a "$fields" are fields, not *)
(* a document of their own, whatever their names.                          *)
(***************************************************************************)
CborParts(d) ==
  CASE d.c = "array" -> Range(d.items)
    [] d.c = "map"   -> {d.entries[i].val : i \in DOMAIN d.entries}
    [] OTHER         -> {}

JsonMember(k, j) == IF k = "$fields" /\ j.j = "object" THEN Range(j.members) ELSE {j}

JsonParts(j) ==
  CASE j.j = "array"  -> Range(j.items)
    [] j.j = "object" -> UNION {JsonMember(k, j.members[k]) : k \in DOMAIN j.members}
    [] OTHER          -> {}

WithinEquations ==
  /\ \A d : CborWithin(d) = {d} \cup UNION {CborWithin(x) : x \in CborParts(d)}
  /\ \A j : JsonWithin(j) = {j} \cup UNION {JsonWithin(x) : x \in JsonParts(j)}

CborShape(d) ==
  d.c = "map" =>
    /\ d.entries \in Seq(Range(d.entries))
    /\ \A i \in DOMAIN d.entries :
         LET k == d.entries[i].key IN k.c = "text" => k = TextC(k.text)

JsonShape(j) ==
  j.j = "object" =>
    /\ IsFiniteSet(DOMAIN j.members)
    /\ \A k \in DOMAIN j.members :
         j.members[k].j = "object" => IsFiniteSet(DOMAIN j.members[k].members)

ASSUME InputAssumption ==
  /\ \A d \in CborInputs : \A x \in CborWithin(d) :
       /\ CborShape(x) /\ IsFiniteSet(CborWithin(x))
       /\ \A y \in CborParts(x) : x \notin CborWithin(y)
  /\ \A j \in JsonInputs : \A x \in JsonWithin(j) :
       /\ JsonShape(x) /\ IsFiniteSet(JsonWithin(x))
       /\ \A y \in JsonParts(x) : x \notin JsonWithin(y)

(***************************************************************************)
(* The inputs for which a round trip can be relied on.  A CBOR map that    *)
(* repeats a key can collapse to one that is read as a tuple.  A JSON      *)
(* object with only one of "$tag" and "$fields" is accepted as a map that  *)
(* has no CBOR form, and what stands beside both is dropped unread.        *)
(***************************************************************************)
UniqueKeys(d) ==
  d.c = "map" =>
    \A i, k \in DOMAIN d.entries : i # k => d.entries[i].key # d.entries[k].key

WholeTag(j) ==
  j.j = "object" =>
    LET keys == DOMAIN j.members
    IN  keys \cap {"$tag", "$fields"} # {} => keys = {"$tag", "$fields"}

Reliable ==
  IF origin[1] = "cbor" THEN \A d \in CborWithin(origin[2]) : UniqueKeys(d)
  ELSE \A j \in JsonWithin(origin[2]) : WholeTag(j)

------------------------------------------------------------------------------
(***************************************************************************)
(* Properties.                                                             *)
(*                                                                         *)
(* Once the VM has accepted a value it stays that value, through any       *)
(* number of round trips in either form, and is never refused (decode and  *)
(* encode of cino-codec; json_to_vm_value and vm_value_to_json).           *)
(***************************************************************************)
ValueSurvives ==
  Reliable /\ first # {} =>
    /\ at # "refused"
    /\ at = "vm" => first = {data}

(***************************************************************************)
(* The same data means the same in both forms: JSON is accepted if and     *)
(* only if its CBOR image is, and as the same value ("parity with          *)
(* cino-codec", comment in json_to_vm_value).                              *)
(***************************************************************************)
CborOfStep(j) ==
  CASE j.j = "null"   -> NullC
    [] j.j = "bool"   -> BoolC(j.bool)
    [] j.j = "int"    -> IntC(j.int)
    [] j.j = "string" -> TextC(j.string)
    [] j.j = "array"  -> ArrayC([i \in DOMAIN j.items |-> CborOf(j.items[i])])
    [] j.j = "object" -> Listed([k \in DOMAIN j.members |-> CborOf(j.members[k])])
    [] OTHER          -> OtherC

CborOfEquation == \A j : CborOf(j) = CborOfStep(j)

SameMeaning == at = "json" => FromJson(data) = FromCbor(CborOf(data))
Parity      == Reliable => SameMeaning

=============================================================================
