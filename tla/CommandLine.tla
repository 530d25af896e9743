----------------------------- MODULE CommandLine -----------------------------
(***************************************************************************)
(* The command line tool: every command reads the source file anew, and    *)
(* "run" takes the state as JSON and prints the next one as JSON.  The     *)
(* tool keeps nothing between two commands: the user keeps the state and   *)
(* hands it in again, and may edit the file in between.                    *)
(*                                                                         *)
(* Options are sets of at most one value: a file that does not exist, a    *)
(* command that failed and printed nothing.                                *)
(***************************************************************************)
EXTENDS Pipeline, Codec, SequenceTheorems, WellFoundedInduction, TLAPS

CONSTANTS
  Texts,       \* what the source file may hold
  StateDocs,   \* JSON documents that users write as states
  InputDocs,   \* and as events and queries
  Nesting      \* how deep each of them nests, and all that is in them

DocParts(j) ==
  CASE j.j = "array"  -> Range(j.items)
    [] j.j = "object" -> Range(j.members)
    [] OTHER          -> {}

(* A document is a finite tree, and its arrays are sequences. *)
ASSUME DocsAssumption ==
  /\ StateDocs \cup InputDocs \subseteq DOMAIN Nesting
  /\ \A j \in DOMAIN Nesting :
       /\ Nesting[j] \in Nat
       /\ j.j = "array" => IsSeq(j.items)
       /\ \A x \in DocParts(j) : x \in DOMAIN Nesting /\ Nesting[x] < Nesting[j]

VARIABLES
  file,    \* the words of the source file
  kept,    \* the next_state that the last update printed
  out,     \* what the last command printed
  spec     \* the spec.md that docgen wrote

vars == <<file, kept, out, spec>>

Files == {{}} \cup {{words} : words \in Texts}

Init ==
  /\ file \in Files
  /\ kept = {} /\ out = {} /\ spec = {}

------------------------------------------------------------------------------
(* What the tool makes of a text depends on nothing else. *)
Parsed == [words \in Texts |-> {p \in {ProgramOf(words)} : p.ok}]

Analyzed == [words \in Texts |-> UNION {Analyze(p) : p \in Parsed[words]}]

LoweredIr(p) == {r.fns : r \in {l \in {LowerResult(p)} : l.bad = {}}}

SetupVm ==
  [words \in Texts |->
     {r.val : r \in {v \in {FromIr(ir) : ir \in UNION {LoweredIr(p) : p \in Parsed[words]}} : v.ok}}]

(* What loads has been validated: LoadedIsValidated of SessionProofs. *)
ASSUME TextsAssumption == \A words \in Texts : \A p \in SetupVm[words] : Validated(p)

InFile(F) == UNION {F[words] : words \in file}

(* The answers of the VM, if there is a program and both texts are JSON. *)
Answers(entry, stateDoc, inputDoc) ==
  {r \in {Call(vm, entry, s, i) : vm \in InFile(SetupVm), s \in FromJson(stateDoc),
                                  i \in FromJson(inputDoc)} : r.ok}

------------------------------------------------------------------------------
(***************************************************************************)
(* What a command prints: a line of text, or JSON.                         *)
(***************************************************************************)
Message        == [by |-> "message"]
QueryOutput(v) == [by |-> "query", json |-> ToJson(v)]

Check ==
  /\ out' = {Message : p \in {q \in InFile(Parsed) : InFile(Analyzed) = {}}}
  /\ UNCHANGED <<file, kept, spec>>

UpdateOutput(next, actions) ==
  [by   |-> "update",
   json |-> ObjectJ([k \in {"next_state", "actions"} |->
                       IF k = "next_state" THEN ToJson(next) ELSE Elements(actions)])]

RunUpdate ==
  /\ \E s \in kept \cup StateDocs, e \in InputDocs : \E rs \in {Answers("update", s, e)} :
       /\ out' = {UpdateOutput(r.val.items[1], r.val.items[2].items) : r \in rs}
       /\ kept' = IF rs = {} THEN kept ELSE {o.json.members["next_state"] : o \in out'}
  /\ UNCHANGED <<file, spec>>

RunQuery ==
  /\ \E s \in kept \cup StateDocs, q \in InputDocs :
       out' = {QueryOutput(r.val) : r \in Answers("query", s, q)}
  /\ UNCHANGED <<file, kept, spec>>

(* The names of the declarations; a type comes before a function here. *)
Document(p) == <<NamesIn(p.types), [i \in DOMAIN p.fns |-> <<p.fns[i].name, p.fns[i].kind>>]>>

Docgen ==
  /\ out' = {Message : p \in InFile(Parsed)}
  /\ spec' = IF out' = {} THEN spec ELSE {Document(p) : p \in InFile(Parsed)}
  /\ UNCHANGED <<file, kept>>

EditFile ==
  /\ file' \in Files
  /\ UNCHANGED <<kept, out, spec>>

Next == Check \/ RunUpdate \/ RunQuery \/ Docgen \/ EditFile

Spec == Init /\ [][Next]_vars

------------------------------------------------------------------------------
(***************************************************************************)
(* Properties.                                                             *)
(***************************************************************************)
Read(docs) == {FromJson(d) : d \in docs}

(* VmProgram::update gives the next state and the actions, as a pair. *)
UpdateValues(vm, s, e) ==
  {<<r.val.items[1], TupleV(<<r.val.items[1], r.val.items[2]>>)>> :
     r \in {a \in {Call(vm, "update", s, e)} : a.ok}}
QueryValues(vm, s, q) ==
  {r.val : r \in {a \in {Call(vm, "query", s, q)} : a.ok}}

(* The values that the user reads. *)
Printed(o) ==
  CASE o.by = "message" -> {}
    [] o.by = "query"   -> FromJson(o.json)
    [] o.by = "update"  -> {TupleV(<<s, a>>) : s \in FromJson(o.json.members["next_state"]),
                                               a \in FromJson(o.json.members["actions"])}

R == INSTANCE Reactor WITH
  Programs <- {SetupVm[words] : words \in Texts} \cup {{}},
  States   <- Read(StateDocs),
  Inputs   <- Read(InputDocs),
  Update   <- UpdateValues,
  Query    <- QueryValues,
  program  <- InFile(SetupVm),
  state    <- UNION Read(kept),
  output   <- UNION {Printed(o) : o \in out}

(***************************************************************************)
(* A session that is cut up into commands is one in memory: nothing is     *)
(* lost or changed by the JSON in between, also where the file is edited,  *)
(* a command fails or a state is reused (main, json_to_vm_value,           *)
(* vm_value_to_json).                                                      *)
(***************************************************************************)
ImplementsReactor == R!Spec

------------------------------------------------------------------------------
(***************************************************************************)
(* Proofs.  A value that can be printed and read again is made of such     *)
(* values, and the VM makes only such values of them.                      *)
(***************************************************************************)
IsFn(f)  == f = [x \in DOMAIN f |-> f[x]]
Trips(v) == FromJson(ToJson(v)) = {v}

LEMMA EveryOne ==
  ASSUME NEW os, NEW f, IsFn(f), DOMAIN f = DOMAIN os, \A i \in DOMAIN os : os[i] = {f[i]}
  PROVE  Every(os) = {f}
<1>1. ~\E i \in DOMAIN os : os[i] = {}
  OBVIOUS
<1>2. [i \in DOMAIN os |-> CHOOSE v \in os[i] : TRUE] = f
  BY DEF IsFn
<1> QED
  BY <1>1, <1>2 DEF Every

LEMMA EveryMember ==
  ASSUME NEW os, NEW f \in Every(os)
  PROVE  /\ Every(os) = {f} /\ IsFn(f) /\ DOMAIN f = DOMAIN os
         /\ \A i \in DOMAIN os : f[i] \in os[i]
<1>1. /\ \A i \in DOMAIN os : os[i] # {}
      /\ f = [i \in DOMAIN os |-> CHOOSE v \in os[i] : TRUE]
      /\ Every(os) = {f}
  BY DEF Every
<1>2. DOMAIN f = DOMAIN os /\ \A i \in DOMAIN os : f[i] \in os[i]
  BY <1>1
<1> QED
  BY <1>1, <1>2 DEF IsFn

LEMMA ElementsTrip ==
  ASSUME CodecEquations, NEW s, IsFn(s), \A i \in DOMAIN s : Trips(s[i])
  PROVE  Elements(s).j = "array" /\ EveryJson(Elements(s).items) = {s}
<1> DEFINE js == [i \in DOMAIN s |-> ToJson(s[i])]
           os == [i \in DOMAIN js |-> FromJson(js[i])]
<1>1. Elements(s).j = "array" /\ Elements(s).items = js
  BY DEF Elements, ArrayJ
<1>2. DOMAIN os = DOMAIN s /\ \A i \in DOMAIN os : os[i] = {s[i]}
  BY DEF Trips
<1>3. EveryJson(js) = Every(os)
  BY DEF EveryJson
<1> HIDE DEF os, js
<1>4. Every(os) = {s}
  BY <1>2, EveryOne
<1> QED
  BY <1>1, <1>3, <1>4

LEMMA MembersTrip ==
  ASSUME CodecEquations, NEW f, IsFn(f), \A k \in DOMAIN f : Trips(f[k])
  PROVE  /\ Members(f).j = "object" /\ EveryJson(Members(f).members) = {f}
         /\ DOMAIN Members(f).members = DOMAIN f
<1> DEFINE js == [k \in DOMAIN f |-> ToJson(f[k])]
           os == [k \in DOMAIN js |-> FromJson(js[k])]
<1>1. Members(f).j = "object" /\ Members(f).members = js
  BY DEF Members, ObjectJ
<1>2. DOMAIN os = DOMAIN f /\ \A k \in DOMAIN os : os[k] = {f[k]}
  BY DEF Trips
<1>3. EveryJson(js) = Every(os) /\ DOMAIN js = DOMAIN f
  BY DEF EveryJson
<1> HIDE DEF os, js
<1>4. Every(os) = {f}
  BY <1>2, EveryOne
<1> QED
  BY <1>1, <1>3, <1>4

LEMMA ScalarsTrip ==
  ASSUME CodecEquations, NEW x
  PROVE  Trips(UnitV) /\ Trips(IntV(x)) /\ Trips(BoolV(x)) /\ Trips(StringV(x))
<1>1. /\ ToJson(UnitV) = NullJ /\ ToJson(IntV(x)) = IntJ(x)
      /\ ToJson(BoolV(x)) = BoolJ(x) /\ ToJson(StringV(x)) = StringJ(x)
  BY DEF CodecEquations, ToJsonStep, UnitV, IntV, BoolV, StringV
<1>2. /\ FromJson(NullJ) = {UnitV} /\ FromJson(IntJ(x)) = {IntV(x)}
      /\ FromJson(BoolJ(x)) = {BoolV(x)} /\ FromJson(StringJ(x)) = {StringV(x)}
  BY DEF CodecEquations, FromJsonStep, NullJ, IntJ, BoolJ, StringJ
<1> QED
  BY <1>1, <1>2 DEF Trips

LEMMA ListTrips ==
  ASSUME CodecEquations, NEW s, IsFn(s), \A i \in DOMAIN s : Trips(s[i])
  PROVE  Trips(ListV(s))
<1> DEFINE j == Elements(s)
<1>1. ToJson(ListV(s)) = j
  BY DEF CodecEquations, ToJsonStep, ListV
<1>2. j.j = "array" /\ EveryJson(j.items) = {s}
  BY ElementsTrip
<1> HIDE DEF j
<1>3. FromJson(j) = {ListV(s)}
  BY <1>2 DEF CodecEquations, FromJsonStep
<1> QED
  BY <1>1, <1>3 DEF Trips

LEMMA ObjectRead ==
  ASSUME CodecEquations, NEW f
  PROVE  FromJson(ObjectJ(f)) = FromObject(f)
<1> DEFINE j == ObjectJ(f)
<1>1. j.j = "object" /\ j.members = f
  BY DEF ObjectJ
<1> HIDE DEF j
<1>2. FromJson(j) = FromObject(f)
  BY <1>1 DEF CodecEquations, FromJsonStep
<1> QED
  BY <1>2 DEF j

LEMMA TupleTrips ==
  ASSUME CodecEquations, NEW s, IsFn(s), \A i \in DOMAIN s : Trips(s[i])
  PROVE  Trips(TupleV(s))
<1> DEFINE f == [k \in {"$tuple"} |-> Elements(s)]
<1>1. ToJson(TupleV(s)) = ObjectJ(f)
  BY DEF CodecEquations, ToJsonStep, TupleV
<1>2. Elements(s).j = "array" /\ EveryJson(Elements(s).items) = {s}
  BY ElementsTrip
<1>3. DOMAIN f = {"$tuple"} /\ f["$tuple"] = Elements(s)
  OBVIOUS
<1> HIDE DEF f
<1>4. FromObject(f) = {TupleV(s)}
  BY <1>2, <1>3 DEF FromObject
<1> QED
  BY <1>1, <1>4, ObjectRead DEF Trips

LEMMA EnumTrips ==
  ASSUME CodecEquations, NEW tag, NEW f, IsFn(f), \A k \in DOMAIN f : Trips(f[k])
  PROVE  Trips(EnumV(tag, f))
<1> DEFINE g == [k \in {"$tag", "$fields"} |-> IF k = "$tag" THEN StringJ(tag) ELSE Members(f)]
<1>1. ToJson(EnumV(tag, f)) = ObjectJ(g)
  BY DEF CodecEquations, ToJsonStep, EnumV, EnumJ
<1>2. Members(f).j = "object" /\ EveryJson(Members(f).members) = {f}
  BY MembersTrip
<1>3. DOMAIN g = {"$tag", "$fields"} /\ g["$tag"] = StringJ(tag) /\ g["$fields"] = Members(f)
  OBVIOUS
<1>4. StringJ(tag).j = "string" /\ StringJ(tag).string = tag
  BY DEF StringJ
<1> HIDE DEF g
<1>5. DOMAIN g # {"$tuple"} /\ {"$tag", "$fields"} \subseteq DOMAIN g
  BY <1>3
<1>6. FromObject(g) = {EnumV(tag, h) : h \in {f}}
  BY <1>2, <1>3, <1>4, <1>5 DEF FromObject
<1> QED
  BY <1>1, <1>6, ObjectRead DEF Trips

LEMMA MapTrips ==
  ASSUME CodecEquations, NEW f, IsFn(f), \A k \in DOMAIN f : Trips(f[k]),
         DOMAIN f # {"$tuple"}, ~({"$tag", "$fields"} \subseteq DOMAIN f)
  PROVE  Trips(MapV(f))
<1> DEFINE g == Members(f).members
<1>0. ToJson(MapV(f)) = Members(f)
  BY DEF CodecEquations, ToJsonStep, MapV
<1>1. Members(f) = ObjectJ(g)
  BY DEF Members, ObjectJ
<1>2. EveryJson(g) = {f} /\ DOMAIN g = DOMAIN f
  BY MembersTrip
<1> HIDE DEF g
<1>3. FromObject(g) = {MapV(h) : h \in {f}}
  BY <1>2 DEF FromObject
<1> QED
  BY <1>0, <1>1, <1>3, ObjectRead DEF Trips

------------------------------------------------------------------------------
(***************************************************************************)
(* What the values that a program gets at in a value v are, and the values *)
(* that survive in JSON with all that is in them.                          *)
(***************************************************************************)
Parts(v) ==
  CASE v.t \in {"List", "Tuple"} -> Range(v.items)
    [] v.t = "Enum"              -> Range(v.fields)
    [] OTHER                     -> {}

Survives(v) == Trips(v) /\ (v.t = "Tuple" => IsSeq(v.items))
Closed(S)   == \A v \in S : Survives(v) /\ Parts(v) \subseteq S
Sound(v)    == \E S : v \in S /\ Closed(S)

LEMMA SoundParts ==
  ASSUME NEW v, Sound(v)
  PROVE  Survives(v) /\ \A w \in Parts(v) : Sound(w)
BY DEF Sound, Closed

LEMMA SoundWhole ==
  ASSUME NEW v, Survives(v), \A w \in Parts(v) : Sound(w)
  PROVE  Sound(v)
<1> DEFINE Of(w) == CHOOSE S : w \in S /\ Closed(S)
           T == {v} \cup UNION {Of(w) : w \in Parts(v)}
<1>1. \A w \in Parts(v) : w \in Of(w) /\ Closed(Of(w))
  BY DEF Sound
<1> HIDE DEF Of
<1>2. Parts(v) \subseteq T
  BY <1>1
<1>3. ASSUME NEW x \in T PROVE Survives(x) /\ Parts(x) \subseteq T
  <2>1. CASE x = v
    BY <1>2, <2>1
  <2>2. CASE x # v
    <3>1. PICK w \in Parts(v) : x \in Of(w)
      BY <2>2
    <3>2. Survives(x) /\ Parts(x) \subseteq Of(w)
      BY <1>1, <3>1 DEF Closed
    <3> QED
      BY <3>1, <3>2
  <2> QED
    BY <2>1, <2>2
<1>4. v \in T /\ Closed(T)
  BY <1>3 DEF Closed
<1> HIDE DEF T
<1> QED
  BY <1>4 DEF Sound

LEMMA SoundScalars ==
  ASSUME CodecEquations, NEW x
  PROVE  Sound(UnitV) /\ Sound(IntV(x)) /\ Sound(BoolV(x)) /\ Sound(StringV(x))
<1>1. ASSUME NEW v, v.t \in {"Unit", "Int", "Bool", "String"}, Trips(v) PROVE Sound(v)
  <2>1. Parts(v) = {} /\ Survives(v)
    BY <1>1 DEF Parts, Survives
  <2> QED
    BY <2>1, SoundWhole
<1>2. /\ UnitV.t = "Unit" /\ IntV(x).t = "Int" /\ BoolV(x).t = "Bool" /\ StringV(x).t = "String"
  BY DEF UnitV, IntV, BoolV, StringV
<1> QED
  BY <1>1, <1>2, ScalarsTrip

LEMMA SeqIsFn == ASSUME NEW s, IsSeq(s) PROVE IsFn(s)
BY DEF IsSeq, IsFn

LEMMA SeqLike ==
  ASSUME NEW s, IsSeq(s), NEW u, IsFn(u), DOMAIN u = DOMAIN s
  PROVE  IsSeq(u)
<1>1. Len(s) \in Nat /\ DOMAIN s = 1 .. Len(s)
  BY LenProperties DEF IsSeq
<1>2. u = [i \in 1 .. Len(s) |-> u[i]] /\ \A i \in 1 .. Len(s) : u[i] \in Range(u)
  BY <1>1 DEF IsFn, Range
<1> QED
  BY <1>1, <1>2 DEF IsSeq

LEMMA SoundCompounds ==
  ASSUME CodecEquations, NEW s, IsSeq(s), \A i \in DOMAIN s : Sound(s[i])
  PROVE  Sound(ListV(s)) /\ Sound(TupleV(s))
<1>1. /\ ListV(s).t = "List" /\ ListV(s).items = s
      /\ TupleV(s).t = "Tuple" /\ TupleV(s).items = s
  BY DEF ListV, TupleV
<1>2. \A i \in DOMAIN s : Trips(s[i])
  BY SoundParts DEF Survives
<1>3. Trips(ListV(s)) /\ Trips(TupleV(s))
  BY <1>2, SeqIsFn, ListTrips, TupleTrips
<1>4. Survives(ListV(s)) /\ Survives(TupleV(s))
  BY <1>1, <1>3 DEF Survives
<1>5. Parts(ListV(s)) = Range(s) /\ Parts(TupleV(s)) = Range(s)
  BY <1>1 DEF Parts
<1>6. \A w \in Range(s) : Sound(w)
  BY DEF Range
<1> QED
  BY <1>4, <1>5, <1>6, SoundWhole

LEMMA SoundEnum ==
  ASSUME CodecEquations, NEW tag, NEW f, IsFn(f), \A k \in DOMAIN f : Sound(f[k])
  PROVE  Sound(EnumV(tag, f))
<1>1. EnumV(tag, f).t = "Enum" /\ EnumV(tag, f).fields = f
  BY DEF EnumV
<1>2. \A k \in DOMAIN f : Trips(f[k])
  BY SoundParts DEF Survives
<1>3. Survives(EnumV(tag, f))
  BY <1>1, <1>2, EnumTrips DEF Survives
<1>4. Parts(EnumV(tag, f)) = Range(f)
  BY <1>1 DEF Parts
<1>5. \A w \in Range(f) : Sound(w)
  BY DEF Range
<1> QED
  BY <1>3, <1>4, <1>5, SoundWhole

LEMMA SoundMap ==
  ASSUME CodecEquations, NEW f, IsFn(f), \A k \in DOMAIN f : Sound(f[k]),
         DOMAIN f # {"$tuple"}, ~({"$tag", "$fields"} \subseteq DOMAIN f)
  PROVE  Sound(MapV(f))
<1>1. MapV(f).t = "Map"
  BY DEF MapV
<1>2. \A k \in DOMAIN f : Trips(f[k])
  BY SoundParts DEF Survives
<1>3. Survives(MapV(f))
  BY <1>1, <1>2, MapTrips DEF Survives
<1>4. Parts(MapV(f)) = {}
  BY <1>1 DEF Parts
<1> QED
  BY <1>3, <1>4, SoundWhole

------------------------------------------------------------------------------
(***************************************************************************)
(* Documents: what one of them is read as, if it is, is one sound value.   *)
(***************************************************************************)
LEMMA LeastNumber ==
  ASSUME NEW T, T \subseteq Nat, T # {}
  PROVE  \E n \in T : \A k \in T : n <= k
<1> DEFINE Less == {p \in Nat \X Nat : p[1] < p[2]}
<1>1. IsWellFoundedOn(Less, Nat)
  BY NatLessThanWellFounded, Zenon DEF OpToRel
<1>2. PICK n \in T : \A k \in T : <<k, n>> \notin Less
  <2> HIDE DEF Less
  <2> QED
    BY <1>1, WFMin
<1>3. ASSUME NEW k \in T PROVE n <= k
  <2>1. <<k, n>> \notin Less /\ k \in Nat /\ n \in Nat
    BY <1>2
  <2>2. ~(k < n)
    BY <2>1
  <2> QED
    BY <2>1, <2>2
<1> QED
  BY <1>3

ReadsAs(j) == \A v \in FromJson(j) : FromJson(j) = {v} /\ Sound(v)

LEMMA EveryRead ==
  ASSUME NEW f, \A k \in DOMAIN f : ReadsAs(f[k]), NEW g \in EveryJson(f)
  PROVE  /\ EveryJson(f) = {g} /\ IsFn(g) /\ DOMAIN g = DOMAIN f
         /\ \A k \in DOMAIN g : Sound(g[k])
<1> DEFINE os == [k \in DOMAIN f |-> FromJson(f[k])]
<1>1. EveryJson(f) = Every(os)
  BY DEF EveryJson
<1>2. Every(os) = {g} /\ IsFn(g) /\ DOMAIN g = DOMAIN os /\ \A k \in DOMAIN os : g[k] \in os[k]
  <2> HIDE DEF os
  <2> QED
    BY <1>1, EveryMember
<1> QED
  BY <1>1, <1>2 DEF ReadsAs

LEMMA ObjectReads ==
  ASSUME CodecEquations, NEW f, \A k \in DOMAIN f : ReadsAs(f[k]),
         \A k \in DOMAIN f :
           /\ f[k].j = "array" => /\ IsSeq(f[k].items)
                                  /\ \A i \in DOMAIN f[k].items : ReadsAs(f[k].items[i])
           /\ f[k].j = "object" => \A x \in DOMAIN f[k].members : ReadsAs(f[k].members[x]),
         NEW v \in FromObject(f)
  PROVE  FromObject(f) = {v} /\ Sound(v)
<1>1. CASE DOMAIN f = {"$tuple"}
  <2>1. f["$tuple"].j = "array" /\ FromObject(f) = {TupleV(vs) : vs \in EveryJson(f["$tuple"].items)}
    BY <1>1 DEF FromObject
  <2>2. PICK vs \in EveryJson(f["$tuple"].items) : v = TupleV(vs)
    BY <2>1
  <2>3. "$tuple" \in DOMAIN f
    BY <1>1
  <2>4. IsSeq(f["$tuple"].items) /\ \A i \in DOMAIN f["$tuple"].items : ReadsAs(f["$tuple"].items[i])
    BY <2>1, <2>3
  <2>5. /\ EveryJson(f["$tuple"].items) = {vs} /\ IsFn(vs) /\ DOMAIN vs = DOMAIN f["$tuple"].items
        /\ \A i \in DOMAIN vs : Sound(vs[i])
    BY <2>4, EveryRead
  <2>6. IsSeq(vs)
    BY <2>4, <2>5, SeqLike
  <2> QED
    BY <2>1, <2>2, <2>5, <2>6, SoundCompounds
<1>2. CASE DOMAIN f # {"$tuple"} /\ {"$tag", "$fields"} \subseteq DOMAIN f
  <2> DEFINE ms == f["$fields"].members
  <2>1. /\ f["$fields"].j = "object"
        /\ FromObject(f) = {EnumV(f["$tag"].string, g) : g \in EveryJson(ms)}
    BY <1>2 DEF FromObject
  <2>2. PICK g \in EveryJson(ms) : v = EnumV(f["$tag"].string, g)
    BY <2>1
  <2>3. \A x \in DOMAIN ms : ReadsAs(ms[x])
    BY <1>2, <2>1
  <2> HIDE DEF ms
  <2>4. EveryJson(ms) = {g} /\ IsFn(g) /\ \A k \in DOMAIN g : Sound(g[k])
    BY <2>3, EveryRead
  <2> QED
    BY <2>1, <2>2, <2>4, SoundEnum
<1>3. CASE DOMAIN f # {"$tuple"} /\ ~({"$tag", "$fields"} \subseteq DOMAIN f)
  <2>1. FromObject(f) = {MapV(g) : g \in EveryJson(f)}
    BY <1>3 DEF FromObject
  <2>2. PICK g \in EveryJson(f) : v = MapV(g)
    BY <2>1
  <2>3. EveryJson(f) = {g} /\ IsFn(g) /\ DOMAIN g = DOMAIN f /\ \A k \in DOMAIN g : Sound(g[k])
    BY EveryRead
  <2> QED
    BY <1>3, <2>1, <2>2, <2>3, SoundMap
<1> QED
  BY <1>1, <1>2, <1>3

LEMMA DocumentsRead ==
  ASSUME CodecEquations
  PROVE  \A j \in DOMAIN Nesting : ReadsAs(j)
<1> DEFINE T == {Nesting[j] : j \in {d \in DOMAIN Nesting : ~ReadsAs(d)}}
<1> SUFFICES ASSUME T # {} PROVE FALSE
  OBVIOUS
<1>1. T \subseteq Nat
  BY DocsAssumption
<1>2. PICK n \in T : \A k \in T : n <= k
  <2> HIDE DEF T
  <2> QED
    BY <1>1, LeastNumber
<1>3. PICK j \in DOMAIN Nesting : ~ReadsAs(j) /\ Nesting[j] = n
  BY <1>2
<1>4. ASSUME NEW d \in DOMAIN Nesting, Nesting[d] < n PROVE ReadsAs(d)
  BY <1>1, <1>2, <1>4
<1>5. ASSUME NEW x \in DocParts(j) PROVE ReadsAs(x) /\ \A y \in DocParts(x) : ReadsAs(y)
  <2>1. x \in DOMAIN Nesting /\ Nesting[x] < n
    BY <1>3, DocsAssumption
  <2>2. ASSUME NEW y \in DocParts(x) PROVE y \in DOMAIN Nesting /\ Nesting[y] < n
    <3>1. y \in DOMAIN Nesting /\ Nesting[y] < Nesting[x]
      BY <2>1, DocsAssumption
    <3>2. Nesting[x] \in Nat /\ Nesting[y] \in Nat /\ n \in Nat
      BY <1>1, <2>1, <3>1, DocsAssumption
    <3> QED
      BY <2>1, <3>1, <3>2
  <2> QED
    BY <1>4, <2>1, <2>2
<1>6. ASSUME NEW d \in DOMAIN Nesting, d.j = "array"
      PROVE  IsSeq(d.items) /\ \A i \in DOMAIN d.items : d.items[i] \in DocParts(d)
  BY <1>6, DocsAssumption DEF DocParts, Range
<1>7. ASSUME NEW d, d.j = "object" PROVE \A k \in DOMAIN d.members : d.members[k] \in DocParts(d)
  BY <1>7 DEF DocParts, Range
<1> HIDE DEF T
<1>8. FromJson(j) = FromJsonStep(j)
  BY DEF CodecEquations
<1>9. ASSUME NEW v \in FromJson(j) PROVE FromJson(j) = {v} /\ Sound(v)
  <2>1. CASE j.j = "array"
    <3>1. FromJson(j) = {ListV(vs) : vs \in EveryJson(j.items)}
      BY <1>8, <2>1 DEF FromJsonStep
    <3>2. PICK vs \in EveryJson(j.items) : v = ListV(vs)
      BY <1>9, <3>1
    <3>3. IsSeq(j.items) /\ \A i \in DOMAIN j.items : ReadsAs(j.items[i])
      BY <1>5, <1>6, <2>1
    <3>4. /\ EveryJson(j.items) = {vs} /\ IsFn(vs) /\ DOMAIN vs = DOMAIN j.items
          /\ \A i \in DOMAIN vs : Sound(vs[i])
      BY <3>3, EveryRead
    <3>5. IsSeq(vs)
      BY <3>3, <3>4, SeqLike
    <3> QED
      BY <3>1, <3>2, <3>4, <3>5, SoundCompounds
  <2>2. CASE j.j = "object"
    <3> DEFINE f == j.members
    <3>1. FromJson(j) = FromObject(f)
      BY <1>8, <2>2 DEF FromJsonStep
    <3>2. \A k \in DOMAIN f : f[k] \in DocParts(j)
      BY <1>7, <2>2
    <3>3. \A k \in DOMAIN f : f[k] \in DOMAIN Nesting
      BY <3>2, DocsAssumption
    <3>4. \A k \in DOMAIN f : ReadsAs(f[k])
      BY <1>5, <3>2
    <3>5. ASSUME NEW k \in DOMAIN f
          PROVE  /\ f[k].j = "array" => /\ IsSeq(f[k].items)
                                        /\ \A i \in DOMAIN f[k].items : ReadsAs(f[k].items[i])
                 /\ f[k].j = "object" => \A x \in DOMAIN f[k].members : ReadsAs(f[k].members[x])
      BY <1>5, <1>6, <1>7, <3>2, <3>3
    <3> HIDE DEF f
    <3> QED
      BY <3>1, <3>4, <3>5, ObjectReads
  <2>3. CASE j.j \notin {"array", "object"}
    <3>1. \E w : FromJson(j) = {w} /\ \E x : w \in {UnitV, BoolV(x), IntV(x), StringV(x)}
      BY <1>8, <1>9, <2>3 DEF FromJsonStep
    <3>2. PICK w : FromJson(j) = {w} /\ \E x : w \in {UnitV, BoolV(x), IntV(x), StringV(x)}
      BY <3>1
    <3>3. Sound(w)
      BY <3>2, SoundScalars
    <3> QED
      BY <3>2, <3>3
  <2> QED
    BY <2>1, <2>2, <2>3
<1> QED
  BY <1>3, <1>9 DEF ReadsAs

------------------------------------------------------------------------------
(***************************************************************************)
(* Evaluation.  p is a program that has been validated and m its machine:  *)
(* everything that is bound, made or chosen while it runs is sound, if     *)
(* what it is given is.                                                    *)
(***************************************************************************)
Exprs(p)    == {v[1] : v \in p.visits}
SoundEnv(e) == \A x \in DOMAIN e : Sound(e[x])
SoundSeq(s) == IsSeq(s) /\ \A i \in DOMAIN s : Sound(s[i])

(* An outcome where k steps were left. *)
SoundOutcome(o, k) == o.steps \in 0 .. k /\ (o.r.ok => Sound(o.r.val))

SoundMatch(b, k) == b.steps \in 0 .. k /\ SoundEnv(b.env)

LEMMA Domain == ASSUME NEW s, IsSeq(s) PROVE Len(s) \in Nat /\ DOMAIN s = 1 .. Len(s)
BY LenProperties DEF IsSeq

LEMMA Greatest ==
  ASSUME NEW n \in Nat, NEW S, S \subseteq 1 .. n, S # {}
  PROVE  Max(S) \in S
<1> DEFINE T == {n - i : i \in S}
<1>1. T \subseteq Nat /\ T # {}
  OBVIOUS
<1>2. PICK k \in T : \A l \in T : k <= l
  <2> HIDE DEF T
  <2> QED
    BY <1>1, LeastNumber
<1>3. PICK i \in S : k = n - i
  BY <1>2
<1>4. ASSUME NEW j \in S PROVE i >= j
  <2>1. n - i <= n - j
    BY <1>2, <1>3
  <2> QED
    BY <2>1
<1>5. \E x \in S : \A y \in S : x >= y
  BY <1>4
<1> QED
  BY <1>5 DEF Max

LEMMA InsertedSound ==
  ASSUME NEW names, NEW vals, IsSeq(names), SoundSeq(vals), Len(vals) = Len(names)
  PROVE  IsFn(InsertAll(names, vals)) /\ SoundEnv(InsertAll(names, vals))
<1> DEFINE f == InsertAll(names, vals)
           Places(x) == {i \in DOMAIN names : names[i] = x}
<1>1. DOMAIN f = Range(names) /\ IsFn(f)
  BY DEF InsertAll, IsFn
<1>2. ASSUME NEW x \in Range(names) PROVE Sound(f[x])
  <2>1. DOMAIN names = 1 .. Len(names) /\ DOMAIN vals = 1 .. Len(names) /\ Len(names) \in Nat
    BY Domain DEF SoundSeq
  <2>2. Places(x) \subseteq 1 .. Len(names) /\ Places(x) # {}
    BY <2>1 DEF Range
  <2>3. f[x] = vals[Max(Places(x))]
    BY DEF InsertAll
  <2> HIDE DEF Places
  <2>4. Max(Places(x)) \in DOMAIN vals
    BY <2>1, <2>2, Greatest
  <2> HIDE DEF f
  <2> QED
    BY <2>3, <2>4 DEF SoundSeq
<1> HIDE DEF f
<1>3. IsFn(f) /\ SoundEnv(f)
  BY <1>1, <1>2 DEF SoundEnv
<1> QED
  BY <1>3 DEF f

LEMMA BindSound ==
  ASSUME NEW e, SoundEnv(e), NEW x, NEW v, Sound(v)
  PROVE  SoundEnv(Bind(e, x, v))
BY DEF SoundEnv, Bind

LEMMA AppendSound ==
  ASSUME NEW s, SoundSeq(s), NEW v, Sound(v)
  PROVE  SoundSeq(Append(s, v)) /\ Len(Append(s, v)) = Len(s) + 1
<1> DEFINE u == Append(s, v)
<1>1. s \in Seq(Range(s)) /\ Len(s) \in Nat /\ DOMAIN s = 1 .. Len(s)
  BY Domain DEF SoundSeq, IsSeq
<1>2. s \in Seq(Range(s) \cup {v})
  BY <1>1
<1>3. /\ u \in Seq(Range(s) \cup {v}) /\ Len(u) = Len(s) + 1 /\ DOMAIN u = 1 .. Len(u)
      /\ \A i \in 1 .. Len(s) : u[i] = s[i]
      /\ u[Len(s) + 1] = v
  BY <1>2, AppendProperties, LenProperties
<1> HIDE DEF u
<1>4. \A i \in DOMAIN u : Sound(u[i])
  BY <1>1, <1>3 DEF SoundSeq
<1>5. IsSeq(u)
  BY <1>3 DEF IsSeq, Range
<1> QED
  BY <1>3, <1>4, <1>5 DEF SoundSeq, u

(***************************************************************************)
(* Patterns.  All of BigStep recurs on fewer steps, so this is shown by    *)
(* induction on the steps that are left.                                   *)
(***************************************************************************)
TodoSound(p, todo) ==
  /\ IsSeq(todo)
  /\ \A i \in DOMAIN todo : /\ todo[i].pat \in DOMAIN p.binds
                            /\ \A v \in todo[i].src : Sound(v)

MatchSound(p, k) ==
  \A todo, b :
    TodoSound(p, todo) /\ b.steps = k /\ SoundEnv(b.env) => SoundMatch(MatchAll(todo, b), k)

LEMMA SoundLater ==
  ASSUME NEW o, NEW j \in Nat, NEW k \in Nat, j <= k, SoundOutcome(o, j)
  PROVE  SoundOutcome(o, k)
BY DEF SoundOutcome

LEMMA FieldsSound ==
  ASSUME NEW p, Validated(p), NEW q \in DOMAIN p.binds, q.kind = "Variant",
         NEW v, Sound(v), v.t = "Enum"
  PROVE  TodoSound(p, [i \in DOMAIN q.fields |->
                         [pat |-> q.fields[i].pat, src |-> Lookup(v.fields, q.fields[i].name)]])
<1> DEFINE todo == [i \in DOMAIN q.fields |->
                      [pat |-> q.fields[i].pat, src |-> Lookup(v.fields, q.fields[i].name)]]
<1>1. IsSeq(q.fields) /\ \A i \in DOMAIN q.fields : q.fields[i].pat \in DOMAIN p.binds
  BY DEF Validated, BindsOk
<1>2. IsFn(todo) /\ DOMAIN todo = DOMAIN q.fields
  BY DEF IsFn
<1>3. ASSUME NEW x, NEW w \in Lookup(v.fields, x) PROVE Sound(w)
  <2>1. w \in Parts(v)
    BY <1>3 DEF Lookup, Parts, Range
  <2> QED
    BY <2>1, SoundParts
<1>4. \A i \in DOMAIN todo : /\ todo[i].pat \in DOMAIN p.binds
                             /\ \A w \in todo[i].src : Sound(w)
  BY <1>1, <1>3
<1> HIDE DEF todo
<1>5. IsSeq(todo)
  BY <1>1, <1>2, SeqLike
<1>6. TodoSound(p, todo)
  BY <1>4, <1>5 DEF TodoSound
<1> QED
  BY <1>6 DEF todo

LEMMA TodoTail ==
  ASSUME NEW p, NEW todo, TodoSound(p, todo), todo # <<>>
  PROVE  /\ TodoSound(p, Tail(todo))
         /\ Head(todo).pat \in DOMAIN p.binds
         /\ \A v \in Head(todo).src : Sound(v)
<1> DEFINE t == Tail(todo)
<1>1. todo \in Seq(Range(todo)) /\ Len(todo) \in Nat /\ DOMAIN todo = 1 .. Len(todo)
  BY Domain DEF TodoSound, IsSeq
<1>2. Len(todo) # 0
  BY <1>1, EmptySeq
<1>3. Head(todo) = todo[1] /\ 1 \in DOMAIN todo
  BY <1>1, <1>2
<1>4. t \in Seq(Range(todo)) /\ Len(t) = Len(todo) - 1 /\ \A i \in 1 .. Len(t) : t[i] = todo[i + 1]
  BY <1>1, HeadTailProperties
<1> HIDE DEF t
<1>5. DOMAIN t = 1 .. Len(t) /\ Len(t) \in Nat
  BY <1>4, LenProperties
<1>6. \A i \in DOMAIN t : i + 1 \in DOMAIN todo /\ t[i] = todo[i + 1]
  BY <1>1, <1>4, <1>5
<1>7. IsSeq(t)
  <2>1. \A i \in 1 .. Len(t) : t[i] \in Range(t)
    BY <1>5 DEF Range
  <2>2. t \in Seq(Range(t))
    BY <1>4, <1>5, <2>1
  <2> QED
    BY <2>2 DEF IsSeq
<1>8. TodoSound(p, t)
  BY <1>6, <1>7 DEF TodoSound
<1> QED
  BY <1>3, <1>8 DEF TodoSound, t

LEMMA BindingsSound ==
  ASSUME NEW p, Validated(p), NEW k \in Nat, \A j \in 0 .. k - 1 : MatchSound(p, j),
         NEW q \in DOMAIN p.binds, NEW v, Sound(v), NEW b, b.steps = k, SoundEnv(b.env)
  PROVE  /\ SoundMatch(Bindings(q, v, b), k)
         /\ Bindings(q, v, b).r.ok => Bindings(q, v, b).steps < k
<1>0. q.kind \in {"Wildcard", "Binding", "Variant"}
  BY DEF Validated, BindsOk
<1>1. CASE k = 0
  <2>1. Bindings(q, v, b) = Match(Err("StepLimitExceeded", "steps"), b.hit, b.env, b.steps)
    BY <1>1 DEF Bindings
  <2> QED
    BY <1>1, <2>1 DEF SoundMatch, Match, Err
<1>2. ASSUME k # 0 PROVE k - 1 \in 0 .. k - 1 /\ k - 1 \in Nat /\ b.steps # 0 /\ b.steps - 1 = k - 1
  BY <1>2
<1>3. ASSUME k # 0, NEW r, NEW hit, NEW e, SoundEnv(e),
             Bindings(q, v, b) = Match(r, hit, e, k - 1)
      PROVE  SoundMatch(Bindings(q, v, b), k) /\ Bindings(q, v, b).steps < k
  BY <1>2, <1>3 DEF SoundMatch, Match
<1>4. CASE k # 0 /\ q.kind = "Wildcard"
  <2>1. Bindings(q, v, b) = Match(b.r, b.hit, b.env, k - 1)
    BY <1>2, <1>4 DEF Bindings
  <2> QED
    BY <1>3, <1>4, <2>1
<1>5. CASE k # 0 /\ q.kind = "Binding"
  <2>1. Bindings(q, v, b) = Match(b.r, b.hit, Bind(b.env, q.name, v), k - 1)
    BY <1>2, <1>5 DEF Bindings
  <2>2. SoundEnv(Bind(b.env, q.name, v))
    BY BindSound
  <2> QED
    BY <1>3, <1>5, <2>1, <2>2
<1>6. CASE k # 0 /\ q.kind = "Variant"
  <2> DEFINE todo == [i \in DOMAIN q.fields |->
                        [pat |-> q.fields[i].pat, src |-> Lookup(v.fields, q.fields[i].name)]]
             inner == Match(b.r, b.hit, b.env, k - 1)
  <2>1. CASE v.t # "Enum"
    <3>1. Bindings(q, v, b) = Match(Err("InvalidInput", "not_enum_like"), b.hit, b.env, k - 1)
      BY <1>2, <1>6, <2>1 DEF Bindings
    <3> QED
      BY <1>3, <1>6, <3>1
  <2>2. CASE v.t = "Enum" /\ v.tag # q.name
    <3>1. Bindings(q, v, b) = Match(b.r, FALSE, b.env, k - 1)
      BY <1>2, <1>6, <2>2 DEF Bindings
    <3> QED
      BY <1>3, <1>6, <3>1
  <2>3. CASE v.t = "Enum" /\ v.tag = q.name
    <3>1. Bindings(q, v, b) = MatchAll(todo, inner)
      BY <1>2, <1>6, <2>3 DEF Bindings
    <3>2. TodoSound(p, todo)
      BY <1>6, <2>3, FieldsSound
    <3>3. inner.steps = k - 1 /\ SoundEnv(inner.env)
      BY DEF Match
    <3>4. MatchSound(p, k - 1)
      BY <1>2, <1>6
    <3> HIDE DEF todo, inner
    <3>5. SoundMatch(MatchAll(todo, inner), k - 1)
      BY <3>2, <3>3, <3>4 DEF MatchSound
    <3> QED
      BY <1>2, <1>6, <3>1, <3>5 DEF SoundMatch
  <2> QED
    BY <2>1, <2>2, <2>3
<1> QED
  BY <1>0, <1>1, <1>4, <1>5, <1>6

LEMMA MatchSoundStep ==
  ASSUME RecursionEquations, NEW p, Validated(p), NEW k \in Nat,
         \A j \in 0 .. k - 1 : MatchSound(p, j)
  PROVE  MatchSound(p, k)
<1> SUFFICES ASSUME NEW todo, NEW b, TodoSound(p, todo), b.steps = k, SoundEnv(b.env)
             PROVE  SoundMatch(MatchAll(todo, b), k)
  BY DEF MatchSound
<1>0. \A t, a : MatchAll(t, a) = MatchAllStep(t, a)
  BY DEF RecursionEquations
<1>1. SoundMatch(b, k)
  BY DEF SoundMatch
<1>2. CASE todo = <<>> \/ ~b.hit \/ ~b.r.ok
  <2>1. MatchAll(todo, b) = b
    BY <1>0, <1>2 DEF MatchAllStep
  <2> QED
    BY <1>1, <2>1
<1>3. CASE ~(todo = <<>> \/ ~b.hit \/ ~b.r.ok)
  <2> DEFINE h == Head(todo)
             t == Tail(todo)
             missing == Match(Err("InvalidInput", "missing_payload_field"), b.hit, b.env, b.steps)
             v == CHOOSE u \in h.src : TRUE
  <2>1. TodoSound(p, t) /\ h.pat \in DOMAIN p.binds /\ \A u \in h.src : Sound(u)
    BY <1>3, TodoTail
  <2>2. ASSUME NEW a, ~a.r.ok PROVE MatchAll(t, a) = a
    BY <1>0, <2>2 DEF MatchAllStep
  <2>3. CASE h.src = {}
    <3>1. MatchAll(todo, b) = MatchAll(t, missing)
      BY <1>0, <1>3, <2>3 DEF MatchAllStep
    <3>2. ~missing.r.ok /\ SoundMatch(missing, k)
      BY DEF Match, Err, SoundMatch
    <3> HIDE DEF missing, t
    <3> QED
      BY <2>2, <3>1, <3>2
  <2>4. CASE h.src # {}
    <3> DEFINE f == Bindings(h.pat, v, b)
    <3>1. MatchAll(todo, b) = MatchAll(t, f)
      BY <1>0, <1>3, <2>4 DEF MatchAllStep
    <3>2. Sound(v)
      BY <2>1, <2>4
    <3> HIDE DEF v
    <3>3. SoundMatch(f, k) /\ (f.r.ok => f.steps < k)
      BY <2>1, <3>2, BindingsSound
    <3> HIDE DEF f, t
    <3>4. CASE ~f.r.ok
      BY <2>2, <3>1, <3>3, <3>4
    <3>5. CASE f.r.ok
      <4>1. f.steps \in 0 .. k - 1 /\ SoundEnv(f.env)
        BY <3>3, <3>5 DEF SoundMatch
      <4>2. SoundMatch(MatchAll(t, f), f.steps)
        BY <2>1, <4>1 DEF MatchSound
      <4> QED
        BY <3>1, <4>1, <4>2 DEF SoundMatch
    <3> QED
      BY <3>4, <3>5
  <2> QED
    BY <2>3, <2>4
<1> QED
  BY <1>2, <1>3

LEMMA MatchAlwaysSound ==
  ASSUME RecursionEquations, NEW p, Validated(p)
  PROVE  \A k \in Nat : MatchSound(p, k)
<1> DEFINE T == {k \in Nat : ~MatchSound(p, k)}
<1> SUFFICES ASSUME T # {} PROVE FALSE
  OBVIOUS
<1>1. PICK n \in T : \A k \in T : n <= k
  BY LeastNumber
<1>2. n \in Nat /\ ~MatchSound(p, n) /\ \A j \in 0 .. n - 1 : MatchSound(p, j)
  BY <1>1
<1> QED
  BY <1>2, MatchSoundStep

------------------------------------------------------------------------------
(***************************************************************************)
(* Expressions, operands, arms and calls.                                  *)
(***************************************************************************)
EvalSound(p, m, k) ==
  \A n \in Exprs(p) : \A e, d, b :
    SoundEnv(e) => LET o == EvalIn(m, n, e, d, Budget(k, b))
                   IN  SoundOutcome(o, k) /\ (o.r.ok => o.steps < k)

(* The outcome of all operands holds their values as a sequence. *)
ManySound(o, k, len) ==
  o.steps \in 0 .. k /\ (o.r.ok => SoundSeq(o.r.val) /\ Len(o.r.val) = len)

RestSound(p, m, k) ==
  \A ns, vals, e, d, b :
    IsSeq(ns) /\ Range(ns) \subseteq Exprs(p) /\ SoundSeq(vals) /\ Len(vals) <= Len(ns) /\ SoundEnv(e)
      => ManySound(EvalRest(m, ns, vals, e, d, Budget(k, b)), k, Len(ns))

ArmsIn(p, arms) ==
  /\ IsSeq(arms)
  /\ \A i \in DOMAIN arms : arms[i].pat \in DOMAIN p.binds /\ arms[i].body \in Exprs(p)

ArmsSound(p, m, k) ==
  \A i \in Nat \ {0} : \A arms, v, e, d, b :
    ArmsIn(p, arms) /\ Sound(v) /\ SoundEnv(e)
      => SoundOutcome(ChooseArm(m, arms, i, v, e, d, Budget(k, b)), k)

LEMMA BudgetIs ==
  ASSUME NEW k, NEW b
  PROVE  Budget(k, b).steps = k /\ Budget(k, b).mem = b /\ Spend(Budget(k, b)) = Budget(k - 1, b)
BY DEF Budget, Spend

LEMMA FaultSound ==
  ASSUME NEW j \in Nat, NEW k \in Nat, j <= k, NEW b, NEW c, NEW w
  PROVE  SoundOutcome(Fault(c, w, Budget(j, b)), k) /\ ~Fault(c, w, Budget(j, b)).r.ok
<1> DEFINE o == Fault(c, w, Budget(j, b))
<1>1. o.steps = j /\ ~o.r.ok
  BY DEF Fault, Outcome, Budget, Err
<1> HIDE DEF o
<1>2. SoundOutcome(o, k) /\ ~o.r.ok
  BY <1>1 DEF SoundOutcome
<1> QED
  BY <1>2 DEF o

LEMMA OkSound ==
  ASSUME NEW j \in Nat, NEW k \in Nat, j <= k, NEW b, NEW v, Sound(v)
  PROVE  SoundOutcome(Outcome(Ok(v), Budget(j, b)), k)
<1> DEFINE o == Outcome(Ok(v), Budget(j, b))
<1>1. o.steps = j /\ o.r.val = v
  BY DEF Outcome, Budget, Ok
<1> HIDE DEF o
<1>2. SoundOutcome(o, k)
  BY <1>1 DEF SoundOutcome
<1> QED
  BY <1>2 DEF o

LEMMA ChargedSound ==
  ASSUME NEW m, NEW k \in Nat, NEW o, SoundOutcome(o, k)
  PROVE  SoundOutcome(Charged(m, o), k)
<1> DEFINE c == Charged(m, o)
<1>1. c = o \/ (c.steps = o.steps /\ (c.r.ok => c.r = o.r))
  BY DEF Charged, Fault, Outcome, Budget, Err
<1> HIDE DEF c
<1>2. SoundOutcome(c, k)
  BY <1>1 DEF SoundOutcome
<1> QED
  BY <1>2 DEF c

(* The parts of an expression that was visited were visited. *)
LEMMA VisitedParts ==
  ASSUME NEW p, Validated(p), NEW n \in Exprs(p)
  PROVE  /\ IsLeaf(n) \/ HasKids(n) \/ n.kind \in {"Let", "Match"}
         /\ HasKids(n) => IsSeq(n.kids) /\ Range(n.kids) \subseteq Exprs(p)
         /\ n.kind = "Record" => IsSeq(n.names) /\ Len(n.names) = Len(n.kids)
         /\ n.kind = "Binary" => n.op \in {"Add", "Sub", "Mul", "Div"}
         /\ n.kind = "Let" => n.value \in Exprs(p) /\ n.body \in Exprs(p)
         /\ n.kind = "Match" => n.subject \in Exprs(p) /\ ArmsIn(p, n.arms)
<1>1. PICK visit \in p.visits : n = visit[1]
  BY DEF Exprs
<1> DEFINE S == visit[2]
<1>2. VisitOk(p, n, S)
  BY <1>1 DEF Validated
<1>3. ASSUME NEW x, NEW T, <<x, T>> \in p.visits PROVE x \in Exprs(p)
  BY <1>3 DEF Exprs
<1> HIDE DEF S
<1>4. IrShape(n)
  BY <1>2 DEF VisitOk
<1>5. HasKids(n) => Range(n.kids) \subseteq Exprs(p)
  <2> SUFFICES ASSUME HasKids(n), NEW i \in DOMAIN n.kids PROVE n.kids[i] \in Exprs(p)
    BY DEF Range
  <2>1. <<n.kids[i], S>> \in p.visits
    BY <1>2 DEF VisitOk
  <2> QED
    BY <1>3, <2>1
<1>6. n.kind = "Let" => n.value \in Exprs(p) /\ n.body \in Exprs(p)
  <2> SUFFICES ASSUME n.kind = "Let" PROVE n.value \in Exprs(p) /\ n.body \in Exprs(p)
    OBVIOUS
  <2>1. <<n.value, S>> \in p.visits /\ <<n.body, S \cup {n.name}>> \in p.visits
    BY <1>2 DEF VisitOk
  <2> QED
    BY <1>3, <2>1
<1>7. n.kind = "Match" => n.subject \in Exprs(p) /\ ArmsIn(p, n.arms)
  <2> SUFFICES ASSUME n.kind = "Match" PROVE n.subject \in Exprs(p) /\ ArmsIn(p, n.arms)
    OBVIOUS
  <2>1. /\ <<n.subject, S>> \in p.visits
        /\ \A i \in DOMAIN n.arms :
             /\ n.arms[i].pat \in DOMAIN p.binds
             /\ <<n.arms[i].body, S \cup p.binds[n.arms[i].pat]>> \in p.visits
    BY <1>2 DEF VisitOk
  <2>2. n.subject \in Exprs(p) /\ \A i \in DOMAIN n.arms : n.arms[i].body \in Exprs(p)
    BY <1>3, <2>1
  <2>3. IsSeq(n.arms)
    BY <1>4 DEF IrShape
  <2> QED
    BY <2>1, <2>2, <2>3 DEF ArmsIn
<1> QED
  BY <1>4, <1>5, <1>6, <1>7 DEF IrShape

LEMMA ApplySound ==
  ASSUME NEW p, Validated(p), NEW m, m.functions = p.functions, NEW k \in Nat,
         \A j \in 0 .. k - 1 : EvalSound(p, m, j),
         NEW f, NEW args, SoundSeq(args), NEW d, NEW b
  PROVE  SoundOutcome(ApplyFn(m, f, args, d, Budget(k, b)), k)
<1> DEFINE o == ApplyFn(m, f, args, d, Budget(k, b))
<1> SUFFICES SoundOutcome(o, k)
  OBVIOUS
<1> HIDE DEF o
<1>1. CASE k = 0
  <2>1. o = Fault("StepLimitExceeded", "steps", Budget(k, b))
    BY <1>1, BudgetIs DEF o, ApplyFn
  <2> QED
    BY <2>1, FaultSound
<1>2. CASE k # 0
  <2>1. k - 1 \in Nat /\ k - 1 <= k /\ k - 1 \in 0 .. k - 1
    BY <1>2
  <2>2. Budget(k, b).steps # 0 /\ Spend(Budget(k, b)) = Budget(k - 1, b)
    BY <1>2, BudgetIs
  <2>3. CASE d >= m.limits.max_recursion_depth
    <3>1. o = Fault("RecursionLimitExceeded", "depth", Budget(k - 1, b))
      BY <2>2, <2>3 DEF o, ApplyFn
    <3> QED
      BY <2>1, <3>1, FaultSound
  <2>4. CASE ~(d >= m.limits.max_recursion_depth) /\ f \notin DOMAIN m.functions
    <3>1. o = Fault("Trap", "unknown_function", Budget(k - 1, b))
      BY <2>2, <2>4 DEF o, ApplyFn
    <3> QED
      BY <2>1, <3>1, FaultSound
  <2>5. CASE /\ ~(d >= m.limits.max_recursion_depth) /\ f \in DOMAIN m.functions
             /\ Len(args) # Len(m.functions[f].params)
    <3>1. o = Fault("Trap", "arity", Budget(k - 1, b))
      BY <2>2, <2>5 DEF o, ApplyFn
    <3> QED
      BY <2>1, <3>1, FaultSound
  <2>6. CASE /\ ~(d >= m.limits.max_recursion_depth) /\ f \in DOMAIN m.functions
             /\ Len(args) = Len(m.functions[f].params)
    <3> DEFINE n == m.functions[f].body
               e == InsertAll(m.functions[f].params, args)
    <3>1. o = EvalIn(m, n, e, d + 1, Budget(k - 1, b))
      BY <2>2, <2>6 DEF o, ApplyFn
    <3>2. n \in Exprs(p) /\ IsSeq(m.functions[f].params)
      <4>1. /\ IsSeq(p.functions[f].params)
            /\ <<p.functions[f].body, Range(p.functions[f].params)>> \in p.visits
        BY <2>6 DEF Validated
      <4>2. p.functions[f].body \in Exprs(p)
        BY <4>1 DEF Exprs
      <4> QED
        BY <4>1, <4>2
    <3>3. SoundEnv(e)
      BY <2>6, <3>2, InsertedSound
    <3>4. EvalSound(p, m, k - 1)
      BY <2>1
    <3> HIDE DEF n, e
    <3>5. SoundOutcome(o, k - 1)
      BY <3>1, <3>2, <3>3, <3>4 DEF EvalSound
    <3> QED
      BY <2>1, <3>5, SoundLater
  <2> QED
    BY <2>3, <2>4, <2>5, <2>6
<1> QED
  BY <1>1, <1>2

LEMMA RestSoundStep ==
  ASSUME RecursionEquations, NEW p, Validated(p), NEW m, NEW k \in Nat,
         \A j \in 0 .. k - 1 : RestSound(p, m, j), EvalSound(p, m, k)
  PROVE  RestSound(p, m, k)
<1> SUFFICES ASSUME NEW ns, NEW vals, NEW e, NEW d, NEW b,
                    IsSeq(ns), Range(ns) \subseteq Exprs(p), SoundSeq(vals),
                    Len(vals) <= Len(ns), SoundEnv(e)
             PROVE  ManySound(EvalRest(m, ns, vals, e, d, Budget(k, b)), k, Len(ns))
  BY DEF RestSound
<1> DEFINE r == EvalRest(m, ns, vals, e, d, Budget(k, b))
<1>0. r = EvalRestStep(m, ns, vals, e, d, Budget(k, b))
  BY DEF RecursionEquations
<1>1. Len(vals) \in Nat /\ Len(ns) \in Nat /\ DOMAIN ns = 1 .. Len(ns)
  BY Domain DEF SoundSeq
<1> HIDE DEF r
<1>2. CASE Len(vals) >= Len(ns)
  <2>1. r = Outcome(Ok(vals), Budget(k, b))
    BY <1>0, <1>2 DEF EvalRestStep
  <2>2. r.steps = k /\ r.r.val = vals
    BY <2>1 DEF Outcome, Budget, Ok
  <2>3. ManySound(r, k, Len(ns))
    BY <1>1, <1>2, <2>2 DEF ManySound
  <2> QED
    BY <2>3 DEF r
<1>3. CASE ~(Len(vals) >= Len(ns))
  <2> DEFINE n == ns[Len(vals) + 1]
             o == EvalIn(m, n, e, d, Budget(k, b))
  <2>1. r = IF o.r.ok THEN EvalRest(m, ns, Append(vals, o.r.val), e, d, Left(o)) ELSE o
    BY <1>0, <1>3 DEF EvalRestStep
  <2>2. n \in Exprs(p)
    <3>1. Len(vals) + 1 \in DOMAIN ns
      BY <1>1, <1>3
    <3> QED
      BY <3>1 DEF Range
  <2> HIDE DEF n
  <2>3. SoundOutcome(o, k) /\ (o.r.ok => o.steps < k)
    BY <2>2 DEF EvalSound
  <2> HIDE DEF o
  <2>4. CASE ~o.r.ok
    <3>1. ManySound(r, k, Len(ns))
      BY <2>1, <2>3, <2>4 DEF ManySound, SoundOutcome
    <3> QED
      BY <3>1 DEF r
  <2>5. CASE o.r.ok
    <3> DEFINE more == Append(vals, o.r.val)
    <3>1. r = EvalRest(m, ns, more, e, d, Budget(o.steps, o.mem))
      BY <2>1, <2>5 DEF Left
    <3>2. o.steps \in 0 .. k - 1 /\ Sound(o.r.val)
      BY <2>3, <2>5 DEF SoundOutcome
    <3>3. SoundSeq(more) /\ Len(more) = Len(vals) + 1
      BY <3>2, AppendSound
    <3> HIDE DEF more
    <3>4. Len(more) <= Len(ns)
      BY <1>1, <1>3, <3>3
    <3>5. RestSound(p, m, o.steps)
      BY <3>2
    <3>6. ManySound(r, o.steps, Len(ns))
      BY <3>1, <3>3, <3>4, <3>5 DEF RestSound
    <3>7. ManySound(r, k, Len(ns))
      BY <3>2, <3>6 DEF ManySound
    <3> QED
      BY <3>7 DEF r
  <2> QED
    BY <2>4, <2>5
<1> QED
  BY <1>2, <1>3

LEMMA ArmsSoundStep ==
  ASSUME RecursionEquations, NEW p, Validated(p), NEW m, NEW k \in Nat,
         \A j \in 0 .. k - 1 : EvalSound(p, m, j) /\ ArmsSound(p, m, j)
  PROVE  ArmsSound(p, m, k)
<1> SUFFICES ASSUME NEW i \in Nat \ {0}, NEW arms, NEW v, NEW e, NEW d, NEW b,
                    ArmsIn(p, arms), Sound(v), SoundEnv(e)
             PROVE  SoundOutcome(ChooseArm(m, arms, i, v, e, d, Budget(k, b)), k)
  BY DEF ArmsSound
<1> DEFINE o == ChooseArm(m, arms, i, v, e, d, Budget(k, b))
<1> SUFFICES SoundOutcome(o, k)
  OBVIOUS
<1>0. o = ChooseArmStep(m, arms, i, v, e, d, Budget(k, b))
  BY DEF RecursionEquations
<1>1. DOMAIN arms = 1 .. Len(arms) /\ Len(arms) \in Nat
  BY Domain DEF ArmsIn
<1> HIDE DEF o
<1>2. CASE ~(i <= Len(arms))
  <2>1. o = Fault("Trap", "non_exhaustive_match", Budget(k, b))
    BY <1>0, <1>2 DEF ChooseArmStep
  <2> QED
    BY <2>1, FaultSound
<1>3. CASE i <= Len(arms)
  <2> DEFINE body == arms[i].body
             start == Match(Ok(v), TRUE, e, k)
             f == Bindings(arms[i].pat, v, start)
  <2>1. i \in DOMAIN arms
    BY <1>1, <1>3
  <2>2. body \in Exprs(p) /\ arms[i].pat \in DOMAIN p.binds
    BY <2>1 DEF ArmsIn
  <2>3. o = Chosen(m, arms, i, v, e, d, b, f)
    BY <1>0, <1>3 DEF ChooseArmStep, Budget
  <2>4. start.steps = k /\ start.env = e
    BY DEF Match
  <2>5. \A j \in 0 .. k - 1 : MatchSound(p, j)
    BY MatchAlwaysSound
  <2> HIDE DEF start
  <2>6. SoundMatch(f, k) /\ (f.r.ok => f.steps < k)
    BY <2>2, <2>4, <2>5, BindingsSound
  <2> HIDE DEF f
  <2>7. CASE ~f.r.ok
    <3>1. o = Outcome(f.r, Budget(f.steps, b))
      BY <2>3, <2>7 DEF Chosen
    <3>2. o.steps = f.steps /\ o.r = f.r
      BY <3>1 DEF Outcome, Budget
    <3> QED
      BY <2>6, <2>7, <3>2 DEF SoundMatch, SoundOutcome
  <2>8. CASE f.r.ok
    <3>1. f.steps \in 0 .. k - 1 /\ f.steps \in Nat /\ f.steps <= k /\ SoundEnv(f.env)
      BY <2>6, <2>8 DEF SoundMatch
    <3>2. EvalSound(p, m, f.steps) /\ ArmsSound(p, m, f.steps)
      BY <3>1
    <3>3. CASE f.hit
      <4>1. o = EvalIn(m, body, f.env, d, Budget(f.steps, b))
        BY <2>3, <2>8, <3>3 DEF Chosen
      <4> HIDE DEF body
      <4>2. SoundOutcome(o, f.steps)
        BY <2>2, <3>1, <3>2, <4>1 DEF EvalSound
      <4> QED
        BY <3>1, <4>2, SoundLater
    <3>4. CASE ~f.hit
      <4>1. o = ChooseArm(m, arms, i + 1, v, e, d, Budget(f.steps, b))
        BY <2>3, <2>8, <3>4 DEF Chosen
      <4>2. i + 1 \in Nat \ {0}
        OBVIOUS
      <4>3. SoundOutcome(o, f.steps)
        BY <3>2, <4>1, <4>2 DEF ArmsSound
      <4> QED
        BY <3>1, <4>3, SoundLater
    <3> QED
      BY <3>3, <3>4
  <2> QED
    BY <2>7, <2>8
<1> QED
  BY <1>2, <1>3

LEMMA BinarySound ==
  ASSUME CodecEquations, NEW op \in {"Add", "Sub", "Mul", "Div"}, NEW x, NEW y
  PROVE  EvalBinary(op, x, y).ok => Sound(EvalBinary(op, x, y).val)
<1> DEFINE r == EvalBinary(op, x, y)
<1>1. \A i : ~Checked(i).ok \/ Checked(i) = Ok(IntV(i))
  BY DEF Checked, Err
<1>2. ~r.ok \/ \E i : r = Checked(i)
  BY DEF EvalBinary, Err
<1> HIDE DEF r
<1>3. ~r.ok \/ \E i : r.val = IntV(i)
  BY <1>1, <1>2 DEF Ok
<1>4. r.ok => Sound(r.val)
  BY <1>3, SoundScalars
<1> QED
  BY <1>4 DEF r

(* A compound expression, given its operands. *)
LEMMA MadeSound ==
  ASSUME CodecEquations, NEW p, Validated(p), NEW m, m.functions = p.functions, NEW k \in Nat,
         \A j \in 0 .. k : EvalSound(p, m, j),
         NEW n \in Exprs(p), HasKids(n), NEW d, NEW o, ManySound(o, k, Len(n.kids))
  PROVE  SoundOutcome(Made(m, n, d, o), k)
<1> DEFINE q == Made(m, n, d, o)
<1> SUFFICES SoundOutcome(q, k)
  OBVIOUS
<1>1. CASE ~o.r.ok
  <2>1. q = o
    BY <1>1 DEF Made
  <2> HIDE DEF q
  <2> QED
    BY <1>1, <2>1 DEF ManySound, SoundOutcome
<1>2. CASE o.r.ok
  <2> DEFINE vals == o.r.val
  <2>1. o.steps \in Nat /\ o.steps <= k /\ SoundSeq(vals) /\ Len(vals) = Len(n.kids)
    BY <1>2 DEF ManySound
  <2>2. Left(o) = Budget(o.steps, o.mem)
    BY DEF Left
  <2>3. IsSeq(vals) /\ \A i \in DOMAIN vals : Sound(vals[i])
    BY <2>1 DEF SoundSeq
  <2>4. CASE n.kind = "Tuple"
    <3>1. q = Outcome(Ok(TupleV(vals)), Left(o))
      BY <1>2, <2>4 DEF Made
    <3> HIDE DEF q, vals
    <3>2. Sound(TupleV(vals))
      BY <2>3, SoundCompounds
    <3> QED
      BY <2>1, <2>2, <3>1, <3>2, OkSound
  <2>5. CASE n.kind = "List"
    <3>1. q = Outcome(Ok(ListV(vals)), Left(o))
      BY <1>2, <2>5 DEF Made
    <3> HIDE DEF q, vals
    <3>2. Sound(ListV(vals))
      BY <2>3, SoundCompounds
    <3> QED
      BY <2>1, <2>2, <3>1, <3>2, OkSound
  <2>6. CASE n.kind = "Record"
    <3> DEFINE f == InsertAll(n.names, vals)
    <3>1. q = Outcome(Ok(EnumV(n.name, f)), Left(o))
      BY <1>2, <2>6 DEF Made
    <3>2. IsSeq(n.names) /\ Len(n.names) = Len(n.kids)
      BY <2>6, VisitedParts
    <3>3. IsFn(f) /\ SoundEnv(f)
      BY <2>1, <3>2, InsertedSound
    <3> HIDE DEF f, q
    <3>4. Sound(EnumV(n.name, f))
      BY <3>3, SoundEnum DEF SoundEnv
    <3> QED
      BY <2>1, <2>2, <3>1, <3>4, OkSound
  <2>7. CASE n.kind = "Binary"
    <3> DEFINE r == EvalBinary(n.op, vals[1], vals[2])
    <3>1. q = Outcome(r, Left(o))
      BY <1>2, <2>7 DEF Made
    <3>2. r.ok => Sound(r.val)
      BY <2>7, VisitedParts, BinarySound
    <3> HIDE DEF r, q
    <3>3. q.steps = o.steps /\ q.r = r
      BY <2>2, <3>1 DEF Outcome, Budget
    <3> QED
      BY <2>1, <3>2, <3>3 DEF SoundOutcome
  <2>8. CASE n.kind = "Call"
    <3>1. q = ApplyFn(m, n.callee, vals, d, Budget(o.steps, o.mem))
      BY <1>2, <2>2, <2>8 DEF Made
    <3>2. \A j \in 0 .. o.steps - 1 : EvalSound(p, m, j)
      BY <2>1
    <3> HIDE DEF q, vals
    <3>3. SoundOutcome(q, o.steps)
      BY <2>1, <3>1, <3>2, ApplySound
    <3> QED
      BY <2>1, <3>3, SoundLater
  <2> QED
    BY <2>4, <2>5, <2>6, <2>7, <2>8 DEF HasKids
<1> QED
  BY <1>1, <1>2

(* The value of an expression, before it is paid for. *)
LEMMA ValueSound ==
  ASSUME CodecEquations, NEW p, Validated(p), NEW m, m.functions = p.functions, NEW k \in Nat,
         \A j \in 0 .. k : EvalSound(p, m, j) /\ ArmsSound(p, m, j), RestSound(p, m, k),
         NEW n \in Exprs(p), NEW e, SoundEnv(e), NEW d, NEW b
  PROVE  SoundOutcome(ValueOf(m, n, e, d, Budget(k, b)), k)
<1> DEFINE left == Budget(k, b)
           o == ValueOf(m, n, e, d, left)
<1> SUFFICES SoundOutcome(o, k)
  OBVIOUS
<1> HIDE DEF o
<1>0. /\ IsLeaf(n) \/ HasKids(n) \/ n.kind \in {"Let", "Match"}
      /\ HasKids(n) => IsSeq(n.kids) /\ Range(n.kids) \subseteq Exprs(p)
      /\ n.kind = "Let" => n.value \in Exprs(p) /\ n.body \in Exprs(p)
      /\ n.kind = "Match" => n.subject \in Exprs(p) /\ ArmsIn(p, n.arms)
  BY VisitedParts
<1>1. k <= k
  OBVIOUS
<1>2. EvalSound(p, m, k)
  OBVIOUS
<1>3. CASE n.kind = "Int"
  <2>1. o = Outcome(Ok(IntV(n.int)), left)
    BY <1>3 DEF o, ValueOf
  <2>2. Sound(IntV(n.int))
    BY SoundScalars
  <2> QED
    BY <1>1, <2>1, <2>2, OkSound
<1>4. CASE n.kind = "Bool"
  <2>1. o = Outcome(Ok(BoolV(n.bool)), left)
    BY <1>4 DEF o, ValueOf
  <2>2. Sound(BoolV(n.bool))
    BY SoundScalars
  <2> QED
    BY <1>1, <2>1, <2>2, OkSound
<1>5. CASE n.kind = "LocalRef"
  <2>1. CASE n.name \in DOMAIN e
    <3>1. o = Outcome(Ok(e[n.name]), left)
      BY <1>5, <2>1 DEF o, ValueOf
    <3>2. Sound(e[n.name])
      BY <2>1 DEF SoundEnv
    <3> QED
      BY <1>1, <3>1, <3>2, OkSound
  <2>2. CASE n.name \notin DOMAIN e
    <3>1. o = Fault("Trap", "unknown_local", left)
      BY <1>5, <2>2 DEF o, ValueOf
    <3> QED
      BY <1>1, <3>1, FaultSound
  <2> QED
    BY <2>1, <2>2
<1>6. CASE HasKids(n)
  <2> DEFINE f == EvalRest(m, n.kids, <<>>, e, d, left)
  <2>1. o = Made(m, n, d, f)
    BY <1>6 DEF o, ValueOf, HasKids
  <2>2. SoundSeq(<<>>) /\ Len(<<>>) <= Len(n.kids)
    <3>1. Len(n.kids) \in Nat
      BY <1>0, <1>6, Domain
    <3> QED
      BY <3>1 DEF SoundSeq, IsSeq
  <2>3. ManySound(f, k, Len(n.kids))
    BY <1>0, <1>6, <2>2 DEF RestSound
  <2> HIDE DEF f, left
  <2>4. \A j \in 0 .. k : EvalSound(p, m, j)
    OBVIOUS
  <2> QED
    BY <1>6, <2>1, <2>3, <2>4, MadeSound
<1>7. CASE n.kind = "Let"
  <2> DEFINE f == EvalIn(m, n.value, e, d, left)
  <2>1. o = BodyOf(m, n, e, d, f)
    BY <1>7 DEF o, ValueOf
  <2>2. SoundOutcome(f, k)
    BY <1>0, <1>2, <1>7 DEF EvalSound
  <2> HIDE DEF f, left
  <2>3. CASE ~f.r.ok
    BY <2>1, <2>2, <2>3 DEF BodyOf
  <2>4. CASE f.r.ok
    <3> DEFINE h == Bind(e, n.name, f.r.val)
    <3>1. f.steps \in 0 .. k /\ f.steps \in Nat /\ f.steps <= k /\ Sound(f.r.val)
      BY <2>2, <2>4 DEF SoundOutcome
    <3>2. o = EvalIn(m, n.body, h, d, Budget(f.steps, f.mem))
      BY <2>1, <2>4 DEF BodyOf, Left
    <3>3. SoundEnv(h)
      BY <3>1, BindSound
    <3>4. EvalSound(p, m, f.steps)
      BY <3>1
    <3> HIDE DEF h
    <3>5. SoundOutcome(o, f.steps)
      BY <1>0, <1>7, <3>2, <3>3, <3>4 DEF EvalSound
    <3> QED
      BY <3>1, <3>5, SoundLater
  <2> QED
    BY <2>3, <2>4
<1>8. CASE n.kind = "Match"
  <2> DEFINE f == EvalIn(m, n.subject, e, d, left)
  <2>1. o = ArmsOf(m, n, e, d, f)
    BY <1>8 DEF o, ValueOf
  <2>2. SoundOutcome(f, k)
    BY <1>0, <1>2, <1>8 DEF EvalSound
  <2> HIDE DEF f, left
  <2>3. CASE ~f.r.ok
    BY <2>1, <2>2, <2>3 DEF ArmsOf
  <2>4. CASE f.r.ok
    <3>1. f.steps \in 0 .. k /\ f.steps \in Nat /\ f.steps <= k /\ Sound(f.r.val)
      BY <2>2, <2>4 DEF SoundOutcome
    <3>2. o = ChooseArm(m, n.arms, 1, f.r.val, e, d, Budget(f.steps, f.mem))
      BY <2>1, <2>4 DEF ArmsOf, Left
    <3>3. ArmsSound(p, m, f.steps) /\ 1 \in Nat \ {0} /\ ArmsIn(p, n.arms)
      BY <1>0, <1>8, <3>1
    <3>4. SoundOutcome(ChooseArm(m, n.arms, 1, f.r.val, e, d, Budget(f.steps, f.mem)), f.steps)
      BY <3>1, <3>3, Zenon DEF ArmsSound
    <3>5. SoundOutcome(o, f.steps)
      BY <3>2, <3>4, Zenon
    <3> QED
      BY <3>1, <3>5, SoundLater
  <2> QED
    BY <2>3, <2>4
<1> QED
  BY <1>0, <1>3, <1>4, <1>5, <1>6, <1>7, <1>8 DEF IsLeaf

LEMMA EvalSoundStep ==
  ASSUME CodecEquations, RecursionEquations, NEW p, Validated(p), NEW m,
         m.functions = p.functions, NEW k \in Nat,
         \A j \in 0 .. k - 1 : EvalSound(p, m, j) /\ RestSound(p, m, j) /\ ArmsSound(p, m, j)
  PROVE  EvalSound(p, m, k)
<1> SUFFICES ASSUME NEW n \in Exprs(p), NEW e, NEW d, NEW b, SoundEnv(e)
             PROVE  LET o == EvalIn(m, n, e, d, Budget(k, b))
                    IN  SoundOutcome(o, k) /\ (o.r.ok => o.steps < k)
  BY DEF EvalSound
<1> DEFINE o == EvalIn(m, n, e, d, Budget(k, b))
<1> SUFFICES SoundOutcome(o, k) /\ (o.r.ok => o.steps < k)
  OBVIOUS
<1>0. o = EvalInStep(m, n, e, d, Budget(k, b))
  BY DEF RecursionEquations
<1> HIDE DEF o
<1>1. CASE k = 0
  <2>1. o = Fault("StepLimitExceeded", "steps", Budget(k, b))
    BY <1>0, <1>1, BudgetIs DEF EvalInStep
  <2> QED
    BY <2>1, FaultSound
<1>2. CASE k # 0
  <2>1. k - 1 \in Nat /\ k - 1 \in 0 .. k - 1 /\ k - 1 <= k
    BY <1>2
  <2> DEFINE f == ValueOf(m, n, e, d, Budget(k - 1, b))
  <2>2. o = Charged(m, f)
    BY <1>0, <1>2, BudgetIs DEF EvalInStep
  <2>3. RestSound(p, m, k - 1) /\ \A j \in 0 .. k - 1 : EvalSound(p, m, j) /\ ArmsSound(p, m, j)
    BY <2>1
  <2>4. SoundOutcome(f, k - 1)
    BY <2>1, <2>3, ValueSound
  <2> HIDE DEF f
  <2>5. SoundOutcome(o, k - 1)
    BY <2>1, <2>2, <2>4, ChargedSound
  <2>6. o.steps < k
    BY <2>1, <2>5 DEF SoundOutcome
  <2> QED
    BY <2>1, <2>5, <2>6, SoundLater
<1> QED
  BY <1>1, <1>2

LEMMA EvalAlwaysSound ==
  ASSUME CodecEquations, RecursionEquations, NEW p, Validated(p), NEW m,
         m.functions = p.functions
  PROVE  \A k \in Nat : EvalSound(p, m, k)
<1> DEFINE Keeps(k) == EvalSound(p, m, k) /\ RestSound(p, m, k) /\ ArmsSound(p, m, k)
           T == {k \in Nat : ~Keeps(k)}
<1>1. CASE T # {}
  <2>1. PICK n \in T : \A k \in T : n <= k
    BY <1>1, LeastNumber
  <2>2. n \in Nat /\ ~Keeps(n)
    OBVIOUS
  <2>3. \A j \in 0 .. n - 1 : Keeps(j)
    BY <2>1, <2>2
  <2>4. EvalSound(p, m, n)
    BY <2>2, <2>3, EvalSoundStep
  <2>5. RestSound(p, m, n)
    BY <2>2, <2>3, <2>4, RestSoundStep
  <2>6. ArmsSound(p, m, n)
    BY <2>2, <2>3, ArmsSoundStep
  <2> QED
    BY <2>2, <2>4, <2>5, <2>6
<1> QED
  BY <1>1

(***************************************************************************)
(* A call of a program that has been validated: what it answers survives,  *)
(* and an update is a pair of values that do.                              *)
(***************************************************************************)
LEMMA CallSound ==
  ASSUME CodecEquations, RecursionEquations, NEW p, Validated(p), NEW entry,
         NEW s, Sound(s), NEW i, Sound(i), Call(p, entry, s, i).ok
  PROVE  LET v == Call(p, entry, s, i).val
         IN  /\ Sound(v)
             /\ entry = "update" => IsUpdateResult(v)
<1> DEFINE m == Machine(p)
           args == <<s, i>>
           f == p[entry]
           k == Limits.max_steps
           o == ApplyFn(m, f, args, 0, Budget(k, 0))
<1>1. Call(p, entry, s, i) = AsAnswer(entry, o.r)
  BY DEF Call, RunFunction, Machine
<1>2. m.functions = p.functions /\ k \in Nat
  BY LimitsAssumption DEF Machine
<1>3. SoundSeq(args)
  BY DEF SoundSeq, IsSeq, Range
<1> HIDE DEF m, args, f, k
<1>4. \A j \in 0 .. k - 1 : EvalSound(p, m, j)
  BY <1>2, EvalAlwaysSound
<1>5. SoundOutcome(o, k)
  BY <1>2, <1>3, <1>4, ApplySound
<1> HIDE DEF o
<1> DEFINE r == Call(p, entry, s, i)
<1>6. r = o.r /\ o.r.ok /\ (entry = "update" => IsUpdateResult(o.r.val))
  BY <1>1 DEF AsAnswer, Answer, Err
<1> HIDE DEF r
<1>7. Sound(r.val) /\ (entry = "update" => IsUpdateResult(r.val))
  BY <1>5, <1>6 DEF SoundOutcome
<1> QED
  BY <1>7 DEF r

LEMMA PairSound ==
  ASSUME NEW v, Sound(v), IsUpdateResult(v)
  PROVE  /\ Sound(v.items[1]) /\ Sound(v.items[2])
         /\ v.items[2].t = "List"
<1>1. v.t = "Tuple" /\ IsSeq(v.items) /\ Len(v.items) = 2 /\ v.items[2].t = "List"
  BY SoundParts DEF IsUpdateResult, Survives
<1>2. 1 \in DOMAIN v.items /\ 2 \in DOMAIN v.items
  BY <1>1, Domain
<1>3. v.items[1] \in Parts(v) /\ v.items[2] \in Parts(v)
  BY <1>1, <1>2 DEF Parts, Range
<1> QED
  BY <1>1, <1>3, SoundParts

------------------------------------------------------------------------------
(***************************************************************************)
(* The commands.  What the user keeps is one document, if any, and it is   *)
(* read as the value that was printed.                                     *)
(***************************************************************************)
Single(S) == \A x, y \in S : x = y

Inv ==
  /\ file \in Files
  /\ Single(kept)
  /\ \A d \in kept : ReadsAs(d)

Vm == InFile(SetupVm)

LEMMA OneVm ==
  ASSUME file \in Files
  PROVE  /\ Single(Vm)
         /\ \A p \in Vm : Validated(p)
         /\ Vm \in {SetupVm[words] : words \in Texts} \cup {{}}
<1>1. CASE file = {}
  <2>1. Vm = {}
    BY <1>1 DEF Vm, InFile
  <2> QED
    BY <2>1 DEF Single
<1>2. CASE file # {}
  <2>1. PICK words \in Texts : file = {words}
    BY <1>2 DEF Files
  <2>2. Vm = SetupVm[words]
    BY <2>1 DEF Vm, InFile
  <2> DEFINE ps == Parsed[words]
             irs == UNION {LoweredIr(p) : p \in ps}
             vs == {FromIr(ir) : ir \in irs}
  <2>3. Single(ps)
    BY DEF Parsed, Single
  <2>4. \A p : Single(LoweredIr(p))
    BY DEF LoweredIr, Single
  <2>5. SetupVm[words] = {r.val : r \in {v \in vs : v.ok}}
    BY DEF SetupVm
  <2> HIDE DEF ps
  <2>6. Single(irs)
    BY <2>3, <2>4 DEF Single
  <2> HIDE DEF irs
  <2>7. Single(vs)
    BY <2>6 DEF Single
  <2> HIDE DEF vs
  <2>8. Single(Vm)
    BY <2>2, <2>5, <2>7 DEF Single
  <2> QED
    BY <2>1, <2>2, <2>8, TextsAssumption
<1> QED
  BY <1>1, <1>2

(* What an update prints is read as what it answered. *)
NextState(r) == r.val.items[1]
ActionList(r) == r.val.items[2]
Pair(r) == TupleV(<<NextState(r), ActionList(r)>>)

LEMMA UpdateReadBack ==
  ASSUME CodecEquations, NEW r, Sound(r.val), IsUpdateResult(r.val)
  PROVE  LET o == UpdateOutput(NextState(r), ActionList(r).items)
         IN  /\ o.json.members["next_state"] = ToJson(NextState(r))
             /\ FromJson(ToJson(NextState(r))) = {NextState(r)} /\ Sound(NextState(r))
             /\ Printed(o) = {Pair(r)}
<1> DEFINE s == NextState(r)
           a == ActionList(r)
           o == UpdateOutput(s, a.items)
<1>1. Sound(s) /\ Sound(a) /\ a.t = "List"
  BY PairSound DEF NextState, ActionList
<1> HIDE DEF s, a
<1>2. Trips(s) /\ Trips(a)
  BY <1>1, SoundParts DEF Survives
<1>3. ToJson(a) = Elements(a.items)
  BY <1>1 DEF CodecEquations, ToJsonStep
<1>4. /\ o.by = "update"
      /\ o.json.members["next_state"] = ToJson(s)
      /\ o.json.members["actions"] = Elements(a.items)
  BY DEF UpdateOutput, ObjectJ
<1> HIDE DEF o
<1>5. Printed(o) = {TupleV(<<x, y>>) : x \in {s}, y \in {a}}
  <2> DEFINE next == FromJson(o.json.members["next_state"])
             rest == FromJson(o.json.members["actions"])
  <2>1. Printed(o) = {TupleV(<<x, y>>) : x \in next, y \in rest}
    BY <1>4 DEF Printed
  <2>2. next = {s} /\ rest = {a}
    BY <1>2, <1>3, <1>4 DEF Trips
  <2> HIDE DEF next, rest
  <2> QED
    BY <2>1, <2>2
<1>6. Printed(o) = {TupleV(<<s, a>>)}
  BY <1>5
<1> QED
  BY <1>1, <1>2, <1>4, <1>6 DEF Trips, Pair, s, a, o

LEMMA QueryReadBack ==
  ASSUME CodecEquations, NEW v, Sound(v)
  PROVE  Printed(QueryOutput(v)) = {v}
<1> DEFINE o == QueryOutput(v)
<1>1. o.by = "query" /\ o.json = ToJson(v)
  BY DEF QueryOutput
<1>2. Trips(v)
  BY SoundParts DEF Survives
<1> HIDE DEF o
<1>3. Printed(o) = {v}
  BY <1>1, <1>2 DEF Printed, Trips
<1> QED
  BY <1>3 DEF o

LEMMA AnswersSound ==
  ASSUME CodecEquations, RecursionEquations, file \in Files,
         NEW entry, NEW s, ReadsAs(s), NEW i, ReadsAs(i)
  PROVE  /\ Single(Answers(entry, s, i))
         /\ \A r \in Answers(entry, s, i) :
              r.ok /\ Sound(r.val) /\ (entry = "update" => IsUpdateResult(r.val))
<1> DEFINE cs == {Call(vm, entry, x, y) : vm \in Vm, x \in FromJson(s), y \in FromJson(i)}
<1>1. Answers(entry, s, i) = {r \in cs : r.ok}
  BY DEF Answers, Vm
<1>2. Single(Vm) /\ Single(FromJson(s)) /\ Single(FromJson(i))
  BY OneVm DEF ReadsAs, Single
<1>3. Single(cs)
  BY <1>2 DEF Single
<1>4. ASSUME NEW r \in cs, r.ok
      PROVE  Sound(r.val) /\ (entry = "update" => IsUpdateResult(r.val))
  <2>1. PICK vm \in Vm, x \in FromJson(s), y \in FromJson(i) : r = Call(vm, entry, x, y)
    BY <1>4
  <2>2. Validated(vm) /\ Sound(x) /\ Sound(y)
    BY OneVm DEF ReadsAs
  <2> QED
    BY <1>4, <2>1, <2>2, CallSound
<1> HIDE DEF cs
<1> QED
  BY <1>1, <1>3, <1>4 DEF Single

LEMMA ReadBefore ==
  ASSUME CodecEquations, Inv
  PROVE  /\ \A s \in kept \cup StateDocs : ReadsAs(s)
         /\ \A i \in InputDocs : ReadsAs(i)
         /\ \A s \in kept \cup StateDocs :
              FromJson(s) \in {UNION Read(kept)} \cup Read(StateDocs)
<1>1. \A s \in StateDocs \cup InputDocs : ReadsAs(s)
  BY DocumentsRead, DocsAssumption
<1>2. ASSUME NEW s \in kept PROVE FromJson(s) = UNION Read(kept)
  <2>1. kept = {s}
    BY <1>2 DEF Inv, Single
  <2>2. Read(kept) = {FromJson(s)}
    BY <2>1 DEF Read
  <2> QED
    BY <2>2
<1>3. \A s \in StateDocs : FromJson(s) \in Read(StateDocs)
  BY DEF Read
<1> QED
  BY <1>1, <1>2, <1>3 DEF Inv

(* The entries that a table of answers has for those that are no errors. *)
Given(r) == <<NextState(r), Pair(r)>>

LEMMA UpdateValue ==
  ASSUME NEW p, NEW x, NEW y
  PROVE  LET r == Call(p, "update", x, y)
         IN  UpdateValues(p, x, y) = {Given(q) : q \in {a \in {r} : a.ok}}
BY DEF UpdateValues, Given, NextState, ActionList, Pair

LEMMA UpdateMade ==
  ASSUME NEW s, NEW e
  PROVE  UNION {UpdateValues(p, x, y) : p \in Vm, x \in FromJson(s), y \in FromJson(e)}
           = {Given(r) : r \in Answers("update", s, e)}
<1> DEFINE made == UNION {UpdateValues(p, x, y) : p \in Vm, x \in FromJson(s), y \in FromJson(e)}
           given == {Given(r) : r \in Answers("update", s, e)}
<1>1. ASSUME NEW m \in made PROVE m \in given
  <2>1. PICK p \in Vm, x \in FromJson(s), y \in FromJson(e) : m \in UpdateValues(p, x, y)
    BY <1>1
  <2> DEFINE r == Call(p, "update", x, y)
  <2>2. m = Given(r) /\ r.ok
    BY <2>1, UpdateValue
  <2>3. r \in Answers("update", s, e)
    BY <2>1, <2>2 DEF Answers, Vm
  <2> QED
    BY <2>2, <2>3
<1>2. ASSUME NEW m \in given PROVE m \in made
  <2>1. PICK r \in Answers("update", s, e) : m = Given(r)
    BY <1>2
  <2>2. r.ok /\ \E p \in Vm, x \in FromJson(s), y \in FromJson(e) : r = Call(p, "update", x, y)
    BY <2>1 DEF Answers, Vm
  <2>3. PICK p \in Vm, x \in FromJson(s), y \in FromJson(e) : r = Call(p, "update", x, y)
    BY <2>2
  <2>4. m \in UpdateValues(p, x, y)
    BY <2>1, <2>2, <2>3, UpdateValue
  <2> QED
    BY <2>4
<1> HIDE DEF made, given
<1>3. made = given
  BY <1>1, <1>2
<1> QED
  BY <1>3 DEF made, given

LEMMA UpdateDispatches ==
  ASSUME CodecEquations, RecursionEquations, Inv, RunUpdate
  PROVE  R!Dispatch /\ Inv'
<1>1. PICK s \in kept \cup StateDocs, e \in InputDocs :
        LET rs == Answers("update", s, e)
        IN  /\ out' = {UpdateOutput(r.val.items[1], r.val.items[2].items) : r \in rs}
            /\ kept' = IF rs = {} THEN kept ELSE {o.json.members["next_state"] : o \in out'}
  BY DEF RunUpdate
<1> DEFINE rs == Answers("update", s, e)
           output(r) == UpdateOutput(NextState(r), ActionList(r).items)
           made == UNION {UpdateValues(p, x, y) : p \in Vm, x \in FromJson(s), y \in FromJson(e)}
<1>2. /\ ReadsAs(s) /\ ReadsAs(e)
      /\ FromJson(s) \in {UNION Read(kept)} \cup Read(StateDocs)
      /\ FromJson(e) \in Read(InputDocs)
  BY ReadBefore DEF Read
<1>3. file \in Files
  BY DEF Inv
<1>4. Single(rs) /\ \A r \in rs : r.ok /\ Sound(r.val) /\ IsUpdateResult(r.val)
  BY <1>2, <1>3, AnswersSound
<1>5. made = {Given(r) : r \in rs}
  BY UpdateMade
<1>6. /\ out' = {output(r) : r \in rs}
      /\ kept' = IF rs = {} THEN kept ELSE {o.json.members["next_state"] : o \in out'}
      /\ file' = file
  BY <1>1 DEF NextState, ActionList, RunUpdate
<1>7. ASSUME NEW r \in rs
      PROVE  /\ output(r).json.members["next_state"] = ToJson(NextState(r))
             /\ FromJson(ToJson(NextState(r))) = {NextState(r)} /\ Sound(NextState(r))
             /\ Printed(output(r)) = {Pair(r)}
  BY <1>4, UpdateReadBack
<1> HIDE DEF rs, output, made
<1>8. UNION {Printed(o) : o \in out'} = {m[2] : m \in made}
  <2>1. \A r : Given(r)[2] = Pair(r)
    BY DEF Given
  <2>2. {m[2] : m \in made} = {Pair(r) : r \in rs}
    BY <1>5, <2>1
  <2>3. UNION {Printed(o) : o \in out'} = {Pair(r) : r \in rs}
    BY <1>6, <1>7
  <2> QED
    BY <2>2, <2>3
<1>9. Vm' = Vm
  BY <1>6 DEF Vm, InFile
<1>10. ASSUME UNION Read(kept') = IF made = {} THEN UNION Read(kept) ELSE {m[1] : m \in made}
       PROVE  R!Dispatch
  <2> DEFINE X == FromJson(s)
             Y == FromJson(e)
             State == UNION Read(kept)
             makes(x, y) == UNION {UpdateValues(p, u, v) : p \in InFile(SetupVm), u \in x, v \in y}
  <2>1. /\ X \in {State} \cup Read(StateDocs) /\ Y \in Read(InputDocs)
        /\ makes(X, Y) = made
    BY <1>2 DEF made, Vm
  <2>2. /\ UNION {Printed(o) : o \in out'} = {m[2] : m \in makes(X, Y)}
        /\ UNION Read(kept') = IF makes(X, Y) = {} THEN State ELSE {m[1] : m \in makes(X, Y)}
        /\ InFile(SetupVm)' = InFile(SetupVm)
    <3> HIDE DEF makes, X, Y
    <3> QED
      BY <1>8, <1>9, <1>10, <2>1 DEF Vm
  <2>3. R!Dispatch = \E x \in {State} \cup Read(StateDocs), y \in Read(InputDocs) :
                        /\ UNION {Printed(o) : o \in out'} = {m[2] : m \in makes(x, y)}
                        /\ UNION Read(kept') = IF makes(x, y) = {} THEN State ELSE {m[1] : m \in makes(x, y)}
                        /\ InFile(SetupVm)' = InFile(SetupVm)
    BY DEF R!Dispatch
  <2> HIDE DEF makes, X, Y, State
  <2> QED
    BY <2>1, <2>2, <2>3
<1>11. CASE rs = {}
  <2>1. made = {} /\ kept' = kept
    BY <1>5, <1>6, <1>11
  <2> QED
    BY <1>6, <1>10, <2>1 DEF Inv
<1>12. CASE rs # {}
  <2>1. PICK r \in rs : rs = {r}
    BY <1>4, <1>12 DEF Single
  <2>2. made = {Given(r)} /\ out' = {output(r)}
    BY <1>5, <1>6, <2>1
  <2>3. kept' = {ToJson(NextState(r))}
    BY <1>6, <1>7, <1>12, <2>1, <2>2
  <2>4. Read(kept') = {{NextState(r)}}
    BY <1>7, <2>1, <2>3 DEF Read
  <2>5. UNION Read(kept') = {m[1] : m \in made}
    BY <2>2, <2>4 DEF Given
  <2>6. ReadsAs(ToJson(NextState(r)))
    BY <1>7, <2>1 DEF ReadsAs
  <2>7. Inv'
    BY <1>6, <2>3, <2>6 DEF Inv, Single
  <2> QED
    BY <1>10, <2>2, <2>5, <2>7
<1> QED
  BY <1>11, <1>12

LEMMA QueryMade ==
  ASSUME NEW s, NEW q
  PROVE  UNION {QueryValues(p, x, y) : p \in Vm, x \in FromJson(s), y \in FromJson(q)}
           = {r.val : r \in Answers("query", s, q)}
<1> DEFINE made == UNION {QueryValues(p, x, y) : p \in Vm, x \in FromJson(s), y \in FromJson(q)}
           given == {r.val : r \in Answers("query", s, q)}
<1>1. ASSUME NEW m \in made PROVE m \in given
  <2>1. PICK p \in Vm, x \in FromJson(s), y \in FromJson(q) : m \in QueryValues(p, x, y)
    BY <1>1
  <2> DEFINE r == Call(p, "query", x, y)
  <2>2. m = r.val /\ r.ok
    BY <2>1 DEF QueryValues
  <2>3. r \in Answers("query", s, q)
    BY <2>1, <2>2 DEF Answers, Vm
  <2> QED
    BY <2>2, <2>3
<1>2. ASSUME NEW m \in given PROVE m \in made
  <2>1. PICK r \in Answers("query", s, q) : m = r.val
    BY <1>2
  <2>2. r.ok /\ \E p \in Vm, x \in FromJson(s), y \in FromJson(q) : r = Call(p, "query", x, y)
    BY <2>1 DEF Answers, Vm
  <2>3. PICK p \in Vm, x \in FromJson(s), y \in FromJson(q) : r = Call(p, "query", x, y)
    BY <2>2
  <2>4. m \in QueryValues(p, x, y)
    BY <2>1, <2>2, <2>3 DEF QueryValues
  <2> QED
    BY <2>4
<1> HIDE DEF made, given
<1>3. made = given
  BY <1>1, <1>2
<1> QED
  BY <1>3 DEF made, given

LEMMA QueryAsks ==
  ASSUME CodecEquations, RecursionEquations, Inv, RunQuery
  PROVE  R!Ask /\ Inv'
<1>1. PICK s \in kept \cup StateDocs, q \in InputDocs :
        out' = {QueryOutput(r.val) : r \in Answers("query", s, q)}
  BY DEF RunQuery
<1> DEFINE rs == Answers("query", s, q)
           values == UNION {QueryValues(p, x, y) : p \in Vm, x \in FromJson(s), y \in FromJson(q)}
<1>2. /\ ReadsAs(s) /\ ReadsAs(q)
      /\ FromJson(s) \in {UNION Read(kept)} \cup Read(StateDocs)
      /\ FromJson(q) \in Read(InputDocs)
  BY ReadBefore DEF Read
<1>3. file \in Files
  BY DEF Inv
<1>4. \A r \in rs : r.ok /\ Sound(r.val)
  BY <1>2, <1>3, AnswersSound
<1>5. values = {r.val : r \in rs}
  BY QueryMade
<1>6. file' = file /\ kept' = kept
  BY DEF RunQuery
<1>7. UNION {Printed(o) : o \in out'} = {r.val : r \in rs}
  <2> HIDE DEF rs
  <2>1. \A r \in rs : Printed(QueryOutput(r.val)) = {r.val}
    BY <1>4, QueryReadBack
  <2> QED
    BY <1>1, <2>1 DEF rs
<1>8. UNION {Printed(o) : o \in out'} = values
  BY <1>5, <1>7
<1>9. Vm' = Vm /\ Inv'
  BY <1>6 DEF Vm, InFile, Inv
<1> HIDE DEF rs
<1>10. R!Ask
  <2> DEFINE X == FromJson(s)
             Y == FromJson(q)
             State == UNION Read(kept)
             answer(x, y) == UNION {QueryValues(p, u, v) : p \in InFile(SetupVm), u \in x, v \in y}
  <2>1. /\ X \in {State} \cup Read(StateDocs) /\ Y \in Read(InputDocs)
        /\ UNION {Printed(o) : o \in out'} = answer(X, Y)
        /\ InFile(SetupVm)' = InFile(SetupVm) /\ UNION Read(kept') = State
    BY <1>2, <1>6, <1>8, <1>9 DEF Vm
  <2>2. R!Ask = \E x \in {State} \cup Read(StateDocs), y \in Read(InputDocs) :
                   /\ UNION {Printed(o) : o \in out'} = answer(x, y)
                   /\ InFile(SetupVm)' = InFile(SetupVm) /\ UNION Read(kept') = State
    BY DEF R!Ask
  <2> HIDE DEF answer, X, Y, State
  <2> QED
    BY <2>1, <2>2
<1> QED
  BY <1>9, <1>10

(***************************************************************************)
(* A session that is cut up into commands is one in memory: nothing is     *)
(* lost or changed by the JSON in between, whatever the programs, the      *)
(* documents and the limits (main, json_to_vm_value, vm_value_to_json).    *)
(***************************************************************************)
THEOREM CommandsKeepTheSession ==
  ASSUME CodecEquations, RecursionEquations
  PROVE  Spec => ImplementsReactor
<1>1. Init => R!Init /\ Inv
  <2> SUFFICES ASSUME Init PROVE R!Init /\ Inv
    OBVIOUS
  <2>1. Inv
    BY DEF Init, Inv, Single
  <2>2. UNION Read(kept) = {} /\ UNION {Printed(o) : o \in out} = {}
    BY DEF Init, Read
  <2> QED
    BY <2>1, <2>2, OneVm DEF R!Init, Inv, Vm
<1>2. Inv /\ [Next]_vars => [R!Next]_(R!vars) /\ Inv'
  <2> SUFFICES ASSUME Inv, [Next]_vars PROVE [R!Next]_(R!vars) /\ Inv'
    OBVIOUS
  <2>1. ASSUME \A o \in out' : o = Message, kept' = kept, file' = file
        PROVE  R!Other /\ Inv'
    <3>1. UNION {Printed(o) : o \in out'} = {}
      BY <2>1 DEF Printed, Message
    <3>2. Read(kept)' = Read(kept) /\ InFile(SetupVm)' = InFile(SetupVm) /\ Inv'
      BY <2>1 DEF InFile, Read, Inv
    <3> QED
      BY <3>1, <3>2 DEF R!Other
  <2>2. CASE Check
    BY <2>1, <2>2 DEF Check, R!Next
  <2>3. CASE RunUpdate
    BY <2>3, UpdateDispatches DEF R!Next
  <2>4. CASE RunQuery
    BY <2>4, QueryAsks DEF R!Next
  <2>5. CASE Docgen
    BY <2>1, <2>5 DEF Docgen, R!Next
  <2>6. CASE EditFile
    <3>1. file' \in Files /\ kept' = kept /\ out' = out
      BY <2>6 DEF EditFile
    <3>2. Vm' \in {SetupVm[words] : words \in Texts} \cup {{}}
      BY <3>1 DEF Vm, InFile, Files
    <3>3. R!Replace
      BY <3>1, <3>2 DEF R!Replace, Vm
    <3> QED
      BY <3>1, <3>3 DEF R!Next, Inv
  <2>7. CASE UNCHANGED vars
    BY <2>7 DEF vars, R!vars, InFile, Inv
  <2> QED
    BY <2>2, <2>3, <2>4, <2>5, <2>6, <2>7 DEF Next
<1> QED
  BY <1>1, <1>2, PTL DEF Spec, ImplementsReactor, R!Spec

=============================================================================
