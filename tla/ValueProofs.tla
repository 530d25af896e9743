----------------------------- MODULE ValueProofs -----------------------------
(***************************************************************************)
(* Values survive their way to a host and back, and the two forms of a     *)
(* document mean the same, for documents of any size.                      *)
(*                                                                         *)
(* What is needed of a value is that each form of it is read as that value *)
(* again (RoundTrips).  It holds of every value that either codec makes of *)
(* a reliable document, by induction over what is within the document; the *)
(* machine then only ever holds one such value or a form of it.            *)
(***************************************************************************)
EXTENDS ValueExchange, FiniteSetTheorems, SequenceTheorems,
        WellFoundedInduction, TLAPS

(* What an implementation of the conversions and walks is. *)
Equations == CodecEquations /\ WithinEquations /\ CborOfEquation

------------------------------------------------------------------------------
(***************************************************************************)
(* Induction over finite sets w[x] that grow with x.                       *)
(***************************************************************************)
LEMMA WithinInduction ==
  ASSUME NEW S, NEW w, \A x \in S : IsFiniteSet(w[x]), NEW G,
         \A x \in S :
           (\A y \in S : w[y] \subseteq w[x] /\ w[y] # w[x] => y \in G) => x \in G
  PROVE  S \subseteq G
<1> SUFFICES ASSUME S \ G # {} PROVE FALSE
  OBVIOUS
<1> DEFINE T == {w[x] : x \in S \ G}
           U == UNION T
<1>1. IsWellFoundedOn(StrictSubsetOrdering(U), FiniteSubsetsOf(U))
  BY FS_StrictSubsetOrderingWellFounded
<1>2. T \subseteq FiniteSubsetsOf(U) /\ T # {}
  BY DEF FiniteSubsetsOf
<1>3. PICK m \in T : \A n \in T : <<n, m>> \notin StrictSubsetOrdering(U)
  <2> HIDE DEF T, U
  <2> QED
    BY <1>1, <1>2, WFMin
<1>4. PICK x \in S \ G : w[x] = m
  BY <1>3
<1>5. ASSUME NEW y \in S, w[y] \subseteq w[x] /\ w[y] # w[x] PROVE y \in G
  <2> SUFFICES ASSUME y \notin G PROVE FALSE
    OBVIOUS
  <2>1. w[y] \in T /\ w[y] \subseteq U /\ w[x] \subseteq U
    OBVIOUS
  <2>2. <<w[y], w[x]>> \in StrictSubsetOrdering(U)
    BY <1>5, <2>1 DEF StrictSubsetOrdering
  <2> QED
    BY <1>3, <1>4, <2>1, <2>2
<1> QED
  BY <1>4, <1>5

(* The greatest of one number, and the length of a function on 1 .. n. *)
LEMMA MaxOfOne ==
  ASSUME NEW n \in Int
  PROVE  Max({n}) = n
BY DEF Max

LEMMA LenOf ==
  ASSUME NEW s, NEW n \in Nat, DOMAIN s = 1 .. n, s \in Seq(Range(s))
  PROVE  Len(s) = n
BY LenProperties

------------------------------------------------------------------------------
(***************************************************************************)
(* Every.                                                                  *)
(***************************************************************************)
IsFunction(f) == f = [x \in DOMAIN f |-> f[x]]

LEMMA EveryOne ==
  ASSUME NEW os, NEW f, IsFunction(f), DOMAIN f = DOMAIN os,
         \A i \in DOMAIN os : os[i] = {f[i]}
  PROVE  Every(os) = {f}
<1>1. ~ \E i \in DOMAIN os : os[i] = {}
  OBVIOUS
<1>2. [i \in DOMAIN os |-> CHOOSE v \in os[i] : TRUE] = f
  BY DEF IsFunction
<1> QED
  BY <1>1, <1>2 DEF Every

LEMMA EveryMember ==
  ASSUME NEW os, NEW f \in Every(os)
  PROVE  IsFunction(f) /\ DOMAIN f = DOMAIN os /\ \A i \in DOMAIN os : f[i] \in os[i]
<1>1. /\ \A i \in DOMAIN os : os[i] # {}
      /\ f = [i \in DOMAIN os |-> CHOOSE v \in os[i] : TRUE]
  BY DEF Every
<1> QED
  BY <1>1 DEF IsFunction

------------------------------------------------------------------------------
(***************************************************************************)
(* A sequence of entries that stands for a function: each key once, all of *)
(* them text.  FromMap reads it by the keys alone.                         *)
(***************************************************************************)
Represents(es, g) ==
  /\ es \in Seq(Range(es))
  /\ \A k \in DOMAIN g : \E i \in DOMAIN es : At(es, k) = {i} /\ es[i].val = g[k]
  /\ \A i \in DOMAIN es :
       es[i].key.text \in DOMAIN g /\ es[i].key = TextC(es[i].key.text)

Decoding(g) == [k \in DOMAIN g |-> FromCbor(g[k])]

LEMMA AtKey ==
  ASSUME NEW es, NEW g, Represents(es, g), NEW i \in DOMAIN es
  PROVE  LET k == es[i].key.text
         IN  k \in DOMAIN g /\ At(es, k) = {i} /\ es[i].val = g[k] /\ es[i].key.c = "text"
<1> DEFINE k == es[i].key.text
<1>1. k \in DOMAIN g /\ es[i].key = TextC(k)
  BY DEF Represents
<1>2. i \in At(es, k)
  BY <1>1 DEF At
<1>3. PICK n \in DOMAIN es : At(es, k) = {n} /\ es[n].val = g[k]
  BY <1>1 DEF Represents
<1>4. n = i
  BY <1>2, <1>3
<1> QED
  BY <1>1, <1>3, <1>4 DEF TextC

LEMMA NoneAt ==
  ASSUME NEW es, NEW g, Represents(es, g), NEW k, k \notin DOMAIN g
  PROVE  At(es, k) = {}
<1> SUFFICES ASSUME NEW i \in At(es, k) PROVE FALSE
  OBVIOUS
<1>1. i \in DOMAIN es /\ es[i].key = TextC(k)
  BY DEF At
<1>2. es[i].key.text \in DOMAIN g
  BY <1>1 DEF Represents
<1> QED
  BY <1>1, <1>2 DEF TextC

LEMMA FromRepresented ==
  ASSUME NEW es, NEW g, Represents(es, g)
  PROVE  FromEntries(es, DOMAIN es) = Every(Decoding(g))
<1> DEFINE os == [i \in DOMAIN es |-> FromCbor(es[i].val)]
           Place(k) == Max(At(es, k))
           Keys == {es[i].key.text : i \in DOMAIN es}
           Choice(S) == CHOOSE v \in S : TRUE
           vs == [i \in DOMAIN es |-> Choice(os[i])]
<1>1. Keys = DOMAIN g
  <2>1. ASSUME NEW k \in DOMAIN g PROVE k \in Keys
    <3>1. PICK i \in DOMAIN es : At(es, k) = {i}
      BY DEF Represents
    <3>2. es[i].key = TextC(k)
      BY <3>1 DEF At
    <3> QED
      BY <3>2 DEF TextC
  <2> QED
    BY <2>1 DEF Represents
<1>2. ASSUME NEW k \in DOMAIN g
      PROVE  Place(k) \in DOMAIN es /\ es[Place(k)].val = g[k]
  <2>1. PICK i \in DOMAIN es : At(es, k) = {i} /\ es[i].val = g[k]
    BY DEF Represents
  <2>2. i \in Int
    BY LenProperties DEF Represents
  <2>3. Place(k) = i
    BY <2>1, <2>2, MaxOfOne
  <2> QED
    BY <2>1, <2>3
<1>3. FromEntries(es, DOMAIN es) = {[k \in DOMAIN g |-> us[Place(k)]] : us \in Every(os)}
  <2>1. ~ \E i \in DOMAIN es : es[i].key.c # "text"
    BY AtKey
  <2> QED
    BY <2>1, <1>1, Zenon DEF FromEntries
<1>4. CASE \E i \in DOMAIN es : os[i] = {}
  <2>1. PICK i \in DOMAIN es : FromCbor(es[i].val) = {}
    BY <1>4
  <2>2. PICK k \in DOMAIN g : es[i].val = g[k]
    BY AtKey
  <2>3. Every(os) = {}
    BY <1>4 DEF Every
  <2>4. Decoding(g)[k] = {} /\ k \in DOMAIN Decoding(g)
    BY <2>1, <2>2 DEF Decoding
  <2>5. Every(Decoding(g)) = {}
    BY <2>4 DEF Every
  <2> QED
    BY <1>3, <2>3, <2>5
<1>5. CASE ~ \E i \in DOMAIN es : os[i] = {}
  <2>1. Every(os) = {vs}
    BY <1>5 DEF Every
  <2>2. ASSUME NEW k \in DOMAIN g
        PROVE  vs[Place(k)] = Choice(FromCbor(g[k])) /\ FromCbor(g[k]) # {}
    BY <1>2, <1>5
  <2>3. [k \in DOMAIN g |-> vs[Place(k)]] = [k \in DOMAIN g |-> Choice(Decoding(g)[k])]
    BY <2>2 DEF Decoding
  <2>4. Every(Decoding(g)) = {[k \in DOMAIN g |-> Choice(Decoding(g)[k])]}
    BY <2>2 DEF Every, Decoding
  <2>5. FromEntries(es, DOMAIN es) = {[k \in DOMAIN g |-> vs[Place(k)]]}
    <3> HIDE DEF vs, os, Place
    <3> QED
      BY <1>3, <2>1
  <2> HIDE DEF vs, Place, Choice
  <2> QED
    BY <2>3, <2>4, <2>5
<1> QED
  BY <1>4, <1>5

(***************************************************************************)
(* FromMap on such a sequence, in its three cases: a tuple, an enum, and a *)
(* map with none of the codec's keys.                                      *)
(***************************************************************************)
TagNames == {"$tag", "$fields"}

LEMMA TupleAlone ==
  ASSUME NEW es, NEW g, Represents(es, g)
  PROVE  AsTuple(es) <=> DOMAIN g = {"$tuple"}
<1>1. Len(es) \in Nat /\ DOMAIN es = 1 .. Len(es)
  BY LenProperties DEF Represents
<1>2. ASSUME AsTuple(es) PROVE DOMAIN g = {"$tuple"}
  <2>1. DOMAIN es = {1} /\ es[1].key = TextC("$tuple")
    BY <1>1, <1>2 DEF AsTuple
  <2>2. "$tuple" \in DOMAIN g
    BY <2>1, AtKey DEF TextC
  <2>3. ASSUME NEW k \in DOMAIN g PROVE k = "$tuple"
    <3>1. PICK i \in DOMAIN es : At(es, k) = {i}
      BY DEF Represents
    <3>2. es[1].key = TextC(k)
      BY <2>1, <3>1 DEF At
    <3> QED
      BY <2>1, <3>2 DEF TextC
  <2> QED
    BY <2>2, <2>3
<1>3. ASSUME DOMAIN g = {"$tuple"} PROVE AsTuple(es)
  <2>1. PICK i \in DOMAIN es : At(es, "$tuple") = {i}
    BY <1>3 DEF Represents
  <2>2. ASSUME NEW n \in DOMAIN es PROVE n = i /\ es[n].key = TextC("$tuple")
    <3>1. es[n].key.text = "$tuple" /\ es[n].key = TextC(es[n].key.text)
      BY <1>3 DEF Represents
    <3> QED
      BY <2>1, <3>1 DEF At
  <2>3. 1 .. Len(es) = {i}
    BY <1>1, <2>1, <2>2
  <2>4. Len(es) = 1 /\ i = 1
    BY <1>1, <2>3
  <2> QED
    BY <2>1, <2>2, <2>4 DEF AsTuple
<1> QED
  BY <1>2, <1>3

LEMMA FromTuple ==
  ASSUME NEW es, NEW g, Represents(es, g), DOMAIN g = {"$tuple"}
  PROVE  FromMap(es) = IF g["$tuple"].c # "array" THEN {}
                       ELSE {TupleV(vs) : vs \in EveryCbor(g["$tuple"].items)}
<1>1. AsTuple(es)
  BY TupleAlone
<1>2. 1 \in DOMAIN es /\ es[1].key.text = "$tuple"
  BY <1>1, LenProperties DEF AsTuple, TextC, Represents
<1>3. es[1].val = g["$tuple"]
  BY <1>2, AtKey
<1> QED
  BY <1>1, <1>3 DEF FromMap

LEMMA FromPlain ==
  ASSUME NEW es, NEW g, Represents(es, g), DOMAIN g # {"$tuple"},
         DOMAIN g \cap TagNames = {}
  PROVE  FromMap(es) = {MapV(f) : f \in Every(Decoding(g))}
<1>1. ~AsTuple(es)
  BY TupleAlone
<1>2. At(es, "$tag") = {} /\ At(es, "$fields") = {}
  BY NoneAt DEF TagNames
<1>3. FromEntries(es, DOMAIN es \ ({} \cup {})) = Every(Decoding(g))
  BY FromRepresented, Zenon
<1> QED
  BY <1>1, <1>2, <1>3 DEF FromMap

LEMMA FromNothing ==
  ASSUME NEW es
  PROVE  FromEntries(es, {}) # {}
<1> DEFINE os == [i \in {} |-> FromCbor(es[i].val)]
<1>1. Every(os) # {}
  BY DEF Every
<1> HIDE DEF os
<1>2. FromEntries(es, {}) = {[k \in {es[i].key.text : i \in {}} |-> vs[Max(At(es, k))]] :
                                vs \in Every(os)}
  BY Zenon DEF FromEntries, os
<1> QED
  BY <1>1, <1>2

LEMMA FromEnum ==
  ASSUME NEW es, NEW g, Represents(es, g), DOMAIN g = TagNames
  PROVE  FromMap(es) = IF g["$tag"].c # "text" THEN {}
                       ELSE {EnumV(g["$tag"].text, f) : f \in FromFields(g["$fields"])}
<1>1. ~AsTuple(es)
  BY TupleAlone DEF TagNames
<1>2. PICK n \in DOMAIN es : At(es, "$tag") = {n} /\ es[n].val = g["$tag"]
  BY DEF Represents, TagNames
<1>3. PICK m \in DOMAIN es : At(es, "$fields") = {m} /\ es[m].val = g["$fields"]
  BY DEF Represents, TagNames
<1>4. n \in Int /\ m \in Int
  BY LenProperties DEF Represents
<1>5. Max({n}) = n /\ Max({m}) = m
  BY <1>4, MaxOfOne
<1>6. DOMAIN es \ ({n} \cup {m}) = {}
  <2> SUFFICES ASSUME NEW i \in DOMAIN es PROVE i \in {n} \cup {m}
    OBVIOUS
  <2>1. es[i].key.text \in TagNames /\ At(es, es[i].key.text) = {i}
    BY AtKey
  <2> QED
    BY <1>2, <1>3, <2>1 DEF TagNames
<1>7. FromMap(es) = IF g["$tag"].c # "text" \/ FromFields(g["$fields"]) = {} THEN {}
                    ELSE {EnumV(g["$tag"].text, f) : f \in FromFields(g["$fields"])}
  BY <1>1, <1>2, <1>3, <1>5, <1>6, FromNothing DEF FromMap
<1> QED
  BY <1>7

(***************************************************************************)
(* What the encoder writes represents what it wrote.                       *)
(***************************************************************************)
LEMMA SeqOfSet ==
  ASSUME NEW S, IsFiniteSet(S)
  PROVE  LET keys == SetToSeq(S)
         IN  /\ keys \in Seq(S) /\ DOMAIN keys = 1 .. Cardinality(S)
             /\ \A x \in S : \E i \in DOMAIN keys : keys[i] = x
             /\ \A i, j \in DOMAIN keys : keys[i] = keys[j] => i = j
<1> DEFINE D == 1 .. Cardinality(S)
           keys == SetToSeq(S)
<1>1. Cardinality(S) \in Nat /\ ExistsBijection(D, S)
  BY FS_CardinalityType
<1>2. PICK f \in Bijection(D, S) : TRUE
  BY <1>1 DEF ExistsBijection
<1>3. f \in [D -> S] /\ IsInjective(f)
  BY <1>2 DEF Bijection, Injection, IsInjective
<1>4. keys \in [D -> S] /\ IsInjective(keys)
  BY <1>3 DEF SetToSeq
<1>5. keys \in Injection(D, S)
  BY <1>4 DEF Injection, IsInjective
<1>6. keys \in Surjection(D, S)
  <2>1. Cardinality(D) = Cardinality(S)
    BY <1>1, FS_Interval
  <2> HIDE DEF D, keys
  <2> QED
    BY <1>5, <2>1, FS_Injection
<1> QED
  BY <1>1, <1>4, <1>6 DEF Surjection, IsInjective

LEMMA ListedRepresents ==
  ASSUME NEW g, IsFiniteSet(DOMAIN g)
  PROVE  Listed(g).c = "map" /\ Represents(Listed(g).entries, g)
<1> DEFINE keys == SetToSeq(DOMAIN g)
           es == [i \in DOMAIN keys |-> Entry(TextC(keys[i]), g[keys[i]])]
<1>1. /\ keys \in Seq(DOMAIN g) /\ DOMAIN keys = 1 .. Cardinality(DOMAIN g)
      /\ \A k \in DOMAIN g : \E i \in DOMAIN keys : keys[i] = k
      /\ \A i, j \in DOMAIN keys : keys[i] = keys[j] => i = j
  BY SeqOfSet
<1>2. Listed(g) = MapC(es)
  BY DEF Listed
<1>3. Listed(g).c = "map" /\ Listed(g).entries = es
  BY <1>2 DEF MapC
<1> HIDE DEF keys
<1>4. ASSUME NEW i \in DOMAIN es
      PROVE  /\ es[i].key = TextC(keys[i]) /\ es[i].key.text = keys[i]
             /\ es[i].val = g[keys[i]] /\ keys[i] \in DOMAIN g
  BY <1>1, ElementOfSeq, LenProperties DEF Entry, TextC
<1>5. ASSUME NEW k \in DOMAIN g
      PROVE  \E i \in DOMAIN es : At(es, k) = {i} /\ es[i].val = g[k]
  <2>1. PICK i \in DOMAIN es : keys[i] = k
    BY <1>1
  <2>2. ASSUME NEW n \in DOMAIN es PROVE es[n].key = TextC(k) <=> n = i
    BY <1>1, <1>4, <2>1 DEF TextC
  <2> HIDE DEF es
  <2>3. At(es, k) = {i}
    BY <2>1, <2>2 DEF At
  <2> QED
    BY <1>4, <2>1, <2>3
<1>6. es \in Seq(Range(es))
  <2>1. Cardinality(DOMAIN g) \in Nat
    BY FS_CardinalityType
  <2>2. es \in [1 .. Cardinality(DOMAIN g) -> Range(es)]
    BY <1>1 DEF Range
  <2> HIDE DEF es
  <2> QED
    BY <2>1, <2>2, SeqDef
<1> HIDE DEF es
<1>7. Represents(es, g)
  BY <1>4, <1>5, <1>6 DEF Represents
<1> QED
  BY <1>3, <1>7

LEMMA FromListed ==
  ASSUME NEW g, IsFiniteSet(DOMAIN g)
  PROVE  FromFields(Listed(g)) = Every(Decoding(g))
BY ListedRepresents, FromRepresented DEF FromFields

------------------------------------------------------------------------------
(***************************************************************************)
(* The values all of whose forms are read as themselves.                   *)
(***************************************************************************)
RoundTrips(v) ==
  /\ FromCbor(ToCbor(v)) = {v}
  /\ FromJson(ToJson(v)) = {v}
  /\ FromCbor(CborOf(ToJson(v))) = {v}

LEMMA ScalarsTrip ==
  ASSUME Equations, NEW x
  PROVE  RoundTrips(UnitV) /\ RoundTrips(IntV(x)) /\ RoundTrips(BoolV(x)) /\ RoundTrips(StringV(x))
<1>1. RoundTrips(UnitV)
  <2>1. ToCbor(UnitV) = NullC /\ ToJson(UnitV) = NullJ
    BY DEF Equations, CodecEquations, ToCborStep, ToJsonStep, UnitV
  <2>2. CborOf(NullJ) = NullC
    <3>1. NullJ.j = "null"
      BY DEF NullJ
    <3> QED
      BY <3>1 DEF Equations, CborOfEquation, CborOfStep
  <2>3. FromCbor(NullC) = {UnitV} /\ FromJson(NullJ) = {UnitV}
    BY DEF Equations, CodecEquations, FromCborStep, FromJsonStep, NullC, NullJ
  <2> QED
    BY <2>1, <2>2, <2>3 DEF RoundTrips
<1>2. RoundTrips(IntV(x))
  <2>1. ToCbor(IntV(x)) = IntC(x) /\ ToJson(IntV(x)) = IntJ(x)
    BY DEF Equations, CodecEquations, ToCborStep, ToJsonStep, IntV
  <2>2. CborOf(IntJ(x)) = IntC(x)
    <3>1. IntJ(x).j = "int" /\ IntJ(x).int = x
      BY DEF IntJ
    <3> QED
      BY <3>1 DEF Equations, CborOfEquation, CborOfStep
  <2>3. FromCbor(IntC(x)) = {IntV(x)} /\ FromJson(IntJ(x)) = {IntV(x)}
    BY DEF Equations, CodecEquations, FromCborStep, FromJsonStep, IntC, IntJ
  <2> QED
    BY <2>1, <2>2, <2>3 DEF RoundTrips
<1>3. RoundTrips(BoolV(x))
  <2>1. ToCbor(BoolV(x)) = BoolC(x) /\ ToJson(BoolV(x)) = BoolJ(x)
    BY DEF Equations, CodecEquations, ToCborStep, ToJsonStep, BoolV
  <2>2. CborOf(BoolJ(x)) = BoolC(x)
    <3>1. BoolJ(x).j = "bool" /\ BoolJ(x).bool = x
      BY DEF BoolJ
    <3> QED
      BY <3>1 DEF Equations, CborOfEquation, CborOfStep
  <2>3. FromCbor(BoolC(x)) = {BoolV(x)} /\ FromJson(BoolJ(x)) = {BoolV(x)}
    BY DEF Equations, CodecEquations, FromCborStep, FromJsonStep, BoolC, BoolJ
  <2> QED
    BY <2>1, <2>2, <2>3 DEF RoundTrips
<1>4. RoundTrips(StringV(x))
  <2>1. ToCbor(StringV(x)) = TextC(x) /\ ToJson(StringV(x)) = StringJ(x)
    BY DEF Equations, CodecEquations, ToCborStep, ToJsonStep, StringV
  <2>2. CborOf(StringJ(x)) = TextC(x)
    <3>1. StringJ(x).j = "string" /\ StringJ(x).string = x
      BY DEF StringJ
    <3> QED
      BY <3>1 DEF Equations, CborOfEquation, CborOfStep
  <2>3. FromCbor(TextC(x)) = {StringV(x)} /\ FromJson(StringJ(x)) = {StringV(x)}
    BY DEF Equations, CodecEquations, FromCborStep, FromJsonStep, TextC, StringJ
  <2> QED
    BY <2>1, <2>2, <2>3 DEF RoundTrips
<1> QED
  BY <1>1, <1>2, <1>3, <1>4

(* The elements of a list or tuple s, and the entries of a map or enum. *)
LEMMA ItemsTrip ==
  ASSUME Equations, NEW s, IsFunction(s), \A i \in DOMAIN s : RoundTrips(s[i])
  PROVE  /\ Items(s).c = "array" /\ EveryCbor(Items(s).items) = {s}
         /\ Elements(s).j = "array" /\ EveryJson(Elements(s).items) = {s}
         /\ CborOf(Elements(s)).c = "array" /\ EveryCbor(CborOf(Elements(s)).items) = {s}
<1> DEFINE cs == [i \in DOMAIN s |-> ToCbor(s[i])]
           js == [i \in DOMAIN s |-> ToJson(s[i])]
           ds == [i \in DOMAIN s |-> CborOf(ToJson(s[i]))]
<1>1. Items(s).c = "array" /\ Items(s).items = cs
  BY DEF Items, ArrayC
<1>2. Elements(s) = ArrayJ(js) /\ Elements(s).j = "array" /\ Elements(s).items = js
  BY DEF Elements, ArrayJ
<1>3. CborOf(Elements(s)) = ArrayC([i \in DOMAIN js |-> CborOf(js[i])])
  BY <1>2 DEF Equations, CborOfEquation, CborOfStep
<1>4. [i \in DOMAIN js |-> CborOf(js[i])] = ds
  OBVIOUS
<1>5. CborOf(Elements(s)).c = "array" /\ CborOf(Elements(s)).items = ds
  BY <1>3, <1>4 DEF ArrayC
<1>6. EveryCbor(cs) = {s}
  <2> DEFINE os == [i \in DOMAIN cs |-> FromCbor(cs[i])]
  <2>1. DOMAIN os = DOMAIN s /\ \A i \in DOMAIN os : os[i] = {s[i]}
    BY DEF RoundTrips
  <2> HIDE DEF os
  <2>2. Every(os) = {s}
    BY <2>1, EveryOne
  <2> QED
    BY <2>2 DEF EveryCbor, os
<1>7. EveryJson(js) = {s}
  <2> DEFINE os == [i \in DOMAIN js |-> FromJson(js[i])]
  <2>1. DOMAIN os = DOMAIN s /\ \A i \in DOMAIN os : os[i] = {s[i]}
    BY DEF RoundTrips
  <2> HIDE DEF os
  <2>2. Every(os) = {s}
    BY <2>1, EveryOne
  <2> QED
    BY <2>2 DEF EveryJson, os
<1>8. EveryCbor(ds) = {s}
  <2> DEFINE os == [i \in DOMAIN ds |-> FromCbor(ds[i])]
  <2>1. DOMAIN os = DOMAIN s /\ \A i \in DOMAIN os : os[i] = {s[i]}
    BY DEF RoundTrips
  <2> HIDE DEF os
  <2>2. Every(os) = {s}
    BY <2>1, EveryOne
  <2> QED
    BY <2>2 DEF EveryCbor, os
<1> HIDE DEF cs, js, ds
<1> QED
  BY <1>1, <1>2, <1>5, <1>6, <1>7, <1>8

LEMMA FieldsTrip ==
  ASSUME Equations, NEW f, IsFunction(f), \A k \in DOMAIN f : RoundTrips(f[k])
  PROVE  /\ Every(Decoding([k \in DOMAIN f |-> ToCbor(f[k])])) = {f}
         /\ Members(f).j = "object" /\ EveryJson(Members(f).members) = {f}
         /\ CborOf(Members(f)) = Listed([k \in DOMAIN f |-> CborOf(ToJson(f[k]))])
         /\ Every(Decoding([k \in DOMAIN f |-> CborOf(ToJson(f[k]))])) = {f}
<1> DEFINE cs == [k \in DOMAIN f |-> ToCbor(f[k])]
           js == [k \in DOMAIN f |-> ToJson(f[k])]
           ds == [k \in DOMAIN f |-> CborOf(ToJson(f[k]))]
<1>1. Members(f) = ObjectJ(js) /\ Members(f).j = "object" /\ Members(f).members = js
  BY DEF Members, ObjectJ
<1>2. CborOf(Members(f)) = Listed([k \in DOMAIN js |-> CborOf(js[k])])
  BY <1>1 DEF Equations, CborOfEquation, CborOfStep
<1>3. [k \in DOMAIN js |-> CborOf(js[k])] = ds
  OBVIOUS
<1>4. CborOf(Members(f)) = Listed(ds)
  <2> HIDE DEF ds, js
  <2> QED
    BY <1>2, <1>3
<1>5. Every(Decoding(cs)) = {f}
  <2> DEFINE os == Decoding(cs)
  <2>1. DOMAIN os = DOMAIN f /\ \A k \in DOMAIN os : os[k] = {f[k]}
    BY DEF RoundTrips, Decoding
  <2> HIDE DEF os
  <2>2. Every(os) = {f}
    BY <2>1, EveryOne
  <2> QED
    BY <2>2 DEF os
<1>6. EveryJson(js) = {f}
  <2> DEFINE os == [k \in DOMAIN js |-> FromJson(js[k])]
  <2>1. DOMAIN os = DOMAIN f /\ \A k \in DOMAIN os : os[k] = {f[k]}
    BY DEF RoundTrips
  <2> HIDE DEF os
  <2>2. Every(os) = {f}
    BY <2>1, EveryOne
  <2> QED
    BY <2>2 DEF EveryJson, os
<1>7. Every(Decoding(ds)) = {f}
  <2> DEFINE os == Decoding(ds)
  <2>1. DOMAIN os = DOMAIN f /\ \A k \in DOMAIN os : os[k] = {f[k]}
    BY DEF RoundTrips, Decoding
  <2> HIDE DEF os
  <2>2. Every(os) = {f}
    BY <2>1, EveryOne
  <2> QED
    BY <2>2 DEF os
<1>8. Members(f).j = "object" /\ EveryJson(Members(f).members) = {f}
  BY <1>1, <1>6
<1> QED
  BY <1>4, <1>5, <1>7, <1>8

(* Compound values: each of whose parts round trips. *)
LEMMA ListTrips ==
  ASSUME Equations, NEW s, IsFunction(s), \A i \in DOMAIN s : RoundTrips(s[i])
  PROVE  RoundTrips(ListV(s))
<1> DEFINE c == Items(s)
           j == Elements(s)
           d == CborOf(Elements(s))
<1>1. ToCbor(ListV(s)) = c /\ ToJson(ListV(s)) = j
  BY DEF Equations, CodecEquations, ToCborStep, ToJsonStep, ListV
<1>2. /\ c.c = "array" /\ EveryCbor(c.items) = {s}
      /\ j.j = "array" /\ EveryJson(j.items) = {s}
      /\ d.c = "array" /\ EveryCbor(d.items) = {s}
  BY ItemsTrip
<1> HIDE DEF c, d, j
<1>3. FromCbor(c) = {ListV(s)} /\ FromJson(j) = {ListV(s)} /\ FromCbor(d) = {ListV(s)}
  BY <1>2 DEF Equations, CodecEquations, FromCborStep, FromJsonStep
<1> QED
  BY <1>1, <1>3 DEF RoundTrips, d, j

(* A document of each form that is read by FromMap or FromObject. *)
LEMMA MapRead ==
  ASSUME Equations, NEW d, d.c = "map"
  PROVE  FromCbor(d) = FromMap(d.entries)
BY DEF Equations, CodecEquations, FromCborStep

LEMMA ObjectRead ==
  ASSUME Equations, NEW j, j.j = "object"
  PROVE  /\ FromJson(j) = FromObject(j.members)
         /\ CborOf(j) = Listed([k \in DOMAIN j.members |-> CborOf(j.members[k])])
BY DEF Equations, CodecEquations, FromJsonStep, CborOfEquation, CborOfStep

LEMMA ListedRead ==
  ASSUME Equations, NEW g, IsFiniteSet(DOMAIN g)
  PROVE  FromCbor(Listed(g)) = FromMap(Listed(g).entries)
BY ListedRepresents, MapRead

LEMMA FiniteNames ==
  IsFiniteSet({"$tuple"}) /\ IsFiniteSet(TagNames)
<1>1. IsFiniteSet({"$tuple"}) /\ IsFiniteSet({"$tag"})
  BY FS_Singleton
<1>2. IsFiniteSet({"$tag"} \cup {"$fields"})
  BY <1>1, FS_AddElement
<1>3. {"$tag"} \cup {"$fields"} = TagNames
  BY DEF TagNames
<1> QED
  BY <1>1, <1>2, <1>3

LEMMA TupleTrips ==
  ASSUME Equations, NEW s, IsFunction(s), \A i \in DOMAIN s : RoundTrips(s[i])
  PROVE  RoundTrips(TupleV(s))
<1> DEFINE es == <<Entry(TextC("$tuple"), Items(s))>>
           f == [k \in {"$tuple"} |-> Elements(s)]
           g == [k \in {"$tuple"} |-> CborOf(Elements(s))]
<1>0. /\ Items(s).c = "array" /\ EveryCbor(Items(s).items) = {s}
      /\ Elements(s).j = "array" /\ EveryJson(Elements(s).items) = {s}
      /\ CborOf(Elements(s)).c = "array" /\ EveryCbor(CborOf(Elements(s)).items) = {s}
  BY ItemsTrip
<1>1. ToCbor(TupleV(s)) = MapC(es) /\ ToJson(TupleV(s)) = ObjectJ(f)
  BY DEF Equations, CodecEquations, ToCborStep, ToJsonStep, TupleV
<1>2. FromCbor(MapC(es)) = {TupleV(s)}
  <2>1. FromCbor(MapC(es)) = FromMap(es)
    BY MapRead DEF MapC
  <2>2. AsTuple(es) /\ es[1].val = Items(s)
    BY DEF AsTuple, Entry
  <2> HIDE DEF es
  <2>3. FromMap(es) = {TupleV(vs) : vs \in EveryCbor(Items(s).items)}
    BY <1>0, <2>2 DEF FromMap
  <2> QED
    BY <1>0, <2>1, <2>3
<1>3. ObjectJ(f).j = "object" /\ ObjectJ(f).members = f
  BY DEF ObjectJ
<1>4. FromJson(ObjectJ(f)) = {TupleV(s)}
  <2>1. DOMAIN f = {"$tuple"} /\ f["$tuple"] = Elements(s)
    OBVIOUS
  <2> HIDE DEF f
  <2>2. FromObject(f) = {TupleV(vs) : vs \in EveryJson(Elements(s).items)}
    BY <1>0, <2>1 DEF FromObject
  <2> QED
    BY <1>0, <1>3, <2>2, ObjectRead
<1>5. FromCbor(CborOf(ObjectJ(f))) = {TupleV(s)}
  <2>1. [k \in DOMAIN f |-> CborOf(f[k])] = g
    OBVIOUS
  <2>2. DOMAIN g = {"$tuple"} /\ g["$tuple"] = CborOf(Elements(s))
    OBVIOUS
  <2> HIDE DEF f, g
  <2>3. CborOf(ObjectJ(f)) = Listed(g)
    BY <1>3, <2>1, ObjectRead
  <2>4. Represents(Listed(g).entries, g) /\ FromCbor(Listed(g)) = FromMap(Listed(g).entries)
    BY <2>2, FiniteNames, ListedRepresents, ListedRead
  <2>5. FromMap(Listed(g).entries) = {TupleV(vs) : vs \in EveryCbor(g["$tuple"].items)}
    BY <1>0, <2>2, <2>4, FromTuple
  <2> QED
    BY <1>0, <2>2, <2>3, <2>4, <2>5
<1> HIDE DEF es, f
<1> QED
  BY <1>1, <1>2, <1>4, <1>5 DEF RoundTrips

LEMMA MapTrips ==
  ASSUME Equations, NEW f, IsFunction(f), IsFiniteSet(DOMAIN f),
         DOMAIN f # {"$tuple"}, DOMAIN f \cap TagNames = {},
         \A k \in DOMAIN f : RoundTrips(f[k])
  PROVE  RoundTrips(MapV(f))
<1> DEFINE g == [k \in DOMAIN f |-> ToCbor(f[k])]
           h == [k \in DOMAIN f |-> CborOf(ToJson(f[k]))]
<1>0. /\ Every(Decoding(g)) = {f} /\ Every(Decoding(h)) = {f}
      /\ Members(f).j = "object" /\ EveryJson(Members(f).members) = {f}
      /\ CborOf(Members(f)) = Listed(h)
  BY FieldsTrip
<1>1. ToCbor(MapV(f)) = Listed(g) /\ ToJson(MapV(f)) = Members(f)
  <2>1. ToCbor(MapV(f)) = Entries(f) /\ ToJson(MapV(f)) = Members(f)
    BY DEF Equations, CodecEquations, ToCborStep, ToJsonStep, MapV
  <2> QED
    BY <2>1 DEF Entries
<1>2. DOMAIN g = DOMAIN f /\ DOMAIN h = DOMAIN f
  OBVIOUS
<1>3. DOMAIN Members(f).members = DOMAIN f
  BY DEF Members, ObjectJ
<1> HIDE DEF g, h
<1>4. ASSUME NEW x, DOMAIN x = DOMAIN f, Every(Decoding(x)) = {f}
      PROVE  FromCbor(Listed(x)) = {MapV(f)}
  <2>1. FromCbor(Listed(x)) = FromMap(Listed(x).entries)
    BY <1>4, ListedRead
  <2>2. Represents(Listed(x).entries, x)
    BY <1>4, ListedRepresents
  <2>3. FromMap(Listed(x).entries) = {MapV(y) : y \in Every(Decoding(x))}
    BY <1>4, <2>2, FromPlain
  <2> QED
    BY <1>4, <2>1, <2>3
<1>5. FromCbor(Listed(g)) = {MapV(f)} /\ FromCbor(Listed(h)) = {MapV(f)}
  BY <1>0, <1>2, <1>4
<1>6. FromJson(Members(f)) = {MapV(f)}
  <2>1. ~(TagNames \subseteq DOMAIN f)
    BY DEF TagNames
  <2>2. FromObject(Members(f).members) = {MapV(y) : y \in EveryJson(Members(f).members)}
    BY <1>3, <2>1 DEF FromObject, TagNames
  <2> QED
    BY <1>0, <2>2, ObjectRead
<1> QED
  BY <1>0, <1>1, <1>5, <1>6 DEF RoundTrips

LEMMA EnumTrips ==
  ASSUME Equations, NEW tag, NEW f, IsFunction(f), IsFiniteSet(DOMAIN f),
         \A k \in DOMAIN f : RoundTrips(f[k])
  PROVE  RoundTrips(EnumV(tag, f))
<1> DEFINE g == [k \in DOMAIN f |-> ToCbor(f[k])]
           h == [k \in DOMAIN f |-> CborOf(ToJson(f[k]))]
           es == <<Entry(TextC("$fields"), Listed(g)), Entry(TextC("$tag"), TextC(tag))>>
           c == [k \in TagNames |-> IF k = "$tag" THEN TextC(tag) ELSE Listed(g)]
           d == [k \in TagNames |-> IF k = "$tag" THEN TextC(tag) ELSE Listed(h)]
           j == [k \in TagNames |-> IF k = "$tag" THEN StringJ(tag) ELSE Members(f)]
<1>0. /\ Every(Decoding(g)) = {f} /\ Every(Decoding(h)) = {f}
      /\ Members(f).j = "object" /\ EveryJson(Members(f).members) = {f}
      /\ CborOf(Members(f)) = Listed(h)
  BY FieldsTrip
<1>1. DOMAIN g = DOMAIN f /\ DOMAIN h = DOMAIN f
  OBVIOUS
<1>2. ToCbor(EnumV(tag, f)) = MapC(es) /\ ToJson(EnumV(tag, f)) = ObjectJ(j)
  <2>1. ToCbor(EnumV(tag, f)) =
          MapC(<<Entry(TextC("$fields"), Entries(f)), Entry(TextC("$tag"), TextC(tag))>>)
    BY DEF Equations, CodecEquations, ToCborStep, EnumV
  <2>2. Entries(f) = Listed(g)
    BY DEF Entries
  <2>3. ToJson(EnumV(tag, f)) = EnumJ(tag, Members(f))
    BY DEF Equations, CodecEquations, ToJsonStep, EnumV
  <2>4. EnumJ(tag, Members(f)) = ObjectJ(j)
    BY DEF EnumJ, TagNames
  <2> HIDE DEF g, j
  <2> QED
    BY <2>1, <2>2, <2>3, <2>4
<1> HIDE DEF g, h
<1>3. FromFields(Listed(g)) = {f} /\ FromFields(Listed(h)) = {f}
  BY <1>0, <1>1, FromListed
<1>4. Represents(es, c)
  <2>1. DOMAIN es = {1, 2} /\ es \in Seq({es[1], es[2]}) /\ Range(es) = {es[1], es[2]}
    BY DEF Range
  <2>2. /\ es[1].key = TextC("$fields") /\ es[1].val = Listed(g)
        /\ es[2].key = TextC("$tag") /\ es[2].val = TextC(tag)
    BY DEF Entry
  <2> HIDE DEF es
  <2>3. /\ es[1].key = TextC(es[1].key.text) /\ es[1].key.text = "$fields"
        /\ es[2].key = TextC(es[2].key.text) /\ es[2].key.text = "$tag"
        /\ TextC("$fields") # TextC("$tag")
    BY <2>2 DEF TextC
  <2>4. At(es, "$fields") = {1} /\ At(es, "$tag") = {2}
    BY <2>1, <2>2, <2>3 DEF At
  <2>5. DOMAIN c = {"$tag", "$fields"} /\ c["$tag"] = TextC(tag) /\ c["$fields"] = Listed(g)
    BY DEF TagNames
  <2> HIDE DEF c
  <2>6. \A k \in DOMAIN c : \E i \in DOMAIN es : At(es, k) = {i} /\ es[i].val = c[k]
    BY <2>1, <2>2, <2>4, <2>5
  <2>7. \A i \in DOMAIN es : es[i].key.text \in DOMAIN c /\ es[i].key = TextC(es[i].key.text)
    BY <2>1, <2>3, <2>5
  <2> QED
    BY <2>1, <2>6, <2>7 DEF Represents
<1>5. FromCbor(MapC(es)) = {EnumV(tag, f)}
  <2>1. FromCbor(MapC(es)) = FromMap(es)
    <3> HIDE DEF es
    <3> QED
      BY MapRead DEF MapC
  <2>2. /\ DOMAIN c = TagNames /\ c["$tag"].c = "text" /\ c["$tag"].text = tag
        /\ c["$fields"] = Listed(g)
    BY DEF TagNames, TextC
  <2> HIDE DEF es, c
  <2>3. FromMap(es) = {EnumV(tag, y) : y \in FromFields(Listed(g))}
    BY <1>4, <2>2, FromEnum
  <2> QED
    BY <1>3, <2>1, <2>3
<1>6. ObjectJ(j).j = "object" /\ ObjectJ(j).members = j
  BY DEF ObjectJ
<1>7. /\ DOMAIN j = {"$tag", "$fields"} /\ j["$fields"] = Members(f)
      /\ j["$tag"] = StringJ(tag) /\ j["$tag"].j = "string" /\ j["$tag"].string = tag
  BY DEF TagNames, StringJ
<1>8. FromJson(ObjectJ(j)) = {EnumV(tag, f)}
  <2> HIDE DEF j
  <2>1. DOMAIN j # {"$tuple"}
    BY <1>7
  <2>2. FromObject(j) = {EnumV(tag, y) : y \in EveryJson(Members(f).members)}
    BY <1>0, <1>7, <2>1 DEF FromObject
  <2> QED
    BY <1>0, <1>6, <2>2, ObjectRead
<1>9. FromCbor(CborOf(ObjectJ(j))) = {EnumV(tag, f)}
  <2>1. [k \in DOMAIN j |-> CborOf(j[k])] = d
    <3>1. CborOf(StringJ(tag)) = TextC(tag)
      <4>1. StringJ(tag).j = "string" /\ StringJ(tag).string = tag
        BY DEF StringJ
      <4> QED
        BY <4>1 DEF Equations, CborOfEquation, CborOfStep
    <3> QED
      BY <1>0, <3>1
  <2>2. /\ DOMAIN d = TagNames /\ d["$tag"].c = "text" /\ d["$tag"].text = tag
        /\ d["$fields"] = Listed(h)
    BY DEF TagNames, TextC
  <2> HIDE DEF j, d
  <2>3. CborOf(ObjectJ(j)) = Listed(d)
    BY <1>6, <2>1, ObjectRead
  <2>4. Represents(Listed(d).entries, d) /\ FromCbor(Listed(d)) = FromMap(Listed(d).entries)
    BY <2>2, FiniteNames, ListedRepresents, ListedRead
  <2>5. FromMap(Listed(d).entries) = {EnumV(tag, y) : y \in FromFields(Listed(h))}
    BY <2>2, <2>4, FromEnum
  <2> QED
    BY <1>3, <2>3, <2>4, <2>5
<1> HIDE DEF es, j
<1> QED
  BY <1>2, <1>5, <1>8, <1>9 DEF RoundTrips

------------------------------------------------------------------------------
(***************************************************************************)
(* What a codec accepts of a reliable document round trips.                *)
(***************************************************************************)
ReliableCbor(d) ==
  \A x \in CborWithin(d) :
    /\ CborShape(x) /\ UniqueKeys(x) /\ IsFiniteSet(CborWithin(x))
    /\ \A y \in CborParts(x) : x \notin CborWithin(y)

InsideCbor(d) == {x \in CborWithin(d) : CborWithin(x) \subseteq CborWithin(d)}

SmallerCbor(y, x) == CborWithin(y) \subseteq CborWithin(x) /\ CborWithin(y) # CborWithin(x)

LEMMA CborPart ==
  ASSUME Equations, NEW d, ReliableCbor(d), NEW x \in InsideCbor(d), NEW y \in CborParts(x)
  PROVE  y \in InsideCbor(d) /\ SmallerCbor(y, x)
<1>1. /\ CborWithin(x) = {x} \cup UNION {CborWithin(z) : z \in CborParts(x)}
      /\ CborWithin(y) = {y} \cup UNION {CborWithin(z) : z \in CborParts(y)}
  BY DEF Equations, WithinEquations
<1>2. x \in CborWithin(x) /\ y \in CborWithin(y) /\ CborWithin(y) \subseteq CborWithin(x)
  BY <1>1
<1>3. x \notin CborWithin(y)
  BY DEF ReliableCbor, InsideCbor
<1> QED
  BY <1>2, <1>3 DEF InsideCbor, SmallerCbor

(* A map's fields, read as those of an enum or as its entries. *)
LEMMA FieldsFrom ==
  ASSUME NEW m, m.c = "map", CborShape(m), UniqueKeys(m),
         NEW f \in FromEntries(m.entries, DOMAIN m.entries)
  PROVE  /\ IsFunction(f) /\ IsFiniteSet(DOMAIN f)
         /\ \A k \in DOMAIN f : \E i \in DOMAIN m.entries :
              m.entries[i].key = TextC(k) /\ f[k] \in FromCbor(m.entries[i].val)
         /\ \A i \in DOMAIN m.entries :
              m.entries[i].key = TextC(m.entries[i].key.text)
              /\ m.entries[i].key.text \in DOMAIN f
<1> DEFINE es == m.entries
           Keys == {es[i].key.text : i \in DOMAIN es}
           os == [i \in DOMAIN es |-> FromCbor(es[i].val)]
<1>1. ~ \E i \in DOMAIN es : es[i].key.c # "text"
  BY DEF FromEntries
<1>2. f \in {[k \in Keys |-> vs[Max(At(es, k))]] : vs \in Every(os)}
  BY <1>1, Zenon DEF FromEntries
<1> HIDE DEF os, Keys
<1>3. PICK vs \in Every(os) : f = [k \in Keys |-> vs[Max(At(es, k))]]
  BY <1>2
<1>4. IsFunction(f) /\ DOMAIN f = Keys
  BY <1>3 DEF IsFunction
<1>5. \A i \in DOMAIN es : es[i].key = TextC(es[i].key.text)
  BY <1>1 DEF CborShape
<1>6. es \in Seq(Range(es))
  BY DEF CborShape
<1>7. Len(es) \in Nat /\ DOMAIN es = 1 .. Len(es)
  BY <1>6, LenProperties
<1>8. ASSUME NEW k \in DOMAIN f
      PROVE  \E i \in DOMAIN es : es[i].key = TextC(k) /\ f[k] \in FromCbor(es[i].val)
  <2>1. PICK i \in DOMAIN es : es[i].key.text = k
    BY <1>4 DEF Keys
  <2>2. es[i].key = TextC(k)
    BY <1>5, <2>1
  <2>3. \A n \in DOMAIN es : n # i => es[n].key # es[i].key
    BY DEF UniqueKeys
  <2>4. At(es, k) = {i}
    BY <2>2, <2>3 DEF At
  <2>5. Max(At(es, k)) = i
    BY <1>7, <2>4, MaxOfOne
  <2>6. f[k] = vs[i]
    BY <1>3, <1>4, <2>5
  <2>7. DOMAIN os = DOMAIN es /\ os[i] = FromCbor(es[i].val)
    BY DEF os
  <2>8. vs[i] \in os[i]
    BY <2>7, EveryMember
  <2> QED
    BY <2>2, <2>6, <2>7, <2>8
<1>9. IsFiniteSet(DOMAIN f)
  <2> DEFINE r == [i \in 1 .. Len(es) |-> es[i].key.text]
  <2>1. r \in Surjection(1 .. Len(es), Keys)
    BY <1>7 DEF Surjection, Keys
  <2>2. IsFiniteSet(1 .. Len(es))
    BY <1>7, FS_Interval
  <2> HIDE DEF r
  <2> QED
    BY <1>4, <2>1, <2>2, FS_Surjection
<1>10. \A i \in DOMAIN es : es[i].key.text \in DOMAIN f
  BY <1>4 DEF Keys
<1> QED
  BY <1>4, <1>5, <1>8, <1>9, <1>10

LEMMA ItemsFrom ==
  ASSUME Equations, NEW s, NEW vs \in EveryCbor(s),
         \A i \in DOMAIN s : \A u \in FromCbor(s[i]) : RoundTrips(u)
  PROVE  IsFunction(vs) /\ \A i \in DOMAIN vs : RoundTrips(vs[i])
<1> DEFINE os == [i \in DOMAIN s |-> FromCbor(s[i])]
<1>1. vs \in Every(os)
  BY DEF EveryCbor
<1>2. DOMAIN os = DOMAIN s /\ \A i \in DOMAIN s : os[i] = FromCbor(s[i])
  OBVIOUS
<1> HIDE DEF os
<1>3. IsFunction(vs) /\ DOMAIN vs = DOMAIN os /\ \A i \in DOMAIN os : vs[i] \in os[i]
  BY <1>1, EveryMember
<1> QED
  BY <1>2, <1>3

LEMMA MapValueTrips ==
  ASSUME Equations, NEW x, x.c = "map", CborShape(x), UniqueKeys(x),
         \A y \in CborParts(x) : \A u \in FromCbor(y) : RoundTrips(u),
         \A y \in CborParts(x) : \A z \in CborParts(y) : \A u \in FromCbor(z) : RoundTrips(u),
         \A y \in CborParts(x) : CborShape(y) /\ UniqueKeys(y),
         NEW v \in FromMap(x.entries)
  PROVE  RoundTrips(v)
<1> DEFINE es == x.entries
           tags == At(es, "$tag")
           fields == At(es, "$fields")
<1>1. Len(es) \in Nat /\ DOMAIN es = 1 .. Len(es)
  BY LenProperties DEF CborShape
<1>2. \A i \in DOMAIN es : es[i].val \in CborParts(x)
  BY DEF CborParts
<1>3. CASE AsTuple(es)
  <2>1. 1 \in DOMAIN es
    BY <1>1, <1>3 DEF AsTuple
  <2>2. es[1].val.c = "array" /\ v \in {TupleV(vs) : vs \in EveryCbor(es[1].val.items)}
    BY <1>3 DEF FromMap
  <2>3. PICK vs \in EveryCbor(es[1].val.items) : v = TupleV(vs)
    BY <2>2
  <2>4. \A i \in DOMAIN es[1].val.items : es[1].val.items[i] \in CborParts(es[1].val)
    BY <2>2 DEF CborParts, Range
  <2>5. \A i \in DOMAIN es[1].val.items : \A u \in FromCbor(es[1].val.items[i]) : RoundTrips(u)
    BY <1>2, <2>1, <2>4
  <2>6. IsFunction(vs) /\ \A i \in DOMAIN vs : RoundTrips(vs[i])
    BY <2>5, ItemsFrom
  <2> QED
    BY <2>3, <2>6, TupleTrips
<1>4. CASE ~AsTuple(es) /\ tags \cup fields = {}
  <2>1. v \in {MapV(f) : f \in FromEntries(es, DOMAIN es \ (tags \cup fields))}
    BY <1>4 DEF FromMap
  <2>2. DOMAIN es \ (tags \cup fields) = DOMAIN es
    BY <1>4
  <2>3. PICK f \in FromEntries(es, DOMAIN es) : v = MapV(f)
    BY <2>1, <2>2
  <2>4. /\ IsFunction(f) /\ IsFiniteSet(DOMAIN f)
        /\ \A k \in DOMAIN f : \E i \in DOMAIN es :
             es[i].key = TextC(k) /\ f[k] \in FromCbor(es[i].val)
        /\ \A i \in DOMAIN es :
             es[i].key = TextC(es[i].key.text) /\ es[i].key.text \in DOMAIN f
    BY FieldsFrom
  <2>5. \A k \in DOMAIN f : RoundTrips(f[k])
    BY <1>2, <2>4
  <2>6. DOMAIN f \cap TagNames = {}
    <3> SUFFICES ASSUME NEW k \in DOMAIN f, k \in TagNames PROVE FALSE
      OBVIOUS
    <3>1. PICK i \in DOMAIN es : es[i].key = TextC(k)
      BY <2>4
    <3>2. i \in At(es, k)
      BY <3>1 DEF At
    <3> QED
      BY <1>4, <3>2 DEF TagNames
  <2>7. DOMAIN f # {"$tuple"}
    <3> SUFFICES ASSUME DOMAIN f = {"$tuple"} PROVE FALSE
      OBVIOUS
    <3>1. \A i \in DOMAIN es : es[i].key = TextC("$tuple")
      BY <2>4
    <3>2. PICK i \in DOMAIN es : es[i].key = TextC("$tuple")
      BY <2>4
    <3>3. \A n \in DOMAIN es : n = i
      BY <3>1, <3>2 DEF UniqueKeys
    <3>4. 1 .. Len(es) = {i}
      BY <1>1, <3>3
    <3>5. Len(es) = 1
      <4> HIDE DEF es
      <4>1. Len(es) >= 1 /\ i \in Nat
        BY <1>1
      <4>2. 1 = i /\ (Len(es) >= 2 => 2 = i)
        BY <1>1, <3>3, <4>1
      <4> QED
        BY <1>1, <4>1, <4>2
    <3> QED
      BY <1>1, <1>4, <3>1, <3>5 DEF AsTuple
  <2> QED
    BY <2>3, <2>4, <2>5, <2>6, <2>7, MapTrips
<1>5. CASE ~AsTuple(es) /\ tags \cup fields # {}
  <2>1. /\ tags # {} /\ fields # {}
        /\ v \in {EnumV(es[Max(tags)].val.text, f) : f \in FromFields(es[Max(fields)].val)}
    BY <1>5 DEF FromMap
  <2>2. PICK i \in DOMAIN es : i \in fields
    BY <2>1 DEF At
  <2>3. fields = {i}
    BY <2>2 DEF At, UniqueKeys
  <2>4. Max(fields) = i
    BY <1>1, <2>3, MaxOfOne
  <2> DEFINE m == es[i].val
  <2>5. PICK tag, f : v = EnumV(tag, f) /\ f \in FromFields(m)
    BY <2>1, <2>4
  <2>6. m.c = "map" /\ f \in FromEntries(m.entries, DOMAIN m.entries) /\ m \in CborParts(x)
    BY <1>2, <2>5 DEF FromFields
  <2>7. \A n \in DOMAIN m.entries : m.entries[n].val \in CborParts(m)
    BY <2>6 DEF CborParts
  <2>8. CborShape(m) /\ UniqueKeys(m)
    BY <2>6
  <2> HIDE DEF m
  <2>9. /\ IsFunction(f) /\ IsFiniteSet(DOMAIN f)
        /\ \A k \in DOMAIN f : \E n \in DOMAIN m.entries : f[k] \in FromCbor(m.entries[n].val)
    BY <2>6, <2>8, FieldsFrom
  <2>10. \A k \in DOMAIN f : RoundTrips(f[k])
    BY <2>6, <2>7, <2>9
  <2> QED
    BY <2>5, <2>9, <2>10, EnumTrips
<1> QED
  BY <1>3, <1>4, <1>5

LEMMA CborValuesTrip ==
  ASSUME Equations, NEW d, ReliableCbor(d), NEW v \in FromCbor(d)
  PROVE  RoundTrips(v)
<1> DEFINE S == InsideCbor(d)
           w == [x \in S |-> CborWithin(x)]
           G == {x \in S : \A u \in FromCbor(x) : RoundTrips(u)}
<1>1. d \in S
  BY DEF Equations, WithinEquations, InsideCbor
<1>2. \A x \in S : IsFiniteSet(w[x])
  BY DEF ReliableCbor, InsideCbor
<1>3. ASSUME NEW x \in S, \A y \in S : w[y] \subseteq w[x] /\ w[y] # w[x] => y \in G,
             NEW u \in FromCbor(x)
      PROVE  RoundTrips(u)
  <2>1. \A y \in S : SmallerCbor(y, x) => \A r \in FromCbor(y) : RoundTrips(r)
    BY <1>3 DEF SmallerCbor
  <2> HIDE DEF G, w
  <2>2. ASSUME NEW y \in CborParts(x)
        PROVE  /\ y \in S /\ SmallerCbor(y, x)
               /\ CborShape(y) /\ UniqueKeys(y)
               /\ \A r \in FromCbor(y) : RoundTrips(r)
    BY <2>1, CborPart DEF ReliableCbor, InsideCbor
  <2>3. ASSUME NEW y \in CborParts(x), NEW z \in CborParts(y)
        PROVE  \A r \in FromCbor(z) : RoundTrips(r)
    <3>1. z \in S /\ SmallerCbor(z, y) /\ SmallerCbor(y, x)
      BY <2>2, CborPart
    <3>2. SmallerCbor(z, x)
      BY <3>1 DEF SmallerCbor
    <3> QED
      BY <2>1, <3>1, <3>2
  <2>4. CborShape(x) /\ UniqueKeys(x)
    BY DEF ReliableCbor, InsideCbor
  <2>5. FromCbor(x) = FromCborStep(x)
    BY DEF Equations, CodecEquations
  <2>6. CASE x.c = "map"
    <3>1. u \in FromMap(x.entries)
      BY <1>3, <2>6, MapRead
    <3> QED
      BY <2>2, <2>3, <2>4, <2>6, <3>1, MapValueTrips
  <2>7. CASE x.c = "array"
    <3>1. PICK vs \in EveryCbor(x.items) : u = ListV(vs)
      BY <1>3, <2>5, <2>7 DEF FromCborStep
    <3>2. \A i \in DOMAIN x.items : x.items[i] \in CborParts(x)
      BY <2>7 DEF CborParts, Range
    <3>3. \A i \in DOMAIN x.items : \A r \in FromCbor(x.items[i]) : RoundTrips(r)
      BY <2>2, <3>2
    <3>4. IsFunction(vs) /\ \A i \in DOMAIN vs : RoundTrips(vs[i])
      BY <3>3, ItemsFrom
    <3> QED
      BY <3>1, <3>4, ListTrips
  <2>8. CASE x.c \notin {"map", "array"}
    <3>1. u \in {UnitV, BoolV(x.bool), IntV(x.int), StringV(x.text)}
      BY <1>3, <2>5, <2>8 DEF FromCborStep
    <3> QED
      BY <3>1, ScalarsTrip
  <2> QED
    BY <2>6, <2>7, <2>8
<1>4. \A x \in S : (\A y \in S : w[y] \subseteq w[x] /\ w[y] # w[x] => y \in G) => x \in G
  BY <1>3
<1>5. S \subseteq G
  <2> HIDE DEF S, w, G
  <2> QED
    BY <1>2, <1>4, WithinInduction
<1> QED
  BY <1>1, <1>5

------------------------------------------------------------------------------
(***************************************************************************)
(* The same for JSON.                                                      *)
(***************************************************************************)
ReliableJson(j) ==
  \A x \in JsonWithin(j) :
    /\ JsonShape(x) /\ WholeTag(x) /\ IsFiniteSet(JsonWithin(x))
    /\ \A y \in JsonParts(x) : x \notin JsonWithin(y)

InsideJson(j) == {x \in JsonWithin(j) : JsonWithin(x) \subseteq JsonWithin(j)}

SmallerJson(y, x) == JsonWithin(y) \subseteq JsonWithin(x) /\ JsonWithin(y) # JsonWithin(x)

LEMMA JsonPart ==
  ASSUME Equations, NEW j, ReliableJson(j), NEW x \in InsideJson(j), NEW y \in JsonParts(x)
  PROVE  y \in InsideJson(j) /\ SmallerJson(y, x)
<1>1. /\ JsonWithin(x) = {x} \cup UNION {JsonWithin(z) : z \in JsonParts(x)}
      /\ JsonWithin(y) = {y} \cup UNION {JsonWithin(z) : z \in JsonParts(y)}
  BY DEF Equations, WithinEquations
<1>2. x \in JsonWithin(x) /\ y \in JsonWithin(y) /\ JsonWithin(y) \subseteq JsonWithin(x)
  BY <1>1
<1>3. x \notin JsonWithin(y)
  BY DEF ReliableJson, InsideJson
<1> QED
  BY <1>2, <1>3 DEF InsideJson, SmallerJson

(***************************************************************************)
(* What an object can be where WholeTag holds, with the parts it is read   *)
(* from.                                                                   *)
(***************************************************************************)
LEMMA ObjectCases ==
  ASSUME NEW j, j.j = "object", WholeTag(j)
  PROVE  LET ms == j.members
         IN  \/ /\ DOMAIN ms = {"$tuple"} /\ ms["$tuple"] \in JsonParts(j)
             \/ /\ DOMAIN ms = TagNames /\ ms["$tag"] \in JsonParts(j)
                /\ ms["$fields"].j = "object" =>
                     \A k \in DOMAIN ms["$fields"].members :
                       ms["$fields"].members[k] \in JsonParts(j)
             \/ /\ DOMAIN ms # {"$tuple"} /\ DOMAIN ms \cap TagNames = {}
                /\ \A k \in DOMAIN ms : ms[k] \in JsonParts(j)
<1> DEFINE ms == j.members
<1>1. JsonParts(j) = UNION {JsonMember(k, ms[k]) : k \in DOMAIN ms}
  BY DEF JsonParts
<1>2. \A k \in DOMAIN ms : JsonMember(k, ms[k]) \subseteq JsonParts(j)
  BY <1>1
<1>3. \A k \in DOMAIN ms : k # "$fields" => ms[k] \in JsonParts(j)
  BY <1>2 DEF JsonMember
<1>4. "$fields" \in DOMAIN ms /\ ms["$fields"].j = "object" =>
        \A k \in DOMAIN ms["$fields"].members : ms["$fields"].members[k] \in JsonParts(j)
  BY <1>2 DEF JsonMember, Range
<1>5. DOMAIN ms \cap TagNames # {} => DOMAIN ms = TagNames
  BY DEF WholeTag, TagNames
<1> QED
  BY <1>3, <1>4, <1>5 DEF TagNames

LEMMA ElementsFrom ==
  ASSUME Equations, NEW s, NEW vs \in EveryJson(s),
         \A i \in DOMAIN s : \A u \in FromJson(s[i]) : RoundTrips(u)
  PROVE  /\ IsFunction(vs) /\ DOMAIN vs = DOMAIN s
         /\ \A i \in DOMAIN vs : RoundTrips(vs[i])
<1> DEFINE os == [i \in DOMAIN s |-> FromJson(s[i])]
<1>1. vs \in Every(os)
  BY DEF EveryJson
<1>2. DOMAIN os = DOMAIN s /\ \A i \in DOMAIN s : os[i] = FromJson(s[i])
  OBVIOUS
<1> HIDE DEF os
<1>3. IsFunction(vs) /\ DOMAIN vs = DOMAIN os /\ \A i \in DOMAIN os : vs[i] \in os[i]
  BY <1>1, EveryMember
<1> QED
  BY <1>2, <1>3

LEMMA ObjectValueTrips ==
  ASSUME Equations, NEW j, j.j = "object", JsonShape(j), WholeTag(j),
         \A y \in JsonParts(j) : \A u \in FromJson(y) : RoundTrips(u),
         \A y \in JsonParts(j) : \A z \in JsonParts(y) : \A u \in FromJson(z) : RoundTrips(u),
         NEW v \in FromObject(j.members)
  PROVE  RoundTrips(v)
<1> DEFINE ms == j.members
<1>1. CASE DOMAIN ms = {"$tuple"} /\ ms["$tuple"] \in JsonParts(j)
  <2> DEFINE m == ms["$tuple"]
  <2>1. m.j = "array" /\ v \in {TupleV(vs) : vs \in EveryJson(m.items)}
    BY <1>1 DEF FromObject
  <2>2. PICK vs \in EveryJson(m.items) : v = TupleV(vs)
    BY <2>1
  <2>3. \A i \in DOMAIN m.items : m.items[i] \in JsonParts(m)
    BY <2>1 DEF JsonParts, Range
  <2> HIDE DEF m
  <2>4. \A i \in DOMAIN m.items : \A u \in FromJson(m.items[i]) : RoundTrips(u)
    BY <1>1, <2>3 DEF m
  <2>5. IsFunction(vs) /\ \A i \in DOMAIN vs : RoundTrips(vs[i])
    BY <2>4, ElementsFrom
  <2> QED
    BY <2>2, <2>5, TupleTrips
<1>2. CASE /\ DOMAIN ms = TagNames
           /\ ms["$fields"].j = "object" =>
                \A k \in DOMAIN ms["$fields"].members :
                  ms["$fields"].members[k] \in JsonParts(j)
  <2> DEFINE m == ms["$fields"]
  <2>1. /\ m.j = "object"
        /\ v \in {EnumV(ms["$tag"].string, g) : g \in EveryJson(m.members)}
    BY <1>2 DEF FromObject, TagNames
  <2>2. PICK g \in EveryJson(m.members) : v = EnumV(ms["$tag"].string, g)
    BY <2>1
  <2>3. \A k \in DOMAIN m.members : \A u \in FromJson(m.members[k]) : RoundTrips(u)
    BY <1>2, <2>1
  <2>4. IsFiniteSet(DOMAIN m.members)
    BY <1>2, <2>1 DEF JsonShape, TagNames
  <2> HIDE DEF m
  <2>5. /\ IsFunction(g) /\ DOMAIN g = DOMAIN m.members
        /\ \A k \in DOMAIN g : RoundTrips(g[k])
    BY <2>3, ElementsFrom
  <2> QED
    BY <2>2, <2>4, <2>5, EnumTrips
<1>3. CASE /\ DOMAIN ms # {"$tuple"} /\ DOMAIN ms \cap TagNames = {}
           /\ \A k \in DOMAIN ms : ms[k] \in JsonParts(j)
  <2>1. ~({"$tag", "$fields"} \subseteq DOMAIN ms)
    BY <1>3 DEF TagNames
  <2>2. v \in {MapV(g) : g \in EveryJson(ms)}
    BY <1>3, <2>1 DEF FromObject
  <2>3. PICK g \in EveryJson(ms) : v = MapV(g)
    BY <2>2
  <2>4. \A k \in DOMAIN ms : \A u \in FromJson(ms[k]) : RoundTrips(u)
    BY <1>3
  <2>5. IsFiniteSet(DOMAIN ms)
    BY DEF JsonShape
  <2> HIDE DEF ms
  <2>6. /\ IsFunction(g) /\ DOMAIN g = DOMAIN ms /\ \A k \in DOMAIN g : RoundTrips(g[k])
    BY <2>4, ElementsFrom
  <2> QED
    BY <1>3, <2>3, <2>5, <2>6, MapTrips
<1> QED
  BY <1>1, <1>2, <1>3, ObjectCases

------------------------------------------------------------------------------
(***************************************************************************)
(* The CBOR image of a document is read as the document is.                *)
(***************************************************************************)
SameRead(j) == FromJson(j) = FromCbor(CborOf(j))

LEMMA ImageKind ==
  ASSUME Equations, NEW j
  PROVE  /\ CborOf(j).c = "array" <=> j.j = "array"
         /\ CborOf(j).c = "map" <=> j.j = "object"
         /\ CborOf(j).c = "text" <=> j.j = "string"
         /\ j.j = "string" => CborOf(j).text = j.string
<1> DEFINE c == CborOf(j)
           as == [i \in DOMAIN j.items |-> CborOf(j.items[i])]
           ms == [k \in DOMAIN j.members |-> CborOf(j.members[k])]
           ls == Listed(ms)
<1>1. c = CASE j.j = "null"   -> NullC
            [] j.j = "bool"   -> BoolC(j.bool)
            [] j.j = "int"    -> IntC(j.int)
            [] j.j = "string" -> TextC(j.string)
            [] j.j = "array"  -> ArrayC(as)
            [] j.j = "object" -> ls
            [] OTHER          -> OtherC
  BY Zenon DEF Equations, CborOfEquation, CborOfStep
<1>2. ls.c = "map"
  BY DEF Listed, MapC
<1> HIDE DEF c, as, ls
<1>3. CASE j.j = "string"
  <2>1. c = TextC(j.string)
    BY <1>1, <1>3
  <2> QED
    BY <1>3, <2>1 DEF c, TextC
<1>4. CASE j.j = "array"
  <2>1. c = ArrayC(as)
    BY <1>1, <1>4
  <2> QED
    BY <1>4, <2>1 DEF c, ArrayC
<1>5. CASE j.j = "object"
  <2>1. c = ls
    BY <1>1, <1>5
  <2> QED
    BY <1>2, <1>5, <2>1 DEF c
<1>6. CASE j.j \notin {"string", "array", "object"}
  <2>1. c \in {NullC, BoolC(j.bool), IntC(j.int), OtherC}
    BY <1>1, <1>6
  <2>2. c.c \in {"null", "bool", "int", "other"}
    BY <2>1 DEF NullC, BoolC, IntC, OtherC
  <2> QED
    BY <1>6, <2>2 DEF c
<1> QED
  BY <1>3, <1>4, <1>5, <1>6

LEMMA ArrayImage ==
  ASSUME Equations, NEW j, j.j = "array", \A i \in DOMAIN j.items : SameRead(j.items[i])
  PROVE  CborOf(j).c = "array" /\ EveryCbor(CborOf(j).items) = EveryJson(j.items)
<1> DEFINE s == j.items
           cs == [i \in DOMAIN s |-> CborOf(s[i])]
<1>1. CborOf(j) = ArrayC(cs)
  BY DEF Equations, CborOfEquation, CborOfStep
<1>2. CborOf(j).c = "array" /\ CborOf(j).items = cs
  BY <1>1 DEF ArrayC
<1>3. [i \in DOMAIN cs |-> FromCbor(cs[i])] = [i \in DOMAIN s |-> FromJson(s[i])]
  BY DEF SameRead
<1> HIDE DEF cs, s
<1>4. EveryCbor(cs) = EveryJson(s)
  BY <1>3 DEF EveryCbor, EveryJson
<1> QED
  BY <1>2, <1>4 DEF s

LEMMA FieldsImage ==
  ASSUME NEW f, \A k \in DOMAIN f : SameRead(f[k])
  PROVE  Every(Decoding([k \in DOMAIN f |-> CborOf(f[k])])) = EveryJson(f)
<1> DEFINE g == [k \in DOMAIN f |-> CborOf(f[k])]
<1>1. Decoding(g) = [k \in DOMAIN f |-> FromJson(f[k])]
  BY DEF Decoding, SameRead
<1> HIDE DEF g
<1>2. Every(Decoding(g)) = EveryJson(f)
  BY <1>1 DEF EveryJson
<1> QED
  BY <1>2 DEF g

LEMMA ObjectSame ==
  ASSUME Equations, NEW j, j.j = "object", JsonShape(j), WholeTag(j),
         \A y \in JsonParts(j) : SameRead(y),
         \A y \in JsonParts(j) : \A z \in JsonParts(y) : SameRead(z)
  PROVE  SameRead(j)
<1> DEFINE ms == j.members
           g == [k \in DOMAIN ms |-> CborOf(ms[k])]
           es == Listed(g).entries
<1>1. FromJson(j) = FromObject(ms) /\ CborOf(j) = Listed(g)
  BY ObjectRead
<1>2. IsFiniteSet(DOMAIN ms)
  BY DEF JsonShape
<1>3. DOMAIN g = DOMAIN ms /\ \A k \in DOMAIN g : g[k] = CborOf(ms[k])
  OBVIOUS
<1> HIDE DEF g
<1>4. Represents(es, g) /\ FromCbor(CborOf(j)) = FromMap(es)
  BY <1>1, <1>2, <1>3, ListedRepresents, ListedRead
<1> HIDE DEF es
<1>5. CASE DOMAIN ms = {"$tuple"} /\ ms["$tuple"] \in JsonParts(j)
  <2> DEFINE m == ms["$tuple"]
  <2>1. FromMap(es) = IF CborOf(m).c # "array" THEN {}
                      ELSE {TupleV(vs) : vs \in EveryCbor(CborOf(m).items)}
    BY <1>3, <1>4, <1>5, FromTuple
  <2>2. FromObject(ms) = IF m.j # "array" THEN {}
                         ELSE {TupleV(vs) : vs \in EveryJson(m.items)}
    BY <1>5 DEF FromObject
  <2>3. m.j = "array" => \A i \in DOMAIN m.items : SameRead(m.items[i])
    <3>1. m.j = "array" => \A i \in DOMAIN m.items : m.items[i] \in JsonParts(m)
      BY DEF JsonParts, Range
    <3> QED
      BY <1>5, <3>1
  <2> HIDE DEF m
  <2>4. m.j = "array" => EveryCbor(CborOf(m).items) = EveryJson(m.items)
    BY <2>3, ArrayImage
  <2> QED
    BY <1>1, <1>4, <2>1, <2>2, <2>4, ImageKind DEF SameRead
<1>6. CASE /\ DOMAIN ms = TagNames
           /\ ms["$fields"].j = "object" =>
                \A k \in DOMAIN ms["$fields"].members :
                  ms["$fields"].members[k] \in JsonParts(j)
  <2> DEFINE t == ms["$tag"]
             m == ms["$fields"]
             h == [k \in DOMAIN m.members |-> CborOf(m.members[k])]
  <2>1. FromMap(es) = IF CborOf(t).c # "text" THEN {}
                      ELSE {EnumV(CborOf(t).text, f) : f \in FromFields(CborOf(m))}
    BY <1>3, <1>4, <1>6, FromEnum DEF TagNames
  <2>2. FromObject(ms) = IF t.j # "string" \/ m.j # "object" THEN {}
                         ELSE {EnumV(t.string, f) : f \in EveryJson(m.members)}
    BY <1>6 DEF FromObject, TagNames
  <2>3. CASE m.j = "object"
    <3>1. CborOf(m) = Listed(h) /\ IsFiniteSet(DOMAIN m.members) /\ DOMAIN h = DOMAIN m.members
      BY <1>6, <2>3, ObjectRead DEF JsonShape, TagNames
    <3>2. \A k \in DOMAIN m.members : SameRead(m.members[k])
      BY <1>6, <2>3
    <3>3. Every(Decoding(h)) = EveryJson(m.members)
      BY <3>2, FieldsImage
    <3> HIDE DEF h, m, t
    <3>4. FromFields(CborOf(m)) = EveryJson(m.members)
      BY <3>1, <3>3, FromListed
    <3> QED
      BY <1>1, <1>4, <2>1, <2>2, <2>3, <3>4, ImageKind DEF SameRead
  <2>4. CASE m.j # "object"
    <3> HIDE DEF m, t
    <3>1. FromFields(CborOf(m)) = {}
      BY <2>4, ImageKind DEF FromFields
    <3> QED
      BY <1>1, <1>4, <2>1, <2>2, <2>4, <3>1 DEF SameRead
  <2> QED
    BY <2>3, <2>4
<1>7. CASE /\ DOMAIN ms # {"$tuple"} /\ DOMAIN ms \cap TagNames = {}
           /\ \A k \in DOMAIN ms : ms[k] \in JsonParts(j)
  <2>1. FromMap(es) = {MapV(f) : f \in Every(Decoding(g))}
    BY <1>3, <1>4, <1>7, FromPlain
  <2>2. ~({"$tag", "$fields"} \subseteq DOMAIN ms)
    BY <1>7 DEF TagNames
  <2>3. FromObject(ms) = {MapV(f) : f \in EveryJson(ms)}
    BY <1>7, <2>2 DEF FromObject
  <2>4. \A k \in DOMAIN ms : SameRead(ms[k])
    BY <1>7
  <2>5. Every(Decoding(g)) = EveryJson(ms)
    <3> HIDE DEF ms
    <3> QED
      BY <2>4, FieldsImage DEF g
  <2> QED
    BY <1>1, <1>4, <2>1, <2>3, <2>5 DEF SameRead
<1> QED
  BY <1>5, <1>6, <1>7, ObjectCases

LEMMA ScalarSame ==
  ASSUME Equations, NEW j, j.j \notin {"array", "object"}
  PROVE  SameRead(j)
<1> DEFINE as == [i \in DOMAIN j.items |-> CborOf(j.items[i])]
           ms == [k \in DOMAIN j.members |-> CborOf(j.members[k])]
           a == ArrayC(as)
           m == Listed(ms)
<1>1. CborOf(j) = CASE j.j = "null"   -> NullC
                    [] j.j = "bool"   -> BoolC(j.bool)
                    [] j.j = "int"    -> IntC(j.int)
                    [] j.j = "string" -> TextC(j.string)
                    [] j.j = "array"  -> a
                    [] j.j = "object" -> m
                    [] OTHER          -> OtherC
  BY Zenon DEF Equations, CborOfEquation, CborOfStep
<1> HIDE DEF a, m
<1>2. CborOf(j) = CASE j.j = "null"   -> NullC
                    [] j.j = "bool"   -> BoolC(j.bool)
                    [] j.j = "int"    -> IntC(j.int)
                    [] j.j = "string" -> TextC(j.string)
                    [] OTHER          -> OtherC
  BY <1>1
<1>3. /\ FromCbor(NullC) = {UnitV} /\ FromCbor(BoolC(j.bool)) = {BoolV(j.bool)}
      /\ FromCbor(IntC(j.int)) = {IntV(j.int)} /\ FromCbor(TextC(j.string)) = {StringV(j.string)}
      /\ FromCbor(OtherC) = {}
  BY DEF Equations, CodecEquations, FromCborStep, NullC, BoolC, IntC, TextC, OtherC
<1>4. FromJson(j) = CASE j.j = "null"   -> {UnitV}
                      [] j.j = "bool"   -> {BoolV(j.bool)}
                      [] j.j = "int"    -> {IntV(j.int)}
                      [] j.j = "string" -> {StringV(j.string)}
                      [] OTHER          -> {}
  BY DEF Equations, CodecEquations, FromJsonStep
<1> QED
  BY <1>2, <1>3, <1>4 DEF SameRead

LEMMA JsonDocuments ==
  ASSUME Equations, NEW d, ReliableJson(d)
  PROVE  SameRead(d) /\ \A v \in FromJson(d) : RoundTrips(v)
<1> DEFINE S == InsideJson(d)
           w == [x \in S |-> JsonWithin(x)]
           Fine(x) == SameRead(x) /\ \A u \in FromJson(x) : RoundTrips(u)
           G == {x \in S : Fine(x)}
<1>1. d \in S
  BY DEF Equations, WithinEquations, InsideJson
<1>2. \A x \in S : IsFiniteSet(w[x])
  BY DEF ReliableJson, InsideJson
<1>3. ASSUME NEW x \in S, \A y \in S : w[y] \subseteq w[x] /\ w[y] # w[x] => y \in G
      PROVE  Fine(x)
  <2>1. \A y \in S : SmallerJson(y, x) => Fine(y)
    BY <1>3 DEF SmallerJson
  <2> HIDE DEF G, w, Fine
  <2>2. ASSUME NEW y \in JsonParts(x)
        PROVE  y \in S /\ SmallerJson(y, x) /\ Fine(y)
    BY <2>1, JsonPart
  <2>3. ASSUME NEW y \in JsonParts(x), NEW z \in JsonParts(y)
        PROVE  Fine(z)
    <3>1. z \in S /\ SmallerJson(z, y) /\ SmallerJson(y, x)
      BY <2>2, JsonPart
    <3>2. SmallerJson(z, x)
      BY <3>1 DEF SmallerJson
    <3> QED
      BY <2>1, <3>1, <3>2
  <2>4. JsonShape(x) /\ WholeTag(x)
    BY DEF ReliableJson, InsideJson
  <2> USE DEF Fine
  <2>5. CASE x.j = "object"
    <3>1. SameRead(x)
      BY <2>2, <2>3, <2>4, <2>5, ObjectSame
    <3>2. ASSUME NEW u \in FromJson(x) PROVE RoundTrips(u)
      <4>1. u \in FromObject(x.members)
        BY <2>5, <3>2, ObjectRead
      <4> QED
        BY <2>2, <2>3, <2>4, <2>5, <4>1, ObjectValueTrips
    <3> QED
      BY <3>1, <3>2
  <2>6. CASE x.j = "array"
    <3>1. \A i \in DOMAIN x.items : x.items[i] \in JsonParts(x)
      BY <2>6 DEF JsonParts, Range
    <3>2. \A i \in DOMAIN x.items : Fine(x.items[i])
      BY <2>2, <3>1
    <3>3. FromJson(x) = {ListV(vs) : vs \in EveryJson(x.items)}
      BY <2>6 DEF Equations, CodecEquations, FromJsonStep
    <3>4. CborOf(x).c = "array" /\ EveryCbor(CborOf(x).items) = EveryJson(x.items)
      BY <2>6, <3>2, ArrayImage
    <3>5. FromCbor(CborOf(x)) = {ListV(vs) : vs \in EveryCbor(CborOf(x).items)}
      BY <3>4 DEF Equations, CodecEquations, FromCborStep
    <3>6. ASSUME NEW u \in FromJson(x) PROVE RoundTrips(u)
      <4>1. PICK vs \in EveryJson(x.items) : u = ListV(vs)
        BY <3>3
      <4>2. IsFunction(vs) /\ \A i \in DOMAIN vs : RoundTrips(vs[i])
        BY <3>2, ElementsFrom
      <4> QED
        BY <4>1, <4>2, ListTrips
    <3> QED
      BY <3>3, <3>4, <3>5, <3>6 DEF SameRead
  <2>7. CASE x.j \notin {"array", "object"}
    <3>1. ASSUME NEW u \in FromJson(x) PROVE RoundTrips(u)
      <4>1. u \in {UnitV, BoolV(x.bool), IntV(x.int), StringV(x.string)}
        BY <2>7, <3>1 DEF Equations, CodecEquations, FromJsonStep
      <4> QED
        BY <4>1, ScalarsTrip
    <3> QED
      BY <2>7, <3>1, ScalarSame
  <2> QED
    BY <2>5, <2>6, <2>7
<1>4. \A x \in S : (\A y \in S : w[y] \subseteq w[x] /\ w[y] # w[x] => y \in G) => x \in G
  BY <1>3
<1>5. S \subseteq G
  <2> HIDE DEF S, w, G
  <2> QED
    BY <1>2, <1>4, WithinInduction
<1> QED
  BY <1>1, <1>5

------------------------------------------------------------------------------
(***************************************************************************)
(* The inductive invariant.  Until the VM has accepted something the data  *)
(* is the input; from then on it is one round-tripping value or a form of  *)
(* it.                                                                     *)
(***************************************************************************)
Inputs == {<<"cbor", d>> : d \in CborInputs} \cup {<<"json", j>> : j \in JsonInputs}

Untouched == first = {} => at = "refused" \/ (at = origin[1] /\ data = origin[2])

HoldsForm(v) ==
  /\ first = {v} /\ RoundTrips(v)
  /\ \/ at = "vm" /\ data = v
     \/ at = "cbor" /\ data = ToCbor(v)
     \/ at = "json" /\ data = ToJson(v)

Kept == \A v \in first : HoldsForm(v)

FormInv == origin \in Inputs /\ (Reliable => Untouched /\ Kept)

LEMMA ReliableInput ==
  ASSUME origin \in Inputs, Reliable
  PROVE  \/ origin[1] = "cbor" /\ ReliableCbor(origin[2])
         \/ origin[1] = "json" /\ ReliableJson(origin[2])
<1>1. CASE origin[1] = "cbor"
  <2>1. origin[2] \in CborInputs
    BY <1>1 DEF Inputs
  <2> QED
    BY <1>1, <2>1, InputAssumption DEF Reliable, ReliableCbor
<1>2. CASE origin[1] = "json"
  <2>1. origin[2] \in JsonInputs
    BY <1>2 DEF Inputs
  <2> QED
    BY <1>2, <2>1, InputAssumption DEF Reliable, ReliableJson
<1> QED
  BY <1>1, <1>2 DEF Inputs

(* Bytes that are no CBOR are read as nothing; what is read, is decoded. *)
LEMMA DecodedCbor ==
  ASSUME Equations, at = "cbor"
  PROVE  /\ Decoded.ok <=> FromCbor(data) # {}
         /\ Decoded.ok => Decoded.val \in FromCbor(data)
<1>1. FromCbor(MalformedC) = {}
  BY DEF Equations, CodecEquations, FromCborStep, MalformedC
<1>2. Decoded = DecodeValue(data)
  BY DEF Decoded
<1>3. FromCbor(data) = {} => ~Decoded.ok
  BY <1>2 DEF DecodeValue, Err
<1>4. FromCbor(data) # {} => Decoded.ok /\ Decoded.val \in FromCbor(data)
  BY <1>1, <1>2 DEF DecodeValue, Ok
<1> QED
  BY <1>3, <1>4

LEMMA DecodedJson ==
  ASSUME at = "json"
  PROVE  /\ Decoded.ok <=> FromJson(data) # {}
         /\ Decoded.ok => Decoded.val \in FromJson(data)
<1>1. FromJson(data) = {} => ~Decoded.ok
  BY DEF Decoded, Err
<1>2. FromJson(data) # {} => Decoded.ok /\ Decoded.val \in FromJson(data)
  BY DEF Decoded, Ok
<1> QED
  BY <1>1, <1>2

(* A form of a value is decoded to it again. *)
LEMMA DecodedAgain ==
  ASSUME Equations, NEW v, HoldsForm(v), at \in {"cbor", "json"}
  PROVE  Decoded.ok /\ Decoded.val = v
<1>1. CASE at = "cbor"
  <2>1. FromCbor(data) = {v}
    BY <1>1 DEF HoldsForm, RoundTrips
  <2> QED
    BY <1>1, <2>1, DecodedCbor
<1>2. CASE at = "json"
  <2>1. FromJson(data) = {v}
    BY <1>2 DEF HoldsForm, RoundTrips
  <2> QED
    BY <1>2, <2>1, DecodedJson
<1> QED
  BY <1>1, <1>2

LEMMA DecodedFirst ==
  ASSUME Equations, origin \in Inputs, Reliable, Untouched, first = {},
         at \in {"cbor", "json"}, Decoded.ok
  PROVE  RoundTrips(Decoded.val)
<1>1. at = origin[1] /\ data = origin[2]
  BY DEF Untouched
<1>2. CASE at = "cbor"
  <2>1. ReliableCbor(data)
    BY <1>1, <1>2, ReliableInput
  <2> QED
    BY <1>2, <2>1, DecodedCbor, CborValuesTrip
<1>3. CASE at = "json"
  <2>1. ReliableJson(data)
    BY <1>1, <1>3, ReliableInput
  <2> QED
    BY <1>3, <2>1, DecodedJson, JsonDocuments
<1> QED
  BY <1>2, <1>3

LEMMA FormInductive ==
  ASSUME Equations, FormInv, [Next]_vars
  PROVE  FormInv'
<1>1. origin' = origin
  BY DEF Next, vars, Receive, Refuse, SendCbor, SendJson
<1>2. origin' \in Inputs /\ (Reliable' => Reliable)
  BY <1>1 DEF FormInv, Reliable
<1> SUFFICES ASSUME Reliable PROVE Untouched' /\ Kept'
  BY <1>2 DEF FormInv, Inputs
<1>3. origin \in Inputs /\ Untouched /\ Kept
  BY DEF FormInv
<1>4. CASE Receive
  <2>1. /\ at \in {"cbor", "json"} /\ Decoded.ok /\ at' = "vm" /\ data' = Decoded.val
        /\ first' = IF first = {} THEN {data'} ELSE first
    BY <1>4 DEF Receive
  <2>2. CASE first = {}
    <3>1. RoundTrips(data') /\ first' = {data'}
      BY <1>3, <2>1, <2>2, DecodedFirst
    <3> QED
      BY <2>1, <3>1 DEF Untouched, Kept, HoldsForm
  <2>3. CASE first # {}
    <3>1. PICK v \in first : HoldsForm(v)
      BY <1>3, <2>3 DEF Kept
    <3>2. data' = v /\ first' = {v} /\ RoundTrips(v)
      BY <2>1, <2>3, <3>1, DecodedAgain DEF HoldsForm
    <3> QED
      BY <2>1, <3>2 DEF Untouched, Kept, HoldsForm
  <2> QED
    BY <2>2, <2>3
<1>5. CASE Refuse
  <2>1. first = {}
    <3> SUFFICES ASSUME NEW v \in first PROVE FALSE
      OBVIOUS
    <3>1. HoldsForm(v) /\ at \in {"cbor", "json"}
      BY <1>3, <1>5 DEF Kept, Refuse
    <3>2. Decoded.ok
      BY <3>1, DecodedAgain
    <3> QED
      BY <1>5, <3>2 DEF Refuse
  <2> QED
    BY <1>5, <2>1 DEF Refuse, Untouched, Kept
<1>6. CASE SendCbor
  <2>1. at = "vm" /\ at' = "cbor" /\ data' = ToCbor(data) /\ first' = first
    BY <1>6 DEF SendCbor, EncodeValue, Ok
  <2>2. first # {}
    BY <1>3, <2>1 DEF Untouched, Inputs
  <2> QED
    BY <1>3, <2>1, <2>2 DEF Untouched, Kept, HoldsForm
<1>7. CASE SendJson
  <2>1. at = "vm" /\ at' = "json" /\ data' = ToJson(data) /\ first' = first
    BY <1>7 DEF SendJson
  <2>2. first # {}
    BY <1>3, <2>1 DEF Untouched, Inputs
  <2> QED
    BY <1>3, <2>1, <2>2 DEF Untouched, Kept, HoldsForm
<1>8. CASE UNCHANGED vars
  BY <1>3, <1>8 DEF vars, Untouched, Kept, HoldsForm
<1> QED
  BY <1>4, <1>5, <1>6, <1>7, <1>8 DEF Next

LEMMA FormAlways ==
  ASSUME Equations PROVE Spec => []FormInv
<1>1. Init => FormInv
  BY DEF Init, FormInv, Inputs, Untouched, Kept
<1>2. FormInv /\ [Next]_vars => FormInv'
  BY FormInductive
<1> QED
  BY <1>1, <1>2, PTL DEF Spec

(***************************************************************************)
(* What the VM accepted of a reliable document is never refused again and  *)
(* always decoded as the same value, through any number of round trips     *)
(* (cino-codec, vm_value_to_json, json_to_vm_value).                       *)
(***************************************************************************)
THEOREM AcceptedValuesSurvive == ASSUME Equations PROVE Spec => []ValueSurvives
<1>1. FormInv => ValueSurvives
  <2> SUFFICES ASSUME FormInv, Reliable, first # {}
               PROVE  at # "refused" /\ (at = "vm" => first = {data})
    BY DEF ValueSurvives
  <2>1. PICK v \in first : HoldsForm(v)
    BY DEF FormInv, Kept
  <2> QED
    BY <2>1 DEF HoldsForm
<1> QED
  BY <1>1, FormAlways, PTL

(***************************************************************************)
(* JSON is accepted exactly when its CBOR image is, and as the same value  *)
(* (json_to_vm_value beside vm_value_from_cbor).                           *)
(***************************************************************************)
THEOREM BothFormsMeanTheSame == ASSUME Equations PROVE Spec => []Parity
<1>1. FormInv => Parity
  <2> SUFFICES ASSUME FormInv, Reliable, at = "json"
               PROVE  FromJson(data) = FromCbor(CborOf(data))
    BY DEF Parity, SameMeaning
  <2>1. CASE first = {}
    <3>1. origin[1] = "json" /\ data = origin[2]
      BY <2>1 DEF FormInv, Untouched
    <3>2. ReliableJson(data)
      BY <3>1, ReliableInput DEF FormInv
    <3> QED
      BY <3>2, JsonDocuments DEF SameRead
  <2>2. CASE first # {}
    <3>1. PICK v \in first : HoldsForm(v)
      BY <2>2 DEF FormInv, Kept
    <3> QED
      BY <3>1 DEF HoldsForm, RoundTrips
  <2> QED
    BY <2>1, <2>2
<1> QED
  BY <1>1, FormAlways, PTL

=============================================================================
