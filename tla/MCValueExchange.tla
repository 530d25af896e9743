--------------------------- MODULE MCValueExchange ---------------------------
(***************************************************************************)
(* Small documents for TLC: every map of up to two entries, with the keys  *)
(* that mean something to the codec, one that does not and one that is no  *)
(* text, over values of each kind; and such maps inside others.            *)
(***************************************************************************)
EXTENDS ValueExchange

TagKeys == {"$fields", "$tag", "$tuple", "a"}

MCMinInt == -8

Scalars   == {NullC, IntC(1), TextC("a"), OtherC}
Inner     == {ArrayC(<<IntC(1)>>), ArrayC(<<OtherC>>), MapC(<<>>),
              MapC(<<Entry(TextC("a"), IntC(1))>>),
              MapC(<<Entry(TextC("$tuple"), ArrayC(<<IntC(2)>>))>>)}
AnyEntry  == {Entry(k, v) : k \in {TextC(x) : x \in TagKeys} \cup {IntC(1)},
                            v \in Scalars \cup Inner}
Maps      == {MapC(es) : es \in {<<>>} \cup {<<e>> : e \in AnyEntry}
                                \cup {<<e, f>> : e, f \in AnyEntry}}
Enum(f)   == MapC(<<Entry(TextC("$tag"), TextC("a")), Entry(TextC("$fields"), f)>>)

(* An enum with a stray or repeated entry. *)
Triples   == {MapC(<<Entry(TextC("$tag"), TextC("a")),
                     Entry(TextC("$fields"), MapC(<<>>)), e>>) : e \in AnyEntry}

MCCborInputs ==
  {MalformedC, BoolC(TRUE)} \cup Scalars \cup Inner \cup Maps \cup Triples
    \cup {Enum(m) : m \in {MapC(<<e>>) : e \in AnyEntry}}
    \cup {ArrayC(<<m, IntC(1)>>) : m \in {MapC(<<e>>) : e \in AnyEntry}}
    \cup {Enum(MapC(<<Entry(TextC("b"), IntC(1)), Entry(TextC("aa"), NullC)>>))}

JScalars  == {NullJ, IntJ(1), BoolJ(TRUE), StringJ("a"), NumberJ}
JInner    == {ArrayJ(<<IntJ(1)>>), ArrayJ(<<NumberJ>>), ObjectJ([x \in {} |-> NullJ]),
              ObjectJ([x \in {"a"} |-> IntJ(1)]),
              ObjectJ([x \in {"$tuple"} |-> ArrayJ(<<IntJ(2)>>)]),
              ObjectJ([x \in {"$tag"} |-> StringJ("a")])}
JObjects  == UNION {{ObjectJ(f) : f \in [ks -> JScalars \cup JInner]} :
                      ks \in {s \in SUBSET TagKeys : Cardinality(s) <= 2}}
MCJsonInputs ==
  JScalars \cup JInner \cup JObjects
    \cup {ObjectJ([k \in {"$tag", "$fields", "a"} |->
                     CASE k = "$tag" -> StringJ("a")
                       [] k = "$fields" -> ObjectJ([x \in {} |-> NullJ])
                       [] k = "a" -> v]) : v \in JScalars \cup JInner}

------------------------------------------------------------------------------
(* What recurs, by its equations. *)
MCFromCbor(d) == LET Walk == INSTANCE ProgramWalk IN Walk!VmValueFromCbor(d)
MCToCbor(v)   == LET Walk == INSTANCE ProgramWalk IN Walk!CborFromVmValue(v)
MCFromJson(j) == LET Walk == INSTANCE ProgramWalk IN Walk!JsonToVmValue(j)
MCToJson(v)   == LET Walk == INSTANCE ProgramWalk IN Walk!VmValueToJson(v)

RECURSIVE MCCborWithin(_), MCJsonWithin(_), MCCborOf(_)
MCCborWithin(d) == {d} \cup UNION {MCCborWithin(x) : x \in CborParts(d)}
MCJsonWithin(j) == {j} \cup UNION {MCJsonWithin(x) : x \in JsonParts(j)}
MCCborOf(j)     == LET image == CborOfStep(j) IN image

=============================================================================
