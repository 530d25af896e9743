---------------------------- MODULE SessionProofs ----------------------------
(***************************************************************************)
(* Whatever the program, and whoever made its IR: what the VM loads has    *)
(* been validated, so that every name in it resolves, and is what was      *)
(* declared.                                                               *)
(*                                                                         *)
(* The validator walks a program with environments of types; NameResolution*)
(* describes that walk by the names that are known at each visit.  The     *)
(* proof goes along the walk: the environment that validate_pattern hands  *)
(* to an arm knows exactly the names that the pattern binds, so a walk     *)
(* that reports nothing has reported nothing at any of its visits.         *)
(*                                                                         *)
(* And a program that the checker passes is refused by nobody after it:    *)
(* along a source tree, the type that the checker infers is the type the   *)
(* lowering gives the IR, and of that the validator reports nothing.       *)
(***************************************************************************)
EXTENDS Session, FiniteSetTheorems, SequenceTheorems,
        WellFoundedInduction, TLAPS

(* What an implementation of the walks is. *)
WalkEquations ==
  /\ \A q : Binds(q) = BindsStep(q)
  /\ \A q : SubPatterns(q) = SubPatternsStep(q)
  /\ \A n, S : Visits(n, S) = VisitsStep(n, S)
  /\ \A n : IrWithin(n) = IrWithinStep(n)

(* And of the validator and of the loop of the lowering. *)
PassEquations ==
  /\ \A q, t, acc :
       IsIrPattern(q) => ValidatePattern(q, t, acc) = ValidatePatternStep(q, t, acc)
  /\ \A fs, acc : IsSeq(fs) => ValidateFields(fs, acc) = ValidateFieldsStep(fs, acc)
  /\ \A sigs, e, n :
       IsIrExpr(n) => ValidateExpr(sigs, e, n) = ValidateExprStep(sigs, e, n)
  /\ \A c, fds : IsSeq(fds) => LowerEach(c, fds) = LowerEachStep(c, fds)

------------------------------------------------------------------------------
(***************************************************************************)
(* Induction over finite sets w[x] that grow with x.                       *)
(***************************************************************************)
LEMMA WithinInduction ==
  ASSUME NEW S, NEW w, \A x \in S : IsFiniteSet(w[x]), NEW G,
         \A x \in S :
           (\A y \in S : w[y] \subseteq w[x] /\ w[y] # w[x] => y \in G) => x \in G
  PROVE  S \subseteq G
<1> SUFFICES ASSUME S \ G # {} PROVE FALSE
  OBVIOUS
<1> DEFINE T == {w[x] : x \in S \ G}
           U == UNION T
<1>1. IsWellFoundedOn(StrictSubsetOrdering(U), FiniteSubsetsOf(U))
  BY FS_StrictSubsetOrderingWellFounded
<1>2. T \subseteq FiniteSubsetsOf(U) /\ T # {}
  BY DEF FiniteSubsetsOf
<1>3. PICK m \in T : \A n \in T : <<n, m>> \notin StrictSubsetOrdering(U)
  <2> HIDE DEF T, U
  <2> QED
    BY <1>1, <1>2, WFMin
<1>4. PICK x \in S \ G : w[x] = m
  BY <1>3
<1>5. ASSUME NEW y \in S, w[y] \subseteq w[x] /\ w[y] # w[x] PROVE y \in G
  <2> SUFFICES ASSUME y \notin G PROVE FALSE
    OBVIOUS
  <2>1. w[y] \in T /\ w[y] \subseteq U /\ w[x] \subseteq U
    OBVIOUS
  <2>2. <<w[y], w[x]>> \in StrictSubsetOrdering(U)
    BY <1>5, <2>1 DEF StrictSubsetOrdering
  <2> QED
    BY <1>3, <1>4, <2>1, <2>2
<1> QED
  BY <1>4, <1>5

(* Induction over the length of sequences, as the set 1 .. n. *)
LEMMA LengthInduction ==
  ASSUME NEW G, 0 \in G, \A n \in Nat : n \in G => n + 1 \in G
  PROVE  Nat \subseteq G
<1> DEFINE w == [n \in Nat |-> 1 .. n]
<1>1. \A n \in Nat : IsFiniteSet(w[n])
  BY FS_Interval
<1>2. ASSUME NEW n \in Nat, \A m \in Nat : w[m] \subseteq w[n] /\ w[m] # w[n] => m \in G
      PROVE  n \in G
  <2>1. CASE n = 0
    BY <2>1
  <2>2. CASE n # 0
    <3>1. n - 1 \in Nat /\ n = (n - 1) + 1
      BY <2>2
    <3>2. w[n - 1] = 1 .. n - 1 /\ w[n] = 1 .. n
      BY <3>1
    <3>3. n \in w[n] /\ n \notin w[n - 1] /\ w[n - 1] \subseteq w[n]
      BY <2>2, <3>1, <3>2
    <3>4. n - 1 \in G
      BY <1>2, <3>1, <3>3
    <3> QED
      BY <3>1, <3>4
  <2> QED
    BY <2>1, <2>2
<1> HIDE DEF w
<1> QED
  BY <1>1, <1>2, WithinInduction

------------------------------------------------------------------------------
(***************************************************************************)
(* Sequences and the maps that are filled from them.                       *)
(***************************************************************************)
LEMMA Domain == ASSUME NEW s, IsSeq(s) PROVE Len(s) \in Nat /\ DOMAIN s = 1 .. Len(s)
BY LenProperties DEF IsSeq

LEMMA Shortened ==
  ASSUME NEW s, IsSeq(s), s # <<>>
  PROVE  /\ IsSeq(Tail(s)) /\ Len(Tail(s)) = Len(s) - 1
         /\ Len(s) \in Nat \ {0}
         /\ 1 \in DOMAIN s /\ Head(s) = s[1]
         /\ \A i \in DOMAIN Tail(s) : i + 1 \in DOMAIN s /\ Tail(s)[i] = s[i + 1]
         /\ \A i \in DOMAIN s : i # 1 => i - 1 \in DOMAIN Tail(s) /\ s[i] = Tail(s)[i - 1]
<1> DEFINE t == Tail(s)
<1>1. s \in Seq(Range(s)) /\ Len(s) \in Nat \ {0} /\ DOMAIN s = 1 .. Len(s)
  BY EmptySeq, LenProperties DEF IsSeq
<1>2. /\ t \in Seq(Range(s))
      /\ Len(t) = Len(s) - 1
      /\ \A i \in 1 .. Len(t) : t[i] = s[i + 1]
  BY <1>1, HeadTailProperties
<1>3. DOMAIN t = 1 .. Len(t)
  BY <1>2, LenProperties
<1>4. Head(s) = s[1] /\ 1 \in DOMAIN s
  BY <1>1
<1> HIDE DEF t
<1>5. IsSeq(t)
  <2>1. \A i \in 1 .. Len(t) : t[i] \in Range(t)
    BY <1>3 DEF Range
  <2>2. t \in Seq(Range(t))
    BY <1>2, <1>3, <2>1
  <2> QED
    BY <2>2 DEF IsSeq
<1>6. \A i \in DOMAIN t : i + 1 \in DOMAIN s /\ t[i] = s[i + 1]
  BY <1>1, <1>2, <1>3
<1>7. \A i \in DOMAIN s : i # 1 => i - 1 \in DOMAIN t /\ s[i] = t[i - 1]
  BY <1>1, <1>2, <1>3
<1> QED
  BY <1>1, <1>2, <1>4, <1>5, <1>6, <1>7 DEF t

(* The greatest of some places of a sequence is one of them. *)
LEMMA GreatestPlace ==
  ASSUME NEW n \in Nat, NEW S, S \subseteq 1 .. n, S # {}
  PROVE  Max(S) \in S
<1> DEFINE G == {k \in Nat : (\E m \in S : m + k >= n) => \E x \in S : \A y \in S : x >= y}
<1>1. 0 \in G
  BY SMT
<1>2. \A k \in Nat : k \in G => k + 1 \in G
  <2> SUFFICES ASSUME NEW k \in Nat, k \in G, NEW m \in S, m + (k + 1) >= n
               PROVE  \E x \in S : \A y \in S : x >= y
    OBVIOUS
  <2>1. CASE \E y \in S : y + k >= n
    BY <2>1
  <2>2. CASE ~ \E y \in S : y + k >= n
    BY <2>2, SMT
  <2> QED
    BY <2>1, <2>2
<1>3. Nat \subseteq G
  <2> HIDE DEF G
  <2> QED
    BY <1>1, <1>2, LengthInduction
<1>4. \E x \in S : \A y \in S : x >= y
  <2>1. n \in G
    BY <1>3
  <2>2. \E m \in S : m + n >= n
    <3>1. PICK m \in S : TRUE
      OBVIOUS
    <3>2. m \in Nat
      BY <3>1
    <3> QED
      BY <3>2
  <2> QED
    BY <2>1, <2>2
<1> QED
  BY <1>4 DEF Max

(* What is found in a filled map has been inserted. *)
LEMMA InsertedValues ==
  ASSUME NEW names, NEW vals, NEW n \in Nat, DOMAIN names = 1 .. n
  PROVE  /\ DOMAIN InsertAll(names, vals) = Range(names)
         /\ \A x \in Range(names) :
              \E i \in DOMAIN names : names[i] = x /\ InsertAll(names, vals)[x] = vals[i]
<1>1. ASSUME NEW x \in Range(names)
      PROVE  \E i \in DOMAIN names : names[i] = x /\ InsertAll(names, vals)[x] = vals[i]
  <2> DEFINE S == {i \in DOMAIN names : names[i] = x}
  <2>1. S \subseteq 1 .. n /\ S # {}
    BY DEF Range
  <2>2. Max(S) \in S
    <3> HIDE DEF S
    <3> QED
      BY <2>1, GreatestPlace
  <2>3. InsertAll(names, vals)[x] = vals[Max(S)]
    BY DEF InsertAll
  <2> QED
    BY <2>2, <2>3
<1> QED
  BY <1>1 DEF InsertAll

------------------------------------------------------------------------------
(***************************************************************************)
(* Patterns.  What is below a pattern is a pattern, nearer to the leaves.  *)
(***************************************************************************)
LEMMA PatternsBelow ==
  ASSUME WalkEquations, NEW q
  PROVE  /\ q \in SubPatterns(q)
         /\ \A k \in PatternParts(q) : SubPatterns(k) \subseteq SubPatterns(q)
         /\ IsIrPattern(q) =>
              \A k \in PatternParts(q) : IsIrPattern(k) /\ SubPatterns(k) # SubPatterns(q)
<1>1. SubPatterns(q) = {q} \cup UNION {SubPatterns(r) : r \in PatternParts(q)}
  <2>1. SubPatterns(q) = SubPatternsStep(q)
    BY DEF WalkEquations
  <2> QED
    BY <2>1 DEF SubPatternsStep
<1>2. q \in SubPatterns(q) /\ \A k \in PatternParts(q) : SubPatterns(k) \subseteq SubPatterns(q)
  BY <1>1
<1>3. ASSUME IsIrPattern(q), NEW k \in PatternParts(q)
      PROVE  IsIrPattern(k) /\ SubPatterns(k) # SubPatterns(q)
  <2>1. q \notin SubPatterns(k)
    BY <1>2, <1>3 DEF IsIrPattern
  <2>2. IsIrPattern(k)
    BY <1>2, <1>3 DEF IsIrPattern
  <2> QED
    BY <1>2, <2>1, <2>2
<1> QED
  BY <1>2, <1>3

LEMMA PatternInduction ==
  ASSUME WalkEquations, NEW q, IsIrPattern(q), NEW G,
         \A x \in SubPatterns(q) : IsIrPattern(x) /\ PatternParts(x) \subseteq G => x \in G
  PROVE  q \in G
<1> DEFINE S == {x \in SubPatterns(q) : SubPatterns(x) \subseteq SubPatterns(q)}
           w == [x \in S |-> SubPatterns(x)]
<1>1. \A x \in S : IsIrPattern(x) /\ IsFiniteSet(w[x])
  <2> TAKE x \in S
  <2>1. IsIrPattern(x)
    BY DEF IsIrPattern
  <2>2. IsFiniteSet(SubPatterns(x))
    BY DEF IsIrPattern
  <2> QED
    BY <2>1, <2>2
<1>2. ASSUME NEW x \in S, \A y \in S : w[y] \subseteq w[x] /\ w[y] # w[x] => y \in G
      PROVE  x \in G
  <2>1. ASSUME NEW k \in PatternParts(x) PROVE k \in G
    <3>1. /\ k \in SubPatterns(k) /\ SubPatterns(k) \subseteq SubPatterns(x)
          /\ SubPatterns(k) # SubPatterns(x)
      BY <1>1, <2>1, PatternsBelow
    <3>2. k \in S /\ x \in S
      BY <3>1
    <3>3. w[k] = SubPatterns(k) /\ w[x] = SubPatterns(x)
      BY <3>2
    <3> QED
      BY <1>2, <3>1, <3>2, <3>3
  <2> QED
    BY <1>1, <2>1
<1>3. q \in S
  BY PatternsBelow
<1>4. \A x \in S : IsFiniteSet(w[x])
  BY <1>1
<1> HIDE DEF S, w
<1>5. S \subseteq G
  BY <1>2, <1>4, WithinInduction
<1> QED
  BY <1>3, <1>5

(* All of what is below a pattern is within it. *)
LEMMA PatternsWithin ==
  ASSUME WalkEquations, NEW q, IsIrPattern(q), NEW r \in SubPatterns(q)
  PROVE  SubPatterns(r) \subseteq SubPatterns(q)
<1> DEFINE G == {x \in SubPatterns(q) : \A y \in SubPatterns(x) : SubPatterns(y) \subseteq SubPatterns(x)}
<1>1. ASSUME NEW x \in SubPatterns(q), PatternParts(x) \subseteq G PROVE x \in G
  <2>1. SubPatterns(x) = {x} \cup UNION {SubPatterns(k) : k \in PatternParts(x)}
    <3>1. SubPatterns(x) = SubPatternsStep(x)
      BY DEF WalkEquations
    <3> QED
      BY <3>1 DEF SubPatternsStep
  <2>2. ASSUME NEW y \in SubPatterns(x) PROVE SubPatterns(y) \subseteq SubPatterns(x)
    <3>1. CASE y = x
      BY <3>1
    <3>2. CASE y # x
      <4>1. PICK k \in PatternParts(x) : y \in SubPatterns(k)
        BY <2>1, <3>2
      <4>2. SubPatterns(y) \subseteq SubPatterns(k)
        BY <1>1, <4>1
      <4>3. SubPatterns(k) \subseteq SubPatterns(x)
        BY <2>1, <4>1
      <4> QED
        BY <4>2, <4>3
    <3> QED
      BY <3>1, <3>2
  <2> QED
    BY <2>2
<1>2. q \in G
  <2> HIDE DEF G
  <2> QED
    BY <1>1, PatternInduction
<1> QED
  BY <1>2

(***************************************************************************)
(* validate_pattern adds to the environment what the pattern binds.        *)
(***************************************************************************)
Extends(r, acc, names) == DOMAIN r.env = DOMAIN acc.env \cup names

BindsItsNames(q) == \A t, acc : Extends(ValidatePattern(q, t, acc), acc, Binds(q))

LEMMA FieldNamesBound ==
  ASSUME PassEquations, NEW fs, IsSeq(fs), \A i \in DOMAIN fs : BindsItsNames(fs[i].pat), NEW acc
  PROVE  Extends(ValidateFields(fs, acc), acc, UNION {Binds(fs[i].pat) : i \in DOMAIN fs})
<1> DEFINE names(s) == UNION {Binds(s[i].pat) : i \in DOMAIN s}
           Good(s) == IsSeq(s) /\ \A i \in DOMAIN s : BindsItsNames(s[i].pat)
           G == {n \in Nat : \A s, a : Good(s) /\ Len(s) = n =>
                                         Extends(ValidateFields(s, a), a, names(s))}
<1>1. \A s, a : Good(s) => ValidateFields(s, a) = ValidateFieldsStep(s, a)
  BY DEF PassEquations
<1>2. 0 \in G
  <2> SUFFICES ASSUME NEW s, NEW a, Good(s), Len(s) = 0
               PROVE  Extends(ValidateFields(s, a), a, names(s))
    OBVIOUS
  <2>1. s = <<>> /\ DOMAIN s = {}
    <3>1. DOMAIN s = 1 .. Len(s) /\ s \in Seq(Range(s))
      BY Domain DEF IsSeq
    <3> QED
      BY <3>1, EmptySeq
  <2>2. ValidateFields(s, a) = a
    BY <1>1, <2>1 DEF ValidateFieldsStep
  <2> QED
    BY <2>1, <2>2 DEF Extends
<1>3. ASSUME NEW n \in Nat, n \in G PROVE n + 1 \in G
  <2> SUFFICES ASSUME NEW s, NEW a, Good(s), Len(s) = n + 1
               PROVE  Extends(ValidateFields(s, a), a, names(s))
    OBVIOUS
  <2> DEFINE b == ValidatePattern(Head(s).pat, Head(s).pat.ty, a)
  <2>1. s # <<>>
    <3>1. Len(s) # 0
      OBVIOUS
    <3> QED
      BY <3>1, EmptySeq
  <2>2. /\ IsSeq(Tail(s)) /\ Len(Tail(s)) = n
        /\ 1 \in DOMAIN s /\ Head(s) = s[1]
        /\ \A i \in DOMAIN Tail(s) : i + 1 \in DOMAIN s /\ Tail(s)[i] = s[i + 1]
        /\ \A i \in DOMAIN s : i # 1 => i - 1 \in DOMAIN Tail(s) /\ s[i] = Tail(s)[i - 1]
    <3>1. Len(s) - 1 = n
      OBVIOUS
    <3> QED
      BY <2>1, <3>1, Shortened
  <2>3. ValidateFields(s, a) = ValidateFields(Tail(s), b)
    BY <1>1, <2>1 DEF ValidateFieldsStep
  <2>4. Good(Tail(s))
    BY <2>2
  <2>5. Extends(ValidateFields(Tail(s), b), b, names(Tail(s)))
    BY <1>3, <2>2, <2>4
  <2>6. Extends(b, a, Binds(s[1].pat))
    BY <2>2 DEF BindsItsNames
  <2>7. names(s) = Binds(s[1].pat) \cup names(Tail(s))
    <3>1. \A x \in names(s) : x \in Binds(s[1].pat) \cup names(Tail(s))
      BY <2>2
    <3>2. \A x \in names(Tail(s)) : x \in names(s)
      BY <2>2
    <3> QED
      BY <2>2, <3>1, <3>2
  <2> QED
    BY <2>3, <2>5, <2>6, <2>7 DEF Extends
<1>4. Len(fs) \in G
  <2> HIDE DEF G
  <2> QED
    BY <1>2, <1>3, LengthInduction, Domain
<1> QED
  BY <1>4

(* What a pattern binds, and what its fields bind. *)
LEMMA BindsRules ==
  ASSUME WalkEquations, NEW q
  PROVE  /\ q.kind = "Wildcard" => Binds(q) = {}
         /\ q.kind = "Binding"  => Binds(q) = {q.name}
         /\ q.kind = "Variant"  => Binds(q) = UNION {Binds(q.fields[i].pat) : i \in DOMAIN q.fields}
<1>1. Binds(q) = BindsStep(q)
  BY DEF WalkEquations
<1> QED
  BY <1>1 DEF BindsStep

LEMMA PatternNamesBound ==
  ASSUME WalkEquations, PassEquations, NEW q, IsIrPattern(q)
  PROVE  BindsItsNames(q)
<1> DEFINE G == {x \in SubPatterns(q) : BindsItsNames(x)}
<1>1. ASSUME NEW x \in SubPatterns(q), IsIrPattern(x), PatternParts(x) \subseteq G
      PROVE  x \in G
  <2> SUFFICES ASSUME NEW t, NEW acc PROVE Extends(ValidatePattern(x, t, acc), acc, Binds(x))
    BY DEF BindsItsNames
  <2> DEFINE here == [env |-> acc.env,
                      bad |-> acc.bad \cup Diag(~Compatible(x.ty, t), "E-IR-VAL-013")]
  <2>1. ValidatePattern(x, t, acc) = ValidatePatternStep(x, t, acc)
    BY <1>1 DEF PassEquations
  <2>2. /\ x.kind \in {"Wildcard", "Binding", "Variant"}
        /\ x.kind = "Variant" => IsSeq(x.fields)
    BY <1>1, PatternsBelow DEF IsIrPattern
  <2>3. here.env = acc.env
    OBVIOUS
  <2>4. CASE x.kind = "Wildcard"
    <3>1. ValidatePattern(x, t, acc) = here
      BY <2>1, <2>4 DEF ValidatePatternStep
    <3>2. Binds(x) = {}
      BY <2>4, BindsRules
    <3> QED
      BY <2>3, <3>1, <3>2 DEF Extends
  <2>5. CASE x.kind = "Binding"
    <3>1. ValidatePattern(x, t, acc) = [env |-> Bind(here.env, x.name, x.ty), bad |-> here.bad]
      BY <2>1, <2>5 DEF ValidatePatternStep
    <3>2. Binds(x) = {x.name}
      BY <2>5, BindsRules
    <3> QED
      BY <2>3, <3>1, <3>2 DEF Extends, Bind
  <2>6. CASE x.kind = "Variant"
    <3>1. ValidatePattern(x, t, acc) = ValidateFields(x.fields, here)
      BY <2>1, <2>6 DEF ValidatePatternStep
    <3>2. Binds(x) = UNION {Binds(x.fields[i].pat) : i \in DOMAIN x.fields}
      BY <2>6, BindsRules
    <3>3. \A i \in DOMAIN x.fields : BindsItsNames(x.fields[i].pat)
      BY <1>1, <2>6 DEF PatternParts
    <3>4. Extends(ValidateFields(x.fields, here), here, Binds(x))
      <4> HIDE DEF here
      <4> QED
        BY <2>2, <2>6, <3>2, <3>3, FieldNamesBound
    <3> QED
      BY <2>3, <3>1, <3>4 DEF Extends
  <2> QED
    BY <2>2, <2>4, <2>5, <2>6
<1>2. q \in G
  <2> HIDE DEF G
  <2> QED
    BY <1>1, PatternInduction
<1> QED
  BY <1>2

------------------------------------------------------------------------------
(***************************************************************************)
(* Expressions, in the same way.                                           *)
(***************************************************************************)
LEMMA ExprsBelow ==
  ASSUME WalkEquations, NEW n
  PROVE  /\ n \in IrWithin(n)
         /\ \A k \in IrParts(n) : IrWithin(k) \subseteq IrWithin(n)
         /\ IsIrExpr(n) => /\ IrShape(n)
                           /\ n.kind = "Match" => \A i \in DOMAIN n.arms : IsIrPattern(n.arms[i].pat)
                           /\ \A k \in IrParts(n) : IsIrExpr(k) /\ IrWithin(k) # IrWithin(n)
<1>1. IrWithin(n) = {n} \cup UNION {IrWithin(m) : m \in IrParts(n)}
  <2>1. IrWithin(n) = IrWithinStep(n)
    BY DEF WalkEquations
  <2> QED
    BY <2>1 DEF IrWithinStep
<1>2. n \in IrWithin(n) /\ \A k \in IrParts(n) : IrWithin(k) \subseteq IrWithin(n)
  BY <1>1
<1>3. ASSUME IsIrExpr(n), NEW k \in IrParts(n)
      PROVE  IsIrExpr(k) /\ IrWithin(k) # IrWithin(n)
  <2>1. n \notin IrWithin(k)
    BY <1>2, <1>3 DEF IsIrExpr
  <2>2. IsIrExpr(k)
    BY <1>2, <1>3 DEF IsIrExpr
  <2> QED
    BY <1>2, <2>1, <2>2
<1>4. ASSUME IsIrExpr(n)
      PROVE  /\ IrShape(n)
             /\ n.kind = "Match" => \A i \in DOMAIN n.arms : IsIrPattern(n.arms[i].pat)
  BY <1>2, <1>4 DEF IsIrExpr
<1> QED
  BY <1>2, <1>3, <1>4

LEMMA ExprInduction ==
  ASSUME WalkEquations, NEW n, IsIrExpr(n), NEW G,
         \A x \in IrWithin(n) : IsIrExpr(x) /\ IrParts(x) \subseteq G => x \in G
  PROVE  n \in G
<1> DEFINE S == {x \in IrWithin(n) : IrWithin(x) \subseteq IrWithin(n)}
           w == [x \in S |-> IrWithin(x)]
<1>1. \A x \in S : IsIrExpr(x) /\ IsFiniteSet(w[x])
  <2> TAKE x \in S
  <2>1. IsIrExpr(x)
    BY DEF IsIrExpr
  <2>2. IsFiniteSet(IrWithin(x))
    BY DEF IsIrExpr
  <2> QED
    BY <2>1, <2>2
<1>2. ASSUME NEW x \in S, \A y \in S : w[y] \subseteq w[x] /\ w[y] # w[x] => y \in G
      PROVE  x \in G
  <2>1. ASSUME NEW k \in IrParts(x) PROVE k \in G
    <3>1. k \in IrWithin(k) /\ IrWithin(k) \subseteq IrWithin(x) /\ IrWithin(k) # IrWithin(x)
      BY <1>1, <2>1, ExprsBelow
    <3>2. k \in S /\ x \in S
      BY <3>1
    <3>3. w[k] = IrWithin(k) /\ w[x] = IrWithin(x)
      BY <3>2
    <3> QED
      BY <1>2, <3>1, <3>2, <3>3
  <2> QED
    BY <1>1, <2>1
<1>3. n \in S
  BY ExprsBelow
<1>4. \A x \in S : IsFiniteSet(w[x])
  BY <1>1
<1> HIDE DEF S, w
<1>5. S \subseteq G
  BY <1>2, <1>4, WithinInduction
<1> QED
  BY <1>3, <1>5

(* An expression is of one kind. *)
LEMMA OneKind ==
  ASSUME NEW n
  PROVE  /\ IsLeaf(n)  => ~HasKids(n) /\ n.kind # "Let" /\ n.kind # "Match"
         /\ HasKids(n) => ~IsLeaf(n) /\ n.kind # "Let" /\ n.kind # "Match"
         /\ n.kind \in {"Let", "Match"} => ~IsLeaf(n) /\ ~HasKids(n)
BY DEF IsLeaf, HasKids

(* The visits of a walk, by the kind of the expression. *)
LEMMA VisitsRules ==
  ASSUME WalkEquations, NEW n, NEW S
  PROVE  /\ <<n, S>> \in Visits(n, S)
         /\ IsLeaf(n) => Visits(n, S) = {<<n, S>>}
         /\ HasKids(n) =>
              Visits(n, S) = {<<n, S>>} \cup UNION {Visits(n.kids[i], S) : i \in DOMAIN n.kids}
         /\ n.kind = "Let" =>
              Visits(n, S) = {<<n, S>>} \cup Visits(n.value, S) \cup Visits(n.body, S \cup {n.name})
         /\ n.kind = "Match" =>
              Visits(n, S) = {<<n, S>>} \cup Visits(n.subject, S) \cup
                UNION {Visits(n.arms[i].body, S \cup Binds(n.arms[i].pat)) : i \in DOMAIN n.arms}
<1>1. Visits(n, S) = VisitsStep(n, S)
  BY DEF WalkEquations
<1>2. <<n, S>> \in Visits(n, S)
  BY <1>1 DEF VisitsStep
<1>3. ASSUME IsLeaf(n) PROVE Visits(n, S) = {<<n, S>>}
  <2>1. ~HasKids(n) /\ n.kind # "Let" /\ n.kind # "Match"
    BY <1>3, OneKind
  <2> QED
    BY <1>1, <1>3, <2>1 DEF VisitsStep
<1>4. ASSUME HasKids(n)
      PROVE  Visits(n, S) = {<<n, S>>} \cup UNION {Visits(n.kids[i], S) : i \in DOMAIN n.kids}
  <2>1. ~IsLeaf(n) /\ n.kind # "Let" /\ n.kind # "Match"
    BY <1>4, OneKind
  <2> QED
    BY <1>1, <1>4, <2>1 DEF VisitsStep
<1>5. ASSUME n.kind = "Let"
      PROVE  Visits(n, S) = {<<n, S>>} \cup Visits(n.value, S) \cup Visits(n.body, S \cup {n.name})
  <2>1. ~IsLeaf(n) /\ ~HasKids(n)
    BY <1>5, OneKind
  <2> QED
    BY <1>1, <1>5, <2>1 DEF VisitsStep
<1>6. ASSUME n.kind = "Match"
      PROVE  Visits(n, S) = {<<n, S>>} \cup Visits(n.subject, S) \cup
               UNION {Visits(n.arms[i].body, S \cup Binds(n.arms[i].pat)) : i \in DOMAIN n.arms}
  <2>1. ~IsLeaf(n) /\ ~HasKids(n)
    BY <1>6, OneKind
  <2> QED
    BY <1>1, <1>6, <2>1 DEF VisitsStep
<1> QED
  BY <1>2, <1>3, <1>4, <1>5, <1>6

(* The parts of an expression, by its kind. *)
LEMMA PartsRules ==
  ASSUME NEW n
  PROVE  /\ HasKids(n) => \A i \in DOMAIN n.kids : n.kids[i] \in IrParts(n)
         /\ n.kind = "Let" => n.value \in IrParts(n) /\ n.body \in IrParts(n)
         /\ n.kind = "Match" => /\ n.subject \in IrParts(n)
                                /\ \A i \in DOMAIN n.arms : n.arms[i].body \in IrParts(n)
<1>1. ASSUME HasKids(n) PROVE \A i \in DOMAIN n.kids : n.kids[i] \in IrParts(n)
  <2>1. ~IsLeaf(n) /\ n.kind # "Let" /\ n.kind # "Match"
    BY <1>1, OneKind
  <2> QED
    BY <1>1, <2>1 DEF IrParts
<1>2. ASSUME n.kind \in {"Let", "Match"} PROVE ~IsLeaf(n) /\ ~HasKids(n)
  BY <1>2, OneKind
<1>3. ASSUME n.kind = "Let" PROVE n.value \in IrParts(n) /\ n.body \in IrParts(n)
  BY <1>2, <1>3 DEF IrParts
<1>4. ASSUME n.kind = "Match"
      PROVE  n.subject \in IrParts(n) /\ \A i \in DOMAIN n.arms : n.arms[i].body \in IrParts(n)
  BY <1>2, <1>4 DEF IrParts
<1> QED
  BY <1>1, <1>3, <1>4

(***************************************************************************)
(* What it takes for validate_expr to report nothing.                      *)
(***************************************************************************)
ArmEnv(e, n, i) == ValidatePattern(n.arms[i].pat, n.subject.ty, [env |-> e, bad |-> {}]).env

LEMMA ReportsNothing ==
  ASSUME PassEquations, NEW sigs, NEW e, NEW n, IsIrExpr(n), ValidateExpr(sigs, e, n) = {}
  PROVE  /\ n.kind = "LocalRef" => n.name \in DOMAIN e
         /\ HasKids(n) => \A i \in DOMAIN n.kids : ValidateExpr(sigs, e, n.kids[i]) = {}
         /\ n.kind = "Call" => /\ n.callee \in DOMAIN sigs
                               /\ Len(n.kids) = Len(sigs[n.callee].types)
         /\ n.kind = "Let" =>
              /\ ValidateExpr(sigs, e, n.value) = {}
              /\ ValidateExpr(sigs, Bind(e, n.name, n.value.ty), n.body) = {}
         /\ n.kind = "Match" =>
              /\ ValidateExpr(sigs, e, n.subject) = {}
              /\ \A i \in DOMAIN n.arms : ValidateExpr(sigs, ArmEnv(e, n, i), n.arms[i].body) = {}
<1>1. ValidateExprStep(sigs, e, n) = {}
  BY DEF PassEquations
<1> DEFINE kids == UNION {ValidateExpr(sigs, e, n.kids[i]) : i \in DOMAIN n.kids}
<1>2. ASSUME n.kind = "LocalRef" PROVE n.name \in DOMAIN e
  BY <1>1, <1>2 DEF ValidateExprStep, ValidateRef
<1>3. ASSUME n.kind = "Call" PROVE kids = {} /\ ValidateCall(sigs, n) = {}
  BY <1>1, <1>3 DEF ValidateExprStep
<1>4. ASSUME HasKids(n) PROVE kids = {}
  <2>1. CASE n.kind = "Tuple"
    BY <1>1, <2>1 DEF ValidateExprStep
  <2>2. CASE n.kind = "List"
    BY <1>1, <2>2 DEF ValidateExprStep
  <2>3. CASE n.kind = "Record"
    BY <1>1, <2>3 DEF ValidateExprStep
  <2>4. CASE n.kind = "Binary"
    BY <1>1, <2>4 DEF ValidateExprStep
  <2> QED
    BY <1>3, <1>4, <2>1, <2>2, <2>3, <2>4 DEF HasKids
<1>5. ASSUME n.kind = "Call"
      PROVE  n.callee \in DOMAIN sigs /\ Len(n.kids) = Len(sigs[n.callee].types)
  BY <1>3, <1>5 DEF ValidateCall, Diag
<1>6. ASSUME n.kind = "Let"
      PROVE  /\ ValidateExpr(sigs, e, n.value) = {}
             /\ ValidateExpr(sigs, Bind(e, n.name, n.value.ty), n.body) = {}
  BY <1>1, <1>6 DEF ValidateExprStep
<1>7. ASSUME n.kind = "Match"
      PROVE  /\ ValidateExpr(sigs, e, n.subject) = {}
             /\ \A i \in DOMAIN n.arms : ValidateArm(sigs, e, n, n.arms[i]) = {}
  BY <1>1, <1>7 DEF ValidateExprStep
<1>8. ASSUME NEW i \in DOMAIN n.arms, ValidateArm(sigs, e, n, n.arms[i]) = {}
      PROVE  ValidateExpr(sigs, ArmEnv(e, n, i), n.arms[i].body) = {}
  BY <1>8 DEF ValidateArm, ArmEnv
<1> QED
  BY <1>2, <1>4, <1>5, <1>6, <1>7, <1>8

------------------------------------------------------------------------------
(***************************************************************************)
(* A walk that reports nothing: every visit of it knows the names that an  *)
(* environment knows in which validate_expr reports nothing.               *)
(***************************************************************************)
Clean(sigs, v) == \E e : DOMAIN e = v[2] /\ ValidateExpr(sigs, e, v[1]) = {}

CleanWalk(sigs, n, S) ==
  \A v \in Visits(n, S) :
    /\ v = <<v[1], v[2]>>
    /\ IsIrExpr(v[1])
    /\ Clean(sigs, v)
    /\ Visits(v[1], v[2]) \subseteq Visits(n, S)

(* A visit is the first one of a walk, or one of the walk of a part. *)
LEMMA VisitsOfParts ==
  ASSUME WalkEquations, PassEquations, NEW sigs, NEW n, IsIrExpr(n),
         NEW e, ValidateExpr(sigs, e, n) = {}, NEW v \in Visits(n, DOMAIN e)
  PROVE  \/ v = <<n, DOMAIN e>>
         \/ \E k \in IrParts(n) : \E f :
              /\ ValidateExpr(sigs, f, k) = {}
              /\ v \in Visits(k, DOMAIN f)
              /\ Visits(k, DOMAIN f) \subseteq Visits(n, DOMAIN e)
<1> DEFINE S == DOMAIN e
           Goal == \E k \in IrParts(n) : \E f : /\ ValidateExpr(sigs, f, k) = {}
                                            /\ v \in Visits(k, DOMAIN f)
                                            /\ Visits(k, DOMAIN f) \subseteq Visits(n, S)
<1> SUFFICES ASSUME v # <<n, S>> PROVE Goal
  OBVIOUS
<1>0. IsLeaf(n) \/ HasKids(n) \/ n.kind \in {"Let", "Match"}
  BY ExprsBelow DEF IrShape
<1>1. CASE IsLeaf(n)
  <2>1. Visits(n, S) = {<<n, S>>}
    BY <1>1, VisitsRules, Zenon
  <2> QED
    BY <2>1
<1>2. CASE HasKids(n)
  <2>0. Visits(n, S) = {<<n, S>>} \cup UNION {Visits(n.kids[i], S) : i \in DOMAIN n.kids}
    BY <1>2, VisitsRules, Zenon
  <2>1. /\ Visits(n, S) = {<<n, S>>} \cup UNION {Visits(n.kids[i], S) : i \in DOMAIN n.kids}
        /\ \A i \in DOMAIN n.kids : ValidateExpr(sigs, e, n.kids[i]) = {}
        /\ \A i \in DOMAIN n.kids : n.kids[i] \in IrParts(n)
    BY <1>2, <2>0, ReportsNothing, PartsRules
  <2>2. PICK i \in DOMAIN n.kids : v \in Visits(n.kids[i], S)
    BY <2>1
  <2>3. Visits(n.kids[i], S) \subseteq Visits(n, S)
    BY <2>1
  <2> QED
    BY <2>1, <2>2, <2>3
<1>3. CASE n.kind = "Let"
  <2> DEFINE f == Bind(e, n.name, n.value.ty)
  <2>1. /\ Visits(n, S) = {<<n, S>>} \cup Visits(n.value, S) \cup Visits(n.body, S \cup {n.name})
        /\ ValidateExpr(sigs, e, n.value) = {} /\ ValidateExpr(sigs, f, n.body) = {}
        /\ n.value \in IrParts(n) /\ n.body \in IrParts(n)
    BY <1>3, VisitsRules, ReportsNothing, PartsRules
  <2>2. DOMAIN f = S \cup {n.name}
    BY DEF Bind
  <2> HIDE DEF f
  <2>3. CASE v \in Visits(n.value, S)
    BY <2>1, <2>3
  <2>4. CASE v \in Visits(n.body, DOMAIN f)
    BY <2>1, <2>2, <2>4
  <2> QED
    BY <2>1, <2>2, <2>3, <2>4
<1>4. CASE n.kind = "Match"
  <2> DEFINE T(i) == S \cup Binds(n.arms[i].pat)
  <2>1. /\ Visits(n, S) = {<<n, S>>} \cup Visits(n.subject, S) \cup
             UNION {Visits(n.arms[i].body, T(i)) : i \in DOMAIN n.arms}
        /\ ValidateExpr(sigs, e, n.subject) = {}
        /\ \A i \in DOMAIN n.arms : ValidateExpr(sigs, ArmEnv(e, n, i), n.arms[i].body) = {}
        /\ n.subject \in IrParts(n)
        /\ \A i \in DOMAIN n.arms : n.arms[i].body \in IrParts(n)
    <3>1. Visits(n, S) = {<<n, S>>} \cup Visits(n.subject, S) \cup
             UNION {Visits(n.arms[i].body, T(i)) : i \in DOMAIN n.arms}
      BY <1>4, VisitsRules, Zenon
    <3> QED
      BY <1>4, <3>1, ReportsNothing, PartsRules
  <2>2. ASSUME NEW i \in DOMAIN n.arms PROVE DOMAIN ArmEnv(e, n, i) = T(i)
    <3>1. BindsItsNames(n.arms[i].pat)
      BY <1>4, <2>2, ExprsBelow, PatternNamesBound
    <3> QED
      BY <3>1 DEF BindsItsNames, Extends, ArmEnv
  <2> HIDE DEF T
  <2>3. CASE v \in Visits(n.subject, S)
    BY <2>1, <2>3
  <2>4. CASE \E i \in DOMAIN n.arms : v \in Visits(n.arms[i].body, T(i))
    <3>1. PICK i \in DOMAIN n.arms : v \in Visits(n.arms[i].body, T(i))
      BY <2>4
    <3>2. Visits(n.arms[i].body, T(i)) \subseteq Visits(n, S)
      BY <2>1
    <3>3. DOMAIN ArmEnv(e, n, i) = T(i)
      BY <2>2
    <3> QED
      BY <2>1, <3>1, <3>2, <3>3
  <2> QED
    BY <2>1, <2>3, <2>4
<1> QED
  BY <1>0, <1>1, <1>2, <1>3, <1>4

LEMMA CleanWalks ==
  ASSUME WalkEquations, PassEquations, NEW sigs, NEW n, IsIrExpr(n),
         NEW e, ValidateExpr(sigs, e, n) = {}
  PROVE  CleanWalk(sigs, n, DOMAIN e)
<1> DEFINE G == {x \in IrWithin(n) :
                   \A f : ValidateExpr(sigs, f, x) = {} => CleanWalk(sigs, x, DOMAIN f)}
<1>1. ASSUME NEW x \in IrWithin(n), IsIrExpr(x), IrParts(x) \subseteq G PROVE x \in G
  <2> SUFFICES ASSUME NEW f, ValidateExpr(sigs, f, x) = {}, NEW v \in Visits(x, DOMAIN f)
               PROVE  /\ v = <<v[1], v[2]>>
                      /\ IsIrExpr(v[1])
                      /\ Clean(sigs, v)
                      /\ Visits(v[1], v[2]) \subseteq Visits(x, DOMAIN f)
    BY DEF CleanWalk
  <2>1. CASE v = <<x, DOMAIN f>>
    BY <1>1, <2>1 DEF Clean
  <2>2. CASE v # <<x, DOMAIN f>>
    <3>1. PICK k \in IrParts(x) :
            \E g : /\ ValidateExpr(sigs, g, k) = {}
                   /\ v \in Visits(k, DOMAIN g)
                   /\ Visits(k, DOMAIN g) \subseteq Visits(x, DOMAIN f)
      BY <1>1, <2>2, VisitsOfParts
    <3>2. PICK g : /\ ValidateExpr(sigs, g, k) = {}
                   /\ v \in Visits(k, DOMAIN g)
                   /\ Visits(k, DOMAIN g) \subseteq Visits(x, DOMAIN f)
      BY <3>1
    <3>3. CleanWalk(sigs, k, DOMAIN g)
      BY <1>1, <3>2
    <3> QED
      BY <3>2, <3>3 DEF CleanWalk
  <2> QED
    BY <2>1, <2>2
<1>2. n \in G
  <2> HIDE DEF G
  <2> QED
    BY <1>1, ExprInduction
<1> QED
  BY <1>2

------------------------------------------------------------------------------
(***************************************************************************)
(* What loads.  A table of functions, its walk, and the rules of           *)
(* NameResolution for it.                                                  *)
(***************************************************************************)
LEMMA FunctionsByName ==
  ASSUME NEW fs, AreFunctions(fs)
  PROVE  /\ DOMAIN ByName(fs) = Range(NamesIn(fs))
         /\ \A x \in DOMAIN ByName(fs) :
              \E i \in DOMAIN fs : ByName(fs)[x] = fs[i] /\ fs[i].name = x
         /\ \A x \in DOMAIN ByName(fs) : IsFunction(ByName(fs)[x])
<1>1. Len(fs) \in Nat /\ DOMAIN fs = 1 .. Len(fs)
  BY Domain DEF AreFunctions
<1>2. /\ DOMAIN NamesIn(fs) = 1 .. Len(fs)
      /\ \A i \in DOMAIN fs : NamesIn(fs)[i] = fs[i].name
  BY <1>1 DEF NamesIn
<1>3. /\ DOMAIN ByName(fs) = Range(NamesIn(fs))
      /\ \A x \in Range(NamesIn(fs)) :
           \E i \in DOMAIN NamesIn(fs) : NamesIn(fs)[i] = x /\ ByName(fs)[x] = fs[i]
  <2> DEFINE names == NamesIn(fs)
  <2>1. DOMAIN names = 1 .. Len(fs)
    BY <1>2
  <2> HIDE DEF names
  <2>2. /\ DOMAIN InsertAll(names, fs) = Range(names)
        /\ \A x \in Range(names) :
             \E i \in DOMAIN names : names[i] = x /\ InsertAll(names, fs)[x] = fs[i]
    BY <1>1, <2>1, InsertedValues
  <2> QED
    BY <2>2 DEF ByName, names
<1>4. \A i \in DOMAIN fs : IsFunction(fs[i])
  BY DEF AreFunctions, Range
<1> QED
  BY <1>1, <1>2, <1>3, <1>4

(* A program whose functions have been validated. *)
Clear(fs) ==
  /\ AreFunctions(fs)
  /\ \A f \in Range(fs) : IsIrExpr(f.body)
  /\ ValidateProgram(fs) = {}

LEMMA CleanFunctions ==
  ASSUME WalkEquations, PassEquations, NEW fs, Clear(fs), NEW x \in DOMAIN ByName(fs)
  PROVE  CleanWalk(ByName(fs), ByName(fs)[x].body, Range(ByName(fs)[x].params))
<1> DEFINE f == ByName(fs)[x]
           e == InsertAll(f.params, f.types)
<1>1. f \in Range(fs) /\ IsFunction(f)
  <2>1. AreFunctions(fs)
    BY DEF Clear
  <2>2. PICK i \in DOMAIN fs : f = fs[i]
    BY <2>1, FunctionsByName
  <2> QED
    BY <2>1, <2>2, FunctionsByName DEF Range
<1>2. ValidateExpr(ByName(fs), e, f.body) = {}
  BY <1>1 DEF Clear, ValidateProgram
<1>3. IsIrExpr(f.body)
  BY <1>1 DEF Clear
<1>4. DOMAIN e = Range(f.params)
  BY DEF InsertAll
<1> HIDE DEF e, f
<1>5. CleanWalk(ByName(fs), f.body, DOMAIN e)
  BY <1>2, <1>3, CleanWalks
<1> QED
  BY <1>4, <1>5 DEF f

(* Each visit of a clean walk is as NameResolution requires. *)
LEMMA CleanVisit ==
  ASSUME WalkEquations, PassEquations, NEW p, NEW n, NEW S, IsIrExpr(n),
         Clean(p.functions, <<n, S>>),
         \A x \in DOMAIN p.functions : IsFunction(p.functions[x]),
         Visits(n, S) \subseteq p.visits,
         n.kind = "Match" => \A i \in DOMAIN n.arms :
                               /\ n.arms[i].pat \in DOMAIN p.binds
                               /\ p.binds[n.arms[i].pat] = Binds(n.arms[i].pat)
  PROVE  VisitOk(p, n, S)
<1>1. PICK e : DOMAIN e = S /\ ValidateExpr(p.functions, e, n) = {}
  BY DEF Clean
<1>2. IrShape(n)
  BY ExprsBelow
<1>3. ASSUME n.kind = "LocalRef" PROVE n.name \in S
  BY <1>1, <1>3, ReportsNothing
<1>4. ASSUME HasKids(n), NEW i \in DOMAIN n.kids PROVE <<n.kids[i], S>> \in p.visits
  <2>1. Visits(n, S) = {<<n, S>>} \cup UNION {Visits(n.kids[j], S) : j \in DOMAIN n.kids}
    BY <1>4, VisitsRules, Zenon
  <2>2. <<n.kids[i], S>> \in Visits(n.kids[i], S)
    BY VisitsRules, Zenon
  <2> QED
    BY <2>1, <2>2
<1>5. ASSUME n.kind = "Call" PROVE CallOk(p, n)
  <2>1. n.callee \in DOMAIN p.functions /\ Len(n.kids) = Len(p.functions[n.callee].types)
    BY <1>1, <1>5, ReportsNothing
  <2> QED
    BY <2>1 DEF CallOk, IsFunction
<1>6. ASSUME n.kind = "Let"
      PROVE  <<n.value, S>> \in p.visits /\ <<n.body, S \cup {n.name}>> \in p.visits
  <2>1. Visits(n, S) = {<<n, S>>} \cup Visits(n.value, S) \cup Visits(n.body, S \cup {n.name})
    BY <1>6, VisitsRules, Zenon
  <2>2. /\ <<n.value, S>> \in Visits(n.value, S)
        /\ <<n.body, S \cup {n.name}>> \in Visits(n.body, S \cup {n.name})
    BY VisitsRules, Zenon
  <2> QED
    BY <2>1, <2>2
<1>7. ASSUME n.kind = "Match"
      PROVE  /\ <<n.subject, S>> \in p.visits
             /\ \A i \in DOMAIN n.arms :
                  /\ n.arms[i].pat \in DOMAIN p.binds
                  /\ <<n.arms[i].body, S \cup p.binds[n.arms[i].pat]>> \in p.visits
  <2> DEFINE T(i) == S \cup Binds(n.arms[i].pat)
  <2>1. Visits(n, S) = {<<n, S>>} \cup Visits(n.subject, S) \cup
          UNION {Visits(n.arms[i].body, T(i)) : i \in DOMAIN n.arms}
    BY <1>7, VisitsRules, Zenon
  <2>2. /\ <<n.subject, S>> \in Visits(n.subject, S)
        /\ \A i \in DOMAIN n.arms : <<n.arms[i].body, T(i)>> \in Visits(n.arms[i].body, T(i))
    BY VisitsRules, Zenon
  <2>3. \A i \in DOMAIN n.arms : T(i) = S \cup p.binds[n.arms[i].pat]
    BY <1>7
  <2> HIDE DEF T
  <2>4. <<n.subject, S>> \in p.visits
    BY <2>1, <2>2
  <2>5. ASSUME NEW i \in DOMAIN n.arms PROVE <<n.arms[i].body, T(i)>> \in p.visits
    BY <2>1, <2>2
  <2> QED
    BY <1>7, <2>3, <2>4, <2>5
<1> QED
  BY <1>2, <1>3, <1>4, <1>5, <1>6, <1>7 DEF VisitOk

(* Each pattern within one that is matched binds what it should. *)
LEMMA CleanPattern ==
  ASSUME WalkEquations, NEW p, NEW q, IsIrPattern(q), NEW r \in SubPatterns(q),
         SubPatterns(q) \subseteq DOMAIN p.binds,
         \A x \in DOMAIN p.binds : p.binds[x] = Binds(x)
  PROVE  BindsOk(p, r)
<1>1. /\ r.kind \in {"Wildcard", "Binding", "Variant"}
      /\ r.kind = "Variant" => IsSeq(r.fields)
  BY DEF IsIrPattern
<1>2. ASSUME r.kind = "Variant", NEW i \in DOMAIN r.fields
      PROVE  r.fields[i].pat \in DOMAIN p.binds
  <2>1. r.fields[i].pat \in PatternParts(r)
    BY <1>2 DEF PatternParts
  <2>2. r.fields[i].pat \in SubPatterns(r)
    BY <2>1, PatternsBelow
  <2>3. SubPatterns(r) \subseteq SubPatterns(q)
    BY PatternsWithin
  <2> QED
    BY <2>2, <2>3
<1>3. p.binds[r] = Binds(r)
  OBVIOUS
<1>4. ASSUME r.kind = "Variant"
      PROVE  p.binds[r] = UNION {p.binds[r.fields[i].pat] : i \in DOMAIN r.fields}
  <2>1. \A i \in DOMAIN r.fields : p.binds[r.fields[i].pat] = Binds(r.fields[i].pat)
    BY <1>2, <1>4
  <2>2. Binds(r) = UNION {Binds(r.fields[i].pat) : i \in DOMAIN r.fields}
    BY <1>4, BindsRules
  <2> QED
    BY <1>3, <2>1, <2>2
<1> QED
  BY <1>1, <1>2, <1>3, <1>4, BindsRules DEF BindsOk

(***************************************************************************)
(* from_ir: no two functions have one name, and one function is the update *)
(* and one the query.                                                      *)
(***************************************************************************)
LEMMA OneOfKind ==
  ASSUME NEW fs, AreFunctions(fs), NEW k, Cardinality(OfKind(fs, k)) = 1
  PROVE  \E i \in DOMAIN fs : OfKind(fs, k) = {i} /\ Max(OfKind(fs, k)) = i /\ fs[i].kind = k
<1>1. Len(fs) \in Nat /\ DOMAIN fs = 1 .. Len(fs)
  BY Domain DEF AreFunctions
<1>2. IsFiniteSet(OfKind(fs, k))
  <2>1. OfKind(fs, k) \subseteq 1 .. Len(fs) /\ IsFiniteSet(1 .. Len(fs))
    BY <1>1, FS_Interval DEF OfKind
  <2> QED
    BY <2>1, FS_Subset
<1>3. PICK i : OfKind(fs, k) = {i}
  BY <1>2, FS_Singleton
<1>4. i \in DOMAIN fs /\ fs[i].kind = k
  BY <1>3 DEF OfKind
<1>5. Max({i}) = i
  <2>1. {i} \subseteq 1 .. Len(fs) /\ {i} # {}
    BY <1>1, <1>4
  <2>2. Max({i}) \in {i}
    BY <1>1, <2>1, GreatestPlace
  <2> QED
    BY <2>2
<1> QED
  BY <1>3, <1>4, <1>5

LEMMA DistinctNames ==
  ASSUME NEW fs, AreFunctions(fs), Cardinality(Range(NamesIn(fs))) = Len(fs)
  PROVE  \A i, j \in DOMAIN fs : fs[i].name = fs[j].name => i = j
<1> DEFINE names == NamesIn(fs)
           D == 1 .. Len(fs)
<1>1. Len(fs) \in Nat /\ DOMAIN fs = D
  BY Domain DEF AreFunctions
<1>2. DOMAIN names = D /\ names \in [D -> Range(names)]
  BY <1>1 DEF NamesIn, Range
<1>3. names \in Surjection(D, Range(names))
  BY <1>2 DEF Surjection, Range
<1>4. IsFiniteSet(D) /\ Cardinality(D) = Len(fs)
  <2>1. Len(fs) \in Int /\ 1 \in Int
    BY <1>1
  <2>2. IsFiniteSet(D) /\ Cardinality(D) = IF 1 > Len(fs) THEN 0 ELSE Len(fs) - 1 + 1
    BY <2>1, FS_Interval
  <2> QED
    BY <1>1, <2>2
<1>5. names \in Injection(D, Range(names))
  <2> HIDE DEF names, D
  <2>1. Cardinality(D) = Cardinality(Range(names))
    BY <1>4 DEF names
  <2> QED
    BY <1>3, <1>4, <2>1, FS_SurjSameCardinalityImpliesInj
<1>6. \A i, j \in D : names[i] = names[j] => i = j
  BY <1>2, <1>5 DEF Injection, IsInjective
<1>7. \A i \in D : names[i] = fs[i].name
  BY <1>1 DEF NamesIn
<1> QED
  BY <1>1, <1>6, <1>7

LEMMA Loads ==
  ASSUME NEW fs, AreFunctions(fs), FromIr(fs).ok
  PROVE  /\ \A i \in DOMAIN fs : ByName(fs)[fs[i].name] = fs[i]
         /\ \E u, q \in DOMAIN fs :
              /\ OfKind(fs, "Update") = {u} /\ fs[u].kind = "Update"
              /\ OfKind(fs, "Query") = {q} /\ fs[q].kind = "Query"
              /\ FromIr(fs).val = Table(fs, u, q)
<1>1. /\ Cardinality(Range(NamesIn(fs))) = Len(fs)
      /\ \A k \in {"Update", "Query"} : Cardinality(OfKind(fs, k)) = 1
      /\ FromIr(fs) = Ok(Table(fs, Max(OfKind(fs, "Update")), Max(OfKind(fs, "Query"))))
  <2> DEFINE named == Cardinality(Range(NamesIn(fs))) = Len(fs)
             odd == \E k \in {"Update", "Query"} : Cardinality(OfKind(fs, k)) # 1
  <2>1. named
    <3> SUFFICES ASSUME ~named PROVE FALSE
      OBVIOUS
    <3>1. FromIr(fs) = Err("InvalidInput", "duplicate_function")
      BY DEF FromIr
    <3> QED
      BY <3>1 DEF Err
  <2>2. ~odd
    <3> SUFFICES ASSUME odd PROVE FALSE
      OBVIOUS
    <3>1. FromIr(fs) = Err("InvalidInput", "entry_points")
      BY <2>1 DEF FromIr
    <3> QED
      BY <3>1 DEF Err
  <2>3. FromIr(fs) = Ok(Table(fs, Max(OfKind(fs, "Update")), Max(OfKind(fs, "Query"))))
    BY <2>1, <2>2 DEF FromIr
  <2> QED
    BY <2>1, <2>2, <2>3
<1>2. ASSUME NEW i \in DOMAIN fs PROVE ByName(fs)[fs[i].name] = fs[i]
  <2>1. fs[i].name \in DOMAIN ByName(fs)
    <3>1. fs[i].name \in Range(NamesIn(fs))
      BY DEF NamesIn, Range
    <3> QED
      BY <3>1, FunctionsByName
  <2>2. PICK j \in DOMAIN fs : ByName(fs)[fs[i].name] = fs[j] /\ fs[j].name = fs[i].name
    BY <2>1, FunctionsByName
  <2>3. i = j
    BY <1>1, <2>2, DistinctNames
  <2> QED
    BY <2>2, <2>3
<1>3. PICK u \in DOMAIN fs : /\ OfKind(fs, "Update") = {u} /\ Max(OfKind(fs, "Update")) = u
                             /\ fs[u].kind = "Update"
  BY <1>1, OneOfKind
<1>4. PICK q \in DOMAIN fs : /\ OfKind(fs, "Query") = {q} /\ Max(OfKind(fs, "Query")) = q
                             /\ fs[q].kind = "Query"
  BY <1>1, OneOfKind
<1>5. FromIr(fs).val = Table(fs, u, q)
  BY <1>1, <1>3, <1>4 DEF Ok
<1> QED
  BY <1>2, <1>3, <1>4, <1>5

(***************************************************************************)
(* A program whose functions have been validated and that loads, with two  *)
(* parameters for each entry, is Validated.                                *)
(***************************************************************************)
LEMMA LoadsValidated ==
  ASSUME WalkEquations, PassEquations, NEW fs, Clear(fs), FromIr(fs).ok,
         \A f \in Range(fs) : f.kind \in {"Update", "Query"} => Len(f.params) = 2
  PROVE  Validated(FromIr(fs).val)
<1> DEFINE t == ByName(fs)
           p == FromIr(fs).val
<1>1. AreFunctions(fs) /\ \A x \in DOMAIN t : IsFunction(t[x])
  BY FunctionsByName DEF Clear
<1>2. PICK u \in DOMAIN fs, q \in DOMAIN fs :
        fs[u].kind = "Update" /\ fs[q].kind = "Query" /\ p = Table(fs, u, q)
  BY <1>1, Loads
<1>3. p = WalkOf(t, fs[u].name, fs[q].name)
  BY <1>2 DEF Table
<1>4. /\ p.functions = t
      /\ p["update"] = fs[u].name /\ p["query"] = fs[q].name
      /\ p.visits = UNION {Visits(t[x].body, Range(t[x].params)) : x \in DOMAIN t}
      /\ DOMAIN p.binds = UNION {SubPatterns(r) : r \in ArmPatterns(p.visits)}
      /\ \A r \in DOMAIN p.binds : p.binds[r] = Binds(r)
  <2> HIDE DEF t, p
  <2> QED
    BY <1>3 DEF WalkOf
<1> HIDE DEF t, p
<1>5. ASSUME NEW x \in DOMAIN t
      PROVE  /\ IsSeq(t[x].params)
             /\ CleanWalk(t, t[x].body, Range(t[x].params))
             /\ Visits(t[x].body, Range(t[x].params)) \subseteq p.visits
  <2>1. IsSeq(t[x].params)
    BY <1>1 DEF IsFunction
  <2>2. CleanWalk(t, t[x].body, Range(t[x].params))
    BY CleanFunctions DEF t
  <2> QED
    BY <1>4, <2>1, <2>2
<1>6. ASSUME NEW v \in p.visits
      PROVE  /\ v = <<v[1], v[2]>> /\ IsIrExpr(v[1]) /\ Clean(t, v)
             /\ Visits(v[1], v[2]) \subseteq p.visits
  <2>1. PICK x \in DOMAIN t : v \in Visits(t[x].body, Range(t[x].params))
    BY <1>4
  <2>2. /\ CleanWalk(t, t[x].body, Range(t[x].params))
        /\ Visits(t[x].body, Range(t[x].params)) \subseteq p.visits
    BY <1>5
  <2> QED
    BY <2>1, <2>2 DEF CleanWalk
<1>7. ASSUME NEW r \in ArmPatterns(p.visits)
      PROVE  IsIrPattern(r) /\ SubPatterns(r) \subseteq DOMAIN p.binds /\ r \in DOMAIN p.binds
  <2>1. PICK v \in p.visits : v[1].kind = "Match" /\ \E i \in DOMAIN v[1].arms : r = v[1].arms[i].pat
    BY DEF ArmPatterns
  <2>2. IsIrExpr(v[1])
    BY <1>6
  <2>3. IsIrPattern(r)
    BY <2>1, <2>2, ExprsBelow
  <2>4. SubPatterns(r) \subseteq DOMAIN p.binds
    BY <1>4
  <2> QED
    BY <2>3, <2>4, PatternsBelow
<1>8. ASSUME NEW v \in p.visits PROVE VisitOk(p, v[1], v[2])
  <2> DEFINE n == v[1]
             S == v[2]
  <2>1. IsIrExpr(n) /\ Clean(t, <<n, S>>) /\ Visits(n, S) \subseteq p.visits
    BY <1>6
  <2>2. ASSUME n.kind = "Match", NEW i \in DOMAIN n.arms
        PROVE  n.arms[i].pat \in DOMAIN p.binds /\ p.binds[n.arms[i].pat] = Binds(n.arms[i].pat)
    <3>1. n.arms[i].pat \in ArmPatterns(p.visits)
      BY <2>2 DEF ArmPatterns
    <3> QED
      BY <1>4, <1>7, <3>1
  <2> HIDE DEF n, S
  <2>3. VisitOk(p, n, S)
    BY <1>1, <1>4, <2>1, <2>2, CleanVisit
  <2> QED
    BY <2>3 DEF n, S
<1>9. ASSUME NEW r \in DOMAIN p.binds PROVE BindsOk(p, r)
  <2>1. PICK s \in ArmPatterns(p.visits) : r \in SubPatterns(s)
    BY <1>4
  <2> QED
    BY <1>4, <1>7, <2>1, CleanPattern
<1>10. ASSUME NEW i \in DOMAIN fs, fs[i].kind \in {"Update", "Query"}
       PROVE  fs[i].name \in DOMAIN t /\ Len(t[fs[i].name].params) = 2
  <2>1. fs[i].name \in DOMAIN t
    <3>1. fs[i].name \in Range(NamesIn(fs))
      BY DEF NamesIn, Range
    <3> QED
      BY <1>1, <3>1, FunctionsByName DEF t
  <2>2. t[fs[i].name] = fs[i]
    BY <1>1, Loads DEF t
  <2>3. Len(fs[i].params) = 2
    BY <1>10 DEF Range
  <2> QED
    BY <2>1, <2>2, <2>3
<1>11. \A e \in {"update", "query"} :
         p[e] \in DOMAIN p.functions /\ Len(p.functions[p[e]].params) = 2
  BY <1>2, <1>4, <1>10
<1>12. \A f \in DOMAIN p.functions :
         /\ IsSeq(p.functions[f].params)
         /\ <<p.functions[f].body, Range(p.functions[f].params)>> \in p.visits
  <2> TAKE f \in DOMAIN p.functions
  <2>1. <<t[f].body, Range(t[f].params)>> \in Visits(t[f].body, Range(t[f].params))
    BY VisitsRules, Zenon
  <2> QED
    BY <1>4, <1>5, <2>1
<1>13. Validated(p)
  BY <1>8, <1>9, <1>11, <1>12 DEF Validated
<1> QED
  BY <1>13 DEF p

------------------------------------------------------------------------------
(***************************************************************************)
(* What is lowered: functions that differ from those of the source in      *)
(* their bodies only.                                                      *)
(***************************************************************************)
LEMMA Prepended ==
  ASSUME NEW s, IsSeq(s), NEW e
  PROVE  IsSeq(<<e>> \o s) /\ Range(<<e>> \o s) \subseteq {e} \cup Range(s)
<1> DEFINE S == {e} \cup Range(s)
           u == <<e>> \o s
<1>1. s \in Seq(S) /\ <<e>> \in Seq(S) /\ Len(<<e>>) = 1 /\ Len(s) \in Nat
  BY Domain DEF IsSeq
<1>2. u \in Seq(S)
  BY <1>1, ConcatProperties
<1>3. DOMAIN u = 1 .. Len(u) /\ Len(u) \in Nat /\ \A i \in 1 .. Len(u) : u[i] \in S
  BY <1>2, LenProperties
<1> HIDE DEF S, u
<1>4. \A i \in 1 .. Len(u) : u[i] \in Range(u)
  BY <1>3 DEF Range
<1>5. u \in Seq(Range(u))
  BY <1>2, <1>3, <1>4
<1>6. Range(u) \subseteq S
  BY <1>3 DEF Range
<1> QED
  BY <1>5, <1>6 DEF IsSeq, S, u

LEMMA LoweredFunction ==
  ASSUME NEW c, NEW fd, IsFunction(fd), NEW f \in LowerFunction(c, fd).node
  PROVE  IsFunction(f) /\ f.kind = fd.kind /\ f.params = fd.params
<1> DEFINE r == Lower(c, InsertAll(fd.params, fd.types), fd.body)
<1>1. f \in FunctionNode(fd, r).node
  BY DEF LowerFunction
<1> HIDE DEF r
<1>2. f = [fd EXCEPT !.body = TheNode(r)]
  BY <1>1 DEF FunctionNode, Dropped, Lowered
<1>3. /\ DOMAIN f = DOMAIN fd
      /\ f.kind = fd.kind /\ f.params = fd.params /\ f.types = fd.types
  BY <1>2 DEF IsFunction
<1> QED
  BY <1>3 DEF IsFunction

LEMMA LoweredFunctions ==
  ASSUME PassEquations, NEW c, NEW fds, IsSeq(fds)
  PROVE  /\ IsSeq(LowerEach(c, fds).fns)
         /\ \A f \in Range(LowerEach(c, fds).fns) :
              \E fd \in Range(fds) : f \in LowerFunction(c, fd).node
<1> DEFINE Good(s, fs) == /\ IsSeq(fs)
                          /\ \A f \in Range(fs) : \E fd \in Range(s) : f \in LowerFunction(c, fd).node
           G == {n \in Nat : \A s : IsSeq(s) /\ Len(s) = n => Good(s, LowerEach(c, s).fns)}
<1>1. \A s : IsSeq(s) => LowerEach(c, s) = LowerEachStep(c, s)
  BY DEF PassEquations
<1>2. 0 \in G
  <2> SUFFICES ASSUME NEW s, IsSeq(s), Len(s) = 0 PROVE Good(s, LowerEach(c, s).fns)
    OBVIOUS
  <2>1. s = <<>>
    BY EmptySeq DEF IsSeq
  <2>2. LowerEach(c, s).fns = <<>>
    BY <1>1, <2>1 DEF LowerEachStep
  <2>3. IsSeq(<<>>) /\ Range(<<>>) = {}
    BY DEF IsSeq, Range
  <2> QED
    BY <2>2, <2>3
<1>3. ASSUME NEW n \in Nat, n \in G PROVE n + 1 \in G
  <2> SUFFICES ASSUME NEW s, IsSeq(s), Len(s) = n + 1 PROVE Good(s, LowerEach(c, s).fns)
    OBVIOUS
  <2> DEFINE r == LowerFunction(c, Head(s))
             rest == LowerEach(c, Tail(s))
  <2>1. s # <<>>
    <3>1. Len(s) # 0
      OBVIOUS
    <3> QED
      BY <3>1, EmptySeq
  <2>2. /\ IsSeq(Tail(s)) /\ Len(Tail(s)) = n
        /\ Head(s) \in Range(s) /\ Range(Tail(s)) \subseteq Range(s)
    <3>1. Len(s) - 1 = n
      OBVIOUS
    <3>2. /\ IsSeq(Tail(s)) /\ Len(Tail(s)) = Len(s) - 1
          /\ 1 \in DOMAIN s /\ Head(s) = s[1]
          /\ \A i \in DOMAIN Tail(s) : i + 1 \in DOMAIN s /\ Tail(s)[i] = s[i + 1]
      BY <2>1, Shortened
    <3> QED
      BY <3>1, <3>2 DEF Range
  <2>3. LowerEach(c, s) = AddFunction(r, rest)
    BY <1>1, <2>1 DEF LowerEachStep
  <2>4. Good(Tail(s), rest.fns)
    BY <1>3, <2>2
  <2>5. CASE r.node = {}
    <3>1. LowerEach(c, s).fns = rest.fns
      BY <2>3, <2>5 DEF AddFunction
    <3> QED
      BY <2>2, <2>4, <3>1
  <2>6. CASE r.node # {}
    <3>1. LowerEach(c, s).fns = <<TheNode(r)>> \o rest.fns
      BY <2>3, <2>6 DEF AddFunction
    <3>2. TheNode(r) \in LowerFunction(c, Head(s)).node
      BY <2>6 DEF TheNode
    <3>3. /\ IsSeq(<<TheNode(r)>> \o rest.fns)
          /\ Range(<<TheNode(r)>> \o rest.fns) \subseteq {TheNode(r)} \cup Range(rest.fns)
      BY <2>4, Prepended
    <3> QED
      BY <2>2, <2>4, <3>1, <3>2, <3>3
  <2> QED
    BY <2>5, <2>6
<1>4. Len(fds) \in G
  <2> HIDE DEF G
  <2> QED
    BY <1>2, <1>3, LengthInduction, Domain
<1> QED
  BY <1>4

(***************************************************************************)
(* A program that the front end accepts.  The checker asks the entry       *)
(* points for two parameters (check_fn_signature).                         *)
(***************************************************************************)
TwoForEntries(fs) ==
  \A f \in Range(fs) : f.kind \in {"Update", "Query"} => Len(f.params) = 2

LEMMA SignaturesChecked ==
  ASSUME NEW p, AreFunctions(p.fns), Analyze(p) = {}
  PROVE  TwoForEntries(p.fns)
<1> SUFFICES ASSUME NEW i \in DOMAIN p.fns, p.fns[i].kind \in {"Update", "Query"}
             PROVE  Len(p.fns[i].params) = 2
  BY DEF TwoForEntries, Range
<1> DEFINE f == p.fns[i]
<1>1. CheckFn(Tables(p), f) = {}
  BY DEF Analyze
<1>2. SignatureOk(Tables(p), f)
  BY <1>1 DEF CheckFn, When
<1>3. Len(f.types) = 2
  <2> HIDE DEF f
  <2>1. CASE f.kind = "Update"
    BY <1>2, <2>1 DEF SignatureOk
  <2>2. CASE f.kind = "Query"
    BY <1>2, <2>2 DEF SignatureOk
  <2> QED
    BY <2>1, <2>2 DEF f
<1>4. IsFunction(f)
  BY DEF AreFunctions, Range
<1> QED
  BY <1>3, <1>4 DEF IsFunction

LEMMA AcceptedIsClear ==
  ASSUME PassEquations, NEW p \in Sources, LowerResult(p).bad = {}
  PROVE  Clear(LowerResult(p).fns) /\ TwoForEntries(LowerResult(p).fns)
<1> DEFINE lowered == LowerEach(Tables(p), p.fns)
<1>1. Analyze(p) = {}
  BY DEF LowerResult, LowerAccepted, Refused
<1>2. LowerResult(p) = Assemble(lowered)
  BY <1>1 DEF LowerResult, LowerAccepted
<1> HIDE DEF lowered
<1>3. lowered.bad = {}
  BY <1>2 DEF Assemble, Refused
<1>4. ValidateProgram(lowered.fns) = {} /\ LowerResult(p).fns = lowered.fns
  BY <1>2, <1>3 DEF Assemble, IfValid, OnlyWithout, Refused
<1>5. /\ AreFunctions(p.fns)
      /\ \A f \in Range(p.fns) : \A n \in LowerFunction(Tables(p), f).node : IsIrExpr(n.body)
  BY <1>1, SourceAssumption
<1>6. /\ IsSeq(lowered.fns)
      /\ \A f \in Range(lowered.fns) :
           \E fd \in Range(p.fns) : f \in LowerFunction(Tables(p), fd).node
  BY <1>5, LoweredFunctions DEF AreFunctions, lowered
<1>7. ASSUME NEW f \in Range(lowered.fns)
      PROVE  /\ IsFunction(f) /\ IsIrExpr(f.body)
             /\ f.kind \in {"Update", "Query"} => Len(f.params) = 2
  <2>1. PICK fd \in Range(p.fns) : f \in LowerFunction(Tables(p), fd).node
    BY <1>6
  <2>2. IsFunction(fd)
    BY <1>5 DEF AreFunctions
  <2>3. IsFunction(f) /\ f.kind = fd.kind /\ f.params = fd.params
    BY <2>1, <2>2, LoweredFunction
  <2>4. IsIrExpr(f.body)
    BY <1>5, <2>1
  <2>5. fd.kind \in {"Update", "Query"} => Len(fd.params) = 2
    BY <1>1, <1>5, SignaturesChecked DEF TwoForEntries
  <2> QED
    BY <2>3, <2>4, <2>5
<1> QED
  BY <1>4, <1>6, <1>7 DEF Clear, AreFunctions, TwoForEntries

------------------------------------------------------------------------------
(***************************************************************************)
(* The invariant: what has passed is clear, and what is loaded is what     *)
(* from_ir makes of it.                                                    *)
(***************************************************************************)
HasPassed == stage = "valid" \/ IsLoaded

Arrived ==
  \/ IsSource /\ program \in Sources /\ stage # "unvalidated"
  \/ ~IsSource /\ program \in Irs /\ stage # "parsed"

PassedInv ==
  /\ Arrived
  /\ stage = "unvalidated" => fns = program.fns
  /\ HasPassed => Clear(fns) /\ (IsSource => TwoForEntries(fns))
  /\ IsLoaded => vm = FromIr(fns) /\ FromIr(fns).ok

LEMMA PassedInit == Init => PassedInv
<1> SUFFICES ASSUME Init PROVE PassedInv
  OBVIOUS
<1>1. CASE program \in Sources /\ stage = "parsed"
  BY <1>1, SourceAssumption DEF PassedInv, Arrived, HasPassed, IsLoaded, IsSource
<1>2. CASE program \in Irs /\ stage = "unvalidated" /\ fns = program.fns
  BY <1>2, IrAssumption DEF PassedInv, Arrived, HasPassed, IsLoaded, IsSource
<1> QED
  BY <1>1, <1>2 DEF Init

LEMMA PassedNext == ASSUME PassEquations PROVE PassedInv /\ [Next]_vars => PassedInv'
<1> SUFFICES ASSUME PassedInv, [Next]_vars PROVE PassedInv'
  OBVIOUS
<1> USE DEF Arrived, HasPassed, IsLoaded, IsSource
<1>1. CASE LowerProgram
  <2>1. /\ stage = "parsed" /\ UNCHANGED <<program, vm>>
        /\ fns' = LowerResult(program).fns
        /\ stage' = IF LowerResult(program).bad = {} THEN "valid" ELSE "refused"
    BY <1>1 DEF LowerProgram
  <2>2. program \in Sources /\ IsSource
    BY <2>1 DEF PassedInv
  <2>3. CASE LowerResult(program).bad = {}
    <3>1. Clear(fns') /\ TwoForEntries(fns')
      BY <2>1, <2>2, <2>3, AcceptedIsClear
    <3> QED
      BY <2>1, <2>2, <2>3, <3>1 DEF PassedInv
  <2>4. CASE LowerResult(program).bad # {}
    BY <2>1, <2>2, <2>4 DEF PassedInv
  <2> QED
    BY <2>3, <2>4
<1>2. CASE ValidateIr
  <2>1. /\ stage = "unvalidated" /\ UNCHANGED <<program, fns, vm>>
        /\ stage' = IF ValidateProgram(fns) = {} THEN "valid" ELSE "refused"
    BY <1>2 DEF ValidateIr
  <2>2. program \in Irs /\ ~IsSource /\ fns = program.fns
    BY <2>1 DEF PassedInv
  <2>3. AreFunctions(fns) /\ \A f \in Range(fns) : IsIrExpr(f.body)
    BY <2>2, IrAssumption
  <2>4. CASE ValidateProgram(fns) = {}
    BY <2>1, <2>2, <2>3, <2>4 DEF PassedInv, Clear
  <2>5. CASE ValidateProgram(fns) # {}
    BY <2>1, <2>2, <2>5 DEF PassedInv
  <2> QED
    BY <2>4, <2>5
<1>3. CASE Load
  <2>1. /\ stage = "valid" /\ UNCHANGED <<program, fns>>
        /\ vm' = FromIr(fns)
        /\ stage' = IF FromIr(fns).ok THEN "loaded" ELSE "refused"
    BY <1>3 DEF Load
  <2> QED
    BY <2>1 DEF PassedInv
<1>4. CASE Start
  BY <1>4 DEF Start, PassedInv
<1>5. CASE Dispatch
  <2>1. UNCHANGED <<program, fns, vm>> /\ stage = "running" /\ stage' \in {"running", "failed"}
    BY <1>5 DEF Dispatch
  <2> QED
    BY <2>1 DEF PassedInv
<1>6. CASE Ask
  <2>1. UNCHANGED <<program, fns, vm>> /\ stage = "running" /\ stage' \in {"running", "failed"}
    BY <1>6 DEF Ask
  <2> QED
    BY <2>1 DEF PassedInv
<1>7. CASE UNCHANGED vars
  BY <1>7 DEF vars, PassedInv
<1> QED
  BY <1>1, <1>2, <1>3, <1>4, <1>5, <1>6, <1>7 DEF Next

(* Entry points are the functions declared as such. *)
LEMMA EntryIsDeclared ==
  ASSUME PassedInv, IsLoaded, EntriesTakeTwo
  PROVE  TwoForEntries(fns)
<1> SUFFICES ASSUME NEW k \in {"Update", "Query"}, NEW i \in DOMAIN fns, fns[i].kind = k
             PROVE  Len(fns[i].params) = 2
  BY DEF TwoForEntries, Range
<1>1. AreFunctions(fns) /\ FromIr(fns).ok
  BY DEF PassedInv, HasPassed, Clear
<1>2. PICK u \in DOMAIN fns : OfKind(fns, k) = {u}
  BY <1>1, Loads
<1>3. Entry(k) \in Range(fns) /\ Entry(k).kind = k
  <2>1. fns[i] \in Range(fns)
    BY DEF Range
  <2> QED
    BY <2>1 DEF Entry
<1>4. PICK j \in DOMAIN fns : Entry(k) = fns[j]
  BY <1>3 DEF Range
<1>5. i = u /\ j = u
  BY <1>2, <1>3, <1>4 DEF OfKind
<1> QED
  BY <1>4, <1>5 DEF EntriesTakeTwo

(* What loads has been validated: every name in it resolves (lower_program, *)
(* validate_program, IrVmProgram::from_ir), whatever the program.           *)
THEOREM LoadedIsValidated ==
  ASSUME WalkEquations, PassEquations PROVE Spec => []LoadedProgramsAreValidated
<1>1. PassedInv => LoadedProgramsAreValidated
  <2> SUFFICES ASSUME PassedInv, IsLoaded
               PROVE  /\ IsSource => EntriesTakeTwo
                      /\ EntriesTakeTwo => Validated(vm.val)
    BY DEF LoadedProgramsAreValidated
  <2>1. Clear(fns) /\ vm = FromIr(fns) /\ FromIr(fns).ok
    BY DEF PassedInv, HasPassed
  <2>2. ASSUME IsSource, NEW k \in {"Update", "Query"} PROVE Len(Entry(k).params) = 2
    <3>1. TwoForEntries(fns)
      BY <2>2 DEF PassedInv, HasPassed
    <3>2. PICK u \in DOMAIN fns : fns[u].kind = k
      BY <2>1, Loads DEF Clear
    <3>3. Entry(k) \in Range(fns) /\ Entry(k).kind = k
      <4>1. fns[u] \in Range(fns)
        BY DEF Range
      <4> QED
        BY <3>2, <4>1 DEF Entry
    <3> QED
      BY <3>1, <3>3 DEF TwoForEntries
  <2>3. ASSUME EntriesTakeTwo PROVE Validated(vm.val)
    <3>1. TwoForEntries(fns)
      BY <2>3, EntryIsDeclared
    <3> QED
      BY <2>1, <3>1, LoadsValidated DEF TwoForEntries
  <2> QED
    BY <2>2, <2>3 DEF EntriesTakeTwo
<1>2. PassedInv /\ [Next]_vars => PassedInv'
  BY PassedNext
<1> QED
  BY <1>1, <1>2, PassedInit, PTL DEF Spec

(* Every function runs under the name it was declared with, and the entry  *)
(* points are the functions declared as such (IrVmProgram::from_ir).       *)
THEOREM LoadedIsAsDeclared ==
  ASSUME PassEquations PROVE Spec => []LoadedAsDeclared
<1>1. PassedInv => LoadedAsDeclared
  <2> SUFFICES ASSUME PassedInv, IsLoaded, NEW i \in DOMAIN fns
               PROVE  /\ vm.val.functions[fns[i].name] = fns[i]
                      /\ fns[i].kind = "Update" => vm.val.update = fns[i].name
                      /\ fns[i].kind = "Query"  => vm.val.query = fns[i].name
    BY DEF LoadedAsDeclared
  <2>1. AreFunctions(fns) /\ vm = FromIr(fns) /\ FromIr(fns).ok
    BY DEF PassedInv, HasPassed, Clear
  <2>2. PICK u \in DOMAIN fns, q \in DOMAIN fns :
          /\ OfKind(fns, "Update") = {u} /\ OfKind(fns, "Query") = {q}
          /\ FromIr(fns).val = Table(fns, u, q)
    BY <2>1, Loads
  <2>3. /\ vm.val.functions = ByName(fns)
        /\ vm.val.update = fns[u].name /\ vm.val.query = fns[q].name
    BY <2>1, <2>2 DEF Table, WalkOf
  <2>4. ByName(fns)[fns[i].name] = fns[i]
    BY <2>1, Loads
  <2>5. (fns[i].kind = "Update" => i = u) /\ (fns[i].kind = "Query" => i = q)
    BY <2>2 DEF OfKind
  <2> QED
    BY <2>3, <2>4, <2>5
<1>2. PassedInv /\ [Next]_vars => PassedInv'
  BY PassedNext
<1> QED
  BY <1>1, <1>2, PassedInit, PTL DEF Spec

------------------------------------------------------------------------------
(***************************************************************************)
(* Types and source trees that are finite: sets of them that hold all      *)
(* parts of what they hold, and over which one may go from the parts to    *)
(* the whole.                                                              *)
(***************************************************************************)
TypeTrees(S) ==
  /\ \A t \in S : IsSeq(t.args) /\ \A i \in DOMAIN t.args : t.args[i] \in S
  /\ \A G \in SUBSET S :
       (\A t \in S : (\A i \in DOMAIN t.args : t.args[i] \in G) => t \in G) => S \subseteq G

IsType(t)    == \E S : TypeTrees(S) /\ t \in S
KnownType(t) == IsType(t) /\ t # UnknownT

SourceParts(x) == ExprsIn(x) \cup PatternsOf(x)

SourceTrees(S) ==
  /\ \A x \in S : SourceShape(x) /\ SourceParts(x) \subseteq S
  /\ \A G \in SUBSET S : (\A x \in S : SourceParts(x) \subseteq G => x \in G) => S \subseteq G

IsSourceTree(x) == \E S : SourceTrees(S) /\ x \in S

(* What an implementation of the checker and of the lowering is. *)
FrontEndEquations ==
  /\ \A t : TypesIn(t) = TypesInStep(t)
  /\ \A x : SubExprs(x) = SubExprsStep(x)
  /\ \A a, b : IsType(a) /\ IsType(b) => (Compatible(a, b) <=> CompatibleStep(a, b))
  /\ \A c, e, x :
       IsSourceTree(x) => Infer(c, e, x) = InferStep(c, e, x) /\ Lower(c, e, x) = LowerStep(c, e, x)
  /\ \A c, q, t, e :
       IsSourceTree(q) => /\ CheckPattern(c, q, t, e) = CheckPatternStep(c, q, t, e)
                          /\ LowerPattern(c, q, t, e) = LowerPatternStep(c, q, t, e)
  /\ \A c, fs, payload, acc :
       IsSeq(fs) => /\ CheckFields(c, fs, payload, acc) = CheckFieldsStep(c, fs, payload, acc)
                    /\ LowerFields(c, fs, payload, acc) = LowerFieldsStep(c, fs, payload, acc)

LEMMA DeclaredIsKnown ==
  ASSUME FrontEndEquations, NEW t, IsDeclaredType(t)
  PROVE  KnownType(t)
<1> DEFINE S == {u \in TypesIn(t) : TypesIn(u) \subseteq TypesIn(t)}
           w == [u \in S |-> TypesIn(u)]
<1>1. \A u : /\ u \in TypesIn(u)
             /\ \A i \in DOMAIN u.args : TypesIn(u.args[i]) \subseteq TypesIn(u)
  <2> TAKE u
  <2>1. TypesIn(u) = {u} \cup UNION {TypesIn(u.args[i]) : i \in DOMAIN u.args}
    BY DEF FrontEndEquations, TypesInStep
  <2> QED
    BY <2>1
<1>2. ASSUME NEW u \in S
      PROVE  /\ IsSeq(u.args) /\ IsFiniteSet(w[u])
             /\ \A i \in DOMAIN u.args :
                  u.args[i] \in S /\ w[u.args[i]] \subseteq w[u] /\ w[u.args[i]] # w[u]
  <2>1. /\ IsSeq(u.args) /\ IsFiniteSet(TypesIn(u))
        /\ \A i \in DOMAIN u.args : u \notin TypesIn(u.args[i])
    BY DEF IsDeclaredType
  <2>2. ASSUME NEW i \in DOMAIN u.args
        PROVE  /\ u.args[i] \in S
               /\ TypesIn(u.args[i]) \subseteq TypesIn(u) /\ TypesIn(u.args[i]) # TypesIn(u)
    BY <1>1, <2>1
  <2> QED
    BY <2>1, <2>2
<1>3. t \in S
  BY <1>1
<1> HIDE DEF S, w
<1>4. ASSUME NEW G \in SUBSET S,
             \A u \in S : (\A i \in DOMAIN u.args : u.args[i] \in G) => u \in G
      PROVE  S \subseteq G
  <2>1. ASSUME NEW u \in S, \A v \in S : w[v] \subseteq w[u] /\ w[v] # w[u] => v \in G
        PROVE  u \in G
    BY <1>2, <1>4, <2>1
  <2>2. \A u \in S : IsFiniteSet(w[u])
    BY <1>2
  <2> QED
    BY <2>1, <2>2, WithinInduction
<1>5. TypeTrees(S)
  BY <1>2, <1>4 DEF TypeTrees
<1> QED
  BY <1>3, <1>5 DEF KnownType, IsType, IsDeclaredType

(* What is built of types is a type. *)
LEMMA TypeBuilt ==
  ASSUME NEW n, NEW as, IsSeq(as), \A i \in DOMAIN as : IsType(as[i])
  PROVE  IsType(Type(n, as))
<1> DEFINE t == Type(n, as)
           W == [i \in DOMAIN as |-> CHOOSE S : TypeTrees(S) /\ as[i] \in S]
           U == (UNION {W[i] : i \in DOMAIN as}) \cup {t}
<1>1. \A i \in DOMAIN as : TypeTrees(W[i]) /\ as[i] \in W[i]
  BY DEF IsType
<1>2. t.args = as
  BY DEF Type
<1> HIDE DEF W, t
<1>3. ASSUME NEW u \in U PROVE IsSeq(u.args) /\ \A i \in DOMAIN u.args : u.args[i] \in U
  <2>1. CASE u = t
    BY <1>1, <1>2, <2>1
  <2>2. CASE u # t
    <3>1. PICK j \in DOMAIN as : u \in W[j]
      BY <2>2
    <3>2. IsSeq(u.args) /\ \A i \in DOMAIN u.args : u.args[i] \in W[j]
      BY <1>1, <3>1 DEF TypeTrees
    <3> QED
      BY <3>2
  <2> QED
    BY <2>1, <2>2
<1>4. ASSUME NEW G \in SUBSET U,
             \A u \in U : (\A i \in DOMAIN u.args : u.args[i] \in G) => u \in G
      PROVE  U \subseteq G
  <2>1. ASSUME NEW j \in DOMAIN as PROVE W[j] \subseteq G
    <3> DEFINE H == G \cap W[j]
    <3>1. ASSUME NEW u \in W[j], \A i \in DOMAIN u.args : u.args[i] \in H PROVE u \in H
      BY <1>4, <3>1
    <3>2. H \in SUBSET W[j]
      OBVIOUS
    <3> HIDE DEF H
    <3>3. W[j] \subseteq H
      BY <1>1, <3>1, <3>2 DEF TypeTrees
    <3> QED
      BY <3>3 DEF H
  <2>2. t \in G
    BY <1>1, <1>2, <1>4, <2>1
  <2> QED
    BY <2>1, <2>2
<1>5. TypeTrees(U) /\ t \in U
  <2>1. t \in U
    OBVIOUS
  <2> HIDE DEF U
  <2> QED
    BY <1>3, <1>4, <2>1 DEF TypeTrees
<1> QED
  BY <1>5 DEF IsType, t

LEMMA TypesOfTheCode ==
  /\ KnownType(IntT) /\ KnownType(BoolT) /\ IsType(UnknownT)
  /\ \A t : IsType(t) => KnownType(ListT(t))
  /\ \A ts : IsSeq(ts) /\ (\A i \in DOMAIN ts : IsType(ts[i])) => KnownType(TupleT(ts))
<1>1. IsSeq(<<>>) /\ DOMAIN <<>> = {}
  BY DEF IsSeq
<1>2. IsType(Type("Int", <<>>)) /\ IsType(Type("Bool", <<>>)) /\ IsType(Type("?", <<>>))
  BY <1>1, TypeBuilt
<1>3. ASSUME NEW t, IsType(t) PROVE IsType(Type("List", <<t>>))
  <2> DEFINE s == <<t>>
  <2>1. s \in Seq({t}) /\ DOMAIN s = {1} /\ s[1] = t
    OBVIOUS
  <2>2. IsSeq(s)
    BY <2>1 DEF IsSeq, Range
  <2> HIDE DEF s
  <2>3. IsType(Type("List", s))
    BY <1>3, <2>1, <2>2, TypeBuilt
  <2> QED
    BY <2>3 DEF s
<1>4. ASSUME NEW ts, IsSeq(ts), \A i \in DOMAIN ts : IsType(ts[i]) PROVE IsType(Type("()", ts))
  BY <1>4, TypeBuilt
<1>5. \A n, as : Type(n, as).name = n
  BY DEF Type
<1> QED
  BY <1>2, <1>3, <1>4, <1>5 DEF KnownType, IntT, BoolT, UnknownT, ListT, TupleT

(***************************************************************************)
(* Compatibility, as two orders of its arguments are used.                 *)
(***************************************************************************)
LEMMA CompatibleWithItself ==
  ASSUME FrontEndEquations, NEW t, IsType(t) PROVE Compatible(t, t)
<1>1. Compatible(t, t) <=> CompatibleStep(t, t)
  BY DEF FrontEndEquations
<1> QED
  BY <1>1 DEF CompatibleStep

LEMMA CompatibleBothWays ==
  ASSUME FrontEndEquations, NEW a, NEW b, IsType(a), IsType(b), Compatible(a, b)
  PROVE  Compatible(b, a)
<1>1. PICK S : TypeTrees(S) /\ a \in S
  BY DEF IsType
<1> DEFINE G == {x \in S : \A y : IsType(y) /\ Compatible(x, y) => Compatible(y, x)}
<1>2. ASSUME NEW x \in S, \A i \in DOMAIN x.args : x.args[i] \in G PROVE x \in G
  <2> SUFFICES ASSUME NEW y, IsType(y), Compatible(x, y) PROVE Compatible(y, x)
    OBVIOUS
  <2>1. IsType(x)
    BY <1>1 DEF IsType
  <2>2. (Compatible(x, y) <=> CompatibleStep(x, y)) /\ (Compatible(y, x) <=> CompatibleStep(y, x))
    BY <2>1 DEF FrontEndEquations
  <2>3. CASE x = y \/ UnknownT \in {x, y}
    BY <2>2, <2>3 DEF CompatibleStep
  <2>4. CASE /\ x.name = y.name /\ Len(x.args) = Len(y.args)
             /\ \A i \in DOMAIN x.args : Compatible(x.args[i], y.args[i])
    <3>1. PICK T : TypeTrees(T) /\ y \in T
      BY DEF IsType
    <3>2. IsSeq(x.args) /\ IsSeq(y.args) /\ \A i \in DOMAIN y.args : IsType(y.args[i])
      BY <1>1, <3>1 DEF TypeTrees, IsType
    <3>3. DOMAIN x.args = DOMAIN y.args
      BY <2>4, <3>2, Domain
    <3>4. \A i \in DOMAIN y.args : Compatible(y.args[i], x.args[i])
      BY <1>2, <2>4, <3>2, <3>3
    <3> QED
      BY <2>2, <2>4, <3>4 DEF CompatibleStep
  <2> QED
    BY <2>2, <2>3, <2>4 DEF CompatibleStep
<1>3. S \subseteq G
  <2>1. G \in SUBSET S
    OBVIOUS
  <2> HIDE DEF G
  <2> QED
    BY <1>1, <1>2, <2>1 DEF TypeTrees
<1> QED
  BY <1>1, <1>3

------------------------------------------------------------------------------
(***************************************************************************)
(* Source trees.                                                           *)
(***************************************************************************)
LEMMA BodyIsTree ==
  ASSUME FrontEndEquations, NEW x, IsBody(x)
  PROVE  \E S \in SUBSET SubExprs(x) : SourceTrees(S) /\ x \in S
<1> DEFINE S == {y \in SubExprs(x) : SubExprs(y) \subseteq SubExprs(x)}
           w == [y \in S |-> SubExprs(y)]
<1>1. \A y : y \in SubExprs(y) /\ \A z \in SourceParts(y) : SubExprs(z) \subseteq SubExprs(y)
  <2> TAKE y
  <2>1. SubExprs(y) = {y} \cup UNION {SubExprs(z) : z \in SourceParts(y)}
    BY DEF FrontEndEquations, SubExprsStep, SourceParts
  <2> QED
    BY <2>1
<1>2. ASSUME NEW y \in S
      PROVE  /\ SourceShape(y) /\ IsFiniteSet(w[y])
             /\ \A z \in SourceParts(y) : z \in S /\ w[z] \subseteq w[y] /\ w[z] # w[y]
  <2>1. SourceShape(y) /\ IsFiniteSet(SubExprs(y)) /\ \A z \in SourceParts(y) : y \notin SubExprs(z)
    BY DEF IsBody, SourceParts
  <2>2. ASSUME NEW z \in SourceParts(y)
        PROVE  z \in S /\ SubExprs(z) \subseteq SubExprs(y) /\ SubExprs(z) # SubExprs(y)
    BY <1>1, <2>1
  <2> QED
    BY <2>1, <2>2
<1>3. x \in S /\ S \in SUBSET SubExprs(x)
  BY <1>1
<1> HIDE DEF S, w
<1>4. ASSUME NEW G \in SUBSET S, \A y \in S : SourceParts(y) \subseteq G => y \in G
      PROVE  S \subseteq G
  <2>1. ASSUME NEW y \in S, \A z \in S : w[z] \subseteq w[y] /\ w[z] # w[y] => z \in G
        PROVE  y \in G
    BY <1>2, <1>4, <2>1
  <2>2. \A y \in S : IsFiniteSet(w[y])
    BY <1>2
  <2> QED
    BY <2>1, <2>2, WithinInduction
<1>5. SourceTrees(S)
  <2>1. \A y \in S : SourceShape(y) /\ SourceParts(y) \subseteq S
    BY <1>2
  <2> QED
    BY <1>4, <2>1 DEF SourceTrees
<1> QED
  BY <1>3, <1>5

(* What is built of source trees is one. *)
LEMMA TreeBuilt ==
  ASSUME NEW S, SourceTrees(S), NEW x, SourceShape(x), SourceParts(x) \subseteq S
  PROVE  IsSourceTree(x)
<1> DEFINE U == S \cup {x}
<1>1. ASSUME NEW G \in SUBSET U, \A y \in U : SourceParts(y) \subseteq G => y \in G
      PROVE  U \subseteq G
  <2> DEFINE H == G \cap S
  <2>1. ASSUME NEW y \in S, SourceParts(y) \subseteq H PROVE y \in H
    BY <1>1, <2>1
  <2>2. H \in SUBSET S
    OBVIOUS
  <2> HIDE DEF H
  <2>3. S \subseteq H
    BY <2>1, <2>2 DEF SourceTrees
  <2>4. S \subseteq G
    BY <2>3 DEF H
  <2> QED
    BY <1>1, <2>4
<1>2. \A y \in U : SourceShape(y) /\ SourceParts(y) \subseteq U
  BY DEF SourceTrees
<1>3. x \in U
  OBVIOUS
<1> HIDE DEF U
<1>4. SourceTrees(U)
  BY <1>1, <1>2 DEF SourceTrees
<1> QED
  BY <1>3, <1>4 DEF IsSourceTree

(* The least of some places of a sequence is one of them. *)
LEMMA LeastPlace ==
  ASSUME NEW n \in Nat, NEW S, S \subseteq 1 .. n, S # {}
  PROVE  Min(S) \in S /\ \A i \in S : Min(S) <= i
<1> DEFINE G == {k \in Nat : (\E m \in S : m <= k) => \E x \in S : \A y \in S : x <= y}
<1>1. 0 \in G
  BY SMT
<1>2. \A k \in Nat : k \in G => k + 1 \in G
  <2> SUFFICES ASSUME NEW k \in Nat, k \in G, NEW m \in S, m <= k + 1
               PROVE  \E x \in S : \A y \in S : x <= y
    OBVIOUS
  <2>1. CASE \E y \in S : y <= k
    BY <2>1
  <2>2. CASE ~ \E y \in S : y <= k
    BY <2>2, SMT
  <2> QED
    BY <2>1, <2>2
<1>3. Nat \subseteq G
  <2> HIDE DEF G
  <2> QED
    BY <1>1, <1>2, LengthInduction
<1>4. \E x \in S : \A y \in S : x <= y
  <2>1. PICK m \in S : TRUE
    OBVIOUS
  <2>2. m \in Nat
    BY <2>1
  <2>3. m \in G
    BY <1>3, <2>2
  <2> QED
    BY <2>2, <2>3
<1> QED
  BY <1>4 DEF Min

LEMMA PutInFront ==
  ASSUME NEW s, IsSeq(s), NEW e, NEW u, u = <<e>> \o s
  PROVE  /\ IsSeq(u) /\ u # <<>> /\ Head(u) = e /\ Tail(u) = s
         /\ Len(u) = Len(s) + 1
         /\ u[1] = e /\ \A i \in DOMAIN s : u[i + 1] = s[i]
<1>1. IsSeq(u)
  BY Prepended
<1>2. PICK T : s \in Seq(T) /\ e \in T
  <2>1. s \in Seq(Range(s) \cup {e})
    BY DEF IsSeq
  <2> QED
    BY <2>1
<1>3. /\ Len(u) = Len(s) + 1 /\ Len(s) \in Nat /\ DOMAIN s = 1 .. Len(s)
      /\ u[1] = e /\ \A i \in 1 .. Len(s) : u[i + 1] = s[i]
  BY <1>2
<1>4. u \in Seq(T) /\ u # <<>> /\ Head(u) = e /\ Tail(u) = s
  BY <1>2
<1> QED
  BY <1>1, <1>3, <1>4

------------------------------------------------------------------------------
(***************************************************************************)
(* The tables of a program: all types in them are known, and only what has *)
(* variants has any.                                                       *)
(***************************************************************************)
KnownFields(fs) == IsSeq(fs) /\ \A i \in DOMAIN fs : KnownType(fs[i].ty)

KnownTables(c) ==
  /\ \A n \in DOMAIN c.types :
       /\ n # UnknownT.name
       /\ IsSeq(c.types[n].generics)
       /\ \A v \in DOMAIN Variants(c.types[n]) :
            /\ c.types[n].kind \in {"Enum", "Event", "Query"}
            /\ KnownFields(Variants(c.types[n])[v])
  /\ \A v \in DOMAIN c.owner : c.owner[v] \in DOMAIN c.types
  /\ \A f \in DOMAIN c.fns : KnownType(c.fns[f].ret)

KnownEnv(e) == \A x \in DOMAIN e : KnownType(e[x])

(* c are the tables of b, and what else the checker knows. *)
SameTables(c, b) == c.types = b.types /\ c.owner = b.owner /\ c.fns = b.fns

LEMMA BindKnown ==
  ASSUME NEW e, KnownEnv(e), NEW x, NEW t, KnownType(t)
  PROVE  KnownEnv(Bind(e, x, t))
BY DEF KnownEnv, Bind

LEMMA FieldTypeKnown ==
  ASSUME NEW fs, KnownFields(fs), NEW x, NEW t \in FieldType(fs, x)
  PROVE  KnownType(t)
<1> DEFINE N == {i \in DOMAIN fs : fs[i].name = x}
<1>1. N # {} /\ t = fs[Min(N)].ty
  BY DEF FieldType
<1>2. N \subseteq 1 .. Len(fs) /\ Len(fs) \in Nat
  BY Domain DEF KnownFields
<1>3. N \subseteq DOMAIN fs
  OBVIOUS
<1> HIDE DEF N
<1>4. Min(N) \in N
  BY <1>1, <1>2, LeastPlace
<1> QED
  BY <1>1, <1>3, <1>4 DEF KnownFields

LEMMA TablesKnown ==
  ASSUME FrontEndEquations, NEW p \in Sources
  PROVE  KnownTables(Tables(p))
<1> DEFINE c == Tables(p)
<1>1. /\ IsSeq(p.types) /\ \A i \in DOMAIN p.types : IsDeclaration(p.types[i])
      /\ AreFunctions(p.fns) /\ \A i \in DOMAIN p.fns : IsDeclaredType(p.fns[i].ret)
  BY SourceAssumption DEF Range
<1>2. c.types = ByName(p.types) /\ c.owner = VariantOwner(p.types) /\ c.fns = ByName(p.fns)
  BY DEF Tables
<1> HIDE DEF c
<1>3. DOMAIN NamesIn(p.types) = 1 .. Len(p.types) /\ Len(p.types) \in Nat
  BY <1>1, Domain DEF NamesIn
<1>4. /\ DOMAIN c.types = Range(NamesIn(p.types))
      /\ \A n \in DOMAIN c.types :
           \E i \in DOMAIN p.types : p.types[i].name = n /\ c.types[n] = p.types[i]
  <2>1. /\ DOMAIN c.types = Range(NamesIn(p.types))
        /\ \A n \in Range(NamesIn(p.types)) :
             \E i \in DOMAIN NamesIn(p.types) :
               NamesIn(p.types)[i] = n /\ c.types[n] = p.types[i]
    BY <1>2, <1>3, InsertedValues DEF ByName
  <2> QED
    BY <2>1 DEF NamesIn
<1>5. ASSUME NEW d, IsDeclaration(d), NEW v \in DOMAIN Variants(d)
      PROVE  d.kind \in {"Enum", "Event", "Query"} /\ KnownFields(Variants(d)[v])
  <2> DEFINE names == NamesIn(d.variants)
             vals  == [i \in DOMAIN d.variants |-> d.variants[i].payload]
  <2>1. IsSeq(d.variants) /\ \A i \in DOMAIN d.variants : AreFields(d.variants[i].payload)
    BY <1>5 DEF IsDeclaration
  <2>2. DOMAIN names = 1 .. Len(d.variants) /\ Len(d.variants) \in Nat
    BY <2>1, Domain DEF NamesIn
  <2>3. Variants(d) = InsertAll(names, vals)
    BY DEF Variants
  <2>4. DOMAIN names = DOMAIN d.variants /\ \A i \in DOMAIN d.variants : vals[i] = d.variants[i].payload
    BY DEF NamesIn
  <2> HIDE DEF names, vals
  <2>5. PICK i \in DOMAIN names : Variants(d)[v] = vals[i]
    BY <2>2, <2>3, InsertedValues
  <2>6. AreFields(Variants(d)[v])
    BY <2>1, <2>4, <2>5
  <2>7. d.variants # <<>>
    BY <2>4, <2>5
  <2> QED
    BY <1>5, <2>6, <2>7, DeclaredIsKnown DEF KnownFields, AreFields, IsDeclaration
<1>6. ASSUME NEW n \in DOMAIN c.types
      PROVE  /\ n # UnknownT.name /\ IsSeq(c.types[n].generics)
             /\ \A v \in DOMAIN Variants(c.types[n]) :
                  /\ c.types[n].kind \in {"Enum", "Event", "Query"}
                  /\ KnownFields(Variants(c.types[n])[v])
  <2>1. IsDeclaration(c.types[n]) /\ c.types[n].name = n
    BY <1>1, <1>4
  <2> QED
    BY <1>5, <2>1 DEF IsDeclaration
<1>7. ASSUME NEW v \in DOMAIN c.owner PROVE c.owner[v] \in DOMAIN c.types
  <2> DEFINE D == {i \in DOMAIN p.types : v \in Range(NamesIn(p.types[i].variants))}
  <2>1. /\ DOMAIN c.owner = UNION {Range(NamesIn(p.types[i].variants)) : i \in DOMAIN p.types}
        /\ c.owner[v] = p.types[Max(D)].name
    BY <1>2 DEF VariantOwner
  <2>2. D # {} /\ D \subseteq 1 .. Len(p.types) /\ D \subseteq DOMAIN p.types
    BY <1>1, <2>1, Domain
  <2> HIDE DEF D
  <2>3. Max(D) \in DOMAIN p.types
    BY <1>3, <2>2, GreatestPlace
  <2> QED
    BY <1>4, <2>1, <2>3 DEF Range, NamesIn
<1>8. ASSUME NEW f \in DOMAIN c.fns PROVE KnownType(c.fns[f].ret)
  <2>1. PICK i \in DOMAIN p.fns : c.fns[f] = p.fns[i]
    BY <1>1, <1>2, FunctionsByName
  <2> QED
    BY <1>1, <2>1, DeclaredIsKnown
<1> QED
  BY <1>6, <1>7, <1>8 DEF KnownTables, c

------------------------------------------------------------------------------
(***************************************************************************)
(* Patterns: what the checker passes is lowered to a pattern of the type   *)
(* asked for that binds the same names to the same types, and that the     *)
(* validator passes and reads the same way.                                *)
(***************************************************************************)
NoneBad(e) == [env |-> e, bad |-> {}]

(* n is what q is lowered to, at type t, and the names are e then. *)
PatternTo(b, q, t, e, n, r) ==
  /\ LowerPattern(b, q, t, e) = Pat(n, r.env, {})
  /\ n.ty = t
  /\ IsIrPattern(n) => ValidatePattern(n, t, NoneBad(e)) = NoneBad(r.env)

PatternCarried(c, b, q) ==
  \A e, t :
    LET r == CheckPattern(c, q, t, e)
    IN  KnownEnv(e) /\ KnownType(t) /\ r.bad = {} =>
          KnownEnv(r.env) /\ \E n : PatternTo(b, q, t, e, n, r)

ArePatterns(fs) == \A i \in DOMAIN fs : IsIrPattern(fs[i].pat)

FieldsTo(b, fs, payload, e, ns, r) ==
  /\ LowerFields(b, fs, payload, e) = FieldsResult(TRUE, ns, r.env, {})
  /\ IsSeq(ns)
  /\ ArePatterns(ns) => ValidateFields(ns, NoneBad(e)) = NoneBad(r.env)

FieldsCarried(c, b, fs, payload) ==
  \A e, found, v :
    LET r == CheckFields(c, fs, payload, PatternResult(e, found, v))
    IN  r.bad = {} =>
          /\ found = {}
          /\ KnownEnv(e) => KnownEnv(r.env) /\ \E ns : FieldsTo(b, fs, payload, e, ns, r)

(* The field f of type t, checked where the names are e, has the result r. *)
FieldTo(b, f, t, e, found, v, r) ==
  /\ found = {} /\ r = PatternResult(r.env, {}, v) /\ KnownEnv(r.env)
  /\ \E n : /\ LowerField(b, f, t, e) = Pat(n, r.env, {})
            /\ n.ty = t
            /\ IsIrPattern(n) => ValidatePattern(n, t, NoneBad(e)) = NoneBad(r.env)

FieldCarried(c, b, f) ==
  \A t, e, found, v :
    KnownEnv(e) /\ KnownType(t) /\ CheckField(c, PatternResult(e, found, v), f, {t}).bad = {} =>
      FieldTo(b, f, t, e, found, v, CheckField(c, PatternResult(e, found, v), f, {t}))

LEMMA OneFieldCarried ==
  ASSUME FrontEndEquations, PassEquations, NEW c, NEW b, NEW f,
         \A q \in f.pat : PatternCarried(c, b, q)
  PROVE  FieldCarried(c, b, f)
<1> SUFFICES ASSUME NEW t, NEW e, NEW found, NEW v, KnownEnv(e), KnownType(t),
                    CheckField(c, PatternResult(e, found, v), f, {t}).bad = {}
             PROVE  FieldTo(b, f, t, e, found, v, CheckField(c, PatternResult(e, found, v), f, {t}))
  BY DEF FieldCarried
<1> DEFINE acc == PatternResult(e, found, v)
           r   == CheckField(c, acc, f, {t})
<1> SUFFICES /\ found = {} /\ r = PatternResult(r.env, {}, v) /\ KnownEnv(r.env)
             /\ \E n : /\ LowerField(b, f, t, e) = Pat(n, r.env, {})
                       /\ n.ty = t
                       /\ IsIrPattern(n) => ValidatePattern(n, t, NoneBad(e)) = NoneBad(r.env)
  BY DEF FieldTo
<1>1. (CHOOSE u \in {t} : TRUE) = t /\ r.bad = {}
  OBVIOUS
<1>2. /\ acc.env = e /\ acc.bad = found /\ acc.covers = v
      /\ \A g, s, u : PatternResult(g, s, u).env = g /\ PatternResult(g, s, u).bad = s
  BY DEF PatternResult
<1> HIDE DEF acc
<1>3. CASE f.pat = {}
  <2> DEFINE n == [kind |-> "Binding", name |-> f.name, ty |-> t]
             g == Bind(e, f.name, t)
  <2>1. r = PatternResult(g, found, v)
    BY <1>1, <1>2, <1>3 DEF CheckField
  <2>2. LowerField(b, f, t, e) = Pat(n, g, {})
    BY <1>3 DEF LowerField
  <2>3. n.kind = "Binding" /\ n.name = f.name /\ n.ty = t
    OBVIOUS
  <2>4. ASSUME IsIrPattern(n) PROVE ValidatePattern(n, t, NoneBad(e)) = NoneBad(g)
    <3>1. ValidatePattern(n, t, NoneBad(e)) = ValidatePatternStep(n, t, NoneBad(e))
      BY <2>4 DEF PassEquations
    <3>2. Compatible(t, t)
      BY CompatibleWithItself DEF KnownType
    <3> HIDE DEF n, g
    <3> QED
      BY <2>3, <3>1, <3>2 DEF ValidatePatternStep, Diag, NoneBad, g
  <2>5. KnownEnv(g)
    BY BindKnown
  <2>6. found = {} /\ r.env = g
    <3> HIDE DEF r, g
    <3> QED
      BY <1>1, <2>1 DEF PatternResult
  <2>7. r = PatternResult(r.env, {}, v)
    BY <1>2, <2>1, <2>6
  <2> HIDE DEF n, g, r
  <2> QED
    BY <2>2, <2>3, <2>4, <2>5, <2>6, <2>7 DEF r, acc
<1>4. CASE f.pat # {}
  <2> DEFINE q == CHOOSE q \in f.pat : TRUE
             s == CheckPattern(c, q, t, e)
  <2>1. q \in f.pat
    BY <1>4
  <2>2. r = PatternResult(s.env, found \cup s.bad, v)
    BY <1>1, <1>2, <1>4 DEF CheckField
  <2>3. LowerField(b, f, t, e) = LowerPattern(b, q, t, e)
    BY <1>4 DEF LowerField
  <2> HIDE DEF q
  <2>4. found = {} /\ s.bad = {} /\ r.env = s.env
    <3> HIDE DEF r, s
    <3>1. r.bad = {} /\ r = PatternResult(s.env, found \cup s.bad, v)
      BY <1>1, <2>2
    <3>2. found \cup s.bad = {} /\ r.env = s.env
      BY <3>1 DEF PatternResult
    <3> QED
      BY <3>2
  <2>5. KnownEnv(s.env) /\ \E n : PatternTo(b, q, t, e, n, s)
    BY <2>1, <2>4 DEF PatternCarried
  <2> HIDE DEF s, r
  <2> QED
    BY <2>2, <2>3, <2>4, <2>5 DEF PatternTo, r, acc
<1> QED
  BY <1>3, <1>4

LEMMA FieldsAreCarried ==
  ASSUME WalkEquations, FrontEndEquations, PassEquations, NEW c, NEW b, NEW fs, IsSeq(fs),
         \A i \in DOMAIN fs : \A q \in fs[i].pat : PatternCarried(c, b, q),
         NEW payload, KnownFields(payload)
  PROVE  FieldsCarried(c, b, fs, payload)
<1> DEFINE Good(s) == IsSeq(s) /\ \A i \in DOMAIN s : FieldCarried(c, b, s[i])
           G == {n \in Nat : \A s : Good(s) /\ Len(s) = n => FieldsCarried(c, b, s, payload)}
<1>1. \A s, acc : Good(s) =>
        /\ CheckFields(c, s, payload, acc) = CheckFieldsStep(c, s, payload, acc)
        /\ LowerFields(b, s, payload, acc) = LowerFieldsStep(b, s, payload, acc)
  BY DEF FrontEndEquations
<1>2. ASSUME NEW s, Good(s), s = <<>>
      PROVE  FieldsCarried(c, b, s, payload)
  <2> SUFFICES ASSUME NEW e, NEW found, NEW v,
                      CheckFields(c, s, payload, PatternResult(e, found, v)).bad = {}
               PROVE  LET r == CheckFields(c, s, payload, PatternResult(e, found, v))
                      IN  /\ found = {}
                          /\ KnownEnv(e) =>
                               KnownEnv(r.env) /\ \E ns : FieldsTo(b, s, payload, e, ns, r)
    BY DEF FieldsCarried
  <2> DEFINE r == CheckFields(c, s, payload, PatternResult(e, found, v))
  <2>1. r = PatternResult(e, found, v) /\ r.bad = {}
    BY <1>1, <1>2 DEF CheckFieldsStep
  <2>2. LowerFields(b, s, payload, e) = FieldsResult(TRUE, <<>>, e, {})
    <3>1. LowerFields(b, s, payload, e) = LowerFieldsStep(b, s, payload, e)
      BY <1>1, <1>2
    <3> QED
      BY <1>2, <3>1 DEF LowerFieldsStep
  <2> HIDE DEF r
  <2>3. found = {} /\ r.env = e
    BY <2>1 DEF PatternResult
  <2>4. IsSeq(<<>>)
    BY DEF IsSeq
  <2>5. ValidateFields(<<>>, NoneBad(e)) = NoneBad(e)
    BY <2>4 DEF PassEquations, ValidateFieldsStep
  <2>6. FieldsTo(b, s, payload, e, <<>>, r)
    BY <2>2, <2>3, <2>4, <2>5 DEF FieldsTo
  <2> QED
    BY <2>3, <2>6 DEF r
<1>3. ASSUME NEW s, Good(s), s # <<>>, FieldsCarried(c, b, Tail(s), payload)
      PROVE  FieldsCarried(c, b, s, payload)
  <2> SUFFICES ASSUME NEW e, NEW found, NEW v,
                      CheckFields(c, s, payload, PatternResult(e, found, v)).bad = {}
               PROVE  LET r == CheckFields(c, s, payload, PatternResult(e, found, v))
                      IN  /\ found = {}
                          /\ KnownEnv(e) =>
                               KnownEnv(r.env) /\ \E ns : FieldsTo(b, s, payload, e, ns, r)
    BY DEF FieldsCarried
  <2> DEFINE r    == CheckFields(c, s, payload, PatternResult(e, found, v))
             f    == Head(s)
             type == FieldType(payload, f.name)
             one  == CheckField(c, PatternResult(e, found, v), f, type)
  <2>1. r = CheckFields(c, Tail(s), payload, one) /\ r.bad = {}
    <3>1. r = CheckFieldsStep(c, s, payload, PatternResult(e, found, v))
      BY <1>1, <1>3
    <3> QED
      BY <1>3, <3>1 DEF CheckFieldsStep
  <2>2. IsSeq(s) /\ 1 \in DOMAIN s /\ f = s[1] /\ FieldCarried(c, b, f)
    BY <1>3, Shortened
  <2>3. /\ one = PatternResult(one.env, one.bad, one.covers)
        /\ found \subseteq one.bad
        /\ type = {} => "E-TYPE-002" \in one.bad
    <3> HIDE DEF type, f
    <3> QED
      BY DEF CheckField, PatternResult
  <2>4. one.bad = {}
    <3> HIDE DEF r, one
    <3> QED
      BY <1>3, <2>1, <2>3 DEF FieldsCarried
  <2>5. PICK t : type = {t} /\ KnownType(t)
    <3>1. type = {payload[Min({i \in DOMAIN payload : payload[i].name = f.name})].ty}
      BY <2>3, <2>4 DEF FieldType
    <3> QED
      BY <3>1, FieldTypeKnown
  <2>6. LowerFields(b, s, payload, e) = AfterField(b, s, payload, LowerField(b, f, t, e))
    <3>1. LowerFields(b, s, payload, e) = LowerFieldsStep(b, s, payload, e)
      BY <1>1, <1>3
    <3>2. (CHOOSE u \in type : TRUE) = t /\ type # {}
      BY <2>5
    <3> QED
      BY <1>3, <3>1, <3>2 DEF LowerFieldsStep
  <2>7. one = CheckField(c, PatternResult(e, found, v), f, {t})
    BY <2>5
  <2> HIDE DEF r, f, type, one
  <2>8. found = {}
    BY <2>3, <2>4
  <2>9. ASSUME KnownEnv(e) PROVE KnownEnv(r.env) /\ \E ns : FieldsTo(b, s, payload, e, ns, r)
    <3>1. KnownEnv(one.env)
      BY <2>2, <2>4, <2>5, <2>7, <2>9 DEF FieldCarried, FieldTo
    <3>2. PICK n : /\ LowerField(b, f, t, e) = Pat(n, one.env, {})
                   /\ n.ty = t
                   /\ IsIrPattern(n) => ValidatePattern(n, t, NoneBad(e)) = NoneBad(one.env)
      BY <2>2, <2>4, <2>5, <2>7, <2>9 DEF FieldCarried, FieldTo
    <3>3. KnownEnv(r.env) /\ \E ns : FieldsTo(b, Tail(s), payload, one.env, ns, r)
      BY <1>3, <2>1, <2>3, <3>1 DEF FieldsCarried
    <3>4. PICK ns : FieldsTo(b, Tail(s), payload, one.env, ns, r)
      BY <3>3
    <3> DEFINE g == [name |-> f.name, pat |-> n]
               u == <<g>> \o ns
    <3>5. /\ IsSeq(u) /\ u # <<>> /\ Head(u) = g /\ Tail(u) = ns
          /\ u[1] = g /\ \A i \in DOMAIN ns : u[i + 1] = ns[i]
          /\ Len(u) = Len(ns) + 1
      <4>1. IsSeq(ns)
        BY <3>4 DEF FieldsTo
      <4>2. u = <<g>> \o ns
        OBVIOUS
      <4> HIDE DEF g, u
      <4>3. IsSeq(u) /\ u # <<>>
        BY <4>1, <4>2, PutInFront
      <4>6. Head(u) = g
        BY <4>1, <4>2, PutInFront
      <4>7. Tail(u) = ns
        BY <4>1, <4>2, PutInFront
      <4>4. u[1] = g /\ \A i \in DOMAIN ns : u[i + 1] = ns[i]
        BY <4>1, <4>2, PutInFront
      <4>5. Len(u) = Len(ns) + 1
        BY <4>1, <4>2, PutInFront
      <4> QED
        BY <4>3, <4>4, <4>5, <4>6, <4>7
    <3>6. LowerFields(b, s, payload, e) = FieldsResult(TRUE, u, r.env, {})
      <4>1. /\ LowerField(b, f, t, e).pat = {n} /\ ThePat(LowerField(b, f, t, e)) = n
            /\ LowerField(b, f, t, e).env = one.env /\ LowerField(b, f, t, e).bad = {}
        BY <3>2 DEF Pat, ThePat
      <4>2. LowerFields(b, Tail(s), payload, one.env) = FieldsResult(TRUE, ns, r.env, {})
        BY <3>4 DEF FieldsTo
      <4>3. LowerFields(b, s, payload, e) =
              AddField(f, LowerField(b, f, t, e), FieldsResult(TRUE, ns, r.env, {}))
        BY <2>6, <4>1, <4>2 DEF AfterField, f
      <4> QED
        BY <4>1, <4>3 DEF AddField, FieldsResult
    <3>7. ASSUME ArePatterns(u) PROVE ValidateFields(u, NoneBad(e)) = NoneBad(r.env)
      <4>1. IsIrPattern(n) /\ ArePatterns(ns)
        <5>1. 1 \in DOMAIN u /\ \A i \in DOMAIN ns : i + 1 \in DOMAIN u
          BY <3>4, <3>5, Domain DEF FieldsTo
        <5>2. u[1].pat = n
          BY <3>5
        <5> HIDE DEF u
        <5> QED
          BY <3>5, <3>7, <5>1, <5>2 DEF ArePatterns
      <4>2. ValidateFields(u, NoneBad(e)) = ValidateFields(ns, ValidatePattern(n, t, NoneBad(e)))
        <5>1. ValidateFields(u, NoneBad(e)) = ValidateFieldsStep(u, NoneBad(e))
          BY <3>5 DEF PassEquations
        <5>2. g.pat = n
          OBVIOUS
        <5> HIDE DEF u, g
        <5> QED
          BY <3>2, <3>5, <5>1, <5>2 DEF ValidateFieldsStep
      <4> QED
        BY <3>2, <3>4, <4>1, <4>2 DEF FieldsTo
    <3> HIDE DEF u
    <3>8. FieldsTo(b, s, payload, e, u, r)
      BY <3>5, <3>6, <3>7 DEF FieldsTo
    <3> QED
      BY <3>3, <3>8
  <2> QED
    BY <2>8, <2>9 DEF r
<1>4. 0 \in G
  <2> SUFFICES ASSUME NEW s, Good(s), Len(s) = 0 PROVE FieldsCarried(c, b, s, payload)
    OBVIOUS
  <2>1. s = <<>>
    BY EmptySeq DEF IsSeq
  <2> QED
    BY <1>2, <2>1
<1>5. ASSUME NEW n \in Nat, n \in G PROVE n + 1 \in G
  <2> SUFFICES ASSUME NEW s, Good(s), Len(s) = n + 1 PROVE FieldsCarried(c, b, s, payload)
    OBVIOUS
  <2>1. s # <<>>
    <3>1. Len(s) # 0
      OBVIOUS
    <3> QED
      BY <3>1, EmptySeq
  <2>2. Good(Tail(s)) /\ Len(Tail(s)) = n
    <3>1. Len(s) - 1 = n
      OBVIOUS
    <3> QED
      BY <2>1, <3>1, Shortened
  <2>3. FieldsCarried(c, b, Tail(s), payload)
    BY <1>5, <2>2
  <2> QED
    BY <1>3, <2>1, <2>3
<1>6. Good(fs)
  BY OneFieldCarried
<1>7. Len(fs) \in G
  <2> HIDE DEF G
  <2> QED
    BY <1>4, <1>5, LengthInduction, Domain
<1> QED
  BY <1>6, <1>7

LEMMA VariantCarried ==
  ASSUME WalkEquations, FrontEndEquations, PassEquations, NEW c, NEW b,
         SameTables(c, b), KnownTables(b),
         NEW q, IsSourceTree(q), q.kind = "Variant", IsSeq(q.fields),
         \A i \in DOMAIN q.fields : \A p \in q.fields[i].pat : PatternCarried(c, b, p)
  PROVE  PatternCarried(c, b, q)
<1> SUFFICES ASSUME NEW e, NEW t, KnownEnv(e), KnownType(t), CheckPattern(c, q, t, e).bad = {}
             PROVE  LET r == CheckPattern(c, q, t, e)
                    IN  KnownEnv(r.env) /\ \E n : PatternTo(b, q, t, e, n, r)
  BY DEF PatternCarried
<1> DEFINE r       == CheckPattern(c, q, t, e)
           payload == Variants(c.types[t.name])[q.name]
<1>1. CheckPattern(c, q, t, e) = CheckPatternStep(c, q, t, e)
  BY DEF FrontEndEquations
<1>2. LowerPattern(b, q, t, e) = LowerPatternStep(b, q, t, e)
  BY DEF FrontEndEquations
<1>3. /\ IsNamed(t) /\ t.name \in DOMAIN c.types /\ q.name \in DOMAIN Variants(c.types[t.name])
      /\ r = CheckFields(c, q.fields, payload, PatternResult(e, {}, {q.name}))
  <2>1. /\ PatternResult(e, {"E-TYPE-001"}, {}).bad # {}
        /\ PatternResult(e, {"E-TYPE-002"}, {}).bad # {}
    BY DEF PatternResult
  <2>2. IsNamed(t)
    BY <1>1, <2>1 DEF CheckPatternStep
  <2>3. t.name \in DOMAIN c.types /\ q.name \in DOMAIN Variants(c.types[t.name])
    BY <1>1, <2>1, <2>2 DEF CheckPatternStep
  <2> QED
    BY <1>1, <2>2, <2>3 DEF CheckPatternStep
<1>4. KnownFields(payload) /\ HasVariants(b, t) /\ payload = Variants(b.types[t.name])[q.name]
  BY <1>3 DEF KnownTables, SameTables, HasVariants
<1>5. LowerPattern(b, q, t, e) = VariantPattern(q, t, LowerFields(b, q.fields, payload, e))
  BY <1>2, <1>3, <1>4 DEF LowerPatternStep, SameTables
<1>6. r.bad = {}
  OBVIOUS
<1> HIDE DEF r, payload
<1>7. FieldsCarried(c, b, q.fields, payload)
  BY <1>4, FieldsAreCarried
<1>8. KnownEnv(r.env) /\ \E ns : FieldsTo(b, q.fields, payload, e, ns, r)
  BY <1>3, <1>6, <1>7 DEF FieldsCarried
<1>9. PICK ns : FieldsTo(b, q.fields, payload, e, ns, r)
  BY <1>8
<1> DEFINE n == [kind |-> "Variant", name |-> q.name, fields |-> ns, ty |-> t]
<1>10. LowerPattern(b, q, t, e) = Pat(n, r.env, {})
  BY <1>5, <1>9 DEF FieldsTo, VariantPattern, FieldsResult
<1>11. ASSUME IsIrPattern(n) PROVE ValidatePattern(n, t, NoneBad(e)) = NoneBad(r.env)
  <2>1. n.kind = "Variant" /\ n.fields = ns /\ n.ty = t
    OBVIOUS
  <2>2. ValidatePattern(n, t, NoneBad(e)) = ValidatePatternStep(n, t, NoneBad(e))
    BY <1>11 DEF PassEquations
  <2>3. Compatible(t, t)
    BY CompatibleWithItself DEF KnownType
  <2> HIDE DEF n
  <2>4. ValidatePattern(n, t, NoneBad(e)) = ValidateFields(ns, NoneBad(e))
    BY <2>1, <2>2, <2>3 DEF ValidatePatternStep, Diag, NoneBad
  <2>5. ArePatterns(ns)
    BY <1>11, <2>1, PatternsBelow DEF ArePatterns, PatternParts
  <2> QED
    BY <1>9, <2>4, <2>5 DEF FieldsTo
<1>12. n.ty = t
  OBVIOUS
<1> HIDE DEF n
<1>13. PatternTo(b, q, t, e, n, r)
  BY <1>10, <1>11, <1>12 DEF PatternTo
<1> QED
  BY <1>8, <1>13 DEF r

LEMMA WildcardCarried ==
  ASSUME FrontEndEquations, PassEquations, NEW c, NEW b,
         NEW q, IsSourceTree(q), q.kind = "Wildcard"
  PROVE  PatternCarried(c, b, q)
<1> SUFFICES ASSUME NEW e, NEW t, KnownEnv(e), KnownType(t)
             PROVE  LET r == CheckPattern(c, q, t, e)
                    IN  KnownEnv(r.env) /\ \E n : PatternTo(b, q, t, e, n, r)
  BY DEF PatternCarried
<1> DEFINE r == CheckPattern(c, q, t, e)
           n == [kind |-> "Wildcard", ty |-> t]
<1>1. r.env = e
  <2>1. CheckPattern(c, q, t, e) = CheckPatternStep(c, q, t, e)
    BY DEF FrontEndEquations
  <2> QED
    BY <2>1 DEF CheckPatternStep, PatternResult
<1>2. LowerPattern(b, q, t, e) = Pat(n, e, {})
  <2>1. LowerPattern(b, q, t, e) = LowerPatternStep(b, q, t, e)
    BY DEF FrontEndEquations
  <2> QED
    BY <2>1 DEF LowerPatternStep
<1>3. n.ty = t /\ n.kind = "Wildcard"
  OBVIOUS
<1> HIDE DEF n, r
<1>4. ASSUME IsIrPattern(n) PROVE ValidatePattern(n, t, NoneBad(e)) = NoneBad(e)
  <2>1. ValidatePattern(n, t, NoneBad(e)) = ValidatePatternStep(n, t, NoneBad(e))
    BY <1>4 DEF PassEquations
  <2>2. Compatible(t, t)
    BY CompatibleWithItself DEF KnownType
  <2> QED
    BY <1>3, <2>1, <2>2 DEF ValidatePatternStep, Diag, NoneBad
<1>5. PatternTo(b, q, t, e, n, r)
  BY <1>1, <1>2, <1>3, <1>4 DEF PatternTo
<1> QED
  BY <1>1, <1>5 DEF r

LEMMA PatternsAreCarried ==
  ASSUME WalkEquations, FrontEndEquations, PassEquations, NEW c, NEW b,
         SameTables(c, b), KnownTables(b), NEW S, SourceTrees(S)
  PROVE  \A q \in S : q.kind \in PatternKinds => PatternCarried(c, b, q)
<1> DEFINE G == {x \in S : x.kind \in PatternKinds => PatternCarried(c, b, x)}
<1>1. ASSUME NEW x \in S, SourceParts(x) \subseteq G PROVE x \in G
  <2>1. IsSourceTree(x) /\ SourceShape(x)
    BY DEF IsSourceTree, SourceTrees
  <2>2. CASE x.kind = "Wildcard"
    BY <2>1, <2>2, WildcardCarried
  <2>3. CASE x.kind = "Variant"
    <3>1. ASSUME NEW i \in DOMAIN x.fields, NEW p \in x.fields[i].pat
          PROVE  PatternCarried(c, b, p)
      <4>1. p \in PatternsOf(x)
        BY <2>3, <3>1 DEF PatternsOf
      <4> QED
        BY <1>1, <2>1, <4>1 DEF SourceParts, SourceShape
    <3> QED
      BY <2>1, <2>3, <3>1, VariantCarried DEF SourceShape
  <2> QED
    BY <2>2, <2>3 DEF PatternKinds
<1>2. G \in SUBSET S
  OBVIOUS
<1> HIDE DEF G
<1>3. S \subseteq G
  BY <1>1, <1>2 DEF SourceTrees
<1> QED
  BY <1>3 DEF G

------------------------------------------------------------------------------
(***************************************************************************)
(* Expressions: what the checker reports nothing of has a type that is     *)
(* known, and is lowered, without a report, to IR of that very type, of    *)
(* which the validator reports nothing.  r is what the checker says of an  *)
(* expression, l what it is lowered to, where the names are e.             *)
(***************************************************************************)
SameSigs(sigs, table) ==
  /\ DOMAIN sigs = DOMAIN table
  /\ \A f \in DOMAIN table : sigs[f].types = table[f].types /\ sigs[f].ret = table[f].ret

(* The same tables, three times. *)
Agreeing(c, b, sigs) == SameTables(c, b) /\ KnownTables(b) /\ SameSigs(sigs, b.fns)

CarriedTo(sigs, e, r, l) ==
  r.bad = {} =>
    /\ KnownType(r.ty)
    /\ \E n : /\ l = Lowered(n, {})
              /\ n.ty = r.ty
              /\ IsIrExpr(n) => ValidateExpr(sigs, e, n) = {}

Carried(c, b, sigs, x) ==
  \A e : KnownEnv(e) => CarriedTo(sigs, e, Infer(c, e, x), Lower(b, e, x))

(* The items of an expression, all of which the checker has passed. *)
AllCarried(sigs, e, rs, all) ==
  /\ IsSeq(rs)
  /\ all.ok /\ all.bad = {}
  /\ IsSeq(all.nodes) /\ Len(all.nodes) = Len(rs) /\ DOMAIN all.nodes = DOMAIN rs
  /\ \A i \in DOMAIN rs :
       /\ KnownType(rs[i].ty) /\ all.nodes[i].ty = rs[i].ty
       /\ IsIrExpr(all.nodes[i]) => ValidateExpr(sigs, e, all.nodes[i]) = {}

LEMMA OnePlaceEach ==
  ASSUME NEW s, IsSeq(s), NEW u, DOMAIN u = DOMAIN s, u = [i \in DOMAIN s |-> u[i]]
  PROVE  IsSeq(u) /\ Len(u) = Len(s)
<1>1. DOMAIN u = 1 .. Len(s) /\ Len(s) \in Nat
  BY Domain
<1>2. \A i \in DOMAIN u : u[i] \in Range(u)
  BY DEF Range
<1>3. u \in [1 .. Len(s) -> Range(u)]
  BY <1>1, <1>2
<1>4. u \in Seq(Range(u)) /\ Len(u) = Len(s)
  BY <1>1, <1>3
<1> QED
  BY <1>4 DEF IsSeq

LEMMA AllCollected ==
  ASSUME NEW ls, IsSeq(ls), \A i \in DOMAIN ls : \E n : ls[i] = Lowered(n, {})
  PROVE  /\ Collected(ls).ok /\ Collected(ls).bad = {}
         /\ IsSeq(Collected(ls).nodes) /\ Len(Collected(ls).nodes) = Len(ls)
         /\ DOMAIN Collected(ls).nodes = DOMAIN ls
         /\ \A i \in DOMAIN ls : ls[i] = Lowered(Collected(ls).nodes[i], {})
<1> DEFINE none == {i \in DOMAIN ls : ls[i].node = {}}
           all  == [i \in DOMAIN ls |-> TheNode(ls[i])]
<1>1. \A i \in DOMAIN ls : ls[i].node # {} /\ ls[i].bad = {} /\ ls[i] = Lowered(TheNode(ls[i]), {})
  BY DEF Lowered, TheNode
<1>2. none = {}
  BY <1>1
<1>3. Collected(ls) = [ok |-> TRUE, nodes |-> all, bad |-> UNION {ls[i].bad : i \in DOMAIN ls}]
  <2>1. /\ {i \in DOMAIN ls : \A j \in none : i < j} = DOMAIN ls
        /\ {i \in DOMAIN ls : \A j \in none : i <= j} = DOMAIN ls
    BY <1>2
  <2> QED
    BY <1>2, <2>1 DEF Collected
<1>4. IsSeq(all) /\ Len(all) = Len(ls)
  <2>1. DOMAIN all = DOMAIN ls /\ all = [i \in DOMAIN ls |-> all[i]]
    OBVIOUS
  <2> HIDE DEF all
  <2> QED
    BY <2>1, OnePlaceEach
<1>5. UNION {ls[i].bad : i \in DOMAIN ls} = {}
  BY <1>1
<1> HIDE DEF none
<1> QED
  BY <1>1, <1>3, <1>4, <1>5

LEMMA ItemsCarried ==
  ASSUME NEW c, NEW b, NEW sigs, NEW e, KnownEnv(e),
         NEW xs, IsSeq(xs), \A i \in DOMAIN xs : Carried(c, b, sigs, xs[i]),
         NEW rs, rs = [i \in DOMAIN xs |-> Infer(c, e, xs[i])], AllBad(rs) = {}
  PROVE  AllCarried(sigs, e, rs, LowerAll(b, e, xs))
<1> DEFINE ls == [i \in DOMAIN xs |-> Lower(b, e, xs[i])]
           all == Collected(ls)
<1>1. DOMAIN rs = DOMAIN xs /\ rs = [i \in DOMAIN xs |-> rs[i]] /\ \A i \in DOMAIN xs : rs[i] = Infer(c, e, xs[i])
  OBVIOUS
<1>2. DOMAIN ls = DOMAIN xs /\ ls = [i \in DOMAIN xs |-> ls[i]] /\ \A i \in DOMAIN xs : ls[i] = Lower(b, e, xs[i])
  OBVIOUS
<1>3. \A i \in DOMAIN rs : rs[i].bad = {}
  BY DEF AllBad
<1>4. LowerAll(b, e, xs) = all
  BY DEF LowerAll
<1> HIDE DEF ls
<1>5. IsSeq(rs) /\ Len(rs) = Len(xs) /\ IsSeq(ls) /\ Len(ls) = Len(xs)
  BY <1>1, <1>2, OnePlaceEach
<1>6. ASSUME NEW i \in DOMAIN xs
      PROVE  /\ KnownType(rs[i].ty)
             /\ \E n : /\ ls[i] = Lowered(n, {}) /\ n.ty = rs[i].ty
                       /\ IsIrExpr(n) => ValidateExpr(sigs, e, n) = {}
  BY <1>1, <1>2, <1>3 DEF Carried, CarriedTo
<1>7. /\ all.ok /\ all.bad = {} /\ IsSeq(all.nodes) /\ Len(all.nodes) = Len(ls)
      /\ DOMAIN all.nodes = DOMAIN ls
      /\ \A i \in DOMAIN ls : ls[i] = Lowered(all.nodes[i], {})
  <2>1. \A i \in DOMAIN ls : \E n : ls[i] = Lowered(n, {})
    BY <1>2, <1>6
  <2> QED
    BY <1>5, <2>1, AllCollected
<1>8. \A m, n : Lowered(m, {}) = Lowered(n, {}) => m = n
  BY DEF Lowered
<1>9. ASSUME NEW i \in DOMAIN rs
      PROVE  /\ KnownType(rs[i].ty) /\ all.nodes[i].ty = rs[i].ty
             /\ IsIrExpr(all.nodes[i]) => ValidateExpr(sigs, e, all.nodes[i]) = {}
  <2>1. i \in DOMAIN xs /\ i \in DOMAIN ls
    BY <1>1, <1>2
  <2>2. PICK n : /\ ls[i] = Lowered(n, {}) /\ n.ty = rs[i].ty
                 /\ IsIrExpr(n) => ValidateExpr(sigs, e, n) = {}
    BY <1>6, <2>1
  <2>3. ls[i] = Lowered(all.nodes[i], {})
    BY <1>7, <2>1
  <2>4. n = all.nodes[i]
    <3> HIDE DEF all
    <3> QED
      BY <1>8, <2>2, <2>3
  <2> HIDE DEF all
  <2> QED
    BY <1>6, <2>1, <2>2, <2>4
<1> HIDE DEF all
<1> QED
  BY <1>1, <1>2, <1>4, <1>5, <1>7, <1>9 DEF AllCarried

(* Nothing is reported of the items of what is lowered. *)
LEMMA ItemsValidate ==
  ASSUME WalkEquations, NEW sigs, NEW e, NEW rs, NEW all, AllCarried(sigs, e, rs, all),
         NEW n, IsIrExpr(n), HasKids(n), n.kids = all.nodes
  PROVE  UNION {ValidateExpr(sigs, e, n.kids[i]) : i \in DOMAIN n.kids} = {}
<1>1. \A i \in DOMAIN n.kids : IsIrExpr(n.kids[i])
  BY ExprsBelow, PartsRules
<1>2. \A i \in DOMAIN n.kids : ValidateExpr(sigs, e, n.kids[i]) = {}
  BY <1>1 DEF AllCarried
<1> QED
  BY <1>2

LEMMA ItemTypes ==
  ASSUME NEW sigs, NEW e, NEW rs, NEW all, AllCarried(sigs, e, rs, all)
  PROVE  /\ NodeTypes(all.nodes) = TypesOf(rs)
         /\ IsSeq(TypesOf(rs)) /\ \A i \in DOMAIN TypesOf(rs) : IsType(TypesOf(rs)[i])
<1> DEFINE ts == TypesOf(rs)
<1>1. DOMAIN ts = DOMAIN rs /\ ts = [i \in DOMAIN rs |-> ts[i]] /\ \A i \in DOMAIN rs : ts[i] = rs[i].ty
  BY DEF TypesOf
<1>2. NodeTypes(all.nodes) = TypesOf(rs)
  BY DEF NodeTypes, TypesOf, AllCarried
<1> HIDE DEF ts
<1>3. IsSeq(ts)
  BY <1>1, OnePlaceEach DEF AllCarried
<1> QED
  BY <1>1, <1>2, <1>3 DEF ts, AllCarried, KnownType

LEMMA TupleCarried ==
  ASSUME WalkEquations, FrontEndEquations, PassEquations,
         NEW sigs, NEW e, NEW rs, NEW all, AllCarried(sigs, e, rs, all)
  PROVE  CarriedTo(sigs, e, Typed(TupleT(TypesOf(rs)), AllBad(rs)),
                 Lowered([kind |-> "Tuple", kids |-> all.nodes,
                          ty |-> TupleT(NodeTypes(all.nodes))], all.bad))
<1> DEFINE t == TupleT(TypesOf(rs))
           n == [kind |-> "Tuple", kids |-> all.nodes, ty |-> TupleT(NodeTypes(all.nodes))]
<1>1. KnownType(t)
  BY ItemTypes, TypesOfTheCode
<1>2. n.kind = "Tuple" /\ n.kids = all.nodes /\ n.ty = t
  BY ItemTypes
<1>3. Typed(t, AllBad(rs)).ty = t
  BY DEF Typed
<1> HIDE DEF t, n
<1>4. ASSUME IsIrExpr(n) PROVE ValidateExpr(sigs, e, n) = {}
  <2>1. ValidateExpr(sigs, e, n) = ValidateExprStep(sigs, e, n)
    BY <1>4 DEF PassEquations
  <2>2. UNION {ValidateExpr(sigs, e, n.kids[i]) : i \in DOMAIN n.kids} = {}
    BY <1>2, <1>4, ItemsValidate DEF HasKids
  <2>3. Compatible(t, t)
    BY <1>1, CompatibleWithItself DEF KnownType
  <2>4. TupleT([i \in DOMAIN n.kids |-> n.kids[i].ty]) = t
    BY <1>2, ItemTypes DEF t, NodeTypes
  <2> QED
    BY <1>2, <2>1, <2>2, <2>3, <2>4 DEF ValidateExprStep, Diag
<1>5. all.bad = {}
  BY DEF AllCarried
<1> QED
  BY <1>1, <1>2, <1>3, <1>4, <1>5 DEF CarriedTo, t, n

LEMMA ListCarried ==
  ASSUME WalkEquations, FrontEndEquations, PassEquations,
         NEW sigs, NEW e, NEW rs, NEW all, AllCarried(sigs, e, rs, all)
  PROVE  InferList(rs).bad = {} => CarriedTo(sigs, e, InferList(rs), LowerList(all))
<1> DEFINE known == {i \in DOMAIN rs : rs[i].ty # UnknownT}
           item  == IF known = {} THEN UnknownT ELSE rs[Min(known)].ty
           first == IF all.nodes = <<>> THEN UnknownT ELSE all.nodes[1].ty
           n     == [kind |-> "List", kids |-> all.nodes, ty |-> ListT(first)]
<1>1. known = DOMAIN rs /\ DOMAIN rs = 1 .. Len(rs) /\ Len(rs) \in Nat /\ DOMAIN all.nodes = DOMAIN rs
  BY Domain DEF AllCarried, KnownType
<1>2. all.nodes = <<>> <=> Len(rs) = 0
  BY EmptySeq DEF AllCarried, IsSeq
<1>3. item = first /\ IsType(item)
  <2>1. CASE Len(rs) = 0
    <3>1. known = {}
      BY <1>1, <2>1
    <3> QED
      BY <1>2, <2>1, <3>1, TypesOfTheCode
  <2>2. CASE Len(rs) # 0
    <3>1. 1 \in known /\ known \subseteq 1 .. Len(rs)
      BY <1>1, <2>2
    <3> HIDE DEF known
    <3>2. Min(known) \in known /\ Min(known) <= 1
      BY <1>1, <3>1, LeastPlace
    <3>3. Min(known) = 1
      BY <1>1, <3>1, <3>2
    <3>4. known # {} /\ all.nodes # <<>> /\ 1 \in DOMAIN rs
      BY <1>1, <1>2, <2>2, <3>1
    <3> QED
      BY <3>3, <3>4 DEF AllCarried, KnownType
  <2> QED
    BY <2>1, <2>2
<1>4. InferList(rs).ty = ListT(item)
  BY DEF InferList, Typed
<1>5. LowerList(all) = Lowered(n, {})
  BY DEF LowerList, AllCarried
<1>6. n.kind = "List" /\ n.kids = all.nodes /\ n.ty = ListT(first)
  OBVIOUS
<1> HIDE DEF known, item, n
<1>7. KnownType(ListT(item))
  BY <1>3, TypesOfTheCode
<1>8. ASSUME IsIrExpr(n) PROVE ValidateExpr(sigs, e, n) = {}
  <2>1. ValidateExpr(sigs, e, n) = ValidateExprStep(sigs, e, n)
    BY <1>8 DEF PassEquations
  <2>2. UNION {ValidateExpr(sigs, e, n.kids[i]) : i \in DOMAIN n.kids} = {}
    BY <1>6, <1>8, ItemsValidate DEF HasKids
  <2>3. Compatible(ListT(first), ListT(first))
    BY <1>3, <1>7, CompatibleWithItself DEF KnownType
  <2>4. ListT(IF n.kids = <<>> THEN UnknownT
              ELSE [i \in DOMAIN n.kids |-> n.kids[i].ty][1]) = ListT(first)
    BY <1>1, <1>2, <1>6
  <2> HIDE DEF first
  <2> QED
    BY <1>6, <2>1, <2>2, <2>3, <2>4 DEF ValidateExprStep, Diag
<1> HIDE DEF first
<1> QED
  BY <1>3, <1>4, <1>5, <1>6, <1>7, <1>8 DEF CarriedTo

LEMMA RecordCarried ==
  ASSUME WalkEquations, FrontEndEquations, PassEquations,
         NEW c, NEW b, NEW sigs, Agreeing(c, b, sigs),
         NEW e, NEW rs, NEW all, AllCarried(sigs, e, rs, all), NEW x
  PROVE  CarriedTo(sigs, e, InferRecord(c, x, rs), LowerRecord(b, x, all))
<1> SUFFICES ASSUME InferRecord(c, x, rs).bad = {}
             PROVE  CarriedTo(sigs, e, InferRecord(c, x, rs), LowerRecord(b, x, all))
  BY DEF CarriedTo
<1> DEFINE con == CHOOSE r \in Constructed(b, x.name) : TRUE
           t   == ConstructedType(b, con)
           n   == [kind |-> "Record", name |-> x.name, names |-> x.names,
                   kids |-> all.nodes, ty |-> t]
<1>1. /\ \A k : Constructed(c, k) = Constructed(b, k) /\ ConstructedType(c, k) = ConstructedType(b, k)
      /\ \A k, u : IsGenericParam(c, k, u) = IsGenericParam(b, k, u)
  BY DEF Agreeing, SameTables, Constructed, ConstructedType, IsGenericParam
<1>2. \A k, u, v : FieldAccepts(c, k, u, v) = FieldAccepts(b, k, u, v)
  BY <1>1 DEF FieldAccepts
<1>3. Constructed(b, x.name) # {}
  <2>1. Typed(UnknownT, {"E-TYPE-002"}).bad # {}
    BY DEF Typed
  <2> QED
    BY <1>1, <2>1 DEF InferRecord
<1>4. con \in Constructed(b, x.name) /\ con.type \in DOMAIN b.types
  <2>1. \A r \in Constructed(b, x.name) : r.type \in DOMAIN b.types
    BY DEF Constructed, Agreeing, KnownTables
  <2> QED
    BY <1>3, <2>1
<1> DEFINE wrong(i) ==
             When(FieldType(con.fields, x.names[i]) = {}, "E-TYPE-002") \cup
             When(\E u \in FieldType(con.fields, x.names[i]) : ~FieldAccepts(c, con, u, rs[i].ty),
                  "E-TYPE-001")
<1>5. InferRecord(c, x, rs) = Typed(t, AllBad(rs) \cup UNION {wrong(i) : i \in DOMAIN rs})
  <2> DEFINE own == CHOOSE r \in Constructed(c, x.name) : TRUE
  <2>1. own = con /\ Constructed(c, x.name) # {}
    BY <1>1, <1>3
  <2>2. InferRecord(c, x, rs) =
          Typed(ConstructedType(c, own),
                AllBad(rs) \cup
                UNION {When(FieldType(own.fields, x.names[i]) = {}, "E-TYPE-002") \cup
                       When(\E u \in FieldType(own.fields, x.names[i]) :
                              ~FieldAccepts(c, own, u, rs[i].ty), "E-TYPE-001") : i \in DOMAIN rs})
    BY <2>1, Zenon DEF InferRecord
  <2>3. ConstructedType(c, con) = t
    BY <1>1
  <2> HIDE DEF con, own, t
  <2> QED
    BY <2>1, <2>2, <2>3
<1>6. /\ InferRecord(c, x, rs).ty = t
      /\ \A i \in DOMAIN rs : \A u \in FieldType(con.fields, x.names[i]) :
           FieldAccepts(b, con, u, rs[i].ty)
  <2>1. \A i \in DOMAIN rs : wrong(i) = {}
    <3> HIDE DEF t, con, wrong
    <3> QED
      BY <1>5 DEF Typed
  <2>2. InferRecord(c, x, rs).ty = t
    <3> HIDE DEF t, con, wrong
    <3> QED
      BY <1>5 DEF Typed
  <2> HIDE DEF t, con
  <2> QED
    BY <1>2, <2>1, <2>2 DEF When
<1> HIDE DEF wrong
<1>7. LowerRecord(b, x, all) = Lowered(n, {})
  <2>1. ~ \E i \in DOMAIN all.nodes : \E u \in FieldType(con.fields, x.names[i]) :
            ~FieldAccepts(b, con, u, all.nodes[i].ty)
    <3> HIDE DEF con
    <3> QED
      BY <1>6 DEF AllCarried
  <2> QED
    BY <1>3, <2>1 DEF LowerRecord, Reported, AllCarried
<1>8. KnownType(t)
  <2> DEFINE gs == b.types[con.type].generics
             as == [i \in DOMAIN gs |-> UnknownT]
  <2>1. IsSeq(gs) /\ con.type # UnknownT.name
    BY <1>4 DEF Agreeing, KnownTables
  <2>2. DOMAIN as = DOMAIN gs /\ as = [i \in DOMAIN gs |-> as[i]] /\ \A i \in DOMAIN as : as[i] = UnknownT
    OBVIOUS
  <2>3. t = Type(con.type, as)
    BY DEF ConstructedType
  <2> HIDE DEF as, gs, t, con
  <2>4. IsSeq(as)
    BY <2>1, <2>2, OnePlaceEach
  <2>5. IsType(t)
    BY <2>2, <2>3, <2>4, TypesOfTheCode, TypeBuilt
  <2>6. t.name = con.type
    BY <2>3 DEF Type
  <2> QED
    BY <2>1, <2>5, <2>6 DEF KnownType
<1>9. n.kind = "Record" /\ n.kids = all.nodes /\ n.ty = t
  OBVIOUS
<1> HIDE DEF n, t
<1>10. ASSUME IsIrExpr(n) PROVE ValidateExpr(sigs, e, n) = {}
  <2>1. ValidateExpr(sigs, e, n) = ValidateExprStep(sigs, e, n)
    BY <1>10 DEF PassEquations
  <2>2. UNION {ValidateExpr(sigs, e, n.kids[i]) : i \in DOMAIN n.kids} = {}
    BY <1>9, <1>10, ItemsValidate DEF HasKids
  <2> QED
    BY <1>9, <2>1, <2>2 DEF ValidateExprStep
<1> QED
  BY <1>6, <1>7, <1>8, <1>9, <1>10 DEF CarriedTo

LEMMA BinaryCarried ==
  ASSUME WalkEquations, FrontEndEquations, PassEquations,
         NEW sigs, NEW e, NEW rs, NEW all, AllCarried(sigs, e, rs, all), NEW x
  PROVE  CarriedTo(sigs, e, InferBinary(rs), LowerBinary(x, all))
<1> SUFFICES ASSUME InferBinary(rs).bad = {}
             PROVE  CarriedTo(sigs, e, InferBinary(rs), LowerBinary(x, all))
  BY DEF CarriedTo
<1> DEFINE n == [kind |-> "Binary", op |-> x.op, kids |-> all.nodes, ty |-> IntT]
<1>1. /\ InferBinary(rs).ty = IntT
      /\ \A i \in DOMAIN rs : Compatible(rs[i].ty, IntT)
  BY DEF InferBinary, Typed, When
<1>2. DOMAIN all.nodes = DOMAIN rs /\ \A i \in DOMAIN rs : Compatible(all.nodes[i].ty, IntT)
  BY <1>1 DEF AllCarried
<1>3. LowerBinary(x, all) = Lowered(n, {})
  BY <1>2 DEF LowerBinary, Reported, AllCarried
<1>4. n.kind = "Binary" /\ n.kids = all.nodes /\ n.ty = IntT
  OBVIOUS
<1> HIDE DEF n
<1>5. ASSUME IsIrExpr(n) PROVE ValidateExpr(sigs, e, n) = {}
  <2>1. ValidateExpr(sigs, e, n) = ValidateExprStep(sigs, e, n)
    BY <1>5 DEF PassEquations
  <2>2. UNION {ValidateExpr(sigs, e, n.kids[i]) : i \in DOMAIN n.kids} = {}
    BY <1>4, <1>5, ItemsValidate DEF HasKids
  <2>3. \A t \in Range([i \in DOMAIN n.kids |-> n.kids[i].ty]) \cup {n.ty} : Compatible(t, IntT)
    <3>1. Compatible(IntT, IntT)
      BY TypesOfTheCode, CompatibleWithItself DEF KnownType
    <3> QED
      BY <1>2, <1>4, <3>1 DEF Range
  <2> QED
    BY <1>4, <2>1, <2>2, <2>3 DEF ValidateExprStep, Diag
<1> QED
  BY <1>1, <1>3, <1>4, <1>5, TypesOfTheCode DEF CarriedTo

LEMMA CallCarried ==
  ASSUME WalkEquations, FrontEndEquations, PassEquations,
         NEW c, NEW b, NEW sigs, Agreeing(c, b, sigs),
         NEW e, NEW rs, NEW all, AllCarried(sigs, e, rs, all), NEW x,
         InferCall(c, x, rs).bad = {}
  PROVE  x.callee # {} /\ CarriedTo(sigs, e, InferCall(c, x, rs), LowerCall(b, x, all))
<1> DEFINE f   == CHOOSE f \in x.callee : TRUE
           sig == b.fns[f]
           n   == [kind |-> "Call", callee |-> f, kids |-> all.nodes, ty |-> sig.ret]
<1>1. \A t, d : Impure(c, d) # {} /\ Typed(t, d).bad = d /\ Typed(t, d).ty = t
  BY DEF Impure, Typed
<1>2. x.callee # {}
  <2> SUFFICES ASSUME x.callee = {} PROVE FALSE
    OBVIOUS
  <2>1. InferCall(c, x, rs) = Typed(UnknownT, Impure(c, "E-PURE-002"))
    BY DEF InferCall
  <2> QED
    BY <1>1, <2>1
<1>3. f \notin Forbidden
  <2> SUFFICES ASSUME f \in Forbidden PROVE FALSE
    OBVIOUS
  <2>1. InferCall(c, x, rs) = Typed(UnknownT, AllBad(rs) \cup Impure(c, "E-PURE-001"))
    BY <1>2 DEF InferCall
  <2> QED
    BY <1>1, <2>1
<1>4. f \in DOMAIN c.fns
  <2> SUFFICES ASSUME f \notin DOMAIN c.fns PROVE FALSE
    OBVIOUS
  <2>1. InferCall(c, x, rs) = Typed(UnknownT, AllBad(rs) \cup Impure(c, "E-PURE-002"))
    BY <1>2, <1>3 DEF InferCall
  <2> QED
    BY <1>1, <2>1
<1>5. c.fns = b.fns /\ f \in DOMAIN b.fns
  BY <1>4 DEF Agreeing, SameTables
<1>6. InferCall(c, x, rs) =
        Typed(sig.ret,
              AllBad(rs) \cup
              When(\/ Len(rs) # Len(sig.types)
                   \/ \E i \in DOMAIN rs \cap DOMAIN sig.types : ~Compatible(rs[i].ty, sig.types[i]),
                   "E-TYPE-001"))
  BY <1>2, <1>3, <1>5 DEF InferCall
<1> HIDE DEF f
<1>7. /\ InferCall(c, x, rs).ty = sig.ret
      /\ Len(rs) = Len(sig.types)
      /\ \A i \in DOMAIN rs \cap DOMAIN sig.types : Compatible(rs[i].ty, sig.types[i])
  BY <1>6 DEF Typed, When
<1>8. /\ Len(all.nodes) = Len(sig.types) /\ DOMAIN all.nodes = DOMAIN rs
      /\ \A i \in DOMAIN all.nodes \cap DOMAIN sig.types :
           Compatible(all.nodes[i].ty, sig.types[i])
  BY <1>7 DEF AllCarried
<1>9. LowerCall(b, x, all) = Lowered(n, {})
  BY <1>5, <1>8 DEF LowerCall, Reported, AllCarried, f
<1>10. KnownType(sig.ret)
  BY <1>5 DEF Agreeing, KnownTables
<1>11. n.kind = "Call" /\ n.callee = f /\ n.kids = all.nodes /\ n.ty = sig.ret
  OBVIOUS
<1> HIDE DEF n
<1>12. ASSUME IsIrExpr(n) PROVE ValidateExpr(sigs, e, n) = {}
  <2>1. ValidateExpr(sigs, e, n) = ValidateExprStep(sigs, e, n)
    BY <1>12 DEF PassEquations
  <2>2. UNION {ValidateExpr(sigs, e, n.kids[i]) : i \in DOMAIN n.kids} = {}
    BY <1>11, <1>12, ItemsValidate DEF HasKids
  <2>3. f \in DOMAIN sigs /\ sigs[f].types = sig.types /\ sigs[f].ret = sig.ret
    BY <1>5 DEF Agreeing, SameSigs
  <2>4. Compatible(sig.ret, sig.ret)
    BY <1>10, CompatibleWithItself DEF KnownType
  <2>5. ValidateCall(sigs, n) = {}
    BY <1>8, <1>11, <2>3, <2>4 DEF ValidateCall, Diag
  <2> QED
    BY <1>11, <2>1, <2>2, <2>5 DEF ValidateExprStep
<1> QED
  BY <1>2, <1>7, <1>9, <1>10, <1>11, <1>12 DEF CarriedTo

(* A name, a number or a truth value. *)
LEMMA LeafCarried ==
  ASSUME FrontEndEquations, PassEquations, NEW sigs, NEW e, KnownEnv(e),
         NEW t, KnownType(t), NEW n, n.ty = t,
         \/ n.kind = "LocalRef" /\ n.name \in DOMAIN e /\ t = e[n.name]
         \/ n.kind = "Int" /\ t = IntT
         \/ n.kind = "Bool" /\ t = BoolT
  PROVE  CarriedTo(sigs, e, Typed(t, {}), Lowered(n, {}))
<1>1. Compatible(t, t)
  BY CompatibleWithItself DEF KnownType
<1>2. ASSUME IsIrExpr(n) PROVE ValidateExpr(sigs, e, n) = {}
  <2>1. ValidateExpr(sigs, e, n) = ValidateExprStep(sigs, e, n)
    BY <1>2 DEF PassEquations
  <2> QED
    BY <1>1, <2>1 DEF ValidateExprStep, ValidateRef, Diag
<1>3. Typed(t, {}).ty = t
  BY DEF Typed
<1> QED
  BY <1>2, <1>3 DEF CarriedTo

------------------------------------------------------------------------------
(***************************************************************************)
(* Blocks, statement by statement.  What is left of a block is a tree too. *)
(***************************************************************************)
WholeBlock(c, b, sigs, S, x) ==
  /\ x.kind = "Block" /\ SourceShape(x) /\ SourceParts(x) \subseteq S
  /\ x.tail # {}
  /\ \A y \in ExprsIn(x) : Carried(c, b, sigs, y)

LEMMA BlockUnfolded ==
  ASSUME FrontEndEquations, NEW S, SourceTrees(S),
         NEW x, x.kind = "Block", SourceShape(x), SourceParts(x) \subseteq S, NEW c, NEW e
  PROVE  Infer(c, e, x) = InferBlock(c, e, x) /\ Lower(c, e, x) = LowerBlock(c, e, x)
<1>1. IsSourceTree(x)
  BY TreeBuilt
<1>2. Infer(c, e, x) = InferStep(c, e, x) /\ Lower(c, e, x) = LowerStep(c, e, x)
  BY <1>1 DEF FrontEndEquations
<1>3. \A rs : InferFrom(c, e, x, rs) = InferBlock(c, e, x)
  BY DEF InferFrom
<1>4. \A all : LowerFrom(c, e, x, all) = LowerBlock(c, e, x)
  BY DEF LowerFrom
<1> QED
  BY <1>2, <1>3, <1>4 DEF InferStep, LowerStep

LEMMA RemainingIsWhole ==
  ASSUME NEW c, NEW b, NEW sigs, NEW S, NEW x, WholeBlock(c, b, sigs, S, x), x.statements # <<>>
  PROVE  /\ WholeBlock(c, b, sigs, S, Remaining(x))
         /\ Len(Remaining(x).statements) = Len(x.statements) - 1
         /\ Head(x.statements).kind \in {"Let", "Return"}
         /\ Carried(c, b, sigs, Head(x.statements).value)
<1> DEFINE y == Remaining(x)
<1>1. y.kind = "Block" /\ y.statements = Tail(x.statements) /\ y.tail = x.tail
  BY DEF Remaining
<1>2. /\ x.kind = "Block" /\ IsSeq(x.statements)
      /\ \A s \in Range(x.statements) : s.kind \in {"Let", "Return"}
      /\ \A z \in ExprsIn(x) : z.kind \in ExprKinds /\ z \in S /\ Carried(c, b, sigs, z)
  BY DEF WholeBlock, SourceShape, SourceParts
<1>3. /\ IsSeq(Tail(x.statements)) /\ Len(Tail(x.statements)) = Len(x.statements) - 1
      /\ 1 \in DOMAIN x.statements /\ Head(x.statements) = x.statements[1]
      /\ \A i \in DOMAIN Tail(x.statements) :
           i + 1 \in DOMAIN x.statements /\ Tail(x.statements)[i] = x.statements[i + 1]
  BY <1>2, Shortened
<1> HIDE DEF y
<1>4. /\ ExprsIn(x) = x.tail \cup {x.statements[i].value : i \in DOMAIN x.statements}
      /\ ExprsIn(y) = y.tail \cup {y.statements[i].value : i \in DOMAIN y.statements}
      /\ PatternsOf(y) = {}
  BY <1>1, <1>2 DEF ExprsIn, PatternsOf, ItemKinds
<1>5. ExprsIn(y) \subseteq ExprsIn(x)
  BY <1>1, <1>3, <1>4
<1>6. SourceShape(y)
  <2>1. \A s \in Range(y.statements) : s.kind \in {"Let", "Return"}
    BY <1>1, <1>2, <1>3 DEF Range
  <2> QED
    BY <1>1, <1>2, <1>3, <1>4, <1>5, <2>1 DEF SourceShape, ItemKinds
<1>7. WholeBlock(c, b, sigs, S, y)
  BY <1>1, <1>2, <1>4, <1>5, <1>6 DEF WholeBlock, SourceParts
<1>8. Head(x.statements).kind \in {"Let", "Return"} /\ Head(x.statements).value \in ExprsIn(x)
  BY <1>2, <1>3, <1>4 DEF Range
<1> QED
  BY <1>1, <1>2, <1>3, <1>7, <1>8 DEF y

LEMMA LetCarried ==
  ASSUME WalkEquations, FrontEndEquations, PassEquations, NEW c, NEW b, NEW sigs,
         NEW S, SourceTrees(S), NEW x, WholeBlock(c, b, sigs, S, x), x.statements # <<>>,
         Carried(c, b, sigs, Remaining(x))
  PROVE  Carried(c, b, sigs, x)
<1> SUFFICES ASSUME NEW e, KnownEnv(e), Infer(c, e, x).bad = {}
             PROVE  CarriedTo(sigs, e, Infer(c, e, x), Lower(b, e, x))
  BY DEF Carried, CarriedTo
<1> DEFINE s == Head(x.statements)
           r == Infer(c, e, s.value)
           g == Bind(e, s.name, r.ty)
           k == Infer(c, g, Remaining(x))
<1>1. Infer(c, e, x) = InferBlock(c, e, x) /\ Lower(b, e, x) = LowerBlock(b, e, x)
  BY BlockUnfolded DEF WholeBlock
<1>2. Infer(c, e, x) = AfterStatement(c, e, x, s, r) /\ Lower(b, e, x) = LowerStatement(b, e, x, s)
  BY <1>1 DEF InferBlock, LowerBlock
<1>3. s.kind \in {"Let", "Return"} /\ Carried(c, b, sigs, s.value)
  BY RemainingIsWhole
<1> HIDE DEF r
<1>4. s.kind = "Let"
  <2> SUFFICES ASSUME s.kind = "Return" PROVE FALSE
    BY <1>3
  <2>1. Infer(c, e, x) = AlsoBad(Infer(c, e, Remaining(x)), r.bad \cup {"E-FN-003"})
    BY <1>2 DEF AfterStatement
  <2> QED
    BY <2>1 DEF AlsoBad, Typed
<1>5. Infer(c, e, x) = AlsoBad(k, r.bad)
  BY <1>2, <1>4 DEF AfterStatement
<1> HIDE DEF k, g, s
<1>6. r.bad = {} /\ k.bad = {} /\ Infer(c, e, x).ty = k.ty
  BY <1>5 DEF AlsoBad, Typed
<1>7. PICK v : /\ KnownType(r.ty) /\ Lower(b, e, s.value) = Lowered(v, {}) /\ v.ty = r.ty
               /\ IsIrExpr(v) => ValidateExpr(sigs, e, v) = {}
  BY <1>3, <1>6 DEF Carried, CarriedTo, r
<1>8. KnownEnv(g)
  BY <1>7, BindKnown DEF g
<1>9. PICK m : /\ KnownType(k.ty) /\ Lower(b, g, Remaining(x)) = Lowered(m, {}) /\ m.ty = k.ty
               /\ IsIrExpr(m) => ValidateExpr(sigs, g, m) = {}
  BY <1>6, <1>8 DEF Carried, CarriedTo, k
<1> DEFINE n == [kind |-> "Let", name |-> s.name, value |-> v, body |-> m, ty |-> m.ty]
<1>10. Lower(b, e, x) = Lowered(n, {})
  <2>1. \A u : TheNode(Lowered(u, {})) = u /\ Lowered(u, {}).node # {} /\ Lowered(u, {}).bad = {}
    BY DEF Lowered, TheNode
  <2>2. Lower(b, e, x) = LowerLet(b, e, x, s, Lowered(v, {}))
    BY <1>2, <1>4, <1>7 DEF LowerStatement
  <2>3. InScope(e, s, Lowered(v, {})) = g
    BY <1>7, <2>1 DEF InScope, g
  <2>4. Lower(b, e, x) = AroundRest(s, Lowered(v, {}), Lowered(m, {}))
    BY <1>9, <2>1, <2>2, <2>3 DEF LowerLet
  <2> DEFINE made(p, q) == [kind |-> "Let", name |-> s.name, value |-> p, body |-> q, ty |-> q.ty]
             lv == Lowered(v, {})
             lm == Lowered(m, {})
  <2>5. Lower(b, e, x) = Lowered(made(TheNode(lv), TheNode(lm)), lv.bad \cup lm.bad)
    <3>1. lm.node # {}
      BY <2>1
    <3> HIDE DEF lv, lm
    <3> QED
      BY <2>4, <3>1 DEF AroundRest, lv, lm
  <2>6. TheNode(lv) = v /\ TheNode(lm) = m /\ lv.bad \cup lm.bad = {}
    BY <2>1
  <2> HIDE DEF lv, lm
  <2>7. Lower(b, e, x) = Lowered(made(v, m), {})
    <3> HIDE DEF made
    <3> QED
      BY <2>5, <2>6
  <2> QED
    BY <2>7
<1>11. n.kind = "Let" /\ n.name = s.name /\ n.value = v /\ n.body = m /\ n.ty = m.ty
  OBVIOUS
<1> HIDE DEF n
<1>12. ASSUME IsIrExpr(n) PROVE ValidateExpr(sigs, e, n) = {}
  <2>1. ValidateExpr(sigs, e, n) = ValidateExprStep(sigs, e, n)
    BY <1>12 DEF PassEquations
  <2>2. IsIrExpr(v) /\ IsIrExpr(m)
    BY <1>11, <1>12, ExprsBelow, PartsRules
  <2>3. Compatible(m.ty, m.ty)
    BY <1>9, CompatibleWithItself DEF KnownType
  <2>4. Bind(e, n.name, n.value.ty) = g
    BY <1>7, <1>11 DEF g
  <2> QED
    BY <1>7, <1>9, <1>11, <2>1, <2>2, <2>3, <2>4 DEF ValidateExprStep, Diag
<1> QED
  BY <1>6, <1>9, <1>10, <1>11, <1>12 DEF CarriedTo

LEMMA BlockCarried ==
  ASSUME WalkEquations, FrontEndEquations, PassEquations, NEW c, NEW b, NEW sigs,
         NEW S, SourceTrees(S), NEW x, WholeBlock(c, b, sigs, S, x)
  PROVE  Carried(c, b, sigs, x)
<1> DEFINE G == {n \in Nat : \A y : WholeBlock(c, b, sigs, S, y) /\ Len(y.statements) = n
                                      => Carried(c, b, sigs, y)}
<1>1. 0 \in G
  <2> SUFFICES ASSUME NEW y, WholeBlock(c, b, sigs, S, y), Len(y.statements) = 0
               PROVE  Carried(c, b, sigs, y)
    OBVIOUS
  <2>1. y.statements = <<>>
    BY EmptySeq DEF WholeBlock, SourceShape, IsSeq
  <2> DEFINE t == CHOOSE t \in y.tail : TRUE
  <2>2. t \in ExprsIn(y)
    BY DEF WholeBlock, ExprsIn, ItemKinds
  <2>3. \A e : Infer(c, e, y) = Infer(c, e, t) /\ Lower(b, e, y) = Lower(b, e, t)
    <3> TAKE e
    <3>1. Infer(c, e, y) = InferBlock(c, e, y) /\ Lower(b, e, y) = LowerBlock(b, e, y)
      BY BlockUnfolded DEF WholeBlock
    <3> QED
      BY <2>1, <3>1 DEF InferBlock, InferTail, LowerBlock, LowerTail, WholeBlock
  <2> HIDE DEF t
  <2>4. Carried(c, b, sigs, t)
    BY <2>2 DEF WholeBlock
  <2> QED
    BY <2>3, <2>4 DEF Carried
<1>2. ASSUME NEW n \in Nat, n \in G PROVE n + 1 \in G
  <2> SUFFICES ASSUME NEW y, WholeBlock(c, b, sigs, S, y), Len(y.statements) = n + 1
               PROVE  Carried(c, b, sigs, y)
    OBVIOUS
  <2>1. y.statements # <<>>
    <3>1. Len(y.statements) # 0
      OBVIOUS
    <3> QED
      BY <3>1, EmptySeq
  <2>2. WholeBlock(c, b, sigs, S, Remaining(y)) /\ Len(Remaining(y).statements) = n
    <3>1. Len(y.statements) - 1 = n
      OBVIOUS
    <3> QED
      BY <2>1, <3>1, RemainingIsWhole
  <2>3. Carried(c, b, sigs, Remaining(y))
    BY <1>2, <2>2
  <2> QED
    BY <2>1, <2>3, LetCarried
<1>3. Len(x.statements) \in G
  <2>1. Len(x.statements) \in Nat
    BY Domain DEF WholeBlock, SourceShape
  <2> HIDE DEF G
  <2> QED
    BY <1>1, <1>2, <2>1, LengthInduction
<1> QED
  BY <1>3

------------------------------------------------------------------------------
(***************************************************************************)
(* Matches, arm by arm.  The arms are held against the first by two of the *)
(* passes, and against the match by the third.                             *)
(***************************************************************************)
LEMMA ArmLowered ==
  ASSUME NEW b, NEW e, NEW a, a.guard = {}, NEW t, NEW q, NEW g,
         LowerPattern(b, a.pat, t, e) = Pat(q, g, {}),
         NEW m, Lower(b, g, a.body) = Lowered(m, {})
  PROVE  LowerArm(b, e, a, t) = Lowered([pat |-> q, body |-> m], {})
<1>1. /\ ThePat(Pat(q, g, {})) = q /\ Pat(q, g, {}).pat # {}
      /\ Pat(q, g, {}).env = g /\ Pat(q, g, {}).bad = {}
  BY DEF ThePat, Pat
<1>2. TheNode(Lowered(m, {})) = m /\ Lowered(m, {}).node # {} /\ Lowered(m, {}).bad = {}
  BY DEF Lowered, TheNode
<1>3. LowerArm(b, e, a, t) = ArmBody(b, a, Pat(q, g, {}))
  BY DEF LowerArm
<1>4. LowerArm(b, e, a, t) = ArmNode(q, {}, Lowered(m, {}))
  BY <1>1, <1>3 DEF ArmBody
<1> DEFINE l == Lowered(m, {})
<1> HIDE DEF l
<1>5. LowerArm(b, e, a, t) = Lowered([pat |-> q, body |-> TheNode(l)], {} \cup l.bad)
  BY <1>2, <1>4 DEF ArmNode, l
<1>6. TheNode(l) = m /\ {} \cup l.bad = {}
  BY <1>2 DEF l
<1> QED
  BY <1>5, <1>6

(* What the checker has passed of a match: its subject, its patterns, its bodies. *)
PassedMatch(x, s, pats, bodies) ==
  /\ s.bad = {}
  /\ \A i \in DOMAIN x.arms :
       /\ x.arms[i].guard = {} /\ pats[i].bad = {} /\ bodies[i].bad = {}
       /\ Compatible(bodies[1].ty, bodies[i].ty)

LEMMA MatchPassed ==
  ASSUME NEW c, NEW x, NEW s, NEW pats, NEW bodies,
         DOMAIN pats = DOMAIN x.arms, DOMAIN bodies = DOMAIN x.arms, DOMAIN x.arms # {},
         MatchResult(c, x, s, pats, bodies).bad = {}
  PROVE  /\ PassedMatch(x, s, pats, bodies)
         /\ MatchResult(c, x, s, pats, bodies).ty = bodies[1].ty
<1> DEFINE unreachable(i) == \E j \in DOMAIN x.arms :
                               j < i /\ (x.arms[j].pat.kind = "Wildcard" \/ pats[i].covers \cap pats[j].covers # {})
           missing == AllVariants(c, s.ty) \ UNION {pats[i].covers : i \in DOMAIN x.arms}
           first  == When(\E i \in DOMAIN x.arms : x.arms[i].guard # {}, "E-MATCH-003")
           second == When(\E i \in DOMAIN x.arms : unreachable(i), "E-MATCH-002")
           third  == When(\E i \in DOMAIN x.arms : ~Compatible(bodies[1].ty, bodies[i].ty), "E-TYPE-001")
           fourth == When(missing # {} /\ ~\E i \in DOMAIN x.arms : x.arms[i].pat.kind = "Wildcard", "E-MATCH-001")
<1>1. MatchResult(c, x, s, pats, bodies) =
        Typed(bodies[1].ty,
              s.bad \cup AllBad(pats) \cup AllBad(bodies) \cup first \cup second \cup third \cup fourth)
  BY DEF MatchResult
<1> HIDE DEF first, second, third, fourth
<1>2. /\ s.bad = {} /\ AllBad(pats) = {} /\ AllBad(bodies) = {} /\ first = {} /\ third = {}
      /\ MatchResult(c, x, s, pats, bodies).ty = bodies[1].ty
  BY <1>1 DEF Typed
<1>3. \A i \in DOMAIN x.arms : x.arms[i].guard = {} /\ Compatible(bodies[1].ty, bodies[i].ty)
  BY <1>2 DEF first, third, When
<1>4. \A i \in DOMAIN x.arms : pats[i].bad = {} /\ bodies[i].bad = {}
  BY <1>2 DEF AllBad
<1> QED
  BY <1>2, <1>3, <1>4 DEF PassedMatch

LEMMA MatchCarried ==
  ASSUME WalkEquations, FrontEndEquations, PassEquations, NEW c, NEW b, NEW sigs,
         NEW x, IsSourceTree(x), x.kind = "Match", IsSeq(x.arms), x.arms # <<>>,
         Carried(c, b, sigs, x.subject),
         \A i \in DOMAIN x.arms :
           PatternCarried(c, b, x.arms[i].pat) /\ Carried(c, b, sigs, x.arms[i].body)
  PROVE  Carried(c, b, sigs, x)
<1> SUFFICES ASSUME NEW e, KnownEnv(e), Infer(c, e, x).bad = {}
             PROVE  CarriedTo(sigs, e, Infer(c, e, x), Lower(b, e, x))
  BY DEF Carried, CarriedTo
<1> DEFINE s      == Infer(c, e, x.subject)
           pats   == [i \in DOMAIN x.arms |-> CheckPattern(c, x.arms[i].pat, s.ty, e)]
           bodies == [i \in DOMAIN x.arms |-> Infer(c, pats[i].env, x.arms[i].body)]
           ls     == [i \in DOMAIN x.arms |-> LowerArm(b, e, x.arms[i], s.ty)]
           all    == Collected(ls)
<1>1. Infer(c, e, x) = MatchResult(c, x, s, pats, bodies)
  <2>1. Infer(c, e, x) = InferStep(c, e, x)
    BY DEF FrontEndEquations
  <2>2. \A rs : InferFrom(c, e, x, rs) = InferMatch(c, e, x)
    BY DEF InferFrom
  <2>3. Infer(c, e, x) = InferMatch(c, e, x)
    BY <2>1, <2>2 DEF InferStep
  <2> QED
    BY <2>3 DEF InferMatch, InferPatterns, InferArms
<1>2. Lower(b, e, x) = LowerArms(b, e, x, Lower(b, e, x.subject))
  <2>1. Lower(b, e, x) = LowerStep(b, e, x)
    BY DEF FrontEndEquations
  <2>2. \A l : LowerFrom(b, e, x, l) = LowerMatch(b, e, x)
    BY DEF LowerFrom
  <2>3. Lower(b, e, x) = LowerMatch(b, e, x)
    BY <2>1, <2>2 DEF LowerStep
  <2> QED
    BY <2>3 DEF LowerMatch
<1>3. 1 \in DOMAIN x.arms
  BY Shortened
<1>4. /\ DOMAIN pats = DOMAIN x.arms /\ DOMAIN bodies = DOMAIN x.arms
      /\ DOMAIN ls = DOMAIN x.arms /\ ls = [i \in DOMAIN x.arms |-> ls[i]]
      /\ \A i \in DOMAIN x.arms :
           /\ pats[i] = CheckPattern(c, x.arms[i].pat, s.ty, e)
           /\ bodies[i] = Infer(c, pats[i].env, x.arms[i].body)
           /\ ls[i] = LowerArm(b, e, x.arms[i], s.ty)
  OBVIOUS
<1> HIDE DEF s, pats, bodies, ls
<1>5. PassedMatch(x, s, pats, bodies) /\ Infer(c, e, x).ty = bodies[1].ty
  BY <1>1, <1>3, <1>4, MatchPassed
<1>6. PICK v : /\ KnownType(s.ty) /\ Lower(b, e, x.subject) = Lowered(v, {}) /\ v.ty = s.ty
               /\ IsIrExpr(v) => ValidateExpr(sigs, e, v) = {}
  BY <1>5 DEF Carried, CarriedTo, PassedMatch, s
<1> DEFINE ArmTo(i, q, m) ==
             /\ ls[i] = Lowered([pat |-> q, body |-> m], {})
             /\ KnownType(m.ty) /\ m.ty = bodies[i].ty
             /\ IsIrPattern(q) => ValidatePattern(q, s.ty, NoneBad(e)) = NoneBad(pats[i].env)
             /\ IsIrExpr(m) => ValidateExpr(sigs, pats[i].env, m) = {}
<1>7. ASSUME NEW i \in DOMAIN x.arms PROVE \E q, m : ArmTo(i, q, m)
  <2>1. KnownEnv(pats[i].env) /\ \E q : PatternTo(b, x.arms[i].pat, s.ty, e, q, pats[i])
    <3> DEFINE p == x.arms[i].pat
    <3>1. PatternCarried(c, b, p)
      OBVIOUS
    <3>2. pats[i] = CheckPattern(c, p, s.ty, e) /\ pats[i].bad = {} /\ KnownType(s.ty)
      BY <1>4, <1>5, <1>6 DEF PassedMatch
    <3> HIDE DEF p
    <3>3. KnownEnv(pats[i].env) /\ \E q : PatternTo(b, p, s.ty, e, q, pats[i])
      BY <3>1, <3>2 DEF PatternCarried
    <3> QED
      BY <3>3 DEF p
  <2>2. PICK q : PatternTo(b, x.arms[i].pat, s.ty, e, q, pats[i])
    BY <2>1
  <2>3. CarriedTo(sigs, pats[i].env, bodies[i], Lower(b, pats[i].env, x.arms[i].body)) /\ bodies[i].bad = {}
    BY <1>4, <1>5, <2>1 DEF Carried, PassedMatch
  <2>4. PICK m : /\ KnownType(m.ty) /\ m.ty = bodies[i].ty
                 /\ Lower(b, pats[i].env, x.arms[i].body) = Lowered(m, {})
                 /\ IsIrExpr(m) => ValidateExpr(sigs, pats[i].env, m) = {}
    BY <2>3 DEF CarriedTo
  <2>5. x.arms[i].guard = {} /\ LowerPattern(b, x.arms[i].pat, s.ty, e) = Pat(q, pats[i].env, {})
    BY <1>5, <2>2 DEF PassedMatch, PatternTo
  <2>6. ls[i] = Lowered([pat |-> q, body |-> m], {})
    BY <1>4, <2>4, <2>5, ArmLowered
  <2>7. ArmTo(i, q, m)
    BY <2>2, <2>4, <2>6 DEF PatternTo
  <2> QED
    BY <2>7
<1>8. /\ all.ok /\ all.bad = {} /\ IsSeq(all.nodes)
      /\ DOMAIN all.nodes = DOMAIN x.arms
      /\ \A i \in DOMAIN x.arms : ls[i] = Lowered(all.nodes[i], {})
  <2>1. IsSeq(ls)
    BY <1>4, OnePlaceEach
  <2>2. \A i \in DOMAIN ls : \E n : ls[i] = Lowered(n, {})
    BY <1>4, <1>7
  <2> QED
    BY <1>4, <2>1, <2>2, AllCollected
<1> HIDE DEF all
<1>9. ASSUME NEW i \in DOMAIN x.arms PROVE ArmTo(i, all.nodes[i].pat, all.nodes[i].body)
  <2>1. PICK q, m : ArmTo(i, q, m)
    BY <1>7
  <2>2. Lowered(all.nodes[i], {}) = Lowered([pat |-> q, body |-> m], {})
    BY <1>8, <2>1
  <2>3. all.nodes[i] = [pat |-> q, body |-> m]
    BY <2>2 DEF Lowered
  <2>4. all.nodes[i].pat = q /\ all.nodes[i].body = m
    BY <2>3
  <2> HIDE DEF ArmTo
  <2> QED
    BY <2>1, <2>4
<1> DEFINE n == [kind |-> "Match", subject |-> v, arms |-> all.nodes, ty |-> bodies[1].ty]
<1>10. Lower(b, e, x) = Lowered(n, {})
  <2> DEFINE types == [i \in DOMAIN all.nodes |-> all.nodes[i].body.ty]
             l     == Lowered(v, {})
  <2>1. TheNode(l) = v /\ l.node # {} /\ l.bad = {}
    BY DEF Lowered, TheNode
  <2>2. l.node # {} /\ Lower(b, e, x) = LowerArms(b, e, x, l)
    BY <1>2, <1>6, <2>1
  <2>3. [i \in DOMAIN x.arms |-> LowerArm(b, e, x.arms[i], TheNode(l).ty)] = ls
    BY <1>6, <2>1 DEF ls
  <2> HIDE DEF l
  <2>4. Lower(b, e, x) = MatchNode(l, all)
    BY <2>2, <2>3 DEF LowerArms, all
  <2>5. DOMAIN types = DOMAIN x.arms /\ \A i \in DOMAIN types : types[i] = bodies[i].ty
    BY <1>8, <1>9
  <2> HIDE DEF types
  <2>6. types # <<>> /\ types[1] = bodies[1].ty
    BY <1>3, <2>5
  <2>7. ~ \E i \in DOMAIN types : ~Compatible(types[1], types[i])
    BY <1>5, <2>5, <2>6 DEF PassedMatch
  <2>8. MatchNode(l, all) = Lowered([kind |-> "Match", subject |-> TheNode(l), arms |-> all.nodes,
                                     ty |-> bodies[1].ty], l.bad \cup all.bad \cup {})
    BY <1>8, <2>6, <2>7 DEF MatchNode, Reported, types
  <2>9. l.bad \cup all.bad \cup {} = {}
    BY <1>8, <2>1
  <2> QED
    BY <2>1, <2>4, <2>8, <2>9
<1>11. n.kind = "Match" /\ n.subject = v /\ n.arms = all.nodes /\ n.ty = bodies[1].ty
  OBVIOUS
<1> HIDE DEF n
<1>12. ASSUME IsIrExpr(n) PROVE ValidateExpr(sigs, e, n) = {}
  <2>1. ValidateExpr(sigs, e, n) = ValidateExprStep(sigs, e, n)
    BY <1>12 DEF PassEquations
  <2>2. /\ IsIrExpr(v)
        /\ \A i \in DOMAIN n.arms : IsIrPattern(n.arms[i].pat) /\ IsIrExpr(n.arms[i].body)
    BY <1>11, <1>12, ExprsBelow, PartsRules
  <2>3. n.arms # <<>>
    BY <1>3, <1>8, <1>11
  <2>4. ASSUME NEW i \in DOMAIN n.arms PROVE ValidateArm(sigs, e, n, n.arms[i]) = {}
    <3>1. ArmTo(i, n.arms[i].pat, n.arms[i].body) /\ i \in DOMAIN x.arms
      BY <1>8, <1>9, <1>11
    <3>2. /\ ValidatePattern(n.arms[i].pat, s.ty, NoneBad(e)) = NoneBad(pats[i].env)
          /\ ValidateExpr(sigs, pats[i].env, n.arms[i].body) = {}
          /\ n.arms[i].body.ty = bodies[i].ty
      BY <2>2, <3>1
    <3>3. Compatible(bodies[i].ty, bodies[1].ty)
      <4>1. IsType(bodies[i].ty) /\ IsType(bodies[1].ty)
        BY <1>3, <1>9, <3>1 DEF KnownType
      <4>2. Compatible(bodies[1].ty, bodies[i].ty)
        BY <1>5, <3>1 DEF PassedMatch
      <4> QED
        BY <4>1, <4>2, CompatibleBothWays
    <3> HIDE DEF ArmTo
    <3> QED
      BY <1>6, <1>11, <3>2, <3>3 DEF ValidateArm, NoneBad, Diag
  <2> HIDE DEF ArmTo
  <2>5. ValidateExpr(sigs, e, v) = {}
    BY <1>6, <2>2
  <2>6. UNION {ValidateArm(sigs, e, n, n.arms[i]) : i \in DOMAIN n.arms} = {}
    BY <2>4
  <2> QED
    BY <1>11, <2>1, <2>3, <2>5, <2>6 DEF ValidateExprStep, Diag
<1>13. KnownType(bodies[1].ty)
  BY <1>3, <1>9
<1> HIDE DEF ArmTo
<1> QED
  BY <1>5, <1>10, <1>11, <1>12, <1>13 DEF CarriedTo

------------------------------------------------------------------------------
LEMMA TreeUnfolded ==
  ASSUME FrontEndEquations, NEW x, IsSourceTree(x), NEW c, NEW e
  PROVE  /\ Infer(c, e, x) = InferFrom(c, e, x, [i \in DOMAIN x.kids |-> Infer(c, e, x.kids[i])])
         /\ Lower(c, e, x) = LowerFrom(c, e, x, LowerAll(c, e, x.kids))
<1>1. Infer(c, e, x) = InferStep(c, e, x) /\ Lower(c, e, x) = LowerStep(c, e, x)
  BY DEF FrontEndEquations
<1> QED
  BY <1>1 DEF InferStep, LowerStep

(* Nothing is reported of the items of what nothing is reported of. *)
LEMMA ItemsPassed ==
  ASSUME NEW c, NEW e, NEW x, x.kind \in ItemKinds, NEW rs, InferFrom(c, e, x, rs).bad = {}
  PROVE  AllBad(rs) = {}
<1>1. \A t, d : Impure(c, d) # {} /\ Typed(t, d).bad = d
  BY DEF Impure, Typed
<1>2. CASE x.kind = "Tuple"
  BY <1>1, <1>2 DEF InferFrom
<1>3. CASE x.kind = "List"
  <2>1. InferList(rs).bad = {}
    BY <1>3 DEF InferFrom
  <2>2. \E t, d : InferList(rs) = Typed(t, AllBad(rs) \cup d)
    BY Zenon DEF InferList
  <2> QED
    BY <1>1, <2>1, <2>2
<1>4. CASE x.kind = "Record"
  <2>1. InferRecord(c, x, rs).bad = {}
    BY <1>4 DEF InferFrom
  <2>2. CASE Constructed(c, x.name) = {}
    BY <1>1, <2>1, <2>2 DEF InferRecord
  <2>3. CASE Constructed(c, x.name) # {}
    <3>1. \E t, d : InferRecord(c, x, rs) = Typed(t, AllBad(rs) \cup d)
      BY <2>3, Zenon DEF InferRecord
    <3> QED
      BY <1>1, <2>1, <3>1
  <2> QED
    BY <2>2, <2>3
<1>5. CASE x.kind = "Binary"
  <2>1. InferBinary(rs).bad = {}
    BY <1>5 DEF InferFrom
  <2> QED
    BY <1>1, <2>1 DEF InferBinary
<1>6. CASE x.kind = "Call"
  <2> DEFINE f == CHOOSE f \in x.callee : TRUE
  <2>1. InferCall(c, x, rs).bad = {}
    BY <1>6 DEF InferFrom
  <2>2. CASE x.callee = {}
    <3>1. InferCall(c, x, rs) = Typed(UnknownT, Impure(c, "E-PURE-002"))
      BY <2>2 DEF InferCall
    <3> QED
      BY <1>1, <2>1, <3>1
  <2>3. CASE x.callee # {}
    <3>1. \E t, d : InferCall(c, x, rs) = Typed(t, AllBad(rs) \cup d)
      <4>1. CASE f \in Forbidden
        BY <2>3, <4>1 DEF InferCall
      <4>2. CASE f \notin Forbidden /\ f \notin DOMAIN c.fns
        BY <2>3, <4>2 DEF InferCall
      <4>3. CASE f \notin Forbidden /\ f \in DOMAIN c.fns
        BY <2>3, <4>3 DEF InferCall
      <4> QED
        BY <4>1, <4>2, <4>3
    <3> QED
      BY <1>1, <2>1, <3>1
  <2> QED
    BY <2>2, <2>3
<1> QED
  BY <1>2, <1>3, <1>4, <1>5, <1>6 DEF ItemKinds

LEMMA ItemCarried ==
  ASSUME WalkEquations, FrontEndEquations, PassEquations,
         NEW c, NEW b, NEW sigs, Agreeing(c, b, sigs),
         NEW x, IsSourceTree(x), x.kind \in ItemKinds, IsSeq(x.kids),
         \A i \in DOMAIN x.kids : Carried(c, b, sigs, x.kids[i])
  PROVE  Carried(c, b, sigs, x)
<1> SUFFICES ASSUME NEW e, KnownEnv(e), Infer(c, e, x).bad = {}
             PROVE  CarriedTo(sigs, e, Infer(c, e, x), Lower(b, e, x))
  BY DEF Carried, CarriedTo
<1> DEFINE rs  == [i \in DOMAIN x.kids |-> Infer(c, e, x.kids[i])]
           all == LowerAll(b, e, x.kids)
<1>1. Infer(c, e, x) = InferFrom(c, e, x, rs) /\ Lower(b, e, x) = LowerFrom(b, e, x, all)
  BY TreeUnfolded
<1>2. AllBad(rs) = {}
  <2> HIDE DEF rs
  <2> QED
    BY <1>1, ItemsPassed
<1>3. AllCarried(sigs, e, rs, all)
  BY <1>2, ItemsCarried
<1> HIDE DEF rs, all
<1>4. all.ok
  BY <1>3 DEF AllCarried
<1>5. CASE x.kind = "Tuple"
  <2>1. Infer(c, e, x) = Typed(TupleT(TypesOf(rs)), AllBad(rs))
    BY <1>1, <1>5 DEF InferFrom
  <2>2. Lower(b, e, x) = Lowered([kind |-> "Tuple", kids |-> all.nodes,
                                  ty |-> TupleT(NodeTypes(all.nodes))], all.bad)
    BY <1>1, <1>4, <1>5 DEF LowerFrom
  <2> QED
    BY <1>3, <2>1, <2>2, TupleCarried
<1>6. CASE x.kind = "List"
  <2>1. Infer(c, e, x) = InferList(rs)
    BY <1>1, <1>6 DEF InferFrom
  <2>2. Lower(b, e, x) = LowerList(all)
    BY <1>1, <1>4, <1>6 DEF LowerFrom
  <2> QED
    BY <1>3, <2>1, <2>2, ListCarried
<1>7. CASE x.kind = "Record"
  <2>1. Infer(c, e, x) = InferRecord(c, x, rs)
    BY <1>1, <1>7 DEF InferFrom
  <2>2. Lower(b, e, x) = LowerRecord(b, x, all)
    BY <1>1, <1>4, <1>7 DEF LowerFrom
  <2> QED
    BY <1>3, <2>1, <2>2, RecordCarried
<1>8. CASE x.kind = "Binary"
  <2>1. Infer(c, e, x) = InferBinary(rs)
    BY <1>1, <1>8 DEF InferFrom
  <2>2. Lower(b, e, x) = LowerBinary(x, all)
    BY <1>1, <1>4, <1>8 DEF LowerFrom
  <2> QED
    BY <1>3, <2>1, <2>2, BinaryCarried
<1>9. CASE x.kind = "Call"
  <2>1. Infer(c, e, x) = InferCall(c, x, rs)
    BY <1>1, <1>9 DEF InferFrom
  <2>2. x.callee # {} /\ CarriedTo(sigs, e, InferCall(c, x, rs), LowerCall(b, x, all))
    BY <1>3, <2>1, CallCarried
  <2>3. Lower(b, e, x) = LowerCall(b, x, all)
    BY <1>1, <1>4, <1>9, <2>2 DEF LowerFrom
  <2> QED
    BY <2>1, <2>2, <2>3
<1> QED
  BY <1>5, <1>6, <1>7, <1>8, <1>9 DEF ItemKinds

LEMMA LeavesCarried ==
  ASSUME FrontEndEquations, PassEquations, NEW c, NEW b, NEW sigs,
         NEW x, IsSourceTree(x), x.kind \in {"Ident", "Int", "Bool"}, SourceShape(x)
  PROVE  Carried(c, b, sigs, x)
<1> SUFFICES ASSUME NEW e, KnownEnv(e), Infer(c, e, x).bad = {}
             PROVE  CarriedTo(sigs, e, Infer(c, e, x), Lower(b, e, x))
  BY DEF Carried, CarriedTo
<1>1. /\ Infer(c, e, x) = InferFrom(c, e, x, [i \in DOMAIN x.kids |-> Infer(c, e, x.kids[i])])
      /\ Lower(b, e, x) = LowerFrom(b, e, x, LowerAll(b, e, x.kids))
  BY TreeUnfolded
<1>2. CASE x.kind = "Ident"
  <2> DEFINE n == [kind |-> "LocalRef", name |-> x.name, ty |-> e[x.name]]
  <2>1. \A all, rs : InferFrom(c, e, x, rs) = InferIdent(e, x) /\ LowerFrom(b, e, x, all) = LowerIdent(e, x)
    BY <1>2 DEF InferFrom, LowerFrom
  <2>2. Infer(c, e, x) = InferIdent(e, x) /\ Lower(b, e, x) = LowerIdent(e, x)
    BY <1>1, <2>1
  <2>3. x.name \notin {"true", "false"}
    BY <1>2 DEF SourceShape
  <2>4. x.name \in DOMAIN e
    <3> SUFFICES ASSUME x.name \notin DOMAIN e PROVE FALSE
      OBVIOUS
    <3>1. Infer(c, e, x) = Typed(UnknownT, {"E-TYPE-002"})
      BY <2>2, <2>3 DEF InferIdent
    <3> QED
      BY <3>1 DEF Typed
  <2>5. Infer(c, e, x) = Typed(e[x.name], {}) /\ Lower(b, e, x) = Lowered(n, {})
    BY <2>2, <2>4 DEF InferIdent, LowerIdent
  <2>6. n.kind = "LocalRef" /\ n.name = x.name /\ n.ty = e[x.name] /\ KnownType(e[x.name])
    BY <2>4 DEF KnownEnv
  <2> HIDE DEF n
  <2> QED
    BY <2>4, <2>5, <2>6, LeafCarried
<1>3. CASE x.kind = "Int"
  <2> DEFINE n == [kind |-> "Int", int |-> x.int, ty |-> IntT]
  <2>1. \A all, rs : InferFrom(c, e, x, rs) = Typed(IntT, {}) /\ LowerFrom(b, e, x, all) = Lowered(n, {})
    BY <1>3 DEF InferFrom, LowerFrom
  <2>2. n.kind = "Int" /\ n.ty = IntT
    OBVIOUS
  <2> HIDE DEF n
  <2> QED
    BY <1>1, <2>1, <2>2, TypesOfTheCode, LeafCarried
<1>4. CASE x.kind = "Bool"
  <2> DEFINE n == [kind |-> "Bool", bool |-> x.bool, ty |-> BoolT]
  <2>1. \A all, rs : InferFrom(c, e, x, rs) = Typed(BoolT, {}) /\ LowerFrom(b, e, x, all) = Lowered(n, {})
    BY <1>4 DEF InferFrom, LowerFrom
  <2>2. n.kind = "Bool" /\ n.ty = BoolT
    OBVIOUS
  <2> HIDE DEF n
  <2> QED
    BY <1>1, <2>1, <2>2, TypesOfTheCode, LeafCarried
<1> QED
  BY <1>2, <1>3, <1>4

(* What Regular asks of the trees of a program. *)
Whole(x) == (x.kind = "Block" => x.tail # {}) /\ (x.kind = "Match" => x.arms # <<>>)

LEMMA ExpressionsAreCarried ==
  ASSUME WalkEquations, FrontEndEquations, PassEquations,
         NEW c, NEW b, NEW sigs, Agreeing(c, b, sigs),
         NEW S, SourceTrees(S), \A x \in S : Whole(x)
  PROVE  \A x \in S : x.kind \in ExprKinds => Carried(c, b, sigs, x)
<1> DEFINE G == {x \in S : x.kind \in ExprKinds => Carried(c, b, sigs, x)}
<1>1. ASSUME NEW x \in S, SourceParts(x) \subseteq G, x.kind \in ExprKinds
      PROVE  Carried(c, b, sigs, x)
  <2>1. IsSourceTree(x) /\ SourceShape(x) /\ SourceParts(x) \subseteq S /\ Whole(x)
    BY DEF IsSourceTree, SourceTrees
  <2>2. \A y \in ExprsIn(x) : Carried(c, b, sigs, y)
    BY <1>1, <2>1 DEF SourceParts, SourceShape
  <2>3. CASE x.kind \in ItemKinds
    <3>1. IsSeq(x.kids) /\ \A i \in DOMAIN x.kids : x.kids[i] \in ExprsIn(x)
      <4>1. x.kind \notin {"Block", "Match"}
        BY <2>3 DEF ItemKinds
      <4>2. ExprsIn(x) = Range(x.kids)
        BY <2>3, <4>1 DEF ExprsIn
      <4>3. IsSeq(x.kids)
        BY <2>1, <2>3 DEF SourceShape
      <4> QED
        BY <4>2, <4>3 DEF Range
    <3> QED
      BY <2>1, <2>2, <2>3, <3>1, ItemCarried
  <2>4. CASE x.kind \in {"Ident", "Int", "Bool"}
    BY <2>1, <2>4, LeavesCarried
  <2>5. CASE x.kind = "Block"
    <3>1. WholeBlock(c, b, sigs, S, x)
      BY <2>1, <2>2, <2>5 DEF WholeBlock, Whole
    <3> QED
      BY <3>1, BlockCarried
  <2>6. CASE x.kind = "Match"
    <3>1. /\ x.subject \in ExprsIn(x)
          /\ \A i \in DOMAIN x.arms : x.arms[i].body \in ExprsIn(x) /\ x.arms[i].pat \in PatternsOf(x)
      BY <2>6 DEF ExprsIn, PatternsOf, ItemKinds
    <3>2. \A q \in PatternsOf(x) : q \in S /\ q.kind \in PatternKinds
      BY <2>1 DEF SourceParts, SourceShape
    <3>3. \A i \in DOMAIN x.arms : PatternCarried(c, b, x.arms[i].pat)
      <4>1. SameTables(c, b) /\ KnownTables(b)
        BY DEF Agreeing
      <4> QED
        BY <3>1, <3>2, <4>1, PatternsAreCarried
    <3>4. IsSeq(x.arms) /\ x.arms # <<>>
      BY <2>1, <2>6 DEF SourceShape, Whole
    <3> QED
      BY <2>1, <2>2, <2>6, <3>1, <3>3, <3>4, MatchCarried
  <2> QED
    BY <1>1, <2>3, <2>4, <2>5, <2>6 DEF ExprKinds
<1>2. G \in SUBSET S
  OBVIOUS
<1>3. S \subseteq G
  <2>1. \A x \in S : SourceParts(x) \subseteq G => x \in G
    BY <1>1
  <2> HIDE DEF G
  <2> QED
    BY <1>2, <2>1 DEF SourceTrees
<1> QED
  BY <1>3

------------------------------------------------------------------------------
(***************************************************************************)
(* Functions, and the programs they make.                                  *)
(***************************************************************************)
LEMMA ParametersKnown ==
  ASSUME FrontEndEquations, NEW f, IsFunction(f), \A i \in DOMAIN f.types : IsDeclaredType(f.types[i])
  PROVE  KnownEnv(InsertAll(f.params, f.types))
<1>1. /\ Len(f.params) \in Nat /\ DOMAIN f.params = 1 .. Len(f.params)
      /\ DOMAIN f.types = DOMAIN f.params
  BY Domain DEF IsFunction
<1>2. ASSUME NEW x \in DOMAIN InsertAll(f.params, f.types)
      PROVE  \E i \in DOMAIN f.types : InsertAll(f.params, f.types)[x] = f.types[i]
  BY <1>1, InsertedValues
<1> QED
  BY <1>2, DeclaredIsKnown DEF KnownEnv

(* What is made of fd, and what the validator will say of its body. *)
FunctionTo(sigs, fd, f) ==
  /\ f = [fd EXCEPT !.body = f.body]
  /\ Compatible(f.body.ty, fd.ret)
  /\ IsIrExpr(f.body) => ValidateExpr(sigs, InsertAll(fd.params, fd.types), f.body) = {}

LEMMA FunctionCarried ==
  ASSUME WalkEquations, FrontEndEquations, PassEquations,
         NEW p \in Sources, Analyze(p) = {}, NEW fd \in Range(p.fns),
         \A x \in SubExprs(fd.body) : Whole(x),
         NEW sigs, SameSigs(sigs, Tables(p).fns)
  PROVE  \E f : LowerFunction(Tables(p), fd) = Lowered(f, {}) /\ FunctionTo(sigs, fd, f)
<1> DEFINE b == Tables(p)
           c == Bind(b, "kind", fd.kind)
           e == InsertAll(fd.params, fd.types)
           r == Infer(c, e, fd.body)
<1>1. /\ IsFunction(fd) /\ \A i \in DOMAIN fd.types : IsDeclaredType(fd.types[i])
      /\ IsBody(fd.body)
  BY SourceAssumption DEF AreFunctions
<1>2. KnownEnv(e)
  BY <1>1, ParametersKnown
<1>3. SameTables(c, b)
  <2>1. {"types", "owner", "fns"} \subseteq DOMAIN b
    BY DEF Tables
  <2> HIDE DEF b
  <2> QED
    BY <2>1 DEF SameTables, Bind
<1>4. Agreeing(c, b, sigs)
  BY <1>3, TablesKnown DEF Agreeing
<1>5. r.bad = {} /\ Compatible(r.ty, fd.ret)
  <2>1. CheckFn(b, fd) = {}
    BY DEF Analyze, Range
  <2>2. CheckFn(b, fd) = r.bad \cup When(~SignatureOk(b, fd), "E-TYPE-004")
                               \cup When(~Compatible(r.ty, fd.ret), "E-TYPE-001")
    BY DEF CheckFn
  <2> HIDE DEF r, b
  <2> QED
    BY <2>1, <2>2 DEF When
<1> HIDE DEF c, b, e
<1>6. Carried(c, b, sigs, fd.body)
  <2>1. PICK S \in SUBSET SubExprs(fd.body) : SourceTrees(S) /\ fd.body \in S
    BY <1>1, BodyIsTree
  <2>2. \A x \in S : Whole(x)
    BY <2>1
  <2>3. fd.body.kind \in ExprKinds
    BY <1>1 DEF IsBody, ExprKinds
  <2> QED
    BY <1>4, <2>1, <2>2, <2>3, ExpressionsAreCarried
<1>7. PICK n : /\ Lower(b, e, fd.body) = Lowered(n, {}) /\ n.ty = r.ty
               /\ IsIrExpr(n) => ValidateExpr(sigs, e, n) = {}
  BY <1>2, <1>5, <1>6 DEF Carried, CarriedTo
<1> DEFINE f == [fd EXCEPT !.body = n]
           l == Lowered(n, {})
<1>8. f.body = n
  BY <1>1 DEF IsFunction
<1>9. LowerFunction(b, fd) = Lowered(f, {})
  <2>1. LowerFunction(b, fd) = FunctionNode(fd, l)
    BY <1>7 DEF LowerFunction, e
  <2>2. TheNode(l) = n /\ l.node # {} /\ l.bad = {}
    BY DEF TheNode, Lowered
  <2> HIDE DEF l
  <2>3. Compatible(TheNode(l).ty, fd.ret)
    BY <1>5, <1>7, <2>2
  <2>4. FunctionNode(fd, l) = Lowered([fd EXCEPT !.body = TheNode(l)], l.bad)
    BY <2>2, <2>3 DEF FunctionNode
  <2> QED
    BY <2>1, <2>2, <2>4
<1>10. f = [fd EXCEPT !.body = f.body]
  BY <1>8
<1> HIDE DEF f, r
<1>11. FunctionTo(sigs, fd, f)
  BY <1>5, <1>7, <1>8, <1>10 DEF FunctionTo, e
<1> QED
  BY <1>9, <1>11 DEF b

LEMMA AllLowered ==
  ASSUME PassEquations, NEW c, NEW fds, IsSeq(fds),
         \A i \in DOMAIN fds : \E f : LowerFunction(c, fds[i]) = Lowered(f, {})
  PROVE  /\ LowerEach(c, fds).bad = {}
         /\ IsSeq(LowerEach(c, fds).fns) /\ Len(LowerEach(c, fds).fns) = Len(fds)
         /\ \A i \in DOMAIN fds : LowerFunction(c, fds[i]) = Lowered(LowerEach(c, fds).fns[i], {})
<1> DEFINE Given(s) == IsSeq(s) /\ \A i \in DOMAIN s : \E f : LowerFunction(c, s[i]) = Lowered(f, {})
           Good(s, r) == /\ r.bad = {} /\ IsSeq(r.fns) /\ Len(r.fns) = Len(s)
                         /\ \A i \in DOMAIN s : LowerFunction(c, s[i]) = Lowered(r.fns[i], {})
           G == {n \in Nat : \A s : Given(s) /\ Len(s) = n => Good(s, LowerEach(c, s))}
<1>1. \A s : IsSeq(s) => LowerEach(c, s) = LowerEachStep(c, s)
  BY DEF PassEquations
<1>2. 0 \in G
  <2> SUFFICES ASSUME NEW s, Given(s), Len(s) = 0 PROVE Good(s, LowerEach(c, s))
    OBVIOUS
  <2>1. s = <<>>
    BY EmptySeq DEF IsSeq
  <2>2. LowerEach(c, s).fns = <<>> /\ LowerEach(c, s).bad = {}
    BY <1>1, <2>1 DEF LowerEachStep
  <2> QED
    BY <2>1, <2>2
<1>3. ASSUME NEW n \in Nat, n \in G PROVE n + 1 \in G
  <2> SUFFICES ASSUME NEW s, Given(s), Len(s) = n + 1 PROVE Good(s, LowerEach(c, s))
    OBVIOUS
  <2> DEFINE r    == LowerEach(c, s)
             rest == LowerEach(c, Tail(s))
  <2>1. s # <<>>
    <3>1. Len(s) # 0
      OBVIOUS
    <3> QED
      BY <3>1, EmptySeq
  <2>2. /\ IsSeq(Tail(s)) /\ Len(Tail(s)) = n
        /\ 1 \in DOMAIN s /\ Head(s) = s[1]
        /\ \A i \in DOMAIN Tail(s) : i + 1 \in DOMAIN s /\ Tail(s)[i] = s[i + 1]
        /\ \A i \in DOMAIN s : i # 1 => i - 1 \in DOMAIN Tail(s) /\ s[i] = Tail(s)[i - 1]
    <3>1. Len(s) - 1 = n
      OBVIOUS
    <3> QED
      BY <2>1, <3>1, Shortened
  <2>3. Good(Tail(s), rest)
    <3>1. Given(Tail(s))
      BY <2>2
    <3> QED
      BY <1>3, <3>1, <2>2
  <2>4. PICK f : LowerFunction(c, s[1]) = Lowered(f, {})
    BY <2>2
  <2> DEFINE l == Lowered(f, {})
             u == <<f>> \o rest.fns
  <2>5. TheNode(l) = f /\ l.node # {} /\ l.bad = {}
    BY DEF TheNode, Lowered
  <2> HIDE DEF l
  <2>6. r = AddFunction(l, rest)
    BY <1>1, <2>1, <2>2, <2>4 DEF LowerEachStep, l
  <2>7. r.fns = u /\ r.bad = {}
    BY <2>3, <2>5, <2>6 DEF AddFunction
  <2>8. u = <<f>> \o rest.fns /\ IsSeq(rest.fns)
    BY <2>3
  <2> HIDE DEF u, rest, r
  <2>9. IsSeq(u)
    BY <2>8, PutInFront
  <2>10. Len(u) = Len(rest.fns) + 1
    BY <2>8, PutInFront
  <2>11. u[1] = f /\ \A i \in DOMAIN rest.fns : u[i + 1] = rest.fns[i]
    BY <2>8, PutInFront
  <2>12. DOMAIN s = 1 .. n + 1 /\ DOMAIN rest.fns = 1 .. n /\ DOMAIN Tail(s) = 1 .. n
    BY <2>2, <2>3, <2>8, Domain
  <2>13. ASSUME NEW i \in DOMAIN s PROVE LowerFunction(c, s[i]) = Lowered(u[i], {})
    <3>1. CASE i = 1
      BY <2>4, <2>11, <3>1
    <3>2. CASE i # 1
      <4>1. i - 1 \in DOMAIN Tail(s) /\ s[i] = Tail(s)[i - 1] /\ i - 1 \in DOMAIN rest.fns /\ (i - 1) + 1 = i
        BY <2>2, <2>12, <3>2
      <4>2. u[i] = rest.fns[i - 1]
        BY <2>11, <4>1
      <4> QED
        BY <2>3, <4>1, <4>2
    <3> QED
      BY <3>1, <3>2
  <2> QED
    BY <2>3, <2>2, <2>7, <2>9, <2>10, <2>13 DEF r
<1>4. Len(fds) \in G
  <2> HIDE DEF G
  <2> QED
    BY <1>2, <1>3, LengthInduction, Domain
<1> QED
  BY <1>4

LEMMA AcceptedIsLowered ==
  ASSUME WalkEquations, FrontEndEquations, PassEquations,
         NEW p \in Sources, Analyze(p) = {},
         \A i \in DOMAIN p.fns : \A x \in SubExprs(p.fns[i].body) : Whole(x)
  PROVE  /\ LowerResult(p).bad = {}
         /\ AreFunctions(LowerResult(p).fns)
         /\ DOMAIN LowerResult(p).fns = DOMAIN p.fns
         /\ \A i \in DOMAIN p.fns : /\ LowerResult(p).fns[i].name = p.fns[i].name
                                    /\ LowerResult(p).fns[i].kind = p.fns[i].kind
<1> DEFINE c   == Tables(p)
           all == LowerEach(c, p.fns)
           ir  == all.fns
<1>1. /\ AreFunctions(p.fns)
      /\ \A f \in Range(p.fns) : \A n \in LowerFunction(c, f).node : IsIrExpr(n.body)
  BY SourceAssumption
<1>2. IsSeq(p.fns) /\ \A i \in DOMAIN p.fns : p.fns[i] \in Range(p.fns) /\ IsFunction(p.fns[i])
  BY <1>1 DEF AreFunctions, Range
<1>3. c.fns = ByName(p.fns)
  BY DEF Tables
<1>4. ASSUME NEW sigs, SameSigs(sigs, c.fns), NEW i \in DOMAIN p.fns
      PROVE  \E f : LowerFunction(c, p.fns[i]) = Lowered(f, {}) /\ FunctionTo(sigs, p.fns[i], f)
  BY <1>2, <1>4, FunctionCarried
<1> HIDE DEF c
<1>5. SameSigs(c.fns, c.fns)
  BY DEF SameSigs
<1>6. /\ all.bad = {} /\ IsSeq(ir) /\ Len(ir) = Len(p.fns)
      /\ \A i \in DOMAIN p.fns : LowerFunction(c, p.fns[i]) = Lowered(ir[i], {})
  BY <1>2, <1>4, <1>5, AllLowered
<1> HIDE DEF all
<1>7. DOMAIN ir = DOMAIN p.fns
  BY <1>2, <1>6, Domain
<1>8. \A f, g : Lowered(f, {}) = Lowered(g, {}) => f = g
  BY DEF Lowered
<1>9. ASSUME NEW sigs, SameSigs(sigs, c.fns), NEW i \in DOMAIN p.fns
      PROVE  FunctionTo(sigs, p.fns[i], ir[i])
  BY <1>4, <1>6, <1>8, <1>9
<1>10. ASSUME NEW i \in DOMAIN p.fns
       PROVE  /\ ir[i].name = p.fns[i].name /\ ir[i].kind = p.fns[i].kind
              /\ ir[i].params = p.fns[i].params /\ ir[i].types = p.fns[i].types
              /\ ir[i].ret = p.fns[i].ret
              /\ IsFunction(ir[i]) /\ IsIrExpr(ir[i].body)
  <2>1. ir[i] \in LowerFunction(c, p.fns[i]).node
    <3>1. LowerFunction(c, p.fns[i]) = Lowered(ir[i], {})
      BY <1>6
    <3>2. Lowered(ir[i], {}).node = {ir[i]}
      BY DEF Lowered
    <3> QED
      BY <3>1, <3>2
  <2>2. IsFunction(ir[i]) /\ IsIrExpr(ir[i].body)
    BY <1>1, <1>2, <2>1, LoweredFunction
  <2>3. ir[i] = [p.fns[i] EXCEPT !.body = ir[i].body]
    BY <1>5, <1>9 DEF FunctionTo
  <2> QED
    BY <1>2, <2>2, <2>3 DEF IsFunction
<1>11. AreFunctions(ir)
  BY <1>6, <1>7, <1>10 DEF AreFunctions, Range
<1>12. SameSigs(ByName(ir), c.fns)
  <2>1. NamesIn(ir) = NamesIn(p.fns)
    BY <1>7, <1>10 DEF NamesIn
  <2>2. ASSUME NEW x \in DOMAIN ByName(p.fns)
        PROVE  \E i \in DOMAIN p.fns : ByName(p.fns)[x] = p.fns[i] /\ ByName(ir)[x] = ir[i]
    <3> DEFINE S == {i \in DOMAIN NamesIn(p.fns) : NamesIn(p.fns)[i] = x}
    <3>1. x \in Range(NamesIn(p.fns)) /\ S # {}
      BY DEF ByName, InsertAll, Range
    <3>2. S \subseteq 1 .. Len(p.fns) /\ Len(p.fns) \in Nat
      BY <1>2, Domain DEF NamesIn
    <3>3. ByName(p.fns)[x] = p.fns[Max(S)] /\ ByName(ir)[x] = ir[Max(S)]
      BY <2>1, <3>1 DEF ByName, InsertAll
    <3> HIDE DEF S
    <3>4. Max(S) \in S
      BY <3>1, <3>2, GreatestPlace
    <3>5. Max(S) \in DOMAIN p.fns
      BY <3>4 DEF S, NamesIn
    <3> QED
      BY <3>3, <3>5
  <2>3. DOMAIN ByName(ir) = DOMAIN ByName(p.fns)
    BY <2>1 DEF ByName, InsertAll
  <2> QED
    BY <1>3, <1>10, <2>2, <2>3 DEF SameSigs
<1>13. ValidateProgram(ir) = {}
  <2>1. ASSUME NEW f \in Range(ir)
        PROVE  /\ Compatible(f.body.ty, f.ret)
               /\ ValidateExpr(ByName(ir), InsertAll(f.params, f.types), f.body) = {}
    <3>1. PICK i \in DOMAIN p.fns : f = ir[i]
      BY <1>7 DEF Range
    <3>2. FunctionTo(ByName(ir), p.fns[i], ir[i])
      BY <1>9, <1>12
    <3> QED
      BY <1>10, <3>1, <3>2 DEF FunctionTo
  <2> QED
    BY <2>1 DEF ValidateProgram, Diag
<1>14. LowerResult(p) = [fns |-> ir, bad |-> {}]
  BY <1>6, <1>13 DEF LowerResult, LowerAccepted, Assemble, IfValid, OnlyWithout, all, c
<1> HIDE DEF ir
<1> QED
  BY <1>7, <1>10, <1>11, <1>14

LEMMA DistinctNamesLoad ==
  ASSUME NEW fs, AreFunctions(fs), IsInjective(NamesIn(fs)),
         \A k \in {"Update", "Query"} : Cardinality(OfKind(fs, k)) = 1
  PROVE  FromIr(fs).ok
<1> DEFINE names == NamesIn(fs)
           D == 1 .. Len(fs)
<1>1. Len(fs) \in Nat /\ DOMAIN fs = D
  BY Domain DEF AreFunctions
<1>2. IsFiniteSet(D) /\ Cardinality(D) = Len(fs)
  <2>1. Len(fs) \in Int /\ 1 \in Int
    BY <1>1
  <2>2. IsFiniteSet(D) /\ Cardinality(D) = IF 1 > Len(fs) THEN 0 ELSE Len(fs) - 1 + 1
    BY <2>1, FS_Interval
  <2> QED
    BY <1>1, <2>2
<1>3. names \in Bijection(D, Range(names))
  <2>1. DOMAIN names = D /\ names \in [D -> Range(names)]
    BY <1>1 DEF NamesIn, Range
  <2> HIDE DEF names
  <2>2. names \in Injection(D, Range(names)) /\ names \in Surjection(D, Range(names))
    BY <2>1 DEF Injection, Surjection, Range, IsInjective, names
  <2> QED
    BY <2>2 DEF Bijection
<1>4. Cardinality(Range(names)) = Len(fs)
  <2>1. ExistsBijection(D, Range(names))
    BY <1>3 DEF ExistsBijection
  <2> HIDE DEF names, D
  <2> QED
    BY <1>2, <2>1, FS_Bijection
<1> QED
  BY <1>4 DEF FromIr, Ok

LEMMA AcceptedLoads ==
  ASSUME WalkEquations, FrontEndEquations, PassEquations,
         NEW p \in Sources, Analyze(p) = {}, Regular(p)
  PROVE  LowerResult(p).bad = {} /\ FromIr(LowerResult(p).fns).ok
<1> DEFINE ir == LowerResult(p).fns
<1>1. \A i \in DOMAIN p.fns : \A x \in SubExprs(p.fns[i].body) : Whole(x)
  BY DEF Regular, Whole
<1>2. /\ LowerResult(p).bad = {} /\ AreFunctions(ir) /\ DOMAIN ir = DOMAIN p.fns
      /\ \A i \in DOMAIN p.fns : ir[i].name = p.fns[i].name /\ ir[i].kind = p.fns[i].kind
  BY <1>1, AcceptedIsLowered
<1> HIDE DEF ir
<1>3. NamesIn(ir) = NamesIn(p.fns) /\ \A k : OfKind(ir, k) = OfKind(p.fns, k)
  BY <1>2 DEF NamesIn, OfKind
<1>4. FromIr(ir).ok
  BY <1>2, <1>3, DistinctNamesLoad DEF Regular
<1> QED
  BY <1>2, <1>4 DEF ir

(* What has been lowered is what is loaded. *)
ReasonInv ==
  /\ Arrived
  /\ stage = "valid" /\ IsSource => fns = LowerResult(program).fns
  /\ RefusalsHaveReasons

LEMMA ReasonInit == Init => ReasonInv
<1> SUFFICES ASSUME Init PROVE ReasonInv
  OBVIOUS
<1>1. CASE program \in Sources /\ stage = "parsed"
  BY <1>1, SourceAssumption DEF ReasonInv, Arrived, IsSource, RefusalsHaveReasons
<1>2. CASE program \in Irs /\ stage = "unvalidated"
  BY <1>2, IrAssumption DEF ReasonInv, Arrived, IsSource, RefusalsHaveReasons
<1> QED
  BY <1>1, <1>2 DEF Init

LEMMA ReasonNext ==
  ASSUME WalkEquations, FrontEndEquations, PassEquations
  PROVE  ReasonInv /\ [Next]_vars => ReasonInv'
<1> SUFFICES ASSUME ReasonInv, [Next]_vars PROVE ReasonInv'
  OBVIOUS
<1> USE DEF Arrived, IsSource
<1>1. CASE LowerProgram
  <2>1. /\ stage = "parsed" /\ program' = program
        /\ fns' = LowerResult(program).fns
        /\ stage' = IF LowerResult(program).bad = {} THEN "valid" ELSE "refused"
    BY <1>1 DEF LowerProgram
  <2>2. program \in Sources /\ IsSource
    BY <2>1 DEF ReasonInv
  <2>3. stage' = "refused" /\ Regular(program) => Analyze(program) # {}
    BY <2>1, <2>2, AcceptedLoads
  <2> QED
    BY <2>1, <2>2, <2>3 DEF ReasonInv, RefusalsHaveReasons
<1>2. CASE ValidateIr
  <2>1. /\ stage = "unvalidated" /\ program' = program
        /\ stage' \in {"valid", "refused"}
    BY <1>2 DEF ValidateIr
  <2>2. program \in Irs /\ ~IsSource
    BY <2>1 DEF ReasonInv
  <2> QED
    BY <2>1, <2>2 DEF ReasonInv, RefusalsHaveReasons
<1>3. CASE Load
  <2>1. /\ stage = "valid" /\ program' = program
        /\ stage' = IF FromIr(fns).ok THEN "loaded" ELSE "refused"
    BY <1>3 DEF Load
  <2>2. stage' = "refused" /\ IsSource /\ Regular(program) => Analyze(program) # {}
    BY <2>1, AcceptedLoads DEF ReasonInv
  <2> QED
    BY <2>1, <2>2 DEF ReasonInv, RefusalsHaveReasons
<1>4. CASE Start
  BY <1>4 DEF Start, ReasonInv, RefusalsHaveReasons
<1>5. CASE Dispatch
  <2>1. program' = program /\ stage' \in {"running", "failed"} /\ stage = "running"
    BY <1>5 DEF Dispatch
  <2> QED
    BY <2>1 DEF ReasonInv, RefusalsHaveReasons
<1>6. CASE Ask
  <2>1. program' = program /\ stage' \in {"running", "failed"} /\ stage = "running"
    BY <1>6 DEF Ask
  <2> QED
    BY <2>1 DEF ReasonInv, RefusalsHaveReasons
<1>7. CASE UNCHANGED vars
  BY <1>7 DEF vars, ReasonInv, RefusalsHaveReasons
<1> QED
  BY <1>1, <1>2, <1>3, <1>4, <1>5, <1>6, <1>7 DEF Next

(* What is refused has been reported: of a program that analyze accepts and
   that is regular, lower_program reports nothing, validate_program finds
   nothing wrong in the IR, and from_ir finds its entry points and no name
   twice.  So the checker, the lowering, the validator and the VM agree on
   what a type is, which each of them works out for itself. *)
THEOREM RefusalsAreExplained ==
  ASSUME WalkEquations, FrontEndEquations, PassEquations
  PROVE  Spec => []RefusalsHaveReasons
<1>1. Init => ReasonInv
  BY ReasonInit
<1>2. ReasonInv /\ [Next]_vars => ReasonInv'
  BY ReasonNext
<1>3. ReasonInv => RefusalsHaveReasons
  BY DEF ReasonInv
<1> QED
  BY <1>1, <1>2, <1>3, PTL DEF Spec

=============================================================================
