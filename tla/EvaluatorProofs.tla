--------------------------- MODULE EvaluatorProofs ---------------------------
(***************************************************************************)
(* Theorems about the evaluator, for all programs, calls and limits.       *)
(***************************************************************************)
EXTENDS Evaluator, SequenceTheorems, FiniteSetTheorems, WellFoundedInduction, TLAPS

------------------------------------------------------------------------------
(***************************************************************************)
(* What the three ways of changing the stack do to it.                     *)
(***************************************************************************)
LEMMA Appended ==
  ASSUME NEW s, IsSeq(s), NEW e
  PROVE  /\ IsSeq(Append(s, e))
         /\ Len(Append(s, e)) = Len(s) + 1
         /\ \A i \in 1 .. Len(s) : Append(s, e)[i] = s[i]
         /\ Append(s, e)[Len(s) + 1] = e
         /\ Append(s, e) # <<>>
         /\ Last(Append(s, e)) = e
<1> DEFINE S == Range(s) \cup {e}
           t == Append(s, e)
<1>1. s \in Seq(S) /\ e \in S
  BY DEF IsSeq
<1>2. /\ t \in Seq(S) /\ Len(t) = Len(s) + 1
      /\ \A i \in 1 .. Len(s) : t[i] = s[i]
      /\ t[Len(s) + 1] = e
  BY <1>1, AppendProperties
<1>3. Len(s) \in Nat /\ DOMAIN t = 1 .. Len(t)
  BY <1>1, <1>2, LenProperties
<1>4. \A i \in 1 .. Len(t) : t[i] \in Range(t)
  BY <1>3 DEF Range
<1>5. IsSeq(t)
  BY <1>2, <1>3, <1>4 DEF IsSeq
<1>6. t # <<>> /\ Last(t) = e
  BY <1>2, <1>3 DEF Last
<1> QED
  BY <1>2, <1>5, <1>6

LEMMA FrontOf ==
  ASSUME NEW s, IsSeq(s), s # <<>>
  PROVE  /\ IsSeq(Front(s))
         /\ Len(s) \in Nat /\ Len(s) >= 1
         /\ Len(Front(s)) = Len(s) - 1
         /\ \A i \in 1 .. Len(s) - 1 : Front(s)[i] = s[i]
         /\ Last(s) = s[Len(s)]
<1> DEFINE t == Front(s)
           m == Len(s) - 1
<1>1. /\ s \in Seq(Range(s))
      /\ Len(s) \in Nat \ {0}
  BY EmptySeq DEF IsSeq
<1>2. m \in Nat /\ Len(s) \in Nat /\ Len(s) >= 1 /\ m = Len(s) - 1
  BY <1>1
<1>3. t = SubSeq(s, 1, m)
  BY DEF Front
<1> HIDE DEF t, m
<1>4. \A i \in 1 .. m : s[i] \in Range(s)
  <2> TAKE i \in 1 .. m
  <2> QED
    BY <1>1, <1>2, ElementOfSeq
<1>5. /\ t \in Seq(Range(s))
      /\ Len(t) = IF 1 <= m THEN m - 1 + 1 ELSE 0
      /\ \A i \in 1 .. m - 1 + 1 : t[i] = s[1 + i - 1]
  <2>1. m \in Int /\ 1 \in Int
    BY <1>2
  <2>2. /\ SubSeq(s, 1, m) \in Seq(Range(s))
        /\ Len(SubSeq(s, 1, m)) = IF 1 <= m THEN m - 1 + 1 ELSE 0
        /\ \A i \in 1 .. m - 1 + 1 : SubSeq(s, 1, m)[i] = s[1 + i - 1]
    BY <1>4, <2>1, SubSeqProperties
  <2> QED
    BY <1>3, <2>2, Zenon
<1>6. Len(t) = m /\ \A i \in 1 .. m : t[i] = s[i]
  <2>1. CASE m = 0
    BY <1>5, <2>1
  <2>2. CASE m # 0
    BY <1>2, <1>5, <2>2
  <2> QED
    BY <2>1, <2>2
<1>7. IsSeq(t)
  <2>1. \A i \in 1 .. Len(t) : t[i] \in Range(t)
    BY <1>5, LenProperties DEF Range
  <2> QED
    BY <1>5, <2>1 DEF IsSeq
<1> QED
  BY <1>2, <1>6, <1>7 DEF t, Last

LEMMA ReplacedTop ==
  ASSUME NEW s, IsSeq(s), s # <<>>, NEW e
  PROVE  LET t == Append(Front(s), e)
         IN  /\ IsSeq(t)
             /\ t # <<>>
             /\ Len(s) \in Nat /\ Len(s) >= 1
             /\ Len(t) = Len(s)
             /\ \A i \in 1 .. Len(s) - 1 : t[i] = s[i]
             /\ t[Len(s)] = e
             /\ Last(t) = e
<1>1. /\ IsSeq(Front(s))
      /\ Len(s) \in Nat /\ Len(s) >= 1
      /\ Len(Front(s)) = Len(s) - 1
      /\ \A i \in 1 .. Len(s) - 1 : Front(s)[i] = s[i]
  BY FrontOf
<1> QED
  BY <1>1, Appended

LEMMA Domain == ASSUME NEW s, IsSeq(s) PROVE Len(s) \in Nat /\ DOMAIN s = 1 .. Len(s)
BY LenProperties DEF IsSeq

(* Induction over Nat, as the least number of a set. *)
LEMMA LeastNumber ==
  ASSUME NEW T, T \subseteq Nat, T # {}
  PROVE  \E n \in T : \A k \in T : n <= k
<1> DEFINE R == {p \in Nat \X Nat : p[1] < p[2]}
<1>1. IsWellFoundedOn(R, Nat)
  BY NatLessThanWellFounded, Zenon DEF OpToRel
<1>2. PICK n \in T : \A k \in T : <<k, n>> \notin R
  <2> HIDE DEF R
  <2> QED
    BY <1>1, WFMin
<1>3. ASSUME NEW k \in T PROVE n <= k
  <2>1. <<k, n>> \notin R /\ k \in Nat /\ n \in Nat
    BY <1>2
  <2>2. ~(k < n)
    BY <2>1
  <2> QED
    BY <2>1, <2>2
<1> QED
  BY <1>3

(* The tail of a sequence, and of a concatenation. *)
LEMMA Shortened ==
  ASSUME NEW s, IsSeq(s), s # <<>>
  PROVE  /\ IsSeq(Tail(s)) /\ Len(Tail(s)) = Len(s) - 1
         /\ Len(s) \in Nat \ {0}
         /\ 1 \in DOMAIN s /\ Head(s) = s[1]
         /\ \A i \in DOMAIN Tail(s) : i + 1 \in DOMAIN s /\ Tail(s)[i] = s[i + 1]
<1>1. s \in Seq(Range(s)) /\ Len(s) \in Nat \ {0} /\ DOMAIN s = 1 .. Len(s)
  BY EmptySeq, LenProperties DEF IsSeq
<1>2. /\ Tail(s) \in Seq(Range(s))
      /\ Len(Tail(s)) = Len(s) - 1
      /\ \A i \in 1 .. Len(Tail(s)) : Tail(s)[i] = s[i + 1]
  BY <1>1, HeadTailProperties
<1>3. DOMAIN Tail(s) = 1 .. Len(Tail(s)) /\ Tail(s) \in [1 .. Len(Tail(s)) -> Range(s)]
  BY <1>2, LenProperties
<1>4. IsSeq(Tail(s))
  <2> DEFINE t == Tail(s)
  <2>1. t \in Seq(Range(s)) /\ DOMAIN t = 1 .. Len(t)
    BY <1>2, <1>3
  <2> HIDE DEF t
  <2>2. \A i \in 1 .. Len(t) : t[i] \in Range(t)
    BY <2>1 DEF Range
  <2>3. t \in Seq(Range(t))
    BY <2>1, <2>2
  <2> QED
    BY <2>3 DEF IsSeq, t
<1>5. Head(s) = s[1] /\ 1 \in DOMAIN s
  BY <1>1
<1>6. \A i \in DOMAIN Tail(s) : i + 1 \in DOMAIN s /\ Tail(s)[i] = s[i + 1]
  BY <1>1, <1>2, <1>3
<1> QED
  BY <1>1, <1>2, <1>4, <1>5, <1>6

LEMMA Joined ==
  ASSUME NEW s, NEW t, IsSeq(s), IsSeq(t)
  PROVE  /\ IsSeq(s \o t)
         /\ \A i \in DOMAIN (s \o t) :
              \/ i \in DOMAIN s /\ (s \o t)[i] = s[i]
              \/ i - Len(s) \in DOMAIN t /\ (s \o t)[i] = t[i - Len(s)]
         /\ s = <<>> => s \o t = t
         /\ s # <<>> => /\ s \o t # <<>>
                        /\ Head(s \o t) = Head(s)
                        /\ Tail(s \o t) = Tail(s) \o t
<1> DEFINE S == Range(s) \cup Range(t)
           u == s \o t
<1>1. /\ s \in Seq(S) /\ t \in Seq(S)
      /\ Len(s) \in Nat /\ DOMAIN s = 1 .. Len(s)
      /\ Len(t) \in Nat /\ DOMAIN t = 1 .. Len(t)
  BY Domain DEF IsSeq
<1>2. /\ u \in Seq(S) /\ Len(u) = Len(s) + Len(t)
      /\ \A i \in 1 .. Len(s) + Len(t) :
           u[i] = IF i <= Len(s) THEN s[i] ELSE t[i - Len(s)]
  BY <1>1, ConcatProperties
<1>3. DOMAIN u = 1 .. Len(u)
  BY <1>2, LenProperties
<1> HIDE DEF S, u
<1>4. IsSeq(u)
  <2>1. \A i \in 1 .. Len(u) : u[i] \in Range(u)
    BY <1>3 DEF Range
  <2>2. u \in [1 .. Len(u) -> Range(u)] /\ Len(u) \in Nat
    BY <1>1, <1>2, <1>3, <2>1, LenProperties
  <2> QED
    BY <1>2, <2>1 DEF IsSeq
<1>5. \A i \in DOMAIN u : \/ i \in DOMAIN s /\ u[i] = s[i]
                          \/ i - Len(s) \in DOMAIN t /\ u[i] = t[i - Len(s)]
  <2> TAKE i \in DOMAIN u
  <2>1. i \in 1 .. Len(s) + Len(t)
    BY <1>2, <1>3
  <2>2. CASE i <= Len(s)
    BY <1>1, <1>2, <2>1, <2>2
  <2>3. CASE ~(i <= Len(s))
    BY <1>1, <1>2, <2>1, <2>3
  <2> QED
    BY <2>2, <2>3
<1>6. ASSUME s = <<>> PROVE u = t
  BY <1>1, <1>6, ConcatEmptySeq DEF u
<1>7. ASSUME s # <<>> PROVE u # <<>> /\ Head(u) = Head(s) /\ Tail(u) = Tail(s) \o t
  <2>1. /\ Len(s) \in Nat \ {0} /\ Tail(s) \in Seq(S) /\ Len(Tail(s)) = Len(s) - 1
        /\ \A i \in 1 .. Len(Tail(s)) : Tail(s)[i] = s[i + 1]
    BY <1>1, <1>7, HeadTailProperties, EmptySeq
  <2>2. Len(u) \in Nat \ {0} /\ u # <<>>
    BY <1>1, <1>2, <2>1, EmptySeq
  <2>3. /\ Tail(u) \in Seq(S) /\ Len(Tail(u)) = Len(u) - 1
        /\ \A i \in 1 .. Len(Tail(u)) : Tail(u)[i] = u[i + 1]
    BY <1>2, <2>2, HeadTailProperties
  <2>4. /\ Tail(s) \o t \in Seq(S) /\ Len(Tail(s) \o t) = Len(s) - 1 + Len(t)
        /\ \A i \in 1 .. Len(s) - 1 + Len(t) :
             (Tail(s) \o t)[i] = IF i <= Len(s) - 1 THEN Tail(s)[i] ELSE t[i - (Len(s) - 1)]
    BY <1>1, <2>1, ConcatProperties
  <2>5. Len(Tail(u)) = Len(Tail(s) \o t)
    BY <1>1, <1>2, <2>3, <2>4
  <2>6. ASSUME NEW i \in 1 .. Len(Tail(u)) PROVE Tail(u)[i] = (Tail(s) \o t)[i]
    <3>1. /\ i \in 1 .. Len(s) - 1 + Len(t) /\ i + 1 \in 1 .. Len(s) + Len(t)
          /\ Tail(u)[i] = u[i + 1]
      BY <1>1, <1>2, <2>3
    <3>2. CASE i <= Len(s) - 1
      <4>1. u[i + 1] = s[i + 1] /\ Tail(s)[i] = s[i + 1]
        BY <1>1, <1>2, <2>1, <3>1, <3>2
      <4> QED
        BY <2>4, <3>1, <3>2, <4>1
    <3>3. CASE ~(i <= Len(s) - 1)
      <4>1. u[i + 1] = t[i + 1 - Len(s)] /\ i + 1 - Len(s) = i - (Len(s) - 1)
        BY <1>1, <1>2, <3>1, <3>3
      <4> QED
        BY <2>4, <3>1, <3>3, <4>1
    <3> QED
      BY <3>2, <3>3
  <2>7. Tail(u) = Tail(s) \o t
    BY <2>3, <2>4, <2>5, <2>6, SeqEqual
  <2>8. u[1] = s[1]
    BY <1>1, <1>2, <2>1
  <2> QED
    BY <2>2, <2>7, <2>8
<1> QED
  BY <1>4, <1>5, <1>6, <1>7 DEF u

(* A concatenation, and a sequence made of another one item by item. *)
LEMMA JoinedParts ==
  ASSUME NEW s, NEW t, IsSeq(s), IsSeq(t)
  PROVE  /\ IsSeq(s \o t)
         /\ Len(s \o t) = Len(s) + Len(t)
         /\ \A i \in 1 .. Len(s) + Len(t) :
              (s \o t)[i] = IF i <= Len(s) THEN s[i] ELSE t[i - Len(s)]
<1> DEFINE S == Range(s) \cup Range(t)
<1>1. s \in Seq(S) /\ t \in Seq(S)
  BY DEF IsSeq
<1> HIDE DEF S
<1> QED
  BY <1>1, Joined, ConcatProperties

LEMMA MappedSeq ==
  ASSUME NEW s, IsSeq(s), NEW f, f = [i \in DOMAIN s |-> f[i]]
  PROVE  IsSeq(f) /\ Len(f) = Len(s)
<1>1. DOMAIN f = 1 .. Len(s) /\ Len(s) \in Nat
  BY Domain
<1>2. \A i \in 1 .. Len(s) : f[i] \in Range(f)
  BY <1>1 DEF Range
<1>3. f \in [1 .. Len(s) -> Range(f)]
  BY <1>1, <1>2
<1>4. f \in Seq(Range(f))
  BY <1>1, <1>3
<1> QED
  BY <1>1, <1>4, LenProperties DEF IsSeq

------------------------------------------------------------------------------
(***************************************************************************)
(* The shape of the evaluator's state: the stack is a sequence, control    *)
(* points that need a frame have it, and the counters fit the stack.       *)
(***************************************************************************)
Shape ==
  /\ call \in Calls
  /\ IsSeq(stack)
  /\ steps \in Nat
  /\ Len(stack) + steps <= Limits.max_steps
  /\ ctl.at = "kids" => TopIs("kids")
  /\ ctl.at \in {"arm", "pattern"} => TopIs("arms")

LEMMA ShapeInit == Init => Shape
<1> SUFFICES ASSUME Init PROVE Shape
  OBVIOUS
<1>1. IsSeq(<<>>) /\ Len(<<>>) = 0
  BY EmptySeq DEF IsSeq
<1> QED
  BY <1>1, CallsAssumption DEF Init, Shape, Limits, CallFn

(* Each move of the stack, as an action. *)
LEMMA Pushes ==
  ASSUME NEW f, Shape, Push(f)
  PROVE  /\ IsSeq(stack)' /\ Len(stack)' = Len(stack) + 1 /\ Len(stack) \in Nat
         /\ stack' # <<>> /\ Last(stack') = f
BY Appended, Domain DEF Push, Shape

LEMMA Pops ==
  ASSUME Shape, stack # <<>>, Pop
  PROVE  /\ IsSeq(stack)' /\ Len(stack)' = Len(stack) - 1
         /\ Len(stack) \in Nat /\ Len(stack) >= 1
BY FrontOf DEF Pop, Shape

LEMMA Replaces ==
  ASSUME NEW f, Shape, stack # <<>>, Replace(f)
  PROVE  /\ IsSeq(stack)' /\ Len(stack)' = Len(stack)
         /\ Len(stack) \in Nat /\ Len(stack) >= 1
         /\ stack' # <<>> /\ Last(stack') = f
BY ReplacedTop DEF Replace, Shape

LEMMA ShapeNext == Shape /\ [Next]_vars => Shape'
<1> SUFFICES ASSUME Shape, [Next]_vars PROVE Shape'
  OBVIOUS
<1> USE DEF CallFn, Eval, Kids, ChargeFor, Return, NextArm, Matching, Fail, Done
<1>0. Len(stack) \in Nat /\ Limits.max_steps \in Nat
  BY Domain, CallsAssumption DEF Shape, Limits
<1>1. CASE OutOfSteps
  BY <1>1 DEF OutOfSteps, Shape, Limits
<1>2. CASE EnterFunction
  BY <1>0, <1>2, Pushes DEF EnterFunction, Shape, Limits, ConsumeStep
<1>3. CASE RefuseCall
  BY <1>0, <1>3 DEF RefuseCall, Shape, Limits, ConsumeStep
<1>4. CASE ReturnFromFunction
  BY <1>0, <1>4, Pops DEF ReturnFromFunction, Shape, Limits, TopIs
<1>5. CASE EvalLeaf
  BY <1>0, <1>5 DEF EvalLeaf, Shape, Limits, ConsumeStep
<1>6. CASE EvalUnknownLocal
  BY <1>0, <1>6 DEF EvalUnknownLocal, Shape, Limits, ConsumeStep
<1>7. CASE EvalKids
  BY <1>0, <1>7, Pushes DEF EvalKids, Shape, Limits, ConsumeStep, TopIs, Top, KidsFrame
<1>8. CASE NextKid
  BY <1>0, <1>8 DEF NextKid, Shape, Limits
<1>9. CASE ReturnToKids
  BY <1>0, <1>9, Replaces DEF ReturnToKids, Shape, Limits, TopIs, Top, KidsFrame
<1>10. CASE BuildValue
  BY <1>0, <1>10, Pops DEF BuildValue, Shape, Limits, TopIs
<1>11. CASE BuildCall
  BY <1>0, <1>11 DEF BuildCall, Shape, Limits
<1>12. CASE ReturnToCall
  BY <1>0, <1>12, Pops DEF ReturnToCall, Shape, Limits, TopIs
<1>13. CASE EvalLet
  BY <1>0, <1>13, Pushes DEF EvalLet, Shape, Limits, ConsumeStep
<1>14. CASE ReturnToLetValue
  BY <1>0, <1>14, Replaces DEF ReturnToLetValue, Shape, Limits, TopIs
<1>15. CASE ReturnToLetBody
  BY <1>0, <1>15, Pops DEF ReturnToLetBody, Shape, Limits, TopIs
<1>16. CASE EvalMatch
  BY <1>0, <1>16, Pushes DEF EvalMatch, Shape, Limits, ConsumeStep
<1>17. CASE ReturnToSubject
  BY <1>0, <1>17, Replaces DEF ReturnToSubject, Shape, Limits, TopIs, Top, ArmsFrame
<1>18. CASE TryArm
  BY <1>0, <1>18 DEF TryArm, Shape, Limits, TopIs, Top
<1>19. CASE NoArm
  BY <1>0, <1>19 DEF NoArm, Shape, Limits
<1>20. CASE ArmMatches
  BY <1>0, <1>20, Replaces DEF ArmMatches, Shape, Limits, TopIs
<1>21. CASE ReturnToMatch
  BY <1>0, <1>21, Pops DEF ReturnToMatch, Shape, Limits, TopIs
<1>22. CASE FieldMissing
  BY <1>0, <1>22 DEF FieldMissing, Shape, Limits
<1>23. CASE MatchWildcard
  BY <1>0, <1>23 DEF MatchWildcard, Shape, Limits, AtPattern, ConsumeStep, TopIs, Top
<1>24. CASE MatchBinding
  BY <1>0, <1>24 DEF MatchBinding, Shape, Limits, AtPattern, ConsumeStep, TopIs, Top
<1>25. CASE MatchVariant
  BY <1>0, <1>25 DEF MatchVariant, Shape, Limits, AtPattern, ConsumeStep, TopIs, Top
<1>26. CASE MissVariant
  BY <1>0, <1>26, Replaces DEF MissVariant, Shape, Limits, AtPattern, ConsumeStep, TopIs, Top, ArmsFrame
<1>27. CASE MatchNonEnum
  BY <1>0, <1>27 DEF MatchNonEnum, Shape, Limits, ConsumeStep, AtPattern
<1>28. CASE Charge
  BY <1>0, <1>28 DEF Charge, Shape, Limits
<1>29. CASE Unwind
  BY <1>0, <1>29, Pops DEF Unwind, Shape, Limits
<1>30. CASE Finish
  BY <1>0, <1>30 DEF Finish, Shape, Limits
<1>31. CASE UNCHANGED vars
  BY <1>31 DEF Shape, Limits, TopIs, Top, vars
<1> QED
  BY <1>1, <1>2, <1>3, <1>4, <1>5, <1>6, <1>7, <1>8, <1>9, <1>10, <1>11, <1>12, <1>13, <1>14, <1>15, <1>16, <1>17, <1>18, <1>19, <1>20, <1>21, <1>22, <1>23, <1>24, <1>25, <1>26, <1>27, <1>28, <1>29, <1>30, <1>31
     DEF Next, CallFunction, EvalSimple, EvalCompound, EvalLetExpr, EvalMatchExpr,
         PatternMatches

(***************************************************************************)
(* The shape holds always: the counters are natural numbers and every      *)
(* frame has been paid for (call_function, eval_expr).                     *)
(***************************************************************************)
THEOREM ShapeAlways == Spec => []Shape
<1>1. Init => Shape
  BY ShapeInit
<1>2. Shape /\ [Next]_vars => Shape'
  BY ShapeNext
<1> QED
  BY <1>1, <1>2, PTL DEF Spec

------------------------------------------------------------------------------
(***************************************************************************)
(* The depth counter.  Levels(s) are the positions of the function         *)
(* activations on a stack s.                                               *)
(***************************************************************************)
Levels(s) == {i \in DOMAIN s : s[i].kind = "body"}

LEMMA LevelsFinite ==
  ASSUME NEW s, IsSeq(s)
  PROVE  IsFiniteSet(Levels(s)) /\ Len(s) + 1 \notin Levels(s)
<1>1. Levels(s) \subseteq 1 .. Len(s) /\ Len(s) \in Nat
  BY Domain DEF Levels
<1>2. IsFiniteSet(1 .. Len(s))
  BY <1>1, FS_Interval
<1> QED
  BY <1>1, <1>2, FS_Subset

LEMMA LevelsPush ==
  ASSUME NEW s, IsSeq(s), NEW e
  PROVE  Levels(Append(s, e)) =
           Levels(s) \cup (IF e.kind = "body" THEN {Len(s) + 1} ELSE {})
<1> DEFINE t == Append(s, e)
<1>1. /\ Len(t) = Len(s) + 1 /\ Len(s) \in Nat
      /\ DOMAIN s = 1 .. Len(s) /\ DOMAIN t = 1 .. Len(s) + 1
      /\ \A i \in 1 .. Len(s) : t[i] = s[i]
      /\ t[Len(s) + 1] = e
  BY Appended, Domain
<1> HIDE DEF t
<1>2. DOMAIN t = DOMAIN s \cup {Len(s) + 1}
  BY <1>1
<1> QED
  BY <1>1, <1>2 DEF Levels, t

LEMMA LevelsPop ==
  ASSUME NEW s, IsSeq(s), s # <<>>
  PROVE  /\ Levels(Front(s)) = Levels(s) \ {Len(s)}
         /\ Len(s) \in Levels(s) <=> Last(s).kind = "body"
<1> DEFINE t == Front(s)
<1>1. /\ Len(s) \in Nat /\ Len(s) >= 1 /\ Last(s) = s[Len(s)]
      /\ DOMAIN s = 1 .. Len(s) /\ DOMAIN t = 1 .. Len(s) - 1
      /\ \A i \in 1 .. Len(s) - 1 : t[i] = s[i]
  BY FrontOf, Domain
<1> HIDE DEF t
<1>2. DOMAIN t = DOMAIN s \ {Len(s)} /\ Len(s) \in DOMAIN s
  BY <1>1
<1> QED
  BY <1>1, <1>2 DEF Levels, t

LEMMA LevelsReplace ==
  ASSUME NEW s, IsSeq(s), s # <<>>, Last(s).kind # "body", NEW e, e.kind # "body"
  PROVE  Levels(Append(Front(s), e)) = Levels(s)
<1>1. IsSeq(Front(s))
  BY FrontOf
<1>2. Levels(Append(Front(s), e)) = Levels(Front(s))
  BY <1>1, LevelsPush
<1> QED
  BY <1>2, LevelsPop

DepthInv ==
  /\ depth \in Nat
  /\ depth = Cardinality(Levels(stack))
  /\ depth <= Limits.max_recursion_depth

(* The moves of the stack again, now with the counter. *)
LEMMA PushKeepsLevels ==
  ASSUME NEW f, Shape, Push(f), f.kind # "body"
  PROVE  Levels(stack') = Levels(stack)
BY LevelsPush DEF Shape, Push

LEMMA ReplaceKeepsLevels ==
  ASSUME NEW f, Shape, Replace(f), f.kind # "body", stack # <<>>, Top.kind # "body"
  PROVE  Levels(stack') = Levels(stack)
BY LevelsReplace DEF Shape, Replace, Top

LEMMA PopKeepsLevels ==
  ASSUME Shape, Pop, stack # <<>>, Top.kind # "body"
  PROVE  Levels(stack') = Levels(stack)
BY LevelsPop DEF Shape, Pop, Top

LEMMA PopLevel ==
  ASSUME Shape, Pop, TopIs("body"), DepthInv, depth' = depth - 1, call' = call
  PROVE  DepthInv'
<1>1. /\ Levels(stack') = Levels(stack) \ {Len(stack)}
      /\ Len(stack) \in Levels(stack)
      /\ IsFiniteSet(Levels(stack))
  BY LevelsPop, LevelsFinite DEF Shape, Pop, TopIs, Top
<1>2. Cardinality(Levels(stack')) = Cardinality(Levels(stack)) - 1
  BY <1>1, FS_RemoveElement
<1>3. Cardinality(Levels(stack')) \in Nat
  BY <1>1, FS_Subset, FS_CardinalityType
<1>4. Limits.max_recursion_depth \in Nat
  BY CallsAssumption DEF Limits, Shape
<1> QED
  BY <1>2, <1>3, <1>4 DEF DepthInv, Limits

LEMMA SameLevels ==
  ASSUME DepthInv, depth' = depth, call' = call, Levels(stack') = Levels(stack)
  PROVE  DepthInv'
BY DEF DepthInv, Limits

LEMMA DepthInit == Init => DepthInv
<1> SUFFICES ASSUME Init PROVE DepthInv
  OBVIOUS
<1>1. Levels(stack) = {} /\ depth = 0 /\ call \in Calls
  BY DEF Levels, Init
<1>2. Limits.max_recursion_depth \in Nat
  BY <1>1, CallsAssumption DEF Limits
<1>3. Cardinality({}) = 0
  BY FS_EmptySet
<1> QED
  BY <1>1, <1>2, <1>3 DEF DepthInv

LEMMA DepthNext == Shape /\ DepthInv /\ [Next]_vars => DepthInv'
<1> SUFFICES ASSUME Shape, DepthInv, [Next]_vars PROVE DepthInv'
  OBVIOUS
<1>1. CASE EnterFunction
  <2>1. Levels(stack') = Levels(stack) \cup {Len(stack) + 1}
    BY <1>1, LevelsPush DEF EnterFunction, Push, BodyFrame, Shape
  <2>2. Cardinality(Levels(stack')) = Cardinality(Levels(stack)) + 1
    BY <2>1, LevelsFinite, FS_AddElement DEF Shape
  <2>3. Limits.max_recursion_depth \in Nat
    BY CallsAssumption DEF Limits, Shape
  <2> QED
    BY <1>1, <2>2, <2>3 DEF EnterFunction, DepthExceeded, DepthInv, Limits
<1>2. CASE ReturnFromFunction
  BY <1>2, PopLevel DEF ReturnFromFunction
<1>3. CASE Unwind
  <2>1. CASE TopIs("body")
    BY <1>3, <2>1, PopLevel DEF Unwind, LevelAfterTop
  <2>2. CASE ~TopIs("body")
    BY <1>3, <2>2, PopKeepsLevels, SameLevels DEF Unwind, LevelAfterTop, TopIs
  <2> QED
    BY <2>1, <2>2
<1>4. CASE EvalKids
  BY <1>4, PushKeepsLevels, SameLevels DEF EvalKids, KidsFrame
<1>5. CASE EvalLet
  BY <1>5, PushKeepsLevels, SameLevels DEF EvalLet, LetValueFrame
<1>6. CASE EvalMatch
  BY <1>6, PushKeepsLevels, SameLevels DEF EvalMatch, SubjectFrame
<1>7. CASE ReturnToKids
  BY <1>7, ReplaceKeepsLevels, SameLevels DEF ReturnToKids, KidsFrame, TopIs
<1>8. CASE ReturnToLetValue
  BY <1>8, ReplaceKeepsLevels, SameLevels DEF ReturnToLetValue, LetBodyFrame, TopIs
<1>9. CASE ReturnToSubject
  BY <1>9, ReplaceKeepsLevels, SameLevels DEF ReturnToSubject, ArmsFrame, TopIs
<1>10. CASE ArmMatches
  BY <1>10, ReplaceKeepsLevels, SameLevels DEF ArmMatches, ArmBodyFrame, TopIs, Shape
<1>11. CASE MissVariant
  BY <1>11, ReplaceKeepsLevels, SameLevels DEF MissVariant, ArmsFrame, AtPattern, TopIs, Shape
<1>12. CASE BuildValue
  BY <1>12, PopKeepsLevels, SameLevels DEF BuildValue, TopIs, Shape
<1>13. CASE ReturnToCall
  BY <1>13, PopKeepsLevels, SameLevels DEF ReturnToCall, TopIs
<1>14. CASE ReturnToLetBody
  BY <1>14, PopKeepsLevels, SameLevels DEF ReturnToLetBody, TopIs
<1>15. CASE ReturnToMatch
  BY <1>15, PopKeepsLevels, SameLevels DEF ReturnToMatch, TopIs
<1>16. CASE OutOfSteps
  BY <1>16, SameLevels DEF OutOfSteps
<1>17. CASE RefuseCall
  BY <1>17, SameLevels DEF RefuseCall
<1>18. CASE EvalLeaf
  BY <1>18, SameLevels DEF EvalLeaf
<1>19. CASE EvalUnknownLocal
  BY <1>19, SameLevels DEF EvalUnknownLocal
<1>20. CASE NextKid
  BY <1>20, SameLevels DEF NextKid
<1>21. CASE BuildCall
  BY <1>21, SameLevels DEF BuildCall
<1>22. CASE TryArm
  BY <1>22, SameLevels DEF TryArm
<1>23. CASE NoArm
  BY <1>23, SameLevels DEF NoArm
<1>24. CASE FieldMissing
  BY <1>24, SameLevels DEF FieldMissing
<1>25. CASE MatchWildcard
  BY <1>25, SameLevels DEF MatchWildcard
<1>26. CASE MatchBinding
  BY <1>26, SameLevels DEF MatchBinding
<1>27. CASE MatchVariant
  BY <1>27, SameLevels DEF MatchVariant
<1>28. CASE MatchNonEnum
  BY <1>28, SameLevels DEF MatchNonEnum
<1>29. CASE Charge
  BY <1>29, SameLevels DEF Charge
<1>30. CASE Finish
  BY <1>30, SameLevels DEF Finish
<1>31. CASE UNCHANGED vars
  BY <1>31, SameLevels DEF vars
<1> QED
  BY <1>1, <1>2, <1>3, <1>4, <1>5, <1>6, <1>7, <1>8, <1>9, <1>10, <1>11, <1>12, <1>13, <1>14, <1>15, <1>16, <1>17, <1>18, <1>19, <1>20, <1>21, <1>22, <1>23, <1>24, <1>25, <1>26, <1>27, <1>28, <1>29, <1>30, <1>31
     DEF Next, CallFunction, EvalSimple, EvalCompound, EvalLetExpr, EvalMatchExpr,
         PatternMatches

(***************************************************************************)
(* current_depth is the number of function activations on the native       *)
(* stack, in every state, and never more than max_recursion_depth.         *)
(***************************************************************************)
THEOREM DepthIsCounted == Spec => []DepthCountsActivations
<1>1. Init => Shape /\ DepthInv
  BY ShapeInit, DepthInit
<1>2. (Shape /\ DepthInv) /\ [Next]_vars => (Shape /\ DepthInv)'
  BY ShapeNext, DepthNext
<1>3. DepthInv => DepthCountsActivations
  BY DEF DepthInv, DepthCountsActivations, Levels, Activations
<1> QED
  BY <1>1, <1>2, <1>3, PTL DEF Spec

------------------------------------------------------------------------------
(***************************************************************************)
(* Termination: the number WorkLeft goes down with every step.             *)
(***************************************************************************)
LEMMA Ranks ==
  /\ Rank("done") = 0 /\ Rank("error") = 1 /\ Rank("call") = 2 /\ Rank("eval") = 2
  /\ Rank("pattern") = 3 /\ Rank("arm") = 4 /\ Rank("kids") = 5
  /\ Rank("return") = 6 /\ Rank("charge") = 7
BY DEF Rank

LEMMA SmallRank == ASSUME NEW r \in 0 .. 7 PROVE r \in Nat
OBVIOUS

LEMMA SmallerSum ==
  ASSUME NEW m \in Nat, NEW n \in Nat, NEW k \in Nat, NEW l \in Nat,
         NEW r \in Nat, NEW s \in Nat,
         8 * m + 3 * k + s < 8 * n + 3 * l + r
  PROVE  8 * m + 3 * k + s \in 0 .. 8 * n + 3 * l + r - 1
OBVIOUS

(* What a step has to show: that it moved the counter, the stack and the   *)
(* control point to a smaller sum.                                         *)
LEMMA LessWork ==
  ASSUME Shape, steps' \in Nat, Len(stack') \in Nat,
         NEW r \in 0 .. 7, r = Rank(ctl.at), NEW s \in 0 .. 7, s = Rank(ctl'.at),
         8 * steps' + 3 * Len(stack') + s < 8 * steps + 3 * Len(stack) + r
  PROVE  WorkLeft' \in 0 .. WorkLeft - 1
<1>1. Len(stack) \in Nat /\ steps \in Nat
  BY Domain DEF Shape
<1>2. WorkLeft = 8 * steps + 3 * Len(stack) + r
  BY DEF WorkLeft
<1>3. WorkLeft' = 8 * steps' + 3 * Len(stack') + s
  BY DEF WorkLeft
<1>4. r \in Nat /\ s \in Nat
  BY SmallRank
<1>5. 8 * steps' + 3 * Len(stack') + s \in 0 .. 8 * steps + 3 * Len(stack) + r - 1
  <2> DEFINE m == steps'
             k == Len(stack')
             n == steps
             l == Len(stack)
  <2>1. m \in Nat /\ k \in Nat /\ n \in Nat /\ l \in Nat
    BY <1>1
  <2>2. 8 * m + 3 * k + s < 8 * n + 3 * l + r
    OBVIOUS
  <2> HIDE DEF m, k, n, l
  <2>3. 8 * m + 3 * k + s \in 0 .. 8 * n + 3 * l + r - 1
    BY <1>4, <2>1, <2>2, SmallerSum
  <2> QED
    BY <2>3 DEF m, k, n, l
<1> QED
  BY <1>2, <1>3, <1>5

LEMMA EveryStepUsesWork == Shape /\ Next => WorkLeft' \in 0 .. WorkLeft - 1
<1> SUFFICES ASSUME Shape, Next PROVE WorkLeft' \in 0 .. WorkLeft - 1
  OBVIOUS
<1> USE DEF CallFn, Eval, Kids, ChargeFor, Return, NextArm, Matching, Fail, Done
<1>0. Len(stack) \in Nat /\ steps \in Nat
  BY Domain DEF Shape
<1>1. CASE OutOfSteps
  BY <1>0, <1>1, Ranks, LessWork DEF OutOfSteps, ConsumesStep
<1>2. CASE EnterFunction
  BY <1>0, <1>2, Ranks, LessWork, Pushes DEF EnterFunction, ConsumeStep
<1>3. CASE RefuseCall
  BY <1>0, <1>3, Ranks, LessWork DEF RefuseCall, ConsumeStep
<1>4. CASE ReturnFromFunction
  BY <1>0, <1>4, Ranks, LessWork, Pops DEF ReturnFromFunction, Shape, TopIs
<1>5. CASE EvalLeaf
  BY <1>0, <1>5, Ranks, LessWork DEF EvalLeaf, ConsumeStep
<1>6. CASE EvalUnknownLocal
  BY <1>0, <1>6, Ranks, LessWork DEF EvalUnknownLocal, ConsumeStep
<1>7. CASE EvalKids
  BY <1>0, <1>7, Ranks, LessWork, Pushes DEF EvalKids, ConsumeStep
<1>8. CASE NextKid
  BY <1>0, <1>8, Ranks, LessWork DEF NextKid
<1>9. CASE ReturnToKids
  BY <1>0, <1>9, Ranks, LessWork, Replaces DEF ReturnToKids, Shape, TopIs
<1>10. CASE BuildValue
  BY <1>0, <1>10, Ranks, LessWork, Pops DEF BuildValue, Shape, TopIs
<1>11. CASE BuildCall
  BY <1>0, <1>11, Ranks, LessWork DEF BuildCall
<1>12. CASE ReturnToCall
  BY <1>0, <1>12, Ranks, LessWork, Pops DEF ReturnToCall, Shape, TopIs
<1>13. CASE EvalLet
  <2>1. Len(stack') = Len(stack) + 1
    BY <1>13, Pushes DEF EvalLet
  <2>2. steps' \in Nat /\ Len(stack') \in Nat
    BY <1>0, <1>13, <2>1 DEF EvalLet, ConsumeStep
  <2>3. 8 * steps' + 3 * Len(stack') + 2 < 8 * steps + 3 * Len(stack) + 2
    BY <1>0, <1>13, <2>1 DEF EvalLet, ConsumeStep
  <2>4. 2 = Rank(ctl.at) /\ 2 = Rank(ctl'.at)
    BY <1>13, Ranks DEF EvalLet
  <2> QED
    BY <2>2, <2>3, <2>4, LessWork
<1>14. CASE ReturnToLetValue
  BY <1>0, <1>14, Ranks, LessWork, Replaces DEF ReturnToLetValue, Shape, TopIs
<1>15. CASE ReturnToLetBody
  BY <1>0, <1>15, Ranks, LessWork, Pops DEF ReturnToLetBody, Shape, TopIs
<1>16. CASE EvalMatch
  BY <1>0, <1>16, Ranks, LessWork, Pushes DEF EvalMatch, ConsumeStep
<1>17. CASE ReturnToSubject
  BY <1>0, <1>17, Ranks, LessWork, Replaces DEF ReturnToSubject, Shape, TopIs
<1>18. CASE TryArm
  BY <1>0, <1>18, Ranks, LessWork DEF TryArm
<1>19. CASE NoArm
  BY <1>0, <1>19, Ranks, LessWork DEF NoArm
<1>20. CASE ArmMatches
  BY <1>0, <1>20, Ranks, LessWork, Replaces DEF ArmMatches, Shape, TopIs
<1>21. CASE ReturnToMatch
  BY <1>0, <1>21, Ranks, LessWork, Pops DEF ReturnToMatch, Shape, TopIs
<1>22. CASE FieldMissing
  BY <1>0, <1>22, Ranks, LessWork DEF FieldMissing
<1>23. CASE MatchWildcard
  BY <1>0, <1>23, Ranks, LessWork DEF MatchWildcard, AtPattern, ConsumeStep
<1>24. CASE MatchBinding
  BY <1>0, <1>24, Ranks, LessWork DEF MatchBinding, AtPattern, ConsumeStep
<1>25. CASE MatchVariant
  BY <1>0, <1>25, Ranks, LessWork DEF MatchVariant, AtPattern, ConsumeStep
<1>26. CASE MissVariant
  BY <1>0, <1>26, Ranks, LessWork, Replaces DEF MissVariant, Shape, AtPattern, ConsumeStep, TopIs
<1>27. CASE MatchNonEnum
  BY <1>0, <1>27, Ranks, LessWork DEF MatchNonEnum, AtPattern, ConsumeStep
<1>28. CASE Charge
  BY <1>0, <1>28, Ranks, LessWork DEF Charge
<1>29. CASE Unwind
  <2>1. Len(stack') = Len(stack) - 1 /\ Len(stack) >= 1
    BY <1>29, Pops DEF Unwind
  <2>2. ctl' = ctl /\ ctl.at = "error" /\ steps' = steps
    BY <1>29 DEF Unwind
  <2> QED
    BY <1>0, <2>1, <2>2, Ranks, LessWork
<1>30. CASE Finish
  BY <1>0, <1>30, Ranks, LessWork DEF Finish
<1> QED
  BY <1>1, <1>2, <1>3, <1>4, <1>5, <1>6, <1>7, <1>8, <1>9, <1>10, <1>11, <1>12, <1>13, <1>14, <1>15, <1>16, <1>17, <1>18, <1>19, <1>20, <1>21, <1>22, <1>23, <1>24, <1>25, <1>26, <1>27, <1>28, <1>29, <1>30
     DEF Next, CallFunction, EvalSimple, EvalCompound, EvalLetExpr, EvalMatchExpr,
         PatternMatches

(***************************************************************************)
(* Every step of the evaluator uses up part of what the step limit paid    *)
(* for, so that no program makes a call run for ever.                      *)
(***************************************************************************)
THEOREM CallsRunOut == Spec => WorkRunsOut
<1>1. Shape /\ [Next]_vars => [WorkLeft' \in 0 .. WorkLeft - 1]_vars
  BY EveryStepUsesWork
<1> QED
  BY <1>1, ShapeAlways, PTL DEF Spec, WorkRunsOut

------------------------------------------------------------------------------
(***************************************************************************)
(* Arithmetic is exact at every width.  Division is the one operation that *)
(* needs an argument.  TruncDiv divides the absolute values; the rest that *)
(* this leaves determines the quotient, and a divisor other than 1 and -1  *)
(* makes the dividend smaller.                                             *)
(***************************************************************************)
LEMMA AbsIsNat ==
  ASSUME NEW i \in Int
  PROVE  AbsInt(i) \in Nat /\ (i # 0 => AbsInt(i) > 0) /\ (AbsInt(i) = i \/ AbsInt(i) = -i)
BY DEF AbsInt

(* Division of what is not negative. *)
LEMMA Euclid ==
  ASSUME NEW a \in Nat, NEW b \in Nat, b > 0
  PROVE  /\ a \div b \in Nat
         /\ a - b * (a \div b) \in Nat
         /\ a - b * (a \div b) < b
<1>1. a \div b \in Int /\ a % b \in 0 .. b - 1 /\ a = b * (a \div b) + (a % b)
  BY Z3
<1>2. a \div b >= 0
  BY Z3
<1> QED
  BY <1>1, <1>2

(* TruncDiv is the quotient, and no other integer is. *)
LEMMA TruncDivIsQuotient ==
  ASSUME NEW a \in Int, NEW b \in Int, b # 0
  PROVE  TruncDiv(a, b) \in Int /\ IsQuotient(TruncDiv(a, b), a, b)
<1> DEFINE x == AbsInt(a)
           y == AbsInt(b)
           q == x \div y
           z == y * q
<1>1. x \in Nat /\ y \in Nat /\ y > 0
  BY AbsIsNat
<1>2. q \in Nat /\ z \in Nat /\ x - z >= 0 /\ x - z < y
  BY <1>1, Euclid
<1>3. TruncDiv(a, b) = IF (a < 0) = (b < 0) THEN q ELSE -q
  BY DEF TruncDiv
<1>4. b * q = IF b < 0 THEN -z ELSE z
  <2>1. (-b) * q = -(b * q) /\ b * q \in Int
    BY <1>2
  <2>2. z = IF b < 0 THEN (-b) * q ELSE b * q
    BY DEF AbsInt
  <2> HIDE DEF q, z
  <2> QED
    BY <2>1, <2>2
<1>5. b * (-q) = -(b * q)
  BY <1>2
<1>6. b * TruncDiv(a, b) = IF a < 0 THEN -z ELSE z
  BY <1>2, <1>3, <1>4, <1>5
<1> HIDE DEF q, z
<1> QED
  BY <1>1, <1>2, <1>3, <1>6 DEF IsQuotient, AbsInt

LEMMA OneQuotient ==
  ASSUME NEW a \in Int, NEW b \in Int, NEW m \in Int, NEW n \in Int,
         IsQuotient(m, a, b), IsQuotient(n, a, b)
  PROVE  m = n
<1> DEFINE r == a - b * m
           s == a - b * n
           d == n - m
<1>1. r \in Int /\ s \in Int /\ d \in Int /\ r - s = b * d
  OBVIOUS
<1>2. AbsInt(r) < AbsInt(b) /\ AbsInt(s) < AbsInt(b)
  BY DEF IsQuotient
<1>3. (r > 0 => a > 0) /\ (r < 0 => a < 0) /\ (s > 0 => a > 0) /\ (s < 0 => a < 0)
  BY DEF IsQuotient
<1> HIDE DEF r, s
<1>4. AbsInt(r - s) < AbsInt(b)
  BY <1>1, <1>2, <1>3 DEF AbsInt
<1>5. d # 0 => AbsInt(b * d) >= AbsInt(b)
  <2>1. d >= 1 /\ b >= 0 => b * d >= b
    BY <1>1
  <2>2. d >= 1 /\ b < 0 => b * d <= b
    BY <1>1
  <2>3. d <= -1 /\ b >= 0 => b * d <= -b
    BY <1>1
  <2>4. d <= -1 /\ b < 0 => b * d >= -b
    BY <1>1
  <2> QED
    BY <1>1, <2>1, <2>2, <2>3, <2>4 DEF AbsInt
<1>6. AbsInt(r - s) = AbsInt(b * d) /\ AbsInt(b * d) \in Int /\ AbsInt(b) \in Int
  BY <1>1, AbsIsNat
<1>7. d = 0
  BY <1>4, <1>5, <1>6
<1> QED
  BY <1>7

(* A quotient is no larger than the dividend, and smaller by far unless    *)
(* the divisor is 1 or -1.                                                 *)
LEMMA QuotientsShrink ==
  ASSUME NEW a \in MinInt .. MaxInt, NEW b \in MinInt .. MaxInt, b # 0,
         TruncDiv(a, b) \notin MinInt .. MaxInt
  PROVE  a = MinInt /\ b = -1
<1> DEFINE x == AbsInt(a)
           y == AbsInt(b)
           q == x \div y
<1>0. MaxInt \in Nat /\ MinInt = -MaxInt - 1
  BY WidthAssumption
<1>1. x \in Nat /\ y \in Nat /\ y > 0 /\ x <= MaxInt + 1
  BY <1>0, AbsIsNat DEF AbsInt
<1>2. q \in Nat /\ y * q <= x
  BY <1>1, Euclid
<1>3. TruncDiv(a, b) = IF (a < 0) = (b < 0) THEN q ELSE -q
  BY DEF TruncDiv
<1>4. q <= y * q
  BY <1>1, <1>2
<1>5. q = MaxInt + 1 /\ (a < 0) = (b < 0)
  <2> HIDE DEF q, x, y
  <2> QED
    BY <1>0, <1>1, <1>2, <1>3, <1>4
<1>6. x = MaxInt + 1 /\ a = MinInt
  <2>1. x = MaxInt + 1
    BY <1>0, <1>1, <1>2, <1>4, <1>5
  <2> QED
    BY <1>0, <2>1 DEF AbsInt
<1>7. y >= 2 => y * q >= 2 * q
  BY <1>1, <1>2
<1>8. y = 1
  BY <1>0, <1>1, <1>2, <1>5, <1>6, <1>7
<1> QED
  BY <1>0, <1>5, <1>6, <1>8 DEF AbsInt

------------------------------------------------------------------------------
(* The exact result, where there is one. *)
Exact(op, a, b) ==
  CASE op = "Add" -> a + b
    [] op = "Sub" -> a - b
    [] op = "Mul" -> a * b
    [] op = "Div" -> TruncDiv(a, b)

LEMMA ExactIsResult ==
  ASSUME NEW op \in Operations, NEW a \in Int, NEW b \in Int, op = "Div" => b # 0
  PROVE  /\ Exact(op, a, b) \in Int
         /\ \A n \in Int : IsResult(n, op, a, b) <=> n = Exact(op, a, b)
<1>1. CASE op = "Add"
  BY <1>1 DEF Exact, IsResult
<1>2. CASE op = "Sub"
  BY <1>2 DEF Exact, IsResult
<1>3. CASE op = "Mul"
  BY <1>3 DEF Exact, IsResult
<1>4. CASE op = "Div"
  <2>1. Exact(op, a, b) \in Int /\ IsQuotient(Exact(op, a, b), a, b)
    BY <1>4, TruncDivIsQuotient DEF Exact
  <2>2. \A n \in Int : IsResult(n, op, a, b) <=> IsQuotient(n, a, b)
    BY <1>4 DEF IsResult
  <2> QED
    BY <2>1, <2>2, OneQuotient
<1> QED
  BY <1>1, <1>2, <1>3, <1>4 DEF Operations

(* Nothing is divided by zero. *)
LEMMA NoQuotientByZero ==
  ASSUME NEW a \in Int, NEW n \in Int
  PROVE  ~IsResult(n, "Div", a, 0)
<1>1. 0 * n = 0 /\ a - 0 * n = a
  OBVIOUS
<1>2. ~IsQuotient(n, a, 0)
  BY <1>1 DEF IsQuotient, AbsInt
<1> QED
  BY <1>2 DEF IsResult

(* What eval_binary makes of two integers. *)
LEMMA OperationOutcomes ==
  ASSUME NEW op \in Operations, NEW a \in MinInt .. MaxInt, NEW b \in MinInt .. MaxInt
  PROVE  EvalBinary(op, IntV(a), IntV(b)) =
           IF op = "Div" /\ b = 0 THEN Err("Trap", "division_by_zero")
           ELSE IF Exact(op, a, b) \in MinInt .. MaxInt THEN Ok(IntV(Exact(op, a, b)))
           ELSE Err("Trap", "overflow")
BY DEF EvalBinary, IntV, Exact, Checked, Operations

(* Only BuildValue works out an operation. *)
LEMMA OperationsAreBuilt ==
  ASSUME Next, Operates
  PROVE  /\ BuildValue
         /\ ctl' = LET r == EvalBinary(Top.node.op, Top.vals[1], Top.vals[2])
                   IN  IF r.ok THEN ChargeFor(r.val) ELSE Fail(r)
<1>1. ctl.at = "kids" /\ AllKidsDone(Top) /\ Top.node.kind = "Binary"
  BY DEF Operates
<1>2. ~OutOfSteps
  BY <1>1 DEF OutOfSteps, ConsumesStep
<1>3. ~CallFunction
  BY <1>1 DEF CallFunction, EnterFunction, RefuseCall, ReturnFromFunction
<1>4. ~EvalSimple
  BY <1>1 DEF EvalSimple, EvalLeaf, EvalUnknownLocal
<1>5. ~EvalKids /\ ~NextKid /\ ~ReturnToKids /\ ~BuildCall /\ ~ReturnToCall
  BY <1>1 DEF EvalKids, NextKid, ReturnToKids, BuildCall, ReturnToCall
<1>6. ~EvalLetExpr
  BY <1>1 DEF EvalLetExpr, EvalLet, ReturnToLetValue, ReturnToLetBody
<1>7. ~EvalMatchExpr
  BY <1>1 DEF EvalMatchExpr, EvalMatch, ReturnToSubject, TryArm, NoArm, ArmMatches, ReturnToMatch
<1>8. ~PatternMatches
  BY <1>1 DEF PatternMatches, FieldMissing, MatchWildcard, MatchBinding, MatchVariant,
              MissVariant, MatchNonEnum, AtPattern
<1>9. ~Charge /\ ~Unwind /\ ~Finish
  BY <1>1 DEF Charge, Unwind, Finish
<1>10. BuildValue
  BY <1>2, <1>3, <1>4, <1>5, <1>6, <1>7, <1>8, <1>9 DEF Next, EvalCompound
<1>11. Built(Top.node, Top.vals) = EvalBinary(Top.node.op, Top.vals[1], Top.vals[2])
  BY <1>1 DEF Built
<1> QED
  BY <1>10, <1>11 DEF BuildValue

(***************************************************************************)
(* Whatever the program, the call, the limits and the width of integers,   *)
(* what an operation answers is its result, and it is refused only where   *)
(* there is none (eval_binary).                                            *)
(***************************************************************************)
THEOREM OperationsAreExact == Spec => ArithmeticIsExact
<1>1. ASSUME Next, Operates
      PROVE  \A op \in Operations, a, b \in MinInt .. MaxInt :
               OperatesOn(op, a, b) => Answers(op, a, b) \/ Refuses(op, a, b)
  <2> SUFFICES ASSUME NEW op \in Operations, NEW a \in MinInt .. MaxInt,
                      NEW b \in MinInt .. MaxInt, OperatesOn(op, a, b)
               PROVE  Answers(op, a, b) \/ Refuses(op, a, b)
    OBVIOUS
  <2> DEFINE r == EvalBinary(op, IntV(a), IntV(b))
  <2>0. MinInt .. MaxInt \subseteq Int
    BY WidthAssumption
  <2>1. ctl' = IF r.ok THEN ChargeFor(r.val) ELSE Fail(r)
    BY <1>1, OperationsAreBuilt DEF OperatesOn
  <2> HIDE DEF r
  <2>2. CASE op = "Div" /\ b = 0
    <3>1. r = Err("Trap", "division_by_zero")
      BY <2>2, OperationOutcomes DEF r
    <3>2. ctl' = Fail(r)
      BY <2>1, <3>1 DEF Err
    <3>3. \A n \in MinInt .. MaxInt : ~IsResult(n, op, a, b)
      BY <2>0, <2>2, NoQuotientByZero
    <3> QED
      BY <2>2, <3>1, <3>2, <3>3 DEF Refuses
  <2>3. CASE ~(op = "Div" /\ b = 0) /\ Exact(op, a, b) \in MinInt .. MaxInt
    <3>1. ctl' = ChargeFor(IntV(Exact(op, a, b)))
      BY <2>1, <2>3, OperationOutcomes DEF r, Ok
    <3>2. IsResult(Exact(op, a, b), op, a, b)
      BY <2>0, <2>3, ExactIsResult
    <3> QED
      BY <2>3, <3>1, <3>2 DEF Answers
  <2>4. CASE ~(op = "Div" /\ b = 0) /\ Exact(op, a, b) \notin MinInt .. MaxInt
    <3>0. r = Err("Trap", "overflow")
      BY <2>4, OperationOutcomes DEF r
    <3>1. ctl' = Fail(r)
      BY <2>1, <3>0 DEF Err
    <3>2. \A n \in MinInt .. MaxInt : ~IsResult(n, op, a, b)
      BY <2>0, <2>4, ExactIsResult
    <3>3. op = "Div" /\ b # 0 => a = MinInt /\ b = -1
      BY <2>4, QuotientsShrink DEF Exact
    <3> QED
      BY <2>4, <3>0, <3>1, <3>2, <3>3 DEF Refuses
  <2> QED
    BY <2>2, <2>3, <2>4
<1>2. [Next]_vars =>
        [Operates =>
           \A op \in Operations, a, b \in MinInt .. MaxInt :
             OperatesOn(op, a, b) => Answers(op, a, b) \/ Refuses(op, a, b)]_vars
  BY <1>1
<1> QED
  BY <1>2, PTL DEF Spec, ArithmeticIsExact

------------------------------------------------------------------------------
(***************************************************************************)
(* The type invariant, and what the limits bound: the memory limit the     *)
(* value that a call answers with, the recursion limit the native stack.   *)
(*                                                                         *)
(* mem only grows, and by at least the estimate of the value that is about *)
(* to be returned: a value that is being returned was within the limit     *)
(* when it was charged, and what a function, an arm or a Let returns is    *)
(* charged again.  The one hypothesis is that estimate_value_bytes makes a *)
(* usize, which its saturating_add guarantees.                             *)
(***************************************************************************)

EstimatesAreUsize == \A v : EstimateBytes(v) \in 0 .. MaxUsize

Points == {"call", "eval", "kids", "charge", "return", "arm", "pattern", "error", "done"}

FrameKinds ==
  {"kids", "letValue", "letBody", "subject", "arms", "armBody", "body"}

KnownFrames(s) == \A i \in DOMAIN s : s[i].kind \in FrameKinds

Fits(v) == EstimateBytes(v) <= Limits.max_memory_bytes

BudgetInv ==
  /\ mem \in 0 .. MaxUsize
  /\ ctl.at \in Points
  /\ KnownFrames(stack)
  /\ ctl.at = "return" => Fits(ctl.val)
  /\ ctl.at = "error" => ~ctl.err.ok
  /\ ctl.at = "done" /\ ctl.result.ok => Fits(ctl.result.val)

LEMMA KnownPush ==
  ASSUME NEW s, IsSeq(s), KnownFrames(s), NEW f, f.kind \in FrameKinds
  PROVE  KnownFrames(Append(s, f))
<1> DEFINE t == Append(s, f)
<1>1. /\ IsSeq(t) /\ Len(t) = Len(s) + 1
      /\ \A i \in 1 .. Len(s) : t[i] = s[i]
      /\ t[Len(s) + 1] = f
  BY Appended
<1>2. Len(s) \in Nat /\ DOMAIN s = 1 .. Len(s)
  BY Domain
<1>3. DOMAIN t = 1 .. Len(t)
  BY <1>1, Domain
<1> HIDE DEF t
<1>4. KnownFrames(t)
  BY <1>1, <1>2, <1>3 DEF KnownFrames
<1> QED
  BY <1>4 DEF t

LEMMA KnownPop ==
  ASSUME NEW s, IsSeq(s), s # <<>>, KnownFrames(s)
  PROVE  KnownFrames(Front(s)) /\ IsSeq(Front(s))
<1> DEFINE t == Front(s)
<1>1. /\ IsSeq(t) /\ Len(t) = Len(s) - 1
      /\ \A i \in 1 .. Len(s) - 1 : t[i] = s[i]
  BY FrontOf
<1>2. Len(s) \in Nat /\ DOMAIN s = 1 .. Len(s)
  BY Domain
<1>3. DOMAIN t = 1 .. Len(t)
  BY <1>1, Domain
<1> HIDE DEF t
<1>4. KnownFrames(t)
  BY <1>1, <1>2, <1>3 DEF KnownFrames
<1> QED
  BY <1>1, <1>4 DEF t

LEMMA KnownReplace ==
  ASSUME NEW s, IsSeq(s), s # <<>>, KnownFrames(s), NEW f, f.kind \in FrameKinds
  PROVE  KnownFrames(Append(Front(s), f))
BY KnownPop, KnownPush

LEMMA NoErrorSucceeds == ASSUME NEW c, NEW w PROVE ~Err(c, w).ok
BY DEF Err

LEMMA BudgetInit == ASSUME Init PROVE BudgetInv
<1>1. IsSeq(<<>>) /\ DOMAIN <<>> = {}
  BY EmptySeq DEF IsSeq
<1> QED
  BY <1>1, UsizeAssumption DEF Init, BudgetInv, CallFn, Points, KnownFrames

(* A successful update answers with the value of the entry function. *)
LEMMA UpdateAnswer ==
  ASSUME NEW v, UpdateResult(v).ok
  PROVE  UpdateResult(v).val = v
BY DEF UpdateResult, Ok, Err

LEMMA BudgetNext ==
  ASSUME EstimatesAreUsize, Shape, BudgetInv, [Next]_vars
  PROVE  BudgetInv'
<1> USE DEF CallFn, Eval, Kids, ChargeFor, Return, NextArm, Matching, Fail, Done
<1>0. /\ IsSeq(stack) /\ KnownFrames(stack) /\ mem \in 0 .. MaxUsize
      /\ MaxUsize \in Nat /\ Limits.max_memory_bytes \in Nat
  BY UsizeAssumption, CallsAssumption DEF Shape, BudgetInv, Limits
<1>1. CASE OutOfSteps
  BY <1>0, <1>1, NoErrorSucceeds DEF OutOfSteps, DepthError, BudgetInv, Fits, Limits, Points
<1>2. CASE EnterFunction
  BY <1>0, <1>2, KnownPush
     DEF EnterFunction, Push, BodyFrame, BudgetInv, Fits, Limits, Points, FrameKinds
<1>3. CASE RefuseCall
  BY <1>0, <1>3, NoErrorSucceeds DEF RefuseCall, DepthError, BudgetInv, Fits, Limits, Points
<1>4. CASE ReturnFromFunction
  BY <1>0, <1>4, KnownPop
     DEF ReturnFromFunction, TopIs, Pop, BudgetInv, Fits, Limits, Points
<1>5. CASE EvalLeaf
  BY <1>0, <1>5, NoErrorSucceeds DEF EvalLeaf, DepthError, BudgetInv, Fits, Limits, Points
<1>6. CASE EvalUnknownLocal
  BY <1>0, <1>6, NoErrorSucceeds DEF EvalUnknownLocal, DepthError, BudgetInv, Fits, Limits, Points
<1>7. CASE EvalKids
  BY <1>0, <1>7, KnownPush
     DEF EvalKids, Push, KidsFrame, BudgetInv, Fits, Limits, Points, FrameKinds
<1>8. CASE NextKid
  BY <1>0, <1>8, NoErrorSucceeds DEF NextKid, DepthError, BudgetInv, Fits, Limits, Points
<1>9. CASE ReturnToKids
  BY <1>0, <1>9, KnownReplace
     DEF ReturnToKids, Shape, TopIs, Replace, KidsFrame, BudgetInv, Fits, Limits,
         Points, FrameKinds
<1>10. CASE BuildValue
  <2> DEFINE r == Built(Top.node, Top.vals)
  <2>1. /\ mem' = mem /\ call' = call /\ stack' = Front(stack) /\ stack # <<>>
        /\ ctl' = IF r.ok THEN ChargeFor(r.val) ELSE Fail(r)
    BY <1>10 DEF BuildValue, Pop, Shape, TopIs
  <2> HIDE DEF r
  <2>2. CASE r.ok
    BY <1>0, <2>1, <2>2, KnownPop DEF BudgetInv, Points
  <2>3. CASE ~r.ok
    BY <1>0, <2>1, <2>3, KnownPop DEF BudgetInv, Points
  <2> QED
    BY <2>2, <2>3
<1>11. CASE BuildCall
  BY <1>0, <1>11, NoErrorSucceeds DEF BuildCall, DepthError, BudgetInv, Fits, Limits, Points
<1>12. CASE ReturnToCall
  BY <1>0, <1>12, KnownPop
     DEF ReturnToCall, TopIs, Pop, BudgetInv, Fits, Limits, Points
<1>13. CASE EvalLet
  BY <1>0, <1>13, KnownPush
     DEF EvalLet, Push, LetValueFrame, BudgetInv, Fits, Limits, Points, FrameKinds
<1>14. CASE ReturnToLetValue
  BY <1>0, <1>14, KnownReplace
     DEF ReturnToLetValue, Shape, TopIs, Replace, LetBodyFrame, BudgetInv, Fits, Limits,
         Points, FrameKinds
<1>15. CASE ReturnToLetBody
  BY <1>0, <1>15, KnownPop
     DEF ReturnToLetBody, TopIs, Pop, BudgetInv, Fits, Limits, Points
<1>16. CASE EvalMatch
  BY <1>0, <1>16, KnownPush
     DEF EvalMatch, Push, SubjectFrame, BudgetInv, Fits, Limits, Points, FrameKinds
<1>17. CASE ReturnToSubject
  BY <1>0, <1>17, KnownReplace
     DEF ReturnToSubject, Shape, TopIs, Replace, ArmsFrame, BudgetInv, Fits, Limits,
         Points, FrameKinds
<1>18. CASE TryArm
  BY <1>0, <1>18, NoErrorSucceeds DEF TryArm, DepthError, BudgetInv, Fits, Limits, Points
<1>19. CASE NoArm
  BY <1>0, <1>19, NoErrorSucceeds DEF NoArm, DepthError, BudgetInv, Fits, Limits, Points
<1>20. CASE ArmMatches
  BY <1>0, <1>20, KnownReplace
     DEF ArmMatches, Shape, TopIs, Replace, ArmBodyFrame, BudgetInv, Fits, Limits,
         Points, FrameKinds
<1>21. CASE ReturnToMatch
  BY <1>0, <1>21, KnownPop
     DEF ReturnToMatch, TopIs, Pop, BudgetInv, Fits, Limits, Points
<1>22. CASE FieldMissing
  BY <1>0, <1>22, NoErrorSucceeds DEF FieldMissing, DepthError, BudgetInv, Fits, Limits, Points
<1>23. CASE MatchWildcard
  BY <1>0, <1>23, NoErrorSucceeds DEF MatchWildcard, DepthError, BudgetInv, Fits, Limits, Points
<1>24. CASE MatchBinding
  BY <1>0, <1>24, NoErrorSucceeds DEF MatchBinding, DepthError, BudgetInv, Fits, Limits, Points
<1>25. CASE MatchVariant
  BY <1>0, <1>25, NoErrorSucceeds DEF MatchVariant, DepthError, BudgetInv, Fits, Limits, Points
<1>26. CASE MissVariant
  BY <1>0, <1>26, KnownReplace
     DEF MissVariant, AtPattern, Shape, TopIs, Replace, ArmsFrame, BudgetInv, Fits, Limits,
         Points, FrameKinds
<1>27. CASE MatchNonEnum
  BY <1>0, <1>27, NoErrorSucceeds DEF MatchNonEnum, DepthError, BudgetInv, Fits, Limits, Points
<1>28. CASE Charge
  <2> DEFINE e == EstimateBytes(ctl.val)
  <2>1. /\ e \in 0 .. MaxUsize /\ mem' = SaturatingAdd(mem, e)
        /\ stack' = stack /\ call' = call
        /\ ctl' = IF MemoryExceeded(mem') THEN Fail(Err("MemoryLimitExceeded", "memory"))
                  ELSE Return(ctl.val)
    BY <1>28 DEF Charge, EstimatesAreUsize
  <2> HIDE DEF e
  <2>2. mem' \in 0 .. MaxUsize /\ e <= mem'
    BY <1>0, <2>1 DEF SaturatingAdd
  <2>3. CASE MemoryExceeded(mem')
    BY <1>0, <2>1, <2>2, <2>3, NoErrorSucceeds DEF BudgetInv, Points
  <2>4. CASE ~MemoryExceeded(mem')
    <3>1. e <= Limits.max_memory_bytes
      BY <1>0, <2>1, <2>2, <2>4 DEF MemoryExceeded
    <3> QED
      BY <1>0, <2>1, <2>2, <2>4, <3>1 DEF BudgetInv, Points, Fits, Limits, e
  <2> QED
    BY <2>3, <2>4
<1>29. CASE Unwind
  <2>1. /\ mem' = mem /\ call' = call /\ ctl' = ctl /\ ctl.at = "error"
        /\ stack' = Front(stack) /\ stack # <<>>
    BY <1>29 DEF Unwind, Pop
  <2> QED
    BY <1>0, <2>1, KnownPop DEF BudgetInv, Points
<1>30. CASE Finish
  <2>1. call.entry \in {"update", "query"} /\ mem' = mem /\ stack' = stack /\ call' = call
    BY <1>30, CallsAssumption DEF Shape, Finish
  <2>2. CASE ctl.at = "error"
    <3>1. ctl' = Done(ctl.err)
      BY <1>30, <2>2 DEF Finish
    <3> QED
      BY <1>0, <2>1, <2>2, <3>1 DEF BudgetInv, Points
  <2>3. CASE ctl.at = "return" /\ call.entry = "update"
    <3>1. ctl' = Done(UpdateResult(ctl.val))
      BY <1>30, <2>3 DEF Finish
    <3> QED
      BY <1>0, <2>1, <2>3, <3>1, UpdateAnswer DEF BudgetInv, Points, Fits, Limits
  <2>4. CASE ctl.at = "return" /\ call.entry = "query"
    <3>1. ctl' = Done(Ok(ctl.val))
      BY <1>30, <2>4 DEF Finish
    <3> QED
      BY <1>0, <2>1, <2>4, <3>1 DEF BudgetInv, Points, Fits, Limits, Ok
  <2> QED
    BY <1>30, <2>1, <2>2, <2>3, <2>4 DEF Finish
<1>31. CASE UNCHANGED vars
  BY <1>31 DEF vars, BudgetInv, Fits, Limits
<1> QED
  BY <1>1, <1>2, <1>3, <1>4, <1>5, <1>6, <1>7, <1>8, <1>9, <1>10, <1>11,
     <1>12, <1>13, <1>14, <1>15, <1>16, <1>17, <1>18, <1>19, <1>20, <1>21, <1>22,
     <1>23, <1>24, <1>25, <1>26, <1>27, <1>28, <1>29, <1>30, <1>31
     DEF Next, CallFunction, EvalSimple, EvalCompound, EvalLetExpr, EvalMatchExpr,
         PatternMatches

LEMMA BudgetAlways == ASSUME EstimatesAreUsize PROVE Spec => []BudgetInv
<1>1. Init => BudgetInv
  BY BudgetInit
<1>2. Shape /\ BudgetInv /\ [Next]_vars => BudgetInv'
  BY BudgetNext
<1> QED
  BY <1>1, <1>2, ShapeAlways, PTL DEF Spec

(***************************************************************************)
(* The evaluator's state is well formed in every state of a call.          *)
(***************************************************************************)
THEOREM WellTyped == ASSUME EstimatesAreUsize PROVE Spec => []TypeOK
<1>1. ASSUME Shape, BudgetInv, DepthInv PROVE TypeOK
  <2>1. /\ Len(stack) \in Nat /\ steps \in Nat /\ Len(stack) + steps <= Limits.max_steps
        /\ Limits.max_steps \in Nat /\ Limits.max_recursion_depth \in Nat
    BY <1>1, Domain, CallsAssumption DEF Shape, Limits
  <2>2. depth \in 0 .. Limits.max_recursion_depth
    <3>1. depth \in Nat
      BY <1>1, LevelsFinite, FS_CardinalityType DEF DepthInv, Shape
    <3> QED
      BY <1>1, <2>1, <3>1 DEF DepthInv
  <2>3. steps \in 0 .. Limits.max_steps
    BY <2>1
  <2> QED
    BY <1>1, <2>2, <2>3 DEF TypeOK, Shape, BudgetInv, Points, KnownFrames, FrameKinds
<1>2. Spec => []DepthInv
  <2>1. Init => DepthInv
    BY DepthInit
  <2>2. Shape /\ DepthInv /\ [Next]_vars => DepthInv'
    BY DepthNext
  <2> QED
    BY <2>1, <2>2, ShapeAlways, PTL DEF Spec
<1> QED
  BY <1>1, <1>2, ShapeAlways, BudgetAlways, PTL

(***************************************************************************)
(* The value a successful call answers with is within the memory limit.    *)
(***************************************************************************)
THEOREM AnswerFits == ASSUME EstimatesAreUsize PROVE Spec => []ResultWithinBudget
<1>1. BudgetInv => ResultWithinBudget
  BY DEF BudgetInv, ResultWithinBudget, Answered, Fits
<1> QED
  BY <1>1, BudgetAlways, PTL

------------------------------------------------------------------------------
(***************************************************************************)
(* The native stack.  Room(p, d) is what the recursion limit leaves for d  *)
(* levels of the program p.  The invariant says of every frame that what   *)
(* its own expression can still put on top of it fits into the room of the *)
(* level it belongs to; levels are counted along the stack as              *)
(* current_depth counts them.                                              *)
(***************************************************************************)
Room(p, d) == d * (1 + p.height)

LEMMA RoomGrows ==
  ASSUME NEW p, p.height \in Nat, NEW d \in Nat
  PROVE  /\ Room(p, d) \in Nat
         /\ Room(p, d + 1) = Room(p, d) + 1 + p.height
         /\ \A m \in Nat : d <= m => Room(p, d) <= Room(p, m)
<1> DEFINE c == 1 + p.height
<1>1. c \in Nat /\ d * c \in Nat /\ (d + 1) * c = d * c + c
  OBVIOUS
<1>2. ASSUME NEW m \in Nat, d <= m PROVE d * c <= m * c
  <2>1. m * c = d * c + (m - d) * c /\ (m - d) \in Nat
    BY <1>1, <1>2
  <2>2. (m - d) * c \in Nat
    BY <1>1, <2>1
  <2> QED
    BY <1>1, <2>1, <2>2
<1> QED
  BY <1>1, <1>2 DEF Room

(* The level below frame f, and what f at position i of level d needs. *)
LevelBelow(f, d) == IF f.kind = "body" THEN d - 1 ELSE d

FrameNests(p, f, i, d) ==
  /\ d \in Nat
  /\ f.kind = "body" => d >= 1 /\ i + p.height <= Room(p, d)
  /\ f.kind # "body" =>
       /\ f.node \in DOMAIN p.heights
       /\ ~IsLeaf(f.node)
       /\ i - 1 + p.heights[f.node] <= Room(p, d)
  /\ f.kind = "kids" => HasKids(f.node) /\ IsSeq(f.vals)
  /\ f.kind = "letValue" => f.node.kind = "Let"
  /\ f.kind \in {"subject", "arms"} => f.node.kind = "Match"
  /\ f.kind = "arms" => f.index \in Nat \ {0}

Nested(p, st, d) ==
  \E lev :
    /\ lev[Len(st)] = d
    /\ \A i \in 1 .. Len(st) : /\ FrameNests(p, st[i], i, lev[i])
                               /\ lev[i - 1] = LevelBelow(st[i], lev[i])

LEMMA NestedPush ==
  ASSUME NEW p, NEW st, IsSeq(st), NEW C, Nested(p, st, C),
         NEW f, NEW D, FrameNests(p, f, Len(st) + 1, D), LevelBelow(f, D) = C
  PROVE  Nested(p, Append(st, f), D)
<1> DEFINE t == Append(st, f)
           n == Len(st)
<1>1. PICK lev : /\ lev[n] = C
                 /\ \A i \in 1 .. n : /\ FrameNests(p, st[i], i, lev[i])
                                      /\ lev[i - 1] = LevelBelow(st[i], lev[i])
  BY DEF Nested
<1>2. /\ n \in Nat /\ Len(t) = n + 1
      /\ \A i \in 1 .. n : t[i] = st[i]
      /\ t[n + 1] = f
      /\ FrameNests(p, f, n + 1, D)
  BY Appended, Domain
<1> HIDE DEF t, n
<1> DEFINE d == [i \in 0 .. n + 1 |-> IF i = n + 1 THEN D ELSE lev[i]]
<1>3. d[n + 1] = D /\ \A i \in 0 .. n : d[i] = lev[i]
  BY <1>2
<1> HIDE DEF d
<1>4. ASSUME NEW i \in 1 .. n + 1
      PROVE  FrameNests(p, t[i], i, d[i]) /\ d[i - 1] = LevelBelow(t[i], d[i])
  <2>1. CASE i = n + 1
    <3>1. i - 1 = n /\ n \in 0 .. n
      BY <1>2, <2>1
    <3> QED
      BY <1>1, <1>2, <1>3, <2>1, <3>1
  <2>2. CASE i # n + 1
    <3>1. i \in 1 .. n /\ i \in 0 .. n /\ i - 1 \in 0 .. n
      BY <1>2, <2>2
    <3> QED
      BY <1>1, <1>2, <1>3, <3>1
  <2> QED
    BY <2>1, <2>2
<1>5. d[Len(t)] = D /\ Len(t) = n + 1
  BY <1>2, <1>3
<1>6. Nested(p, t, D)
  BY <1>4, <1>5 DEF Nested
<1> QED
  BY <1>6 DEF t

LEMMA NestedPop ==
  ASSUME NEW p, NEW st, IsSeq(st), st # <<>>, NEW D, Nested(p, st, D)
  PROVE  /\ Nested(p, Front(st), LevelBelow(Last(st), D))
         /\ FrameNests(p, Last(st), Len(st), D)
         /\ IsSeq(Front(st)) /\ Len(st) \in Nat /\ Len(st) >= 1
         /\ Len(Front(st)) = Len(st) - 1
<1> DEFINE t == Front(st)
           n == Len(st)
<1>1. PICK lev : /\ lev[n] = D
                 /\ \A i \in 1 .. n : /\ FrameNests(p, st[i], i, lev[i])
                                      /\ lev[i - 1] = LevelBelow(st[i], lev[i])
  BY DEF Nested
<1>2. /\ n \in Nat /\ n >= 1 /\ Len(t) = n - 1
      /\ \A i \in 1 .. n - 1 : t[i] = st[i]
      /\ Last(st) = st[n] /\ IsSeq(t)
  BY FrontOf
<1> HIDE DEF t, n
<1>3. FrameNests(p, st[n], n, D) /\ lev[n - 1] = LevelBelow(st[n], D)
  BY <1>1, <1>2
<1>4. \A i \in 1 .. n - 1 : /\ FrameNests(p, t[i], i, lev[i])
                            /\ lev[i - 1] = LevelBelow(t[i], lev[i])
  BY <1>1, <1>2
<1>5. Nested(p, t, LevelBelow(st[n], D))
  BY <1>2, <1>3, <1>4 DEF Nested
<1> QED
  BY <1>2, <1>3, <1>5 DEF t, n

LEMMA NestedReplace ==
  ASSUME NEW p, NEW st, IsSeq(st), st # <<>>, NEW D, Nested(p, st, D),
         Last(st).kind # "body", NEW f, f.kind # "body", FrameNests(p, f, Len(st), D)
  PROVE  Nested(p, Append(Front(st), f), D)
<1>1. /\ Nested(p, Front(st), D) /\ IsSeq(Front(st))
      /\ Len(Front(st)) + 1 = Len(st)
  BY NestedPop DEF LevelBelow
<1> QED
  BY <1>1, NestedPush DEF LevelBelow

(* The parts of an expression nest less deep than the whole. *)
LEMMA PartsFit ==
  ASSUME NEW p, NestingOk(p), NEW n \in DOMAIN p.heights
  PROVE  /\ IrShape(n) /\ p.heights[n] \in Nat
         /\ \A m \in SubExpressions(n) :
              /\ m \in DOMAIN p.heights /\ p.heights[m] \in Nat
              /\ p.heights[m] < p.heights[n]
BY DEF NestingOk

LEMMA KidIsPart ==
  ASSUME NEW n, IrShape(n), HasKids(n), NEW i \in 1 .. Len(n.kids)
  PROVE  n.kids[i] \in SubExpressions(n)
<1>1. i \in DOMAIN n.kids /\ n.kids[i] \in Range(n.kids)
  BY Domain DEF IrShape, Range
<1>2. ~IsLeaf(n) /\ n.kind # "Let" /\ n.kind # "Match"
  BY DEF IsLeaf, HasKids
<1>3. SubExpressions(n) = Range(n.kids)
  BY <1>2 DEF SubExpressions
<1> QED
  BY <1>1, <1>3

LEMMA ArmIsPart ==
  ASSUME NEW n, IrShape(n), n.kind = "Match", NEW i \in 1 .. Len(n.arms)
  PROVE  n.arms[i].body \in SubExpressions(n)
<1>1. i \in DOMAIN n.arms
  BY Domain DEF IrShape
<1>2. ~IsLeaf(n) /\ ~HasKids(n) /\ n.kind # "Let"
  BY DEF IsLeaf, HasKids
<1> QED
  BY <1>1, <1>2 DEF SubExpressions

(* All frames together fit into the room of the running level. *)
LEMMA FramesFit ==
  ASSUME NEW p, NestingOk(p), NEW st, IsSeq(st), NEW d \in Nat, Nested(p, st, d)
  PROVE  Len(st) <= Room(p, d)
<1>0. p.height \in Nat /\ Room(p, d) \in Nat
  BY RoomGrows DEF NestingOk
<1>1. CASE st = <<>>
  BY <1>0, <1>1, EmptySeq
<1>2. CASE st # <<>>
  <2>1. FrameNests(p, Last(st), Len(st), d) /\ Len(st) \in Nat
    BY <1>2, NestedPop
  <2>2. CASE Last(st).kind = "body"
    BY <1>0, <2>1, <2>2 DEF FrameNests
  <2>3. CASE Last(st).kind # "body"
    <3>1. /\ Last(st).node \in DOMAIN p.heights /\ ~IsLeaf(Last(st).node)
          /\ Len(st) - 1 + p.heights[Last(st).node] <= Room(p, d)
      BY <2>1, <2>3 DEF FrameNests
    <3>2. p.heights[Last(st).node] \in Nat /\ p.heights[Last(st).node] >= 1
      BY <3>1 DEF NestingOk
    <3> QED
      BY <1>0, <2>1, <3>1, <3>2
  <2> QED
    BY <2>2, <2>3
<1> QED
  BY <1>1, <1>2

NestInv ==
  /\ depth \in Nat
  /\ Nested(Program, stack, depth)
  /\ ctl.at = "eval" =>
       /\ ctl.node \in DOMAIN Program.heights
       /\ Len(stack) + Program.heights[ctl.node] <= Room(Program, depth)
  /\ ctl.at = "pattern" => Top.index <= Len(Top.node.arms)

LEMMA ProgramNests == ASSUME Shape PROVE NestingOk(Program) /\ Program.height \in Nat
BY CallsAssumption, NestingAssumption DEF Shape, Program, NestingOk

LEMMA NestInit == ASSUME Init PROVE NestInv
<1>1. Len(<<>>) = 0
  BY EmptySeq
<1>2. Nested(Program, stack, depth)
  <2> DEFINE lev == [i \in {0} |-> 0]
  <2>1. lev[Len(stack)] = depth /\ 1 .. Len(stack) = {}
    BY <1>1 DEF Init
  <2> HIDE DEF lev
  <2> QED
    BY <2>1 DEF Nested
<1> QED
  BY <1>2 DEF Init, NestInv, CallFn

(* The frame of a compound expression that is about to be evaluated. *)
LEMMA NewFrameNests ==
  ASSUME Shape, NestInv, ctl.at = "eval", ~IsLeaf(ctl.node),
         NEW f, f.node = ctl.node, f.kind \in {"kids", "letValue", "subject"},
         f.kind = "kids" => HasKids(f.node) /\ IsSeq(f.vals),
         f.kind = "letValue" => f.node.kind = "Let",
         f.kind = "subject" => f.node.kind = "Match",
         Push(f)
  PROVE  /\ FrameNests(Program, f, Len(stack) + 1, depth)
         /\ Nested(Program, stack', depth)
         /\ Len(stack') = Len(stack) + 1
<1>1. /\ Len(stack) \in Nat /\ ctl.node \in DOMAIN Program.heights
      /\ Len(stack) + Program.heights[ctl.node] <= Room(Program, depth)
      /\ Program.heights[ctl.node] \in Nat
  BY Domain, ProgramNests, PartsFit DEF Shape, NestInv
<1>2. Len(stack) + 1 - 1 + Program.heights[f.node] <= Room(Program, depth)
  BY <1>1
<1>3. FrameNests(Program, f, Len(stack) + 1, depth)
  BY <1>1, <1>2 DEF FrameNests, NestInv
<1>4. LevelBelow(f, depth) = depth
  BY DEF LevelBelow
<1> QED
  BY <1>3, <1>4, NestedPush, Pushes DEF Shape, NestInv, Push

(* What is known of the frame on top. *)
LEMMA TopNests ==
  ASSUME Shape, NestInv, stack # <<>>
  PROVE  /\ FrameNests(Program, Top, Len(stack), depth)
         /\ Len(stack) \in Nat
         /\ Nested(Program, Front(stack), LevelBelow(Top, depth))
BY NestedPop DEF Shape, NestInv, Top

(* A part of the expression of the frame on top fits above that frame. *)
LEMMA PartFits ==
  ASSUME Shape, NestInv, stack # <<>>, Top.kind # "body",
         NEW m \in SubExpressions(Top.node)
  PROVE  /\ m \in DOMAIN Program.heights
         /\ Len(stack) + Program.heights[m] <= Room(Program, depth)
<1>1. /\ Top.node \in DOMAIN Program.heights /\ Len(stack) \in Nat
      /\ Len(stack) - 1 + Program.heights[Top.node] <= Room(Program, depth)
  BY TopNests DEF FrameNests
<1>2. /\ Program.heights[Top.node] \in Nat /\ m \in DOMAIN Program.heights
      /\ Program.heights[m] \in Nat /\ Program.heights[m] < Program.heights[Top.node]
  BY <1>1, ProgramNests, PartsFit
<1>3. Room(Program, depth) \in Nat
  BY ProgramNests, RoomGrows DEF NestInv
<1> QED
  BY <1>1, <1>2, <1>3

(* Steps that leave the stack alone and evaluate nothing next. *)
LEMMA SameNesting ==
  ASSUME NestInv, stack' = stack, depth' = depth, call' = call,
         ctl'.at # "eval", ctl'.at = "pattern" => ctl.at = "pattern"
  PROVE  NestInv'
BY DEF NestInv, Program, Top

LEMMA PopNests ==
  ASSUME Shape, NestInv, stack # <<>>, Pop, Top.kind # "body", depth' = depth,
         call' = call, ctl'.at \notin {"eval", "pattern"}
  PROVE  NestInv'
BY TopNests DEF NestInv, Program, Pop, LevelBelow

LEMMA PopBodyNests ==
  ASSUME Shape, NestInv, TopIs("body"), Pop, depth' = depth - 1,
         call' = call, ctl'.at \notin {"eval", "pattern"}
  PROVE  NestInv'
<1>1. depth >= 1 /\ Nested(Program, Front(stack), depth - 1)
  BY TopNests DEF FrameNests, LevelBelow, TopIs
<1> QED
  BY <1>1 DEF NestInv, Program, Pop

(* Replacing the frame on top by another for the same expression. *)
LEMMA ReplaceNests ==
  ASSUME Shape, NestInv, stack # <<>>, Top.kind # "body",
         NEW f, Replace(f), f.kind # "body", f.node = Top.node,
         f.kind = "kids" => HasKids(f.node) /\ IsSeq(f.vals),
         f.kind = "letValue" => f.node.kind = "Let",
         f.kind \in {"subject", "arms"} => f.node.kind = "Match",
         f.kind = "arms" => f.index \in Nat \ {0}
  PROVE  /\ Nested(Program, stack', depth)
         /\ Len(stack') = Len(stack)
<1>1. FrameNests(Program, f, Len(stack), depth)
  BY TopNests DEF FrameNests
<1> QED
  BY <1>1, NestedReplace, Replaces DEF Shape, NestInv, Replace, Top

(* A part of the expression that is evaluated fits above its new frame. *)
LEMMA EvalPartFits ==
  ASSUME Shape, NestInv, ctl.at = "eval", NEW m \in SubExpressions(ctl.node)
  PROVE  /\ m \in DOMAIN Program.heights
         /\ Len(stack) + 1 + Program.heights[m] <= Room(Program, depth)
<1>1. /\ ctl.node \in DOMAIN Program.heights /\ Len(stack) \in Nat
      /\ Len(stack) + Program.heights[ctl.node] <= Room(Program, depth)
  BY Domain DEF Shape, NestInv
<1>2. /\ Program.heights[ctl.node] \in Nat /\ m \in DOMAIN Program.heights
      /\ Program.heights[m] \in Nat /\ Program.heights[m] < Program.heights[ctl.node]
  BY <1>1, ProgramNests, PartsFit
<1>3. Room(Program, depth) \in Nat
  BY ProgramNests, RoomGrows DEF NestInv
<1> QED
  BY <1>1, <1>2, <1>3

LEMMA NestNext == ASSUME Shape, NestInv, [Next]_vars PROVE NestInv'
<1> USE DEF CallFn, Eval, Kids, ChargeFor, Return, NextArm, Matching, Fail, Done
<1>1. CASE OutOfSteps
  BY <1>1, SameNesting DEF OutOfSteps
<1>2. CASE EnterFunction
  <2>1. /\ NestingOk(Program) /\ Program.height \in Nat /\ depth \in Nat
        /\ IsSeq(stack) /\ Len(stack) \in Nat /\ Nested(Program, stack, depth)
    BY ProgramNests, Domain DEF Shape, NestInv
  <2>2. /\ Room(Program, depth) \in Nat
        /\ Room(Program, depth + 1) = Room(Program, depth) + 1 + Program.height
        /\ Len(stack) <= Room(Program, depth)
    BY <2>1, RoomGrows, FramesFit
  <2> DEFINE f == BodyFrame(env)
             b == FunctionTable[ctl.name].body
  <2>3. /\ Push(f) /\ depth' = depth + 1 /\ call' = call /\ ctl' = Eval(b)
        /\ ctl.name \in DOMAIN FunctionTable
    BY <1>2 DEF EnterFunction
  <2>4. f.kind = "body"
    BY DEF BodyFrame
  <2>5. b \in DOMAIN Program.heights /\ Program.heights[b] <= Program.height
        /\ Program.heights[b] \in Nat
    BY <2>1, <2>3 DEF NestingOk, FunctionTable
  <2> HIDE DEF f, b
  <2>6. FrameNests(Program, f, Len(stack) + 1, depth + 1) /\ LevelBelow(f, depth + 1) = depth
    BY <2>1, <2>2, <2>4 DEF FrameNests, LevelBelow
  <2>7. Nested(Program, stack', depth + 1) /\ Len(stack') = Len(stack) + 1
    BY <2>1, <2>3, <2>6, NestedPush, Pushes DEF Push
  <2>8. Len(stack') + Program.heights[b] <= Room(Program, depth + 1)
    BY <2>1, <2>2, <2>5, <2>7
  <2> QED
    BY <2>1, <2>3, <2>5, <2>7, <2>8 DEF NestInv, Program
<1>3. CASE RefuseCall
  BY <1>3, SameNesting DEF RefuseCall
<1>4. CASE ReturnFromFunction
  BY <1>4, PopBodyNests DEF ReturnFromFunction
<1>5. CASE EvalLeaf
  BY <1>5, SameNesting DEF EvalLeaf
<1>6. CASE EvalUnknownLocal
  BY <1>6, SameNesting DEF EvalUnknownLocal
<1>7. CASE EvalKids
  <2> DEFINE f == KidsFrame(ctl.node, <<>>)
  <2>1. /\ ctl.at = "eval" /\ ~IsLeaf(ctl.node) /\ f.node = ctl.node /\ f.kind = "kids"
        /\ HasKids(f.node) /\ IsSeq(f.vals)
    BY <1>7, EmptySeq DEF EvalKids, KidsFrame, IsLeaf, HasKids, IsSeq
  <2>2. Push(f) /\ ctl' = Kids /\ depth' = depth /\ call' = call
    BY <1>7 DEF EvalKids
  <2> HIDE DEF f
  <2>3. Nested(Program, stack', depth)
    BY <2>1, <2>2, NewFrameNests
  <2> QED
    BY <2>2, <2>3 DEF NestInv, Program
<1>8. CASE NextKid
  <2> DEFINE m == Top.node.kids[Len(Top.vals) + 1]
  <2>1. /\ ctl.at = "kids" /\ Len(Top.vals) < Len(Top.node.kids) /\ ctl' = Eval(m)
        /\ stack' = stack /\ depth' = depth /\ call' = call
        /\ stack # <<>> /\ Top.kind = "kids"
    <3>1. /\ ctl.at = "kids" /\ ~AllKidsDone(Top) /\ ctl' = Eval(m)
          /\ stack' = stack /\ depth' = depth /\ call' = call
      BY <1>8 DEF NextKid
    <3>2. stack # <<>> /\ Top.kind = "kids"
      BY <3>1 DEF Shape, TopIs
    <3>3. /\ FrameNests(Program, Top, Len(stack), depth) /\ Top.node \in DOMAIN Program.heights
      BY <3>2, TopNests DEF FrameNests
    <3>4. Len(Top.vals) \in Nat /\ Len(Top.node.kids) \in Nat
      BY <3>2, <3>3, Domain, ProgramNests, PartsFit DEF FrameNests, IrShape
    <3> QED
      BY <3>1, <3>2, <3>4 DEF AllKidsDone
  <2>2. /\ Top.node \in DOMAIN Program.heights /\ HasKids(Top.node)
        /\ IsSeq(Top.vals) /\ IrShape(Top.node)
    BY <2>1, TopNests, ProgramNests, PartsFit DEF FrameNests
  <2>3. Len(Top.vals) + 1 \in 1 .. Len(Top.node.kids)
    BY <2>1, <2>2, Domain DEF IrShape
  <2>4. m \in SubExpressions(Top.node)
    BY <2>2, <2>3, KidIsPart
  <2> HIDE DEF m
  <2>5. m \in DOMAIN Program.heights /\ Len(stack) + Program.heights[m] <= Room(Program, depth)
    BY <2>1, <2>4, PartFits
  <2> QED
    BY <2>1, <2>5 DEF NestInv, Program
<1>9. CASE ReturnToKids
  <2> DEFINE f == KidsFrame(Top.node, Append(Top.vals, ctl.val))
  <2>1. /\ Replace(f) /\ ctl' = Kids /\ depth' = depth /\ call' = call
        /\ stack # <<>> /\ Top.kind = "kids"
    BY <1>9 DEF ReturnToKids, TopIs
  <2>2. HasKids(Top.node) /\ IsSeq(Append(Top.vals, ctl.val))
    BY <2>1, TopNests, Appended DEF FrameNests
  <2>3. f.kind = "kids" /\ f.node = Top.node /\ HasKids(f.node) /\ IsSeq(f.vals)
    BY <2>2 DEF KidsFrame
  <2> HIDE DEF f
  <2>4. Nested(Program, stack', depth)
    BY <2>1, <2>3, ReplaceNests
  <2> QED
    BY <2>1, <2>4 DEF NestInv, Program
<1>10. CASE BuildValue
  <2>1. /\ stack # <<>> /\ Top.kind = "kids" /\ Pop /\ depth' = depth /\ call' = call
        /\ ctl'.at \in {"charge", "error"}
    <3> DEFINE r == Built(Top.node, Top.vals)
    <3>1. ctl' = IF r.ok THEN ChargeFor(r.val) ELSE Fail(r)
      BY <1>10 DEF BuildValue
    <3> HIDE DEF r
    <3>2. ctl'.at \in {"charge", "error"}
      BY <3>1
    <3> QED
      BY <1>10, <3>2 DEF BuildValue, Shape, TopIs
  <2> QED
    BY <2>1, PopNests
<1>11. CASE BuildCall
  BY <1>11, SameNesting DEF BuildCall
<1>12. CASE ReturnToCall
  BY <1>12, PopNests DEF ReturnToCall, TopIs
<1>13. CASE EvalLet
  <2> DEFINE f == LetValueFrame(ctl.node)
             m == ctl.node.value
  <2>1. /\ ctl.at = "eval" /\ ~IsLeaf(ctl.node) /\ ctl.node.kind = "Let"
        /\ f.node = ctl.node /\ f.kind = "letValue" /\ ~HasKids(ctl.node)
    BY <1>13 DEF EvalLet, LetValueFrame, IsLeaf, HasKids
  <2>2. Push(f) /\ ctl' = Eval(m) /\ depth' = depth /\ call' = call
    BY <1>13 DEF EvalLet
  <2>3. m \in SubExpressions(ctl.node)
    BY <2>1 DEF SubExpressions
  <2> HIDE DEF f, m
  <2>4. Nested(Program, stack', depth) /\ Len(stack') = Len(stack) + 1
    BY <2>1, <2>2, NewFrameNests
  <2>5. m \in DOMAIN Program.heights /\ Len(stack') + Program.heights[m] <= Room(Program, depth)
    BY <2>1, <2>3, <2>4, EvalPartFits
  <2> QED
    BY <2>2, <2>4, <2>5 DEF NestInv, Program
<1>14. CASE ReturnToLetValue
  <2> DEFINE f == LetBodyFrame(Top.node, Lookup(env, Top.node.name))
             m == Top.node.body
  <2>1. /\ Replace(f) /\ ctl' = Eval(m) /\ depth' = depth /\ call' = call
        /\ stack # <<>> /\ Top.kind = "letValue"
    BY <1>14 DEF ReturnToLetValue, TopIs
  <2>2. f.kind = "letBody" /\ f.node = Top.node
    BY DEF LetBodyFrame
  <2>3. Top.node.kind = "Let"
    BY <2>1, TopNests DEF FrameNests
  <2>4. m \in SubExpressions(Top.node)
    BY <2>3 DEF SubExpressions, IsLeaf, HasKids
  <2> HIDE DEF f, m
  <2>5. Nested(Program, stack', depth) /\ Len(stack') = Len(stack)
    BY <2>1, <2>2, ReplaceNests
  <2>6. m \in DOMAIN Program.heights /\ Len(stack) + Program.heights[m] <= Room(Program, depth)
    BY <2>1, <2>4, PartFits
  <2> QED
    BY <2>1, <2>5, <2>6 DEF NestInv, Program
<1>15. CASE ReturnToLetBody
  BY <1>15, PopNests DEF ReturnToLetBody, TopIs
<1>16. CASE EvalMatch
  <2> DEFINE f == SubjectFrame(ctl.node)
             m == ctl.node.subject
  <2>1. /\ ctl.at = "eval" /\ ~IsLeaf(ctl.node) /\ ctl.node.kind = "Match"
        /\ f.node = ctl.node /\ f.kind = "subject" /\ ~HasKids(ctl.node)
    BY <1>16 DEF EvalMatch, SubjectFrame, IsLeaf, HasKids
  <2>2. Push(f) /\ ctl' = Eval(m) /\ depth' = depth /\ call' = call
    BY <1>16 DEF EvalMatch
  <2>3. m \in SubExpressions(ctl.node)
    BY <2>1 DEF SubExpressions
  <2> HIDE DEF f, m
  <2>4. Nested(Program, stack', depth) /\ Len(stack') = Len(stack) + 1
    BY <2>1, <2>2, NewFrameNests
  <2>5. m \in DOMAIN Program.heights /\ Len(stack') + Program.heights[m] <= Room(Program, depth)
    BY <2>1, <2>3, <2>4, EvalPartFits
  <2> QED
    BY <2>2, <2>4, <2>5 DEF NestInv, Program
<1>17. CASE ReturnToSubject
  <2> DEFINE f == ArmsFrame(Top.node, ctl.val, 1, env)
  <2>1. /\ Replace(f) /\ ctl' = NextArm /\ depth' = depth /\ call' = call
        /\ stack # <<>> /\ Top.kind = "subject"
    BY <1>17 DEF ReturnToSubject, TopIs
  <2>2. Top.node.kind = "Match"
    BY <2>1, TopNests DEF FrameNests
  <2>3. f.kind = "arms" /\ f.node = Top.node /\ f.node.kind = "Match" /\ f.index = 1
    BY <2>2 DEF ArmsFrame
  <2> HIDE DEF f
  <2>4. Nested(Program, stack', depth)
    BY <2>1, <2>3, ReplaceNests
  <2> QED
    BY <2>1, <2>4 DEF NestInv, Program
<1>18. CASE TryArm
  BY <1>18 DEF TryArm, NestInv, Program, Top, ArmsLeft
<1>19. CASE NoArm
  BY <1>19, SameNesting DEF NoArm
<1>20. CASE ArmMatches
  <2> DEFINE f == ArmBodyFrame(Top.node, Top.saved)
             m == Top.node.arms[Top.index].body
  <2>1. /\ ctl.at = "pattern" /\ Replace(f) /\ ctl' = Eval(m)
        /\ depth' = depth /\ call' = call
    BY <1>20 DEF ArmMatches
  <2>2. stack # <<>> /\ Top.kind = "arms" /\ Top.index <= Len(Top.node.arms)
    BY <2>1 DEF Shape, TopIs, NestInv
  <2>3. f.kind = "armBody" /\ f.node = Top.node
    BY DEF ArmBodyFrame
  <2>4. /\ Top.node.kind = "Match" /\ Top.index \in Nat \ {0}
        /\ Top.node \in DOMAIN Program.heights
    BY <2>2, TopNests DEF FrameNests
  <2>5. IrShape(Top.node) /\ Top.index \in 1 .. Len(Top.node.arms)
    <3>1. IrShape(Top.node)
      BY <2>4, ProgramNests, PartsFit
    <3> QED
      BY <2>2, <2>4, <3>1, Domain DEF IrShape
  <2>6. m \in SubExpressions(Top.node)
    BY <2>4, <2>5, ArmIsPart
  <2> HIDE DEF f, m
  <2>7. Nested(Program, stack', depth) /\ Len(stack') = Len(stack)
    BY <2>2, <2>1, <2>3, ReplaceNests
  <2>8. m \in DOMAIN Program.heights /\ Len(stack) + Program.heights[m] <= Room(Program, depth)
    BY <2>2, <2>6, PartFits
  <2> QED
    BY <2>1, <2>7, <2>8 DEF NestInv, Program
<1>21. CASE ReturnToMatch
  BY <1>21, PopNests DEF ReturnToMatch, TopIs
<1>22. CASE FieldMissing
  BY <1>22, SameNesting DEF FieldMissing
<1>23. CASE MatchWildcard
  BY <1>23, SameNesting DEF MatchWildcard, AtPattern
<1>24. CASE MatchBinding
  BY <1>24, SameNesting DEF MatchBinding, AtPattern
<1>25. CASE MatchVariant
  BY <1>25, SameNesting DEF MatchVariant, AtPattern
<1>26. CASE MissVariant
  <2> DEFINE f == ArmsFrame(Top.node, Top.val, Top.index + 1, Top.saved)
  <2>1. /\ ctl.at = "pattern" /\ Replace(f) /\ ctl' = NextArm
        /\ depth' = depth /\ call' = call
    BY <1>26 DEF MissVariant, AtPattern
  <2>2. stack # <<>> /\ Top.kind = "arms"
    BY <2>1 DEF Shape, TopIs
  <2>3. Top.node.kind = "Match" /\ Top.index + 1 \in Nat \ {0}
    BY <2>2, TopNests DEF FrameNests
  <2>4. /\ f.kind = "arms" /\ f.node = Top.node /\ f.node.kind = "Match"
        /\ f.index \in Nat \ {0}
    BY <2>3 DEF ArmsFrame
  <2> HIDE DEF f
  <2>5. Nested(Program, stack', depth)
    BY <2>1, <2>2, <2>4, ReplaceNests
  <2> QED
    BY <2>1, <2>5 DEF NestInv, Program
<1>27. CASE MatchNonEnum
  BY <1>27, SameNesting DEF MatchNonEnum
<1>28. CASE Charge
  <2>1. /\ stack' = stack /\ depth' = depth /\ call' = call
        /\ ctl'.at \in {"error", "return"}
    BY <1>28 DEF Charge
  <2> QED
    BY <2>1, SameNesting
<1>29. CASE Unwind
  <2>1. /\ stack # <<>> /\ Pop /\ call' = call /\ ctl' = ctl /\ ctl.at = "error"
        /\ depth' = LevelAfterTop
    BY <1>29 DEF Unwind
  <2>2. CASE TopIs("body")
    BY <2>1, <2>2, PopBodyNests DEF LevelAfterTop
  <2>3. CASE ~TopIs("body")
    BY <2>1, <2>3, PopNests DEF LevelAfterTop, TopIs
  <2> QED
    BY <2>2, <2>3
<1>30. CASE Finish
  BY <1>30, SameNesting DEF Finish
<1>31. CASE UNCHANGED vars
  BY <1>31 DEF vars, NestInv, Program, Top
<1> QED
  BY  <1>1, <1>2, <1>3, <1>4, <1>5, <1>6, <1>7, <1>8, <1>9, <1>10, <1>11, <1>12,
     <1>13, <1>14, <1>15, <1>16, <1>17, <1>18, <1>19, <1>20, <1>21, <1>22, <1>23, <1>24,
     <1>25, <1>26, <1>27, <1>28, <1>29, <1>30, <1>31
     DEF Next, CallFunction, EvalSimple, EvalCompound, EvalLetExpr, EvalMatchExpr,
         PatternMatches

------------------------------------------------------------------------------
(***************************************************************************)
(* Patterns on the native stack.  A pattern q that is matched at level l   *)
(* has l - 1 activations of pattern_matches above it.  They fit, with all  *)
(* that q has inside, into the nesting h of the match; and they are paid   *)
(* for, where r is how far frames and steps together are from the limit.   *)
(***************************************************************************)
LevelFits(p, q, l, h, r) ==
  /\ q \in DOMAIN p.binds
  /\ l \in Nat \ {0}
  /\ l - 1 <= r
  /\ l - 1 + p.depths[q] < h

LevelsFit(p, todo, levels, h, r) ==
  /\ IsSeq(todo) /\ IsSeq(levels)
  /\ Len(levels) = Len(todo)
  /\ \A i \in DOMAIN todo : LevelFits(p, todo[i].pat, levels[i], h, r)

LEMMA LevelsTail ==
  ASSUME NEW p, NEW todo, todo # <<>>, NEW levels, NEW h, NEW r,
         LevelsFit(p, todo, levels, h, r)
  PROVE  /\ LevelFits(p, Head(todo).pat, Head(levels), h, r)
         /\ LevelsFit(p, Tail(todo), Tail(levels), h, r)
<1>1. /\ IsSeq(todo) /\ IsSeq(levels) /\ Len(levels) = Len(todo)
      /\ \A i \in DOMAIN todo : LevelFits(p, todo[i].pat, levels[i], h, r)
  BY DEF LevelsFit
<1>2. levels # <<>>
  BY <1>1, Shortened, EmptySeq
<1>3. /\ IsSeq(Tail(todo)) /\ IsSeq(Tail(levels)) /\ Len(Tail(levels)) = Len(Tail(todo))
      /\ 1 \in DOMAIN todo /\ Head(todo) = todo[1] /\ Head(levels) = levels[1]
      /\ \A i \in DOMAIN Tail(todo) : i + 1 \in DOMAIN todo /\ Tail(todo)[i] = todo[i + 1]
      /\ \A i \in DOMAIN Tail(levels) : Tail(levels)[i] = levels[i + 1]
      /\ DOMAIN Tail(todo) = DOMAIN Tail(levels)
  BY <1>1, <1>2, Shortened, Domain
<1>4. \A i \in DOMAIN Tail(todo) : LevelFits(p, Tail(todo)[i].pat, Tail(levels)[i], h, r)
  BY <1>1, <1>3
<1> QED
  BY <1>1, <1>3, <1>4 DEF LevelsFit

LEMMA LevelsJoin ==
  ASSUME NEW p, NEW s, NEW t, NEW k, NEW l, NEW h, NEW r,
         LevelsFit(p, s, k, h, r), LevelsFit(p, t, l, h, r)
  PROVE  LevelsFit(p, s \o t, k \o l, h, r)
<1>1. /\ IsSeq(s) /\ IsSeq(k) /\ Len(k) = Len(s)
      /\ IsSeq(t) /\ IsSeq(l) /\ Len(l) = Len(t)
      /\ \A i \in DOMAIN s : LevelFits(p, s[i].pat, k[i], h, r)
      /\ \A i \in DOMAIN t : LevelFits(p, t[i].pat, l[i], h, r)
  BY DEF LevelsFit
<1>2. /\ IsSeq(s \o t) /\ Len(s \o t) = Len(s) + Len(t)
      /\ \A i \in 1 .. Len(s) + Len(t) :
           (s \o t)[i] = IF i <= Len(s) THEN s[i] ELSE t[i - Len(s)]
  BY <1>1, JoinedParts
<1>3. /\ IsSeq(k \o l) /\ Len(k \o l) = Len(s) + Len(t)
      /\ \A i \in 1 .. Len(s) + Len(t) :
           (k \o l)[i] = IF i <= Len(s) THEN k[i] ELSE l[i - Len(s)]
  BY <1>1, JoinedParts
<1>4. /\ Len(s) \in Nat /\ DOMAIN s = 1 .. Len(s)
      /\ Len(t) \in Nat /\ DOMAIN t = 1 .. Len(t)
      /\ DOMAIN (s \o t) = 1 .. Len(s) + Len(t)
  BY <1>1, <1>2, Domain
<1> DEFINE u == s \o t
           v == k \o l
<1> HIDE DEF u, v
<1>5. ASSUME NEW i \in 1 .. Len(s) + Len(t) PROVE LevelFits(p, u[i].pat, v[i], h, r)
  <2>1. CASE i <= Len(s)
    <3>1. i \in DOMAIN s /\ u[i] = s[i] /\ v[i] = k[i]
      BY <1>2, <1>3, <1>4, <2>1 DEF u, v
    <3> QED
      BY <1>1, <3>1
  <2>2. CASE ~(i <= Len(s))
    <3>1. i - Len(s) \in DOMAIN t /\ u[i] = t[i - Len(s)] /\ v[i] = l[i - Len(s)]
      BY <1>2, <1>3, <1>4, <2>2 DEF u, v
    <3> QED
      BY <1>1, <3>1
  <2> QED
    BY <2>1, <2>2
<1> QED
  BY <1>2, <1>3, <1>4, <1>5 DEF LevelsFit, u, v

(* One more step is spent. *)
LEMMA LevelsStep ==
  ASSUME NEW p, NEW todo, NEW levels, NEW h, NEW r \in Int, LevelsFit(p, todo, levels, h, r)
  PROVE  LevelsFit(p, todo, levels, h, r + 1)
BY DEF LevelsFit, LevelFits

(* A field is one level deeper than its variant, and nests less deep. *)
LEMMA FieldsFit ==
  ASSUME NEW p, PatternsOk(p), NEW q, q.kind = "Variant", NEW l, NEW h \in Nat, NEW r \in Int,
         LevelFits(p, q, l, h, r), NEW payload, NEW ls, ls = [i \in DOMAIN q.fields |-> l + 1]
  PROVE  LevelsFit(p, FieldPatterns(q, payload), ls, h, r + 1)
<1> DEFINE fs == FieldPatterns(q, payload)
<1>1. /\ q \in DOMAIN p.binds /\ p.depths[q] \in Nat /\ IsSeq(q.fields)
      /\ \A i \in DOMAIN q.fields : /\ q.fields[i].pat \in DOMAIN p.binds
                                    /\ p.depths[q.fields[i].pat] \in Nat
                                    /\ p.depths[q.fields[i].pat] < p.depths[q]
  BY DEF PatternsOk, LevelFits
<1>2. DOMAIN fs = DOMAIN q.fields /\ \A i \in DOMAIN q.fields : fs[i].pat = q.fields[i].pat
  BY DEF FieldPatterns
<1>3. IsSeq(fs) /\ Len(fs) = Len(q.fields)
  BY <1>1, MappedSeq DEF FieldPatterns
<1>4. IsSeq(ls) /\ Len(ls) = Len(q.fields)
  BY <1>1, MappedSeq
<1>5. l \in Nat \ {0} /\ l - 1 <= r /\ l - 1 + p.depths[q] < h
  BY DEF LevelFits
<1> HIDE DEF fs
<1>6. ASSUME NEW i \in DOMAIN q.fields PROVE LevelFits(p, fs[i].pat, ls[i], h, r + 1)
  <2>1. /\ ls[i] = l + 1 /\ fs[i].pat \in DOMAIN p.binds
        /\ p.depths[fs[i].pat] \in Nat /\ p.depths[fs[i].pat] < p.depths[q]
    BY <1>1, <1>2
  <2>2. l + 1 \in Nat \ {0} /\ l + 1 - 1 <= r + 1 /\ l + 1 - 1 + p.depths[fs[i].pat] < h
    BY <1>1, <1>5, <2>1
  <2> QED
    BY <2>1, <2>2 DEF LevelFits
<1> QED
  BY <1>2, <1>3, <1>4, <1>6 DEF LevelsFit, fs

(* What frames and steps leave of the step limit. *)
Slack == Limits.max_steps - (Len(stack) + steps)

PatternInv ==
  ctl.at = "pattern" =>
    LevelsFit(Program, ctl.todo, ctl.levels, Program.heights[Top.node], Slack)

LEMMA SlackIsNat == ASSUME Shape PROVE Slack \in Nat
<1>1. /\ Len(stack) \in Nat /\ steps \in Nat /\ Limits.max_steps \in Nat
      /\ Len(stack) + steps <= Limits.max_steps
  BY Domain, CallsAssumption DEF Shape, Limits
<1> QED
  BY <1>1 DEF Slack

LEMMA PatternSpends ==
  ASSUME Shape, ConsumeStep, stack' = stack, call' = call
  PROVE  /\ Slack' = Slack + 1 /\ Slack \in Int
         /\ Program' = Program /\ Top' = Top
<1>1. /\ Len(stack) \in Nat /\ steps \in Nat /\ Limits.max_steps \in Nat
  BY Domain, CallsAssumption DEF Shape, Limits
<1>2. steps' = steps - 1 /\ Limits' = Limits
  BY DEF ConsumeStep, Limits
<1> QED
  BY <1>1, <1>2 DEF Slack, Program, Top

LEMMA ProgramPatterns == ASSUME Shape PROVE PatternsOk(Program)
BY CallsAssumption, PatternAssumption DEF Shape, Program

(* The match whose arms are tried. *)
LEMMA MatchOnTop ==
  ASSUME Shape, NestInv, ctl.at \in {"arm", "pattern"}
  PROVE  /\ stack # <<>> /\ Top.kind = "arms"
         /\ Top.node.kind = "Match" /\ Top.node \in DOMAIN Program.heights
         /\ Program.heights[Top.node] \in Nat
         /\ IsSeq(Top.node.arms) /\ Top.index \in Nat \ {0}
         /\ Len(stack) - 1 + Program.heights[Top.node] <= Room(Program, depth)
<1>1. stack # <<>> /\ Top.kind = "arms"
  BY DEF Shape, TopIs
<1>2. /\ Top.node.kind = "Match" /\ Top.node \in DOMAIN Program.heights
      /\ Top.index \in Nat \ {0}
      /\ Len(stack) - 1 + Program.heights[Top.node] <= Room(Program, depth)
  BY <1>1, TopNests DEF FrameNests
<1>3. IrShape(Top.node) /\ Program.heights[Top.node] \in Nat
  BY <1>2, ProgramNests, PartsFit
<1> QED
  BY <1>1, <1>2, <1>3 DEF IrShape

LEMMA PatternNext ==
  ASSUME Shape, NestInv, PatternInv, [Next]_vars, ctl'.at = "pattern"
  PROVE  PatternInv'
<1> USE DEF CallFn, Eval, Kids, ChargeFor, Return, NextArm, Matching, Fail, Done
<1>1. CASE TryArm
  <2> DEFINE q == Top.node.arms[Top.index].pat
             todo == <<[pat |-> q, src |-> {Top.val}]>>
  <2>1. /\ ctl.at = "arm" /\ Top.index <= Len(Top.node.arms)
        /\ ctl'.todo = todo /\ ctl'.levels = <<1>>
        /\ Slack' = Slack /\ Program' = Program /\ Top' = Top
    BY <1>1 DEF TryArm, ArmsLeft, Slack, Program, Top, Limits
  <2>2. q \in DOMAIN Program.binds /\ Program.depths[q] < Program.heights[Top.node]
        /\ Program.depths[q] \in Nat
    <3>1. Top.index \in DOMAIN Top.node.arms
      BY <2>1, MatchOnTop, Domain
    <3> QED
      BY <2>1, <3>1, MatchOnTop, ProgramPatterns DEF PatternsOk
  <2> DEFINE h == Program.heights[Top.node]
  <2>3. Slack \in Nat /\ h \in Nat
    BY <2>1, SlackIsNat, MatchOnTop
  <2>4. /\ IsSeq(todo) /\ IsSeq(<<1>>) /\ Len(todo) = 1 /\ Len(<<1>>) = 1
        /\ DOMAIN todo = {1} /\ todo[1].pat = q /\ <<1>>[1] = 1
    BY DEF IsSeq, Range
  <2> HIDE DEF q, h, todo
  <2>5. LevelFits(Program, q, 1, h, Slack)
    BY <2>2, <2>3 DEF LevelFits, h
  <2>6. LevelsFit(Program, todo, <<1>>, h, Slack)
    BY <2>4, <2>5 DEF LevelsFit
  <2> QED
    BY <2>1, <2>6 DEF PatternInv, h
<1>2. ASSUME ctl.at = "pattern", ctl.todo # <<>>, ConsumeStep, stack' = stack, call' = call,
             ctl'.todo = Tail(ctl.todo), ctl'.levels = Tail(ctl.levels)
      PROVE  PatternInv'
  BY <1>2, PatternSpends, LevelsTail, LevelsStep DEF PatternInv
<1>3. CASE MatchWildcard
  BY <1>2, <1>3 DEF MatchWildcard, AtPattern
<1>4. CASE MatchBinding
  BY <1>2, <1>4 DEF MatchBinding, AtPattern
<1>5. CASE MatchVariant
  <2> DEFINE q == NextPattern.pat
             fs == FieldPatterns(q, PatternSource.fields)
             ls == FieldLevels(q)
             h == Program.heights[Top.node]
  <2>1. /\ ctl.at = "pattern" /\ ctl.todo # <<>> /\ ConsumeStep
        /\ stack' = stack /\ call' = call /\ q.kind = "Variant"
        /\ ctl'.todo = fs \o Tail(ctl.todo) /\ ctl'.levels = ls \o Tail(ctl.levels)
    BY <1>5 DEF MatchVariant, AtPattern
  <2>2. ls = [i \in DOMAIN q.fields |-> Head(ctl.levels) + 1]
    BY DEF FieldLevels
  <2>3. /\ LevelFits(Program, q, Head(ctl.levels), h, Slack)
        /\ LevelsFit(Program, Tail(ctl.todo), Tail(ctl.levels), h, Slack)
    BY <2>1, LevelsTail DEF PatternInv, NextPattern
  <2>4. Slack \in Int /\ h \in Nat /\ PatternsOk(Program)
    BY <2>1, SlackIsNat, MatchOnTop, ProgramPatterns
  <2> HIDE DEF q, ls, h
  <2>5. LevelsFit(Program, fs, ls, h, Slack + 1)
    BY <2>1, <2>2, <2>3, <2>4, FieldsFit
  <2> HIDE DEF fs
  <2>6. LevelsFit(Program, fs \o Tail(ctl.todo), ls \o Tail(ctl.levels), h, Slack + 1)
    BY <2>3, <2>4, <2>5, LevelsStep, LevelsJoin
  <2> QED
    BY <2>1, <2>6, PatternSpends DEF PatternInv, h
<1>6. CASE UNCHANGED vars
  BY <1>6 DEF vars, PatternInv, Slack, Limits, Program, Top
<1>7. CASE Unwind
  BY <1>7 DEF Unwind
<1>8. CASE BuildValue
  <2> DEFINE r == Built(Top.node, Top.vals)
  <2>1. ctl' = IF r.ok THEN ChargeFor(r.val) ELSE Fail(r)
    BY <1>8 DEF BuildValue
  <2> HIDE DEF r
  <2> QED
    BY <2>1
<1>9. CASE Charge
  BY <1>9 DEF Charge
<1> QED
  BY <1>1, <1>3, <1>4, <1>5, <1>6, <1>7, <1>8, <1>9
     DEF Next, CallFunction, EvalSimple, EvalCompound, EvalLetExpr, EvalMatchExpr,
         PatternMatches, OutOfSteps, EnterFunction, RefuseCall, ReturnFromFunction,
         EvalLeaf, EvalUnknownLocal, EvalKids, NextKid, ReturnToKids, BuildCall,
         ReturnToCall, EvalLet, ReturnToLetValue, ReturnToLetBody, EvalMatch,
         ReturnToSubject, NoArm, FieldMissing, MissVariant, MatchNonEnum, ArmMatches,
         ReturnToMatch, Finish

------------------------------------------------------------------------------
(***************************************************************************)
(* Values on the native stack.  No value that the evaluator holds is       *)
(* deeper than the deepest that the host passed in, and one more for each  *)
(* step that is spent and whose activation is over: a value that is put    *)
(* around others is made by an activation that then ends.                  *)
(*                                                                         *)
(* Of ValueDepth no more is assumed than that a value is at most one level *)
(* deeper than what is in it, and what is in a variant not deeper than it. *)
(***************************************************************************)
DepthRules ==
  /\ \A i : ValueDepth(IntV(i)) = 1
  /\ \A b : ValueDepth(BoolV(b)) = 1
  /\ \A f : \A n \in Nat :
       (\A x \in DOMAIN f : ValueDepth(f[x]) \in 0 .. n) =>
         /\ ValueDepth(TupleV(f)) \in 0 .. n + 1
         /\ ValueDepth(ListV(f)) \in 0 .. n + 1
         /\ \A tag : ValueDepth(EnumV(tag, f)) \in 0 .. n + 1
  /\ \A v : v.t = "Enum" /\ ValueDepth(v) \in Nat =>
       \A x \in DOMAIN v.fields : ValueDepth(v.fields[x]) \in 0 .. ValueDepth(v)

Shallow(S, b) == \A v \in S : ValueDepth(v) \in 0 .. b

(* The values at a control point, and those that a frame keeps. *)
Sources(todo) == UNION {todo[i].src : i \in DOMAIN todo}

CtlValues(c) ==
  IF c.at = "call" THEN Range(c.args)
  ELSE IF c.at \in {"charge", "return"} THEN {c.val}
  ELSE IF c.at = "pattern" THEN Sources(c.todo)
  ELSE {}

FrameValues(f) ==
  IF f.kind = "kids" THEN Range(f.vals)
  ELSE IF f.kind = "letBody" THEN f.prev
  ELSE IF f.kind = "arms" THEN {f.val} \cup Range(f.saved)
  ELSE IF f.kind \in {"armBody", "body"} THEN Range(f.saved)
  ELSE {}

FramesShallow(s, b) == \A i \in DOMAIN s : Shallow(FrameValues(s[i]), b)

Deepest == Slack + InputDepth

HeldInv ==
  /\ Shallow(CtlValues(ctl), Deepest)
  /\ Shallow(Range(env), Deepest)
  /\ FramesShallow(stack, Deepest)
  /\ ctl.at = "call" => IsSeq(ctl.args)

LEMMA ShallowUnion ==
  ASSUME NEW S, NEW T, NEW b, Shallow(S, b), Shallow(T, b)
  PROVE  \A U : U \subseteq S \cup T => Shallow(U, b)
BY DEF Shallow

LEMMA ShallowPart ==
  ASSUME NEW S, NEW b, Shallow(S, b), NEW U, U \subseteq S
  PROVE  Shallow(U, b)
BY DEF Shallow

LEMMA ShallowGrows ==
  ASSUME NEW b \in Int, NEW c \in Int, b <= c
  PROVE  /\ \A S : Shallow(S, b) => Shallow(S, c)
         /\ \A s : FramesShallow(s, b) => FramesShallow(s, c)
<1>1. 0 .. b \subseteq 0 .. c
  OBVIOUS
<1>2. \A S : Shallow(S, b) => Shallow(S, c)
  BY <1>1, Zenon DEF Shallow
<1> QED
  BY <1>2, Zenon DEF FramesShallow

LEMMA HeldPush ==
  ASSUME NEW b, NEW s, IsSeq(s), FramesShallow(s, b), NEW f, Shallow(FrameValues(f), b)
  PROVE  FramesShallow(Append(s, f), b)
<1> DEFINE t == Append(s, f)
<1>1. /\ IsSeq(t) /\ Len(t) = Len(s) + 1
      /\ \A i \in 1 .. Len(s) : t[i] = s[i]
      /\ t[Len(s) + 1] = f
  BY Appended
<1>2. Len(s) \in Nat /\ DOMAIN s = 1 .. Len(s)
  BY Domain
<1>3. DOMAIN t = 1 .. Len(t)
  BY <1>1, Domain
<1> HIDE DEF t
<1>4. FramesShallow(t, b)
  BY <1>1, <1>2, <1>3 DEF FramesShallow
<1> QED
  BY <1>4 DEF t

LEMMA HeldPop ==
  ASSUME NEW b, NEW s, IsSeq(s), s # <<>>, FramesShallow(s, b)
  PROVE  /\ FramesShallow(Front(s), b) /\ IsSeq(Front(s))
         /\ Shallow(FrameValues(Last(s)), b)
<1> DEFINE t == Front(s)
<1>1. /\ IsSeq(t) /\ Len(t) = Len(s) - 1 /\ Len(s) >= 1
      /\ \A i \in 1 .. Len(s) - 1 : t[i] = s[i]
      /\ Last(s) = s[Len(s)]
  BY FrontOf
<1>2. Len(s) \in Nat /\ DOMAIN s = 1 .. Len(s)
  BY Domain
<1>3. DOMAIN t = 1 .. Len(t)
  BY <1>1, Domain
<1> HIDE DEF t
<1>4. FramesShallow(t, b)
  BY <1>1, <1>2, <1>3 DEF FramesShallow
<1>5. Len(s) \in DOMAIN s
  BY <1>1, <1>2
<1>6. Shallow(FrameValues(Last(s)), b)
  BY <1>1, <1>5 DEF FramesShallow
<1> QED
  BY <1>1, <1>4, <1>6 DEF t

(* What a step that neither pushes more than it spends can rely on. *)
LEMMA HeldKept ==
  ASSUME Shape, Shape', HeldInv, call' = call,
         Len(stack') + steps' <= Len(stack) + steps
  PROVE  /\ Deepest \in Nat /\ Deepest' \in Nat /\ Deepest <= Deepest'
         /\ Deepest' - Deepest = (Len(stack) + steps) - (Len(stack') + steps')
         /\ Shallow(CtlValues(ctl), Deepest')
         /\ Shallow(Range(env), Deepest')
         /\ FramesShallow(stack, Deepest')
<1>1. Slack \in Nat
  BY SlackIsNat
<1>2. InputDepth \in Nat /\ InputDepth' = InputDepth /\ Limits' = Limits
  BY CallsAssumption DEF Shape, InputDepth, Limits
<1>3. /\ Len(stack) \in Nat /\ steps \in Nat /\ Limits.max_steps \in Nat
      /\ Len(stack') \in Nat /\ steps' \in Nat
  BY Domain, CallsAssumption DEF Shape, Limits
<1>4. Slack' - Slack = (Len(stack) + steps) - (Len(stack') + steps') /\ Slack' \in Int
  BY <1>2, <1>3 DEF Slack
<1>5. /\ Deepest \in Nat /\ Deepest' \in Nat /\ Deepest <= Deepest'
      /\ Deepest' - Deepest = (Len(stack) + steps) - (Len(stack') + steps')
  <2>1. Deepest = Slack + InputDepth /\ Deepest' = Slack' + InputDepth
    BY <1>2 DEF Deepest
  <2>2. Slack <= Slack' /\ Slack' \in Nat
    BY <1>1, <1>3, <1>4
  <2>3. ASSUME NEW a \in Nat, NEW c \in Nat, a <= c, NEW i \in Nat
        PROVE  a + i \in Nat /\ c + i \in Nat /\ a + i <= c + i /\ (c + i) - (a + i) = c - a
    BY <2>3
  <2>4. /\ Slack + InputDepth \in Nat /\ Slack' + InputDepth \in Nat
        /\ Slack + InputDepth <= Slack' + InputDepth
        /\ (Slack' + InputDepth) - (Slack + InputDepth) = Slack' - Slack
    BY <1>1, <1>2, <2>2, <2>3
  <2> QED
    BY <1>4, <2>1, <2>4
<1> QED
  BY <1>5, ShallowGrows DEF HeldInv

(* Maps of names hold the values that were put into them. *)
LEMMA MapValues ==
  ASSUME NEW e, NEW x, NEW v
  PROVE  /\ Range(Bind(e, x, v)) \subseteq Range(e) \cup {v}
         /\ Range(Unbind(e, x)) \subseteq Range(e)
         /\ Lookup(e, x) \subseteq Range(e)
BY DEF Range, Bind, Unbind, Lookup

LEMMA RestoredValues ==
  ASSUME NEW f, NEW e
  PROVE  Range(Restored(f, e)) \subseteq Range(e) \cup f.prev
<1>1. CASE f.prev = {}
  BY <1>1, MapValues DEF Restored
<1>2. CASE f.prev # {}
  <2> DEFINE v == CHOOSE v \in f.prev : TRUE
  <2>1. v \in f.prev /\ Restored(f, e) = Bind(e, f.node.name, v)
    BY <1>2 DEF Restored
  <2> QED
    BY <2>1, MapValues
<1> QED
  BY <1>1, <1>2

LEMMA Greatest ==
  ASSUME NEW n \in Nat, NEW S, S \subseteq 1 .. n, S # {}
  PROVE  Max(S) \in S
<1> DEFINE T == {n - i : i \in S}
<1>1. T \subseteq Nat /\ T # {}
  <2>1. \A i \in S : n - i \in Nat
    OBVIOUS
  <2> QED
    BY <2>1, Zenon
<1>2. PICK k \in T : \A j \in T : k <= j
  BY <1>1, LeastNumber
<1>3. PICK i \in S : k = n - i
  BY <1>2
<1>4. \A j \in S : i >= j
  <2> TAKE j \in S
  <2>1. n - j \in T
    OBVIOUS
  <2> QED
    BY <1>2, <1>3, <2>1
<1> QED
  BY <1>4 DEF Max

LEMMA InsertedValues ==
  ASSUME NEW names, IsSeq(names), NEW vals, IsSeq(vals), Len(names) <= Len(vals)
  PROVE  Range(InsertAll(names, vals)) \subseteq Range(vals)
<1>1. /\ DOMAIN names = 1 .. Len(names) /\ Len(names) \in Nat
      /\ DOMAIN vals = 1 .. Len(vals) /\ Len(vals) \in Nat
  BY Domain
<1>2. ASSUME NEW x \in Range(names)
      PROVE  vals[Max({i \in DOMAIN names : names[i] = x})] \in Range(vals)
  <2> DEFINE S == {i \in DOMAIN names : names[i] = x}
  <2>1. S \subseteq 1 .. Len(names) /\ S # {}
    BY <1>1 DEF Range
  <2> HIDE DEF S
  <2>2. Max(S) \in 1 .. Len(names)
    BY <1>1, <2>1, Greatest
  <2>3. Max(S) \in DOMAIN vals
    BY <1>1, <2>2
  <2> QED
    BY <2>3 DEF Range, S
<1> DEFINE m == InsertAll(names, vals)
<1>3. /\ DOMAIN m = Range(names)
      /\ \A x \in Range(names) : m[x] = vals[Max({i \in DOMAIN names : names[i] = x})]
  BY DEF InsertAll
<1>4. \A x \in DOMAIN m : m[x] \in Range(vals)
  BY <1>2, <1>3
<1> HIDE DEF m
<1>5. Range(m) \subseteq Range(vals)
  BY <1>4 DEF Range
<1> QED
  BY <1>5 DEF m

LEMMA AppendedValues ==
  ASSUME NEW s, IsSeq(s), NEW v
  PROVE  Range(Append(s, v)) \subseteq Range(s) \cup {v}
<1> DEFINE t == Append(s, v)
<1>1. /\ IsSeq(t) /\ Len(t) = Len(s) + 1
      /\ \A i \in 1 .. Len(s) : t[i] = s[i]
      /\ t[Len(s) + 1] = v
  BY Appended
<1>2. /\ Len(s) \in Nat /\ DOMAIN s = 1 .. Len(s) /\ DOMAIN t = 1 .. Len(s) + 1
  BY <1>1, Domain
<1> HIDE DEF t
<1>3. \A i \in DOMAIN t : t[i] = v \/ (i \in DOMAIN s /\ t[i] = s[i])
  BY <1>1, <1>2
<1>4. Range(t) \subseteq Range(s) \cup {v}
  BY <1>3 DEF Range
<1> QED
  BY <1>4 DEF t

(* What a node makes is one level deeper than its parts. *)
LEMMA BuiltDepth ==
  ASSUME DepthRules, NEW n, IrShape(n), HasKids(n), n.kind # "Call",
         NEW vals, IsSeq(vals), Len(n.kids) <= Len(vals),
         NEW b \in Nat, Shallow(Range(vals), b), Built(n, vals).ok
  PROVE  ValueDepth(Built(n, vals).val) \in 0 .. b + 1
<1>1. \A x \in DOMAIN vals : ValueDepth(vals[x]) \in 0 .. b
  BY DEF Shallow, Range
<1>2. CASE n.kind = "Tuple"
  BY <1>1, <1>2 DEF Built, Ok, DepthRules
<1>3. CASE n.kind = "List"
  BY <1>1, <1>3 DEF Built, Ok, DepthRules
<1>4. CASE n.kind = "Record"
  <2> DEFINE m == InsertAll(n.names, vals)
  <2>1. Range(m) \subseteq Range(vals)
    BY <1>4, InsertedValues DEF IrShape
  <2> HIDE DEF m
  <2>2. \A x \in DOMAIN m : ValueDepth(m[x]) \in 0 .. b
    BY <2>1 DEF Shallow, Range
  <2>3. Built(n, vals).val = EnumV(n.name, m)
    BY <1>4 DEF Built, Ok, m
  <2> QED
    BY <2>2, <2>3 DEF DepthRules
<1>5. CASE n.kind = "Binary"
  <2>1. Built(n, vals) = EvalBinary(n.op, vals[1], vals[2]) /\ n.op \in {"Add", "Sub", "Mul", "Div"}
    BY <1>5 DEF Built, IrShape
  <2>2. ASSUME NEW o \in {"Add", "Sub", "Mul", "Div"}, NEW l, NEW r, EvalBinary(o, l, r).ok
        PROVE  \E i : EvalBinary(o, l, r).val = IntV(i)
    <3>0. \A i : Checked(i).ok => Checked(i).val = IntV(i)
      BY DEF Checked, Ok, Err
    <3>1. ~(l.t # "Int" \/ r.t # "Int")
      BY <2>2, NoErrorSucceeds DEF EvalBinary
    <3>2. CASE o = "Add"
      BY <2>2, <3>0, <3>1, <3>2 DEF EvalBinary
    <3>3. CASE o = "Sub"
      BY <2>2, <3>0, <3>1, <3>3 DEF EvalBinary
    <3>4. CASE o = "Mul"
      BY <2>2, <3>0, <3>1, <3>4 DEF EvalBinary
    <3>5. CASE o = "Div"
      <4>1. EvalBinary(o, l, r) = IF r.int = 0 THEN Err("Trap", "division_by_zero")
                                  ELSE Checked(TruncDiv(l.int, r.int))
        BY <3>1, <3>5 DEF EvalBinary
      <4> QED
        BY <2>2, <3>0, <4>1, NoErrorSucceeds
    <3> QED
      BY <3>2, <3>3, <3>4, <3>5
  <2>3. PICK i : Built(n, vals).val = IntV(i)
    BY <2>1, <2>2
  <2> QED
    BY <2>3 DEF DepthRules
<1> QED
  BY <1>2, <1>3, <1>4, <1>5 DEF HasKids

(* Steps that leave frames and environment alone and hold nothing new. *)
LEMMA HeldSame ==
  ASSUME Shape, Shape', HeldInv, call' = call, stack' = stack, env' = env,
         steps' <= steps, ctl'.at # "call", CtlValues(ctl') \subseteq CtlValues(ctl)
  PROVE  HeldInv'
<1>1. Len(stack') + steps' <= Len(stack) + steps
  BY Domain DEF Shape
<1>2. /\ Shallow(CtlValues(ctl), Deepest') /\ Shallow(Range(env), Deepest')
      /\ FramesShallow(stack, Deepest')
  BY <1>1, HeldKept
<1>3. Shallow(CtlValues(ctl'), Deepest')
  BY <1>2, ShallowPart
<1> QED
  BY <1>2, <1>3 DEF HeldInv

(* The values of the frame on top are those that are held. *)
LEMMA HeldTop ==
  ASSUME Shape, stack # <<>>, FramesShallow(stack, Deepest')
  PROVE  /\ FramesShallow(Front(stack), Deepest') /\ IsSeq(Front(stack))
         /\ Shallow(FrameValues(Top), Deepest')
BY HeldPop DEF Shape, Top

LEMMA HeldReplaced ==
  ASSUME Shape, stack # <<>>, FramesShallow(stack, Deepest'),
         NEW f, Shallow(FrameValues(f), Deepest'), Replace(f)
  PROVE  FramesShallow(stack', Deepest')
BY HeldTop, HeldPush DEF Replace

LEMMA HeldPushed ==
  ASSUME Shape, FramesShallow(stack, Deepest'),
         NEW f, Shallow(FrameValues(f), Deepest'), Push(f)
  PROVE  FramesShallow(stack', Deepest')
BY HeldPush DEF Push, Shape

(* How much a step leaves of frames and steps together. *)
LEMMA PushSpends ==
  ASSUME Shape, NEW f, Push(f), steps' = steps - 1
  PROVE  Len(stack') + steps' <= Len(stack) + steps
BY Pushes DEF Shape

LEMMA PopSpends ==
  ASSUME Shape, stack # <<>>, Pop, steps' = steps
  PROVE  /\ Len(stack') + steps' <= Len(stack) + steps
         /\ (Len(stack) + steps) - (Len(stack') + steps') = 1
BY Pops DEF Shape

LEMMA ReplaceSpends ==
  ASSUME Shape, stack # <<>>, NEW f, Replace(f), steps' \in {steps, steps - 1}
  PROVE  Len(stack') + steps' <= Len(stack) + steps
BY Replaces DEF Shape

LEMMA StepSpends ==
  ASSUME Shape, stack' = stack, ConsumeStep
  PROVE  /\ Len(stack') + steps' <= Len(stack) + steps
         /\ (Len(stack) + steps) - (Len(stack') + steps') = 1
BY Domain DEF Shape, ConsumeStep

(* The frame on top keeps values in a sequence, one for each kid at the end. *)
LEMMA KidsHeld ==
  ASSUME Shape, NestInv, TopIs("kids")
  PROVE  /\ stack # <<>> /\ IsSeq(Top.vals) /\ HasKids(Top.node) /\ IrShape(Top.node)
         /\ FrameValues(Top) = Range(Top.vals)
<1>1. stack # <<>> /\ Top.kind = "kids"
  BY DEF TopIs
<1>2. IsSeq(Top.vals) /\ HasKids(Top.node) /\ Top.node \in DOMAIN Program.heights
  BY <1>1, TopNests DEF FrameNests
<1> QED
  BY <1>1, <1>2, ProgramNests, PartsFit DEF FrameValues

LEMMA TodoSources ==
  ASSUME NEW todo, IsSeq(todo), todo # <<>>
  PROVE  /\ Sources(Tail(todo)) \subseteq Sources(todo)
         /\ Head(todo).src \subseteq Sources(todo)
BY Shortened DEF Sources

LEMMA JoinedSources ==
  ASSUME NEW s, IsSeq(s), NEW t, IsSeq(t)
  PROVE  Sources(s \o t) \subseteq Sources(s) \cup Sources(t)
<1> DEFINE u == s \o t
<1>1. \A i \in DOMAIN u : \/ i \in DOMAIN s /\ u[i] = s[i]
                          \/ i - Len(s) \in DOMAIN t /\ u[i] = t[i - Len(s)]
  BY Joined
<1> HIDE DEF u
<1>2. \A i \in DOMAIN u : u[i].src \subseteq Sources(s) \cup Sources(t)
  BY <1>1 DEF Sources
<1>3. Sources(u) \subseteq Sources(s) \cup Sources(t)
  BY <1>2 DEF Sources
<1> QED
  BY <1>3 DEF u

LEMMA HeldNext ==
  ASSUME DepthRules, Shape, Shape', NestInv, PatternInv, HeldInv, [Next]_vars
  PROVE  HeldInv'
<1> USE DEF CallFn, Eval, Kids, ChargeFor, Return, NextArm, Matching, Fail, Done
<1>0. steps \in Nat /\ IsSeq(stack)
  BY DEF Shape
<1>1. CASE OutOfSteps
  BY <1>0, <1>1, HeldSame DEF OutOfSteps, CtlValues
<1>2. CASE EnterFunction
  <2> DEFINE f == BodyFrame(env)
             e == InsertAll(FunctionTable[ctl.name].params, ctl.args)
             c == Eval(FunctionTable[ctl.name].body)
  <2>1. /\ ctl.at = "call" /\ ConsumeStep /\ Push(f) /\ call' = call /\ env' = e /\ ctl' = c
        /\ ctl.name \in DOMAIN FunctionTable
        /\ Len(ctl.args) = Len(FunctionTable[ctl.name].params)
    BY <1>2 DEF EnterFunction, Arity
  <2>2. IsSeq(FunctionTable[ctl.name].params) /\ IsSeq(ctl.args)
    BY <2>1, ProgramNests DEF NestingOk, HeldInv, FunctionTable
  <2>3. Range(e) \subseteq Range(ctl.args)
    <3>1. Len(FunctionTable[ctl.name].params) <= Len(ctl.args)
      BY <2>1, <2>2, Domain
    <3> QED
      BY <2>2, <3>1, InsertedValues
  <2>4. CtlValues(ctl) = Range(ctl.args) /\ CtlValues(c) = {} /\ FrameValues(f) = Range(env)
        /\ c.at # "call"
    BY <2>1 DEF CtlValues, FrameValues, BodyFrame
  <2> HIDE DEF f, e, c
  <2>5. Len(stack') + steps' <= Len(stack) + steps
    BY <2>1, PushSpends DEF ConsumeStep
  <2>6. /\ Shallow(Range(e), Deepest') /\ Shallow(CtlValues(c), Deepest')
        /\ Shallow(FrameValues(f), Deepest') /\ FramesShallow(stack, Deepest')
    BY <2>1, <2>3, <2>4, <2>5, HeldKept, ShallowPart DEF Shallow
  <2>7. FramesShallow(stack', Deepest')
    BY <2>1, <2>6, HeldPushed
  <2> QED
    BY <2>1, <2>4, <2>6, <2>7 DEF HeldInv
<1>3. CASE RefuseCall
  BY <1>0, <1>3, HeldSame DEF RefuseCall, CtlValues, ConsumeStep
<1>4. CASE ReturnFromFunction
  <2>1. /\ stack # <<>> /\ Top.kind = "body" /\ Pop /\ steps' = steps /\ call' = call
        /\ env' = Top.saved /\ ctl' = ctl /\ ctl.at = "return"
    BY <1>4 DEF ReturnFromFunction, TopIs, SavedEnv
  <2>2. FrameValues(Top) = Range(Top.saved)
    BY <2>1 DEF FrameValues
  <2>3. Shallow(CtlValues(ctl), Deepest') /\ FramesShallow(stack, Deepest')
    BY <2>1, PopSpends, HeldKept
  <2>4. FramesShallow(stack', Deepest') /\ Shallow(Range(env'), Deepest')
    BY <2>1, <2>2, <2>3, HeldTop DEF Pop
  <2> QED
    BY <2>1, <2>3, <2>4 DEF HeldInv
<1>5. CASE EvalLeaf
  <2>1. PICK v \in LeafValue(ctl.node) : ctl' = ChargeFor(v)
    BY <1>5 DEF EvalLeaf
  <2>2. /\ IsLeaf(ctl.node) /\ ConsumeStep /\ stack' = stack /\ call' = call /\ env' = env
    BY <1>5 DEF EvalLeaf
  <2>3. /\ Deepest \in Nat /\ Deepest' = Deepest + 1 /\ Shallow(Range(env), Deepest')
        /\ FramesShallow(stack, Deepest')
    BY <2>2, StepSpends, HeldKept
  <2>4. ValueDepth(v) \in 0 .. Deepest'
    <3>1. CASE ctl.node.kind = "LocalRef"
      BY <2>1, <2>3, <3>1, MapValues DEF LeafValue, Shallow
    <3>2. CASE ctl.node.kind = "Int"
      <4>1. v = IntV(ctl.node.int)
        BY <2>1, <3>2 DEF LeafValue
      <4>2. ValueDepth(v) = 1
        BY <4>1 DEF DepthRules
      <4> QED
        BY <2>3, <4>2
    <3>3. CASE ctl.node.kind = "Bool"
      <4>1. v = BoolV(ctl.node.bool)
        BY <2>1, <3>3 DEF LeafValue
      <4>2. ValueDepth(v) = 1
        BY <4>1 DEF DepthRules
      <4> QED
        BY <2>3, <4>2
    <3> QED
      BY <2>2, <3>1, <3>2, <3>3 DEF IsLeaf
  <2>5. CtlValues(ctl') = {v} /\ ctl'.at # "call"
    BY <2>1 DEF CtlValues
  <2> QED
    BY <2>2, <2>3, <2>4, <2>5 DEF HeldInv, Shallow
<1>6. CASE EvalUnknownLocal
  BY <1>0, <1>6, HeldSame DEF EvalUnknownLocal, CtlValues, ConsumeStep
<1>7. ASSUME NEW f, Push(f), FrameValues(f) = {}, ConsumeStep, call' = call, env' = env,
             ctl'.at \in {"kids", "eval"}
      PROVE  HeldInv'
  <2>1. Len(stack') + steps' <= Len(stack) + steps
    BY <1>7, PushSpends DEF ConsumeStep
  <2>2. FramesShallow(stack, Deepest') /\ Shallow(Range(env), Deepest')
    BY <1>7, <2>1, HeldKept
  <2>3. FramesShallow(stack', Deepest')
    BY <1>7, <2>2, HeldPushed DEF Shallow
  <2>4. CtlValues(ctl') = {}
    BY <1>7 DEF CtlValues
  <2> QED
    BY <1>7, <2>2, <2>3, <2>4 DEF HeldInv, Shallow
<1>8. CASE NextKid
  BY <1>0, <1>8, HeldSame DEF NextKid, CtlValues
<1>9. CASE ReturnToKids
  <2> DEFINE f == KidsFrame(Top.node, Append(Top.vals, ctl.val))
  <2>1. /\ TopIs("kids") /\ Replace(f) /\ ctl.at = "return" /\ ctl' = Kids
        /\ call' = call /\ env' = env /\ steps' = steps
    BY <1>9 DEF ReturnToKids
  <2>2. stack # <<>> /\ IsSeq(Top.vals) /\ FrameValues(Top) = Range(Top.vals)
    BY <2>1, KidsHeld
  <2>3. FrameValues(f) \subseteq Range(Top.vals) \cup {ctl.val}
    BY <2>2, AppendedValues DEF FrameValues, KidsFrame
  <2>4. CtlValues(ctl) = {ctl.val} /\ CtlValues(ctl') = {}
    BY <2>1 DEF CtlValues
  <2> HIDE DEF f
  <2>5. /\ Shallow({ctl.val}, Deepest') /\ Shallow(Range(env), Deepest')
        /\ FramesShallow(stack, Deepest')
    BY <2>1, <2>2, <2>4, ReplaceSpends, HeldKept
  <2>6. Shallow(FrameValues(f), Deepest')
    BY <2>2, <2>3, <2>5, HeldTop, ShallowUnion
  <2>7. FramesShallow(stack', Deepest')
    BY <2>1, <2>2, <2>5, <2>6, HeldReplaced
  <2> QED
    BY <2>1, <2>4, <2>5, <2>7 DEF HeldInv, Shallow
<1>10. CASE BuildValue
  <2> DEFINE r == Built(Top.node, Top.vals)
  <2>1. /\ ctl.at = "kids" /\ AllKidsDone(Top) /\ Top.node.kind # "Call" /\ Pop
        /\ ctl' = (IF r.ok THEN ChargeFor(r.val) ELSE Fail(r))
        /\ call' = call /\ env' = env /\ steps' = steps
    BY <1>10 DEF BuildValue
  <2>2. /\ stack # <<>> /\ IsSeq(Top.vals) /\ HasKids(Top.node) /\ IrShape(Top.node)
        /\ FrameValues(Top) = Range(Top.vals)
    BY <2>1, KidsHeld DEF Shape
  <2>3. /\ Deepest \in Nat /\ Deepest' = Deepest + 1 /\ Shallow(Range(env), Deepest')
        /\ FramesShallow(stack, Deepest')
    BY <2>1, <2>2, PopSpends, HeldKept
  <2>4. Shallow(Range(Top.vals), Deepest) /\ FramesShallow(stack', Deepest')
    <3>1. Shallow(FrameValues(Last(stack)), Deepest)
      BY <1>0, <2>2, HeldPop DEF HeldInv
    <3> QED
      BY <2>1, <2>2, <2>3, <3>1, HeldTop DEF Pop, Top
  <2>5. ASSUME r.ok PROVE ValueDepth(r.val) \in 0 .. Deepest'
    <3>1. Len(Top.node.kids) <= Len(Top.vals)
      BY <2>1, <2>2, Domain DEF AllKidsDone, IrShape
    <3> QED
      BY <2>1, <2>2, <2>3, <2>4, <2>5, <3>1, BuiltDepth
  <2> HIDE DEF r
  <2>6. CtlValues(ctl') \subseteq {r.val} /\ (r.ok \/ CtlValues(ctl') = {}) /\ ctl'.at # "call"
    BY <2>1 DEF CtlValues
  <2> QED
    BY <2>1, <2>3, <2>4, <2>5, <2>6 DEF HeldInv, Shallow
<1>11. CASE BuildCall
  <2>1. /\ ctl.at = "kids" /\ ctl' = CallFn(Top.node.callee, Top.vals)
        /\ stack' = stack /\ call' = call /\ env' = env /\ steps' = steps
    BY <1>11 DEF BuildCall
  <2>2. stack # <<>> /\ IsSeq(Top.vals) /\ FrameValues(Top) = Range(Top.vals)
    BY <2>1, KidsHeld DEF Shape
  <2>3. CtlValues(ctl') = Range(Top.vals) /\ IsSeq(ctl'.args)
    BY <2>1, <2>2 DEF CtlValues
  <2>4. FramesShallow(stack, Deepest') /\ Shallow(Range(env), Deepest')
    <3>1. Len(stack') + steps' <= Len(stack) + steps
      BY <1>0, <2>1, Domain
    <3> QED
      BY <2>1, <3>1, HeldKept
  <2>5. Shallow(Range(Top.vals), Deepest')
    BY <2>2, <2>4, HeldTop
  <2> QED
    BY <2>1, <2>3, <2>4, <2>5 DEF HeldInv
<1>12. ASSUME stack # <<>>, Pop, steps' = steps, call' = call, env' = env,
              ctl.at = "return", ctl' = ChargeFor(ctl.val)
       PROVE  HeldInv'
  <2>1. /\ Shallow(CtlValues(ctl), Deepest') /\ Shallow(Range(env), Deepest')
        /\ FramesShallow(stack, Deepest')
    BY <1>12, PopSpends, HeldKept
  <2>2. FramesShallow(stack', Deepest')
    BY <1>12, <2>1, HeldTop DEF Pop
  <2>3. CtlValues(ctl') = CtlValues(ctl) /\ ctl'.at # "call"
    BY <1>12 DEF CtlValues
  <2> QED
    BY <1>12, <2>1, <2>2, <2>3 DEF HeldInv
<1>14. CASE ReturnToLetValue
  <2> DEFINE f == LetBodyFrame(Top.node, Lookup(env, Top.node.name))
             e == Bind(env, Top.node.name, ctl.val)
  <2>1. /\ ctl.at = "return" /\ stack # <<>> /\ Replace(f) /\ env' = e
        /\ ctl'.at = "eval" /\ call' = call /\ steps' = steps
    BY <1>14 DEF ReturnToLetValue, TopIs
  <2>2. /\ FrameValues(f) \subseteq Range(env)
        /\ Range(e) \subseteq Range(env) \cup {ctl.val}
    <3>1. f.kind = "letBody" /\ f.prev = Lookup(env, Top.node.name)
      BY DEF LetBodyFrame
    <3> HIDE DEF f
    <3>2. FrameValues(f) = Lookup(env, Top.node.name)
      BY <3>1 DEF FrameValues
    <3>3. Lookup(env, Top.node.name) \subseteq Range(env)
      BY MapValues
    <3>4. Range(e) \subseteq Range(env) \cup {ctl.val}
      BY MapValues
    <3> QED
      BY <3>2, <3>3, <3>4
  <2> HIDE DEF f, e
  <2>3. CtlValues(ctl) = {ctl.val} /\ CtlValues(ctl') = {}
    BY <2>1 DEF CtlValues
  <2>4. /\ Shallow({ctl.val}, Deepest') /\ Shallow(Range(env), Deepest')
        /\ FramesShallow(stack, Deepest')
    BY <2>1, <2>3, ReplaceSpends, HeldKept
  <2>5. Shallow(FrameValues(f), Deepest') /\ Shallow(Range(e), Deepest')
    BY <2>2, <2>4, ShallowPart, ShallowUnion
  <2>6. FramesShallow(stack', Deepest')
    BY <2>1, <2>4, <2>5, HeldReplaced
  <2> QED
    BY <2>1, <2>3, <2>5, <2>6 DEF HeldInv, Shallow
<1>15. CASE ReturnToLetBody
  <2>1. /\ ctl.at = "return" /\ stack # <<>> /\ Top.kind = "letBody" /\ Pop
        /\ env' = Restored(Top, env) /\ ctl' = ChargeFor(ctl.val) /\ call' = call /\ steps' = steps
    BY <1>15 DEF ReturnToLetBody, TopIs
  <2>2. /\ Shallow(CtlValues(ctl), Deepest') /\ Shallow(Range(env), Deepest')
        /\ FramesShallow(stack, Deepest')
    BY <2>1, PopSpends, HeldKept
  <2>3. FramesShallow(stack', Deepest') /\ Shallow(FrameValues(Top), Deepest')
    BY <2>1, <2>2, HeldTop DEF Pop
  <2>4. Range(env') \subseteq Range(env) \cup FrameValues(Top)
    BY <2>1, RestoredValues DEF FrameValues
  <2>5. Shallow(Range(env'), Deepest')
    BY <2>2, <2>3, <2>4, ShallowUnion
  <2>6. CtlValues(ctl') = CtlValues(ctl) /\ ctl'.at # "call"
    BY <2>1 DEF CtlValues
  <2> QED
    BY <2>2, <2>3, <2>5, <2>6 DEF HeldInv
<1>17. CASE ReturnToSubject
  <2> DEFINE f == ArmsFrame(Top.node, ctl.val, 1, env)
  <2>1. /\ ctl.at = "return" /\ stack # <<>> /\ Replace(f) /\ ctl' = NextArm
        /\ call' = call /\ env' = env /\ steps' = steps
    BY <1>17 DEF ReturnToSubject, TopIs
  <2>2. FrameValues(f) \subseteq Range(env) \cup {ctl.val}
    BY DEF FrameValues, ArmsFrame
  <2> HIDE DEF f
  <2>3. CtlValues(ctl) = {ctl.val} /\ CtlValues(ctl') = {}
    BY <2>1 DEF CtlValues
  <2>4. /\ Shallow({ctl.val}, Deepest') /\ Shallow(Range(env), Deepest')
        /\ FramesShallow(stack, Deepest')
    BY <2>1, <2>3, ReplaceSpends, HeldKept
  <2>5. FramesShallow(stack', Deepest')
    BY <2>1, <2>2, <2>4, ShallowUnion, HeldReplaced
  <2> QED
    BY <2>1, <2>3, <2>4, <2>5 DEF HeldInv, Shallow
<1>18. CASE TryArm
  <2>1. /\ ctl.at = "arm" /\ ctl'.at = "pattern" /\ stack' = stack /\ call' = call
        /\ env' = env /\ steps' = steps
        /\ ctl'.todo = <<[pat |-> Top.node.arms[Top.index].pat, src |-> {Top.val}]>>
    BY <1>18 DEF TryArm
  <2>2. CtlValues(ctl') = {Top.val}
    <3>1. /\ CtlValues(ctl') = Sources(ctl'.todo)
          /\ DOMAIN ctl'.todo = {1} /\ ctl'.todo[1].src = {Top.val}
      BY <2>1 DEF CtlValues
    <3> QED
      BY <3>1 DEF Sources
  <2>3. stack # <<>> /\ Top.val \in FrameValues(Top)
    BY <2>1, MatchOnTop DEF FrameValues
  <2>4. FramesShallow(stack, Deepest') /\ Shallow(Range(env), Deepest')
    <3>1. Len(stack') + steps' <= Len(stack) + steps
      BY <1>0, <2>1, Domain
    <3> QED
      BY <2>1, <3>1, HeldKept
  <2>5. Shallow(CtlValues(ctl'), Deepest')
    BY <2>2, <2>3, <2>4, HeldTop DEF Shallow
  <2> QED
    BY <2>1, <2>4, <2>5 DEF HeldInv
<1>19. CASE NoArm
  BY <1>0, <1>19, HeldSame DEF NoArm, CtlValues
<1>20. CASE ArmMatches
  <2> DEFINE f == ArmBodyFrame(Top.node, Top.saved)
  <2>1. /\ ctl.at = "pattern" /\ Replace(f) /\ ctl'.at = "eval"
        /\ call' = call /\ env' = env /\ steps' = steps
    BY <1>20 DEF ArmMatches
  <2>2. stack # <<>> /\ FrameValues(f) \subseteq FrameValues(Top)
    BY <2>1, MatchOnTop DEF FrameValues, ArmBodyFrame
  <2> HIDE DEF f
  <2>3. CtlValues(ctl') = {}
    BY <2>1 DEF CtlValues
  <2>4. Shallow(Range(env), Deepest') /\ FramesShallow(stack, Deepest')
    BY <2>1, <2>2, ReplaceSpends, HeldKept
  <2>5. FramesShallow(stack', Deepest')
    BY <2>1, <2>2, <2>4, HeldTop, ShallowPart, HeldReplaced
  <2> QED
    BY <2>1, <2>3, <2>4, <2>5 DEF HeldInv, Shallow
<1>21. CASE ReturnToMatch
  <2>1. /\ ctl.at = "return" /\ stack # <<>> /\ Top.kind = "armBody" /\ Pop
        /\ env' = Top.saved /\ ctl' = ChargeFor(ctl.val) /\ call' = call /\ steps' = steps
    BY <1>21 DEF ReturnToMatch, TopIs, SavedEnv
  <2>2. FrameValues(Top) = Range(Top.saved)
    BY <2>1 DEF FrameValues
  <2>3. Shallow(CtlValues(ctl), Deepest') /\ FramesShallow(stack, Deepest')
    BY <2>1, PopSpends, HeldKept
  <2>4. FramesShallow(stack', Deepest') /\ Shallow(Range(env'), Deepest')
    BY <2>1, <2>2, <2>3, HeldTop DEF Pop
  <2>5. CtlValues(ctl') = CtlValues(ctl) /\ ctl'.at # "call"
    BY <2>1 DEF CtlValues
  <2> QED
    BY <2>3, <2>4, <2>5 DEF HeldInv
<1>22. CASE FieldMissing
  BY <1>0, <1>22, HeldSame DEF FieldMissing, CtlValues
<1>23. CASE MatchWildcard
  <2>1. /\ ctl.at = "pattern" /\ ctl.todo # <<>> /\ ctl'.at = "pattern"
        /\ ctl'.todo = Tail(ctl.todo) /\ ConsumeStep
        /\ stack' = stack /\ call' = call /\ env' = env
    BY <1>23 DEF MatchWildcard, AtPattern
  <2>2. Sources(ctl'.todo) \subseteq Sources(ctl.todo)
    BY <2>1, TodoSources DEF PatternInv, LevelsFit
  <2> QED
    BY <1>0, <2>1, <2>2, HeldSame DEF CtlValues, ConsumeStep
<1>24. CASE MatchBinding
  <2> DEFINE e == Bind(env, NextPattern.pat.name, PatternSource)
  <2>1. /\ ctl.at = "pattern" /\ ctl.todo # <<>> /\ ctl'.at = "pattern"
        /\ ctl'.todo = Tail(ctl.todo) /\ ConsumeStep
        /\ stack' = stack /\ call' = call /\ env' = e /\ PatternSource \in Head(ctl.todo).src
    BY <1>24 DEF MatchBinding, AtPattern, PatternSource, NextPattern
  <2>2. /\ Sources(ctl'.todo) \subseteq Sources(ctl.todo)
        /\ PatternSource \in Sources(ctl.todo)
    BY <2>1, TodoSources DEF PatternInv, LevelsFit
  <2>3. Range(e) \subseteq Range(env) \cup {PatternSource}
    BY MapValues
  <2> HIDE DEF e
  <2>4. CtlValues(ctl) = Sources(ctl.todo) /\ CtlValues(ctl') = Sources(ctl'.todo)
    BY <2>1 DEF CtlValues
  <2>5. /\ Shallow(Sources(ctl.todo), Deepest') /\ Shallow(Range(env), Deepest')
        /\ FramesShallow(stack, Deepest')
    BY <2>1, <2>4, StepSpends, HeldKept
  <2>6. Shallow(Sources(ctl'.todo), Deepest') /\ Shallow(Range(e), Deepest')
    BY <2>2, <2>3, <2>5 DEF Shallow
  <2> QED
    BY <2>1, <2>4, <2>5, <2>6 DEF HeldInv
<1>25. CASE MatchVariant
  <2> DEFINE fs == FieldPatterns(NextPattern.pat, PatternSource.fields)
  <2>1. /\ ctl.at = "pattern" /\ ctl.todo # <<>> /\ ctl'.at = "pattern"
        /\ ctl'.todo = fs \o Tail(ctl.todo) /\ ConsumeStep /\ NextPattern.pat.kind = "Variant"
        /\ stack' = stack /\ call' = call /\ env' = env /\ PatternSource.t = "Enum"
        /\ PatternSource \in Head(ctl.todo).src
    BY <1>25 DEF MatchVariant, AtPattern, PatternSource, NextPattern
  <2>2. /\ IsSeq(ctl.todo) /\ NextPattern.pat \in DOMAIN Program.binds
    BY <2>1, LevelsTail DEF PatternInv, LevelsFit, LevelFits, NextPattern
  <2>3. IsSeq(fs)
    <3>1. IsSeq(NextPattern.pat.fields)
      BY <2>1, <2>2, ProgramPatterns DEF PatternsOk
    <3> QED
      BY <3>1, MappedSeq DEF FieldPatterns
  <2>4. Sources(fs) \subseteq Range(PatternSource.fields)
    <3>1. \A i \in DOMAIN fs : fs[i].src \subseteq Range(PatternSource.fields)
      <4>1. \A i \in DOMAIN fs :
              fs[i].src = Lookup(PatternSource.fields, NextPattern.pat.fields[i].name)
        BY DEF FieldPatterns
      <4>2. \A x : Lookup(PatternSource.fields, x) \subseteq Range(PatternSource.fields)
        BY MapValues
      <4> QED
        BY <4>1, <4>2
    <3> HIDE DEF fs
    <3> QED
      BY <3>1 DEF Sources
  <2> HIDE DEF fs
  <2>5. /\ Sources(ctl'.todo) \subseteq Sources(fs) \cup Sources(ctl.todo)
        /\ PatternSource \in Sources(ctl.todo)
    <3>1. /\ IsSeq(Tail(ctl.todo)) /\ Sources(Tail(ctl.todo)) \subseteq Sources(ctl.todo)
          /\ Head(ctl.todo).src \subseteq Sources(ctl.todo)
      BY <2>1, <2>2, TodoSources, Shortened
    <3>2. Sources(fs \o Tail(ctl.todo)) \subseteq Sources(fs) \cup Sources(Tail(ctl.todo))
      BY <2>3, <3>1, JoinedSources
    <3> QED
      BY <2>1, <3>1, <3>2
  <2>6. CtlValues(ctl) = Sources(ctl.todo) /\ CtlValues(ctl') = Sources(ctl'.todo)
    BY <2>1 DEF CtlValues
  <2>7. /\ Shallow(Sources(ctl.todo), Deepest') /\ Shallow(Range(env), Deepest')
        /\ FramesShallow(stack, Deepest') /\ Deepest' \in Nat
    BY <2>1, <2>6, StepSpends, HeldKept
  <2>8. Shallow(Range(PatternSource.fields), Deepest')
    <3>1. ValueDepth(PatternSource) \in 0 .. Deepest'
      BY <2>5, <2>7 DEF Shallow
    <3>2. 0 .. ValueDepth(PatternSource) \subseteq 0 .. Deepest'
      BY <2>7, <3>1
    <3>3. ValueDepth(PatternSource) \in Nat
      BY <2>7, <3>1
    <3>4. \A x \in DOMAIN PatternSource.fields :
            ValueDepth(PatternSource.fields[x]) \in 0 .. ValueDepth(PatternSource)
      BY <2>1, <3>3 DEF DepthRules
    <3> QED
      BY <3>2, <3>4, Zenon DEF Shallow, Range
  <2>9. Shallow(Sources(ctl'.todo), Deepest')
    BY <2>4, <2>5, <2>7, <2>8 DEF Shallow
  <2> QED
    BY <2>1, <2>6, <2>7, <2>9 DEF HeldInv
<1>26. CASE MissVariant
  <2> DEFINE f == ArmsFrame(Top.node, Top.val, Top.index + 1, Top.saved)
  <2>1. /\ ctl.at = "pattern" /\ Replace(f) /\ ctl' = NextArm /\ ConsumeStep
        /\ call' = call /\ env' = Top.saved
    BY <1>26 DEF MissVariant, AtPattern, SavedEnv
  <2>2. /\ stack # <<>> /\ FrameValues(f) \subseteq FrameValues(Top)
        /\ Range(Top.saved) \subseteq FrameValues(Top)
    BY <2>1, MatchOnTop DEF FrameValues, ArmsFrame
  <2> HIDE DEF f
  <2>3. CtlValues(ctl') = {}
    BY <2>1 DEF CtlValues
  <2>4. FramesShallow(stack, Deepest')
    BY <2>1, <2>2, ReplaceSpends, HeldKept DEF ConsumeStep
  <2>5. Shallow(FrameValues(f), Deepest') /\ Shallow(Range(Top.saved), Deepest')
    BY <2>2, <2>4, HeldTop, ShallowPart
  <2>6. FramesShallow(stack', Deepest')
    BY <2>1, <2>2, <2>4, <2>5, HeldReplaced
  <2> QED
    BY <2>1, <2>3, <2>5, <2>6 DEF HeldInv, Shallow
<1>27. CASE MatchNonEnum
  BY <1>0, <1>27, HeldSame DEF MatchNonEnum, CtlValues, AtPattern, ConsumeStep
<1>28. CASE Charge
  <2>1. /\ ctl.at = "charge" /\ stack' = stack /\ call' = call /\ env' = env /\ steps' = steps
        /\ ctl'.at = "error" \/ ctl' = Return(ctl.val)
    BY <1>28 DEF Charge
  <2>2. CtlValues(ctl') \subseteq CtlValues(ctl) /\ ctl'.at # "call"
    BY <2>1 DEF CtlValues
  <2> QED
    BY <1>0, <2>1, <2>2, HeldSame
<1>29. CASE Unwind
  <2>1. /\ ctl.at = "error" /\ ctl' = ctl /\ stack # <<>> /\ Pop /\ call' = call /\ steps' = steps
        /\ env' = CASE TopIs("letBody") -> Restored(Top, env)
                    [] Top.kind \in {"arms", "armBody", "body"} -> SavedEnv
                    [] OTHER -> env
    BY <1>29 DEF Unwind
  <2>2. Range(env') \subseteq Range(env) \cup FrameValues(Top)
    <3>1. CASE Top.kind = "letBody"
      <4>1. env' = Restored(Top, env)
        BY <2>1, <3>1 DEF TopIs
      <4> QED
        BY <3>1, <4>1, RestoredValues DEF FrameValues
    <3>2. CASE Top.kind \in {"arms", "armBody", "body"}
      <4>1. env' = Top.saved
        BY <2>1, <3>2 DEF TopIs, SavedEnv
      <4> QED
        BY <3>2, <4>1 DEF FrameValues
    <3>3. CASE Top.kind \notin {"letBody", "arms", "armBody", "body"}
      <4>1. env' = env
        BY <2>1, <3>3 DEF TopIs
      <4> QED
        BY <4>1
    <3> QED
      BY <3>1, <3>2, <3>3
  <2>3. Shallow(Range(env), Deepest') /\ FramesShallow(stack, Deepest')
    BY <2>1, PopSpends, HeldKept
  <2>4. FramesShallow(stack', Deepest') /\ Shallow(FrameValues(Top), Deepest')
    BY <2>1, <2>3, HeldTop DEF Pop
  <2>5. Shallow(Range(env'), Deepest')
    BY <2>2, <2>3, <2>4, ShallowUnion
  <2>6. CtlValues(ctl') = {}
    BY <2>1 DEF CtlValues
  <2> QED
    BY <2>1, <2>4, <2>5, <2>6 DEF HeldInv, Shallow
<1>30. CASE Finish
  BY <1>0, <1>30, HeldSame DEF Finish, CtlValues
<1>31. CASE UNCHANGED vars
  BY <1>31 DEF vars, HeldInv, Deepest, Slack, InputDepth, Limits
<1>32. CASE EvalKids
  <2>1. FrameValues(KidsFrame(ctl.node, <<>>)) = {}
    BY EmptySeq DEF FrameValues, KidsFrame, Range
  <2> QED
    BY <1>7, <1>32, <2>1 DEF EvalKids
<1>33. CASE EvalLet
  <2>1. FrameValues(LetValueFrame(ctl.node)) = {}
    BY DEF FrameValues, LetValueFrame
  <2> QED
    BY <1>7, <1>33, <2>1 DEF EvalLet
<1>34. CASE EvalMatch
  <2>1. FrameValues(SubjectFrame(ctl.node)) = {}
    BY DEF FrameValues, SubjectFrame
  <2> QED
    BY <1>7, <1>34, <2>1 DEF EvalMatch
<1>35. CASE ReturnToCall
  BY <1>12, <1>35 DEF ReturnToCall, TopIs
<1> QED
  BY <1>1, <1>2, <1>3, <1>4, <1>5, <1>6, <1>8, <1>9, <1>10, <1>11, <1>14, <1>15, <1>17,
     <1>18, <1>19, <1>20, <1>21, <1>22, <1>23, <1>24, <1>25, <1>26, <1>27, <1>28, <1>29,
     <1>30, <1>31, <1>32, <1>33, <1>34, <1>35
     DEF Next, CallFunction, EvalSimple, EvalCompound, EvalLetExpr, EvalMatchExpr,
         PatternMatches

LEMMA HeldInit == ASSUME DepthRules, Init, Shape PROVE HeldInv
<1>1. /\ ctl.at = "call" /\ ctl.args = <<call.state, call.input>> /\ stack = <<>>
      /\ env = EmptyEnv /\ steps = Limits.max_steps /\ call \in Calls
  BY DEF Init, CallFn, Limits
<1>2. /\ IsSeq(ctl.args) /\ Range(ctl.args) = {call.state, call.input}
  BY <1>1 DEF IsSeq, Range
<1>3. ValueDepth(call.state) \in Nat /\ ValueDepth(call.input) \in Nat
  BY <1>1, CallsAssumption
<1>4. Slack \in Nat /\ InputDepth \in Nat /\ ValueDepth(call.state) <= InputDepth
      /\ ValueDepth(call.input) <= InputDepth
  BY <1>3, SlackIsNat DEF InputDepth
<1>5. Shallow(CtlValues(ctl), Deepest)
  <2>1. \A v \in {call.state, call.input} : ValueDepth(v) \in 0 .. Deepest
    BY <1>3, <1>4 DEF Deepest
  <2> QED
    BY <1>1, <1>2, <2>1 DEF CtlValues, Shallow
<1>6. Range(env) = {} /\ DOMAIN stack = {}
  BY <1>1, EmptySeq DEF EmptyEnv, Range
<1> QED
  BY <1>2, <1>5, <1>6 DEF HeldInv, Shallow, FramesShallow

(***************************************************************************)
(* The whole invariant, and how many frames a control point adds to the    *)
(* activations on the stack.                                               *)
(***************************************************************************)
StackInv == Shape /\ DepthInv /\ NestInv /\ PatternInv /\ HeldInv

LEMMA StackInvInit == ASSUME DepthRules, Init PROVE StackInv
<1>1. PatternInv
  BY DEF Init, CallFn, PatternInv
<1> QED
  BY <1>1, ShapeInit, DepthInit, NestInit, HeldInit DEF StackInv

LEMMA StackInvNext == ASSUME DepthRules, StackInv, [Next]_vars PROVE StackInv'
<1>1. Shape' /\ DepthInv' /\ NestInv'
  BY ShapeNext, DepthNext, NestNext DEF StackInv
<1>2. PatternInv'
  <2>1. CASE ctl'.at = "pattern"
    BY <2>1, PatternNext DEF StackInv
  <2>2. CASE ctl'.at # "pattern"
    BY <2>2 DEF PatternInv
  <2> QED
    BY <2>1, <2>2
<1>3. HeldInv'
  BY <1>1, HeldNext DEF StackInv
<1> QED
  BY <1>1, <1>2, <1>3 DEF StackInv

(* A pattern is matched within the steps spent and the nesting of its match. *)
LEMMA PatternFits ==
  ASSUME StackInv
  PROVE  /\ PatternFrames \in Nat
         /\ PatternFrames <= Slack
         /\ PatternFrames # 0 => Len(stack) + PatternFrames <= Room(Program, depth)
<1>1. CASE ctl.at = "pattern" /\ ctl.todo # <<>>
  <2> DEFINE l == Head(ctl.levels)
             h == Program.heights[Top.node]
             r == Room(Program, depth)
             q == NextPattern.pat
  <2>1. LevelFits(Program, q, l, h, Slack)
    BY <1>1, LevelsTail DEF StackInv, PatternInv, NextPattern
  <2>2. Program.depths[q] \in Nat
    BY <2>1, ProgramPatterns DEF StackInv, PatternsOk, LevelFits
  <2>3. /\ h \in Nat /\ Len(stack) \in Nat /\ r \in Nat
        /\ Len(stack) - 1 + h <= r
    BY <1>1, MatchOnTop, ProgramNests, RoomGrows, Domain DEF StackInv, Shape, NestInv
  <2>4. Slack \in Nat /\ PatternFrames = l - 1
    BY <1>1, SlackIsNat DEF StackInv, PatternFrames
  <2>5. l \in Nat \ {0} /\ l - 1 <= Slack /\ l - 1 + Program.depths[q] < h
    BY <2>1 DEF LevelFits
  <2> DEFINE d == Program.depths[q]
  <2>6. d \in Nat /\ l - 1 + d < h
    BY <2>2, <2>5
  <2> HIDE DEF l, h, r, q, d
  <2>7. l - 1 \in Nat /\ Len(stack) + (l - 1) <= r
    BY <2>3, <2>5, <2>6
  <2> QED
    BY <2>4, <2>5, <2>7 DEF r
<1>2. CASE ~(ctl.at = "pattern" /\ ctl.todo # <<>>)
  BY <1>2, SlackIsNat DEF StackInv, PatternFrames
<1> QED
  BY <1>1, <1>2

(* A value that is charged for is within the steps spent, and the input. *)
LEMMA ValueFits ==
  ASSUME StackInv
  PROVE  /\ InputDepth \in Nat
         /\ ctl.at # "charge" => ValueFrames = 0
         /\ ctl.at = "charge" => ValueFrames \in 0 .. Slack + InputDepth
<1>1. InputDepth \in Nat
  BY CallsAssumption DEF StackInv, Shape, InputDepth
<1>2. ASSUME ctl.at = "charge" PROVE ValueFrames \in 0 .. Slack + InputDepth
  <2>1. Shallow({ctl.val}, Deepest)
    BY <1>2 DEF StackInv, HeldInv, CtlValues
  <2> QED
    BY <1>2, <2>1 DEF Shallow, ValueFrames, Deepest
<1> QED
  BY <1>1, <1>2 DEF ValueFrames

(* At most one of the two recursions is under way. *)
LEMMA OneRecursion ==
  /\ ctl.at # "charge" => ValueFrames = 0
  /\ ctl.at = "charge" => PatternFrames = 0
BY DEF ValueFrames, PatternFrames

LEMMA FramesArePaid == ASSUME StackInv PROVE StepsPayForFrames
<1>1. /\ Len(stack) \in Nat /\ steps \in Nat /\ Limits.max_steps \in Nat
      /\ Slack = Limits.max_steps - (Len(stack) + steps)
  BY Domain, CallsAssumption DEF StackInv, Shape, Limits, Slack
<1>2. CASE ctl.at = "charge"
  <2>1. PatternFrames = 0 /\ ValueFrames \in 0 .. Slack + InputDepth /\ InputDepth \in Nat
    BY <1>2, ValueFits, OneRecursion
  <2>2. Len(stack) + 0 + ValueFrames + steps <= Limits.max_steps + InputDepth
    BY <1>1, <2>1
  <2> QED
    BY <1>2, <2>1, <2>2 DEF StepsPayForFrames, NativeStack
<1>3. CASE ctl.at # "charge"
  <2>1. PatternFrames \in Nat /\ PatternFrames <= Slack /\ ValueFrames = 0
    BY <1>3, PatternFits, OneRecursion
  <2>2. Len(stack) + PatternFrames + 0 + steps <= Limits.max_steps + 0
    BY <1>1, <2>1
  <2> QED
    BY <1>3, <2>1, <2>2 DEF StepsPayForFrames, NativeStack
<1> QED
  BY <1>2, <1>3

LEMMA FramesAreBounded == ASSUME StackInv PROVE NativeStackBounded
<1> DEFINE r == Room(Program, depth)
           m == Limits.max_recursion_depth * (1 + Program.height)
<1>1. r \in Nat /\ m \in Nat /\ r <= m /\ Len(stack) <= r /\ Len(stack) \in Nat
  <2>1. /\ Limits.max_recursion_depth \in Nat /\ depth \in Nat
        /\ depth <= Limits.max_recursion_depth
    BY CallsAssumption DEF StackInv, Shape, DepthInv, NestInv, Limits
  <2>2. NestingOk(Program) /\ Program.height \in Nat
    BY ProgramNests DEF StackInv
  <2>3. Len(stack) <= Room(Program, depth) /\ Len(stack) \in Nat
    BY <2>1, <2>2, FramesFit, Domain DEF StackInv, Shape, NestInv
  <2>4. /\ Room(Program, depth) \in Nat /\ Room(Program, Limits.max_recursion_depth) \in Nat
        /\ Room(Program, depth) <= Room(Program, Limits.max_recursion_depth)
    BY <2>1, <2>2, RoomGrows
  <2> QED
    BY <2>3, <2>4 DEF Room
<1>2. CASE ctl.at = "charge"
  <2>1. /\ steps \in Nat /\ Limits.max_steps \in Nat
        /\ Slack = Limits.max_steps - (Len(stack) + steps)
    BY CallsAssumption DEF StackInv, Shape, Limits, Slack
  <2>2. PatternFrames = 0 /\ ValueFrames \in 0 .. Slack + InputDepth /\ InputDepth \in Nat
    BY <1>2, ValueFits, OneRecursion
  <2> HIDE DEF r, m
  <2>3. Len(stack) + 0 + ValueFrames <= m + (InputDepth + (Limits.max_steps - steps))
    BY <1>1, <2>1, <2>2
  <2> QED
    BY <1>2, <2>2, <2>3 DEF NativeStackBounded, NativeStack, m
<1>3. CASE ctl.at # "charge"
  <2>1. /\ PatternFrames \in Nat /\ ValueFrames = 0
        /\ PatternFrames # 0 => Len(stack) + PatternFrames <= r
    BY <1>3, PatternFits, OneRecursion
  <2> HIDE DEF r, m
  <2>2. Len(stack) + PatternFrames + 0 <= m + 0
    BY <1>1, <2>1
  <2> QED
    BY <1>3, <2>1, <2>2 DEF NativeStackBounded, NativeStack, m
<1> QED
  BY <1>2, <1>3

(***************************************************************************)
(* The step limit bounds the native stack, with the recursion over nested  *)
(* patterns and over values: whatever waits there has consumed a step that *)
(* is still spent, but for the depth of the values that were passed in     *)
(* (consume_step in eval_expr, call_function and pattern_matches; there is *)
(* none in estimate_value_bytes).                                          *)
(***************************************************************************)
THEOREM StackIsPaidFor == ASSUME DepthRules PROVE Spec => []StepsPayForFrames
<1>1. Init => StackInv
  BY StackInvInit
<1>2. StackInv /\ [Next]_vars => StackInv'
  BY StackInvNext
<1>3. StackInv => StepsPayForFrames
  BY FramesArePaid
<1> QED
  BY <1>1, <1>2, <1>3, PTL DEF Spec

(***************************************************************************)
(* The recursion limit bounds the native stack of eval_expr, call_function *)
(* and pattern_matches, by the nesting of one function body, patterns      *)
(* included, for each level.  The estimate of a value is not bounded by it *)
(* and adds what the values passed in and the steps spent allow.           *)
(***************************************************************************)
THEOREM StackIsBounded == ASSUME DepthRules PROVE Spec => []NativeStackBounded
<1>1. Init => StackInv
  BY StackInvInit
<1>2. StackInv /\ [Next]_vars => StackInv'
  BY StackInvNext
<1>3. StackInv => NativeStackBounded
  BY FramesAreBounded
<1> QED
  BY <1>1, <1>2, <1>3, PTL DEF Spec

------------------------------------------------------------------------------
(***************************************************************************)
(* A validated program never traps on a name.                              *)
(*                                                                         *)
(* The invariant that carries the proof follows the names through the      *)
(* stack.  The names known while the frame at position i is on top are     *)
(* doms[i]; what returning through that frame does to them is After, and   *)
(* must give doms[i - 1], the names the frame below knows.  A Let takes    *)
(* its name out again unless it displaced another value; an arm and a      *)
(* function body give back the environment that was put aside.             *)
(***************************************************************************)
(* The names known after control has returned through frame f. *)
After(f, D) ==
  IF f.kind \in {"arms", "armBody", "body"} THEN DOMAIN f.saved
  ELSE IF f.kind # "letBody" THEN D
  ELSE IF f.prev = {} THEN D \ {f.node.name}
  ELSE D \cup {f.node.name}

(* Frame f of a run of program p can be returned to when D is known. *)
FrameOk(p, f, D) ==
  /\ f.kind \in {"kids", "letValue", "letBody", "subject", "arms", "armBody", "body"}
  /\ f.kind # "body" => <<f.node, After(f, D)>> \in p.visits
  /\ f.kind = "kids" => /\ HasKids(f.node)
                        /\ IsSeq(f.vals)
                        /\ Len(f.vals) <= Len(f.node.kids)
  /\ f.kind = "letValue" => f.node.kind = "Let"
  /\ f.kind \in {"subject", "arms"} => f.node.kind = "Match"
  /\ f.kind = "arms" => f.index \in Nat \ {0}

Chained(p, st, D) ==
  \E doms :
    /\ doms[Len(st)] = D
    /\ \A i \in 1 .. Len(st) : /\ FrameOk(p, st[i], doms[i])
                               /\ doms[i - 1] = After(st[i], doms[i])

LEMMA ChainedPush ==
  ASSUME NEW p, NEW st, IsSeq(st), NEW C, Chained(p, st, C),
         NEW f, NEW D, FrameOk(p, f, D), After(f, D) = C
  PROVE  Chained(p, Append(st, f), D)
<1> DEFINE t == Append(st, f)
           n == Len(st)
<1>1. PICK doms : /\ doms[n] = C
                  /\ \A i \in 1 .. n : /\ FrameOk(p, st[i], doms[i])
                                       /\ doms[i - 1] = After(st[i], doms[i])
  BY DEF Chained
<1>2. /\ n \in Nat /\ Len(t) = n + 1
      /\ \A i \in 1 .. n : t[i] = st[i]
      /\ t[n + 1] = f
  BY Appended, Domain
<1> HIDE DEF t, n
<1> DEFINE d == [i \in 0 .. n + 1 |-> IF i = n + 1 THEN D ELSE doms[i]]
<1>3. d[n + 1] = D /\ \A i \in 0 .. n : d[i] = doms[i]
  BY <1>2
<1> HIDE DEF d
<1>4. ASSUME NEW i \in 1 .. n + 1
      PROVE  FrameOk(p, t[i], d[i]) /\ d[i - 1] = After(t[i], d[i])
  <2>1. CASE i = n + 1
    <3>1. i - 1 = n /\ n \in 0 .. n
      BY <1>2, <2>1
    <3> QED
      BY <1>1, <1>2, <1>3, <2>1, <3>1
  <2>2. CASE i # n + 1
    <3>1. i \in 1 .. n /\ i \in 0 .. n /\ i - 1 \in 0 .. n
      BY <1>2, <2>2
    <3> QED
      BY <1>1, <1>2, <1>3, <3>1
  <2> QED
    BY <2>1, <2>2
<1>5. d[Len(t)] = D /\ Len(t) = n + 1
  BY <1>2, <1>3
<1>6. Chained(p, t, D)
  BY <1>4, <1>5 DEF Chained
<1> QED
  BY <1>6 DEF t

LEMMA ChainedPop ==
  ASSUME NEW p, NEW st, IsSeq(st), st # <<>>, NEW D, Chained(p, st, D)
  PROVE  /\ Chained(p, Front(st), After(Last(st), D))
         /\ FrameOk(p, Last(st), D)
<1> DEFINE t == Front(st)
           n == Len(st)
<1>1. PICK doms : /\ doms[n] = D
                  /\ \A i \in 1 .. n : /\ FrameOk(p, st[i], doms[i])
                                       /\ doms[i - 1] = After(st[i], doms[i])
  BY DEF Chained
<1>2. /\ n \in Nat /\ n >= 1 /\ Len(t) = n - 1
      /\ \A i \in 1 .. n - 1 : t[i] = st[i]
      /\ Last(st) = st[n]
  BY FrontOf
<1> HIDE DEF t, n
<1>3. FrameOk(p, st[n], D) /\ doms[n - 1] = After(st[n], D)
  BY <1>1, <1>2
<1>4. \A i \in 1 .. n - 1 : /\ FrameOk(p, t[i], doms[i])
                            /\ doms[i - 1] = After(t[i], doms[i])
  BY <1>1, <1>2
<1>5. Chained(p, t, After(st[n], D))
  BY <1>2, <1>3, <1>4 DEF Chained
<1> QED
  BY <1>2, <1>3, <1>5 DEF t

LEMMA ChainedReplace ==
  ASSUME NEW p, NEW st, IsSeq(st), st # <<>>, NEW C, Chained(p, st, C),
         NEW f, NEW D, FrameOk(p, f, D), After(f, D) = After(Last(st), C)
  PROVE  Chained(p, Append(Front(st), f), D)
<1>1. Chained(p, Front(st), After(Last(st), C)) /\ IsSeq(Front(st))
  BY ChainedPop, FrontOf
<1> QED
  BY <1>1, ChainedPush

(* The names change under a frame that puts aside its environment. *)
LEMMA ChainedTop ==
  ASSUME NEW p, NEW st, IsSeq(st), st # <<>>, NEW C, Chained(p, st, C),
         NEW D, FrameOk(p, Last(st), D), After(Last(st), D) = After(Last(st), C)
  PROVE  Chained(p, st, D)
<1> DEFINE n == Len(st)
<1>1. PICK doms : /\ doms[n] = C
                  /\ \A i \in 1 .. n : /\ FrameOk(p, st[i], doms[i])
                                       /\ doms[i - 1] = After(st[i], doms[i])
  BY DEF Chained
<1>2. n \in Nat /\ n >= 1 /\ Last(st) = st[n]
  BY FrontOf
<1> HIDE DEF n
<1> DEFINE d == [i \in 0 .. n |-> IF i = n THEN D ELSE doms[i]]
<1>3. d[n] = D /\ \A i \in 0 .. n - 1 : d[i] = doms[i]
  BY <1>2
<1> HIDE DEF d
<1>4. ASSUME NEW i \in 1 .. n
      PROVE  FrameOk(p, st[i], d[i]) /\ d[i - 1] = After(st[i], d[i])
  <2>1. CASE i = n
    <3>1. i - 1 \in 0 .. n - 1 /\ n \in 1 .. n
      BY <1>2, <2>1
    <3> QED
      BY <1>1, <1>2, <1>3, <2>1, <3>1
  <2>2. CASE i # n
    <3>1. i \in 0 .. n - 1 /\ i - 1 \in 0 .. n - 1
      BY <1>2, <2>2
    <3> QED
      BY <1>1, <1>3, <3>1
  <2> QED
    BY <2>1, <2>2
<1> QED
  BY <1>3, <1>4 DEF Chained, n


------------------------------------------------------------------------------
(* The names that the patterns on a work list bind. *)
Names(p, todo) == UNION {p.binds[todo[i].pat] : i \in DOMAIN todo}

(***************************************************************************)
(* What holds where control is: an expression is one the validator visited *)
(* with the names that are known; what is known and what the patterns left *)
(* on the work list will add is what the body of the arm needs.            *)
(***************************************************************************)
PatternOk(p, todo, f, D) ==
  /\ IsSeq(todo)
  /\ f.index \in DOMAIN f.node.arms
  /\ \A i \in DOMAIN todo : todo[i].pat \in DOMAIN p.binds
  /\ D \cup Names(p, todo) = DOMAIN f.saved \cup p.binds[f.node.arms[f.index].pat]

CtlOk(p, c, st, D) ==
  /\ c.at = "eval" => <<c.node, D>> \in p.visits
  /\ c.at = "call" => /\ c.name \in DOMAIN p.functions
                      /\ Len(c.args) = Len(p.functions[c.name].params)
  /\ c.at = "arm" => D = DOMAIN Last(st).saved
  /\ c.at = "pattern" => PatternOk(p, c.todo, Last(st), D)
  /\ c.at = "error" => c.err \notin NameTraps
  /\ c.at = "done" => c.result \notin NameTraps

Ended(c) == c.at \in {"error", "done"}

ScopeOk(p, c, st, D) ==
  CtlOk(p, c, st, D) /\ (~Ended(c) => Chained(p, st, D))

ScopeInv ==
  call.prog \in ValidatedPrograms => ScopeOk(Program, ctl, stack, DOMAIN env)

(* What Validated says, one rule at a time. *)
LEMMA VisitRules ==
  ASSUME NEW p, Validated(p), NEW n, NEW S, <<n, S>> \in p.visits
  PROVE  VisitOk(p, n, S)
BY DEF Validated

LEMMA FunctionRules ==
  ASSUME NEW p, Validated(p), NEW f \in DOMAIN p.functions
  PROVE  /\ IsSeq(p.functions[f].params)
         /\ <<p.functions[f].body, Range(p.functions[f].params)>> \in p.visits
BY DEF Validated

LEMMA EntryRules ==
  ASSUME NEW p, Validated(p), NEW e \in {"update", "query"}
  PROVE  p[e] \in DOMAIN p.functions /\ Len(p.functions[p[e]].params) = 2
BY DEF Validated

LEMMA PatternRules ==
  ASSUME NEW p, Validated(p), NEW q \in DOMAIN p.binds
  PROVE  BindsOk(p, q)
BY DEF Validated

LEMMA BoundNames ==
  ASSUME NEW e, NEW x, NEW v
  PROVE  /\ DOMAIN Bind(e, x, v) = DOMAIN e \cup {x}
         /\ DOMAIN Unbind(e, x) = DOMAIN e \ {x}
         /\ Lookup(e, x) = {} <=> x \notin DOMAIN e
BY DEF Bind, Unbind, Lookup

(* Names on a work list whose first entry is taken off or expanded. *)
LEMMA TailNames ==
  ASSUME NEW p, NEW s, IsSeq(s), s # <<>>
  PROVE  /\ IsSeq(Tail(s))
         /\ \A i \in DOMAIN Tail(s) : \E j \in DOMAIN s : Tail(s)[i] = s[j]
         /\ Names(p, s) = p.binds[Head(s).pat] \cup Names(p, Tail(s))
<1> DEFINE t == Tail(s)
           n == Len(s)
<1>1. /\ n \in Nat /\ n >= 1 /\ Len(t) = n - 1 /\ Head(s) = s[1]
      /\ t \in Seq(Range(s)) /\ DOMAIN s = 1 .. n /\ DOMAIN t = 1 .. n - 1
      /\ \A i \in 1 .. n - 1 : t[i] = s[i + 1]
  <2>1. s \in Seq(Range(s))
    BY DEF IsSeq
  <2>2. Len(s) \in Nat \ {0} /\ DOMAIN s = 1 .. Len(s)
    BY <2>1, EmptySeq, LenProperties
  <2>3. /\ Head(s) = s[1] /\ t \in Seq(Range(s)) /\ Len(t) = Len(s) - 1
        /\ \A i \in 1 .. Len(t) : t[i] = s[i + 1]
    BY <2>1, HeadTailProperties, ElementOfSeq
  <2>4. DOMAIN t = 1 .. Len(t)
    BY <2>3, LenProperties
  <2> QED
    BY <2>2, <2>3, <2>4
<1> HIDE DEF t, n
<1>2. IsSeq(t)
  <2>1. \A i \in 1 .. Len(t) : t[i] \in Range(t)
    BY <1>1, LenProperties DEF Range
  <2> QED
    BY <1>1, <2>1 DEF IsSeq
<1>3. \A i \in DOMAIN t : i + 1 \in DOMAIN s /\ t[i] = s[i + 1]
  BY <1>1
<1>4. \A j \in DOMAIN s : j = 1 \/ (j - 1 \in DOMAIN t /\ t[j - 1] = s[j])
  BY <1>1
<1>5. 1 \in DOMAIN s
  BY <1>1
<1>6. Names(p, s) = p.binds[Head(s).pat] \cup Names(p, t)
  <2>1. ASSUME NEW j \in DOMAIN s
        PROVE  p.binds[s[j].pat] \subseteq p.binds[Head(s).pat] \cup Names(p, t)
    <3>1. CASE j = 1
      BY <1>1, <3>1
    <3>2. CASE j # 1
      BY <1>4, <3>2 DEF Names
    <3> QED
      BY <3>1, <3>2
  <2>2. ASSUME NEW i \in DOMAIN t
        PROVE  p.binds[t[i].pat] \subseteq Names(p, s)
    BY <1>3 DEF Names
  <2>3. p.binds[Head(s).pat] \subseteq Names(p, s)
    BY <1>1, <1>5 DEF Names
  <2> QED
    BY <2>1, <2>2, <2>3 DEF Names
<1> QED
  BY <1>2, <1>3, <1>6 DEF t

LEMMA HeadPattern ==
  ASSUME NEW p, NEW s, IsSeq(s), s # <<>>,
         \A i \in DOMAIN s : s[i].pat \in DOMAIN p.binds
  PROVE  Head(s).pat \in DOMAIN p.binds
<1>1. Len(s) \in Nat \ {0} /\ DOMAIN s = 1 .. Len(s) /\ Head(s) = s[1]
  BY EmptySeq, Domain DEF IsSeq
<1> QED
  BY <1>1

LEMMA JoinedNames ==
  ASSUME NEW p, NEW s, IsSeq(s), NEW t, IsSeq(t)
  PROVE  /\ IsSeq(s \o t)
         /\ \A k \in DOMAIN (s \o t) : \/ \E i \in DOMAIN s : (s \o t)[k] = s[i]
                                       \/ \E i \in DOMAIN t : (s \o t)[k] = t[i]
         /\ Names(p, s \o t) = Names(p, s) \cup Names(p, t)
<1> DEFINE u == s \o t
           m == Len(s)
           n == Len(t)
           S == Range(s) \cup Range(t)
<1>1. s \in Seq(S) /\ t \in Seq(S)
  BY DEF IsSeq
<1>2. /\ u \in Seq(S) /\ Len(u) = m + n
      /\ \A k \in 1 .. m + n : u[k] = IF k <= m THEN s[k] ELSE t[k - m]
  BY <1>1, ConcatProperties
<1>3. /\ m \in Nat /\ n \in Nat
      /\ DOMAIN s = 1 .. m /\ DOMAIN t = 1 .. n /\ DOMAIN u = 1 .. m + n
  BY <1>1, <1>2, LenProperties
<1> HIDE DEF u, m, n, S
<1>4. IsSeq(u)
  <2>1. \A i \in 1 .. Len(u) : u[i] \in Range(u)
    BY <1>2, LenProperties DEF Range
  <2> QED
    BY <1>2, <2>1 DEF IsSeq
<1>5. \A i \in DOMAIN s : i \in DOMAIN u /\ u[i] = s[i]
  BY <1>2, <1>3
<1>6. \A i \in DOMAIN t : m + i \in DOMAIN u /\ u[m + i] = t[i]
  <2> TAKE i \in DOMAIN t
  <2>1. /\ m + i \in 1 .. m + n /\ ~(m + i <= m) /\ (m + i) - m = i
    BY <1>3
  <2> QED
    BY <1>2, <1>3, <2>1
<1>7. \A k \in DOMAIN u : \/ k \in DOMAIN s /\ u[k] = s[k]
                          \/ k - m \in DOMAIN t /\ u[k] = t[k - m]
  BY <1>2, <1>3
<1>8. Names(p, u) = Names(p, s) \cup Names(p, t)
  <2>1. ASSUME NEW k \in DOMAIN u
        PROVE  p.binds[u[k].pat] \subseteq Names(p, s) \cup Names(p, t)
    BY <1>7 DEF Names
  <2>2. ASSUME NEW i \in DOMAIN s PROVE p.binds[s[i].pat] \subseteq Names(p, u)
    BY <1>5 DEF Names
  <2>3. ASSUME NEW i \in DOMAIN t PROVE p.binds[t[i].pat] \subseteq Names(p, u)
    BY <1>6 DEF Names
  <2> QED
    BY <2>1, <2>2, <2>3 DEF Names
<1> QED
  BY <1>4, <1>7, <1>8 DEF u

------------------------------------------------------------------------------
(* None of the other errors is a trap on a name, and no success is. *)
LEMMA OtherErrors ==
  ASSUME NEW code, NEW why,
         why \notin {"unknown_local", "unknown_function", "arity"}
  PROVE  Err(code, why) \notin NameTraps
BY DEF NameTraps, Err

LEMMA Successes == ASSUME NEW v PROVE Ok(v) \notin NameTraps
BY DEF NameTraps, Ok, Err

LEMMA BinaryErrors ==
  ASSUME NEW op \in {"Add", "Sub", "Mul", "Div"}, NEW l, NEW r
  PROVE  EvalBinary(op, l, r) \notin NameTraps
<1>1. \A i : Checked(i) \notin NameTraps
  BY Successes, OtherErrors DEF Checked
<1>2. CASE l.t # "Int" \/ r.t # "Int"
  BY <1>2, OtherErrors DEF EvalBinary
<1>3. CASE ~(l.t # "Int" \/ r.t # "Int")
  <2>1. CASE op = "Add"
    BY <1>1, <1>3, <2>1 DEF EvalBinary
  <2>2. CASE op = "Sub"
    BY <1>1, <1>3, <2>2 DEF EvalBinary
  <2>3. CASE op = "Mul"
    BY <1>1, <1>3, <2>3 DEF EvalBinary
  <2>4. CASE op = "Div"
    BY <1>1, <1>3, <2>4, OtherErrors DEF EvalBinary
  <2> QED
    BY <2>1, <2>2, <2>3, <2>4
<1> QED
  BY <1>2, <1>3

LEMMA BuiltErrors ==
  ASSUME NEW n, IrShape(n), HasKids(n), n.kind # "Call", NEW vals
  PROVE  Built(n, vals) \notin NameTraps
<1>1. CASE n.kind = "Binary"
  BY <1>1, BinaryErrors DEF Built, IrShape
<1>2. CASE n.kind \in {"Tuple", "List", "Record"}
  BY <1>2, Successes DEF Built
<1> QED
  BY <1>1, <1>2 DEF HasKids

LEMMA UpdateErrors == ASSUME NEW v PROVE UpdateResult(v) \notin NameTraps
BY Successes, OtherErrors DEF UpdateResult

(* The field patterns of a variant bind what the variant binds. *)
LEMMA FieldNames ==
  ASSUME NEW p, NEW q \in DOMAIN p.binds, BindsOk(p, q), q.kind = "Variant",
         NEW payload
  PROVE  LET fs == FieldPatterns(q, payload)
         IN  /\ IsSeq(fs)
             /\ \A i \in DOMAIN fs : fs[i].pat \in DOMAIN p.binds
             /\ Names(p, fs) = p.binds[q]
<1> DEFINE fs == FieldPatterns(q, payload)
<1>1. /\ DOMAIN q.fields = 1 .. Len(q.fields) /\ Len(q.fields) \in Nat
      /\ \A i \in DOMAIN q.fields : q.fields[i].pat \in DOMAIN p.binds
      /\ p.binds[q] = UNION {p.binds[q.fields[i].pat] : i \in DOMAIN q.fields}
  BY Domain DEF BindsOk
<1>2. DOMAIN fs = DOMAIN q.fields /\ \A i \in DOMAIN fs : fs[i].pat = q.fields[i].pat
  BY DEF FieldPatterns
<1>3. IsSeq(fs)
  <2>1. fs = [i \in 1 .. Len(q.fields) |-> fs[i]]
    BY <1>1 DEF FieldPatterns
  <2>2. \A i \in 1 .. Len(q.fields) : fs[i] \in Range(fs)
    BY <1>1, <1>2 DEF Range
  <2> HIDE DEF fs
  <2>3. fs \in [1 .. Len(q.fields) -> Range(fs)]
    BY <2>1, <2>2
  <2> QED
    BY <1>1, <2>3 DEF IsSeq
<1> HIDE DEF fs
<1>4. Names(p, fs) = UNION {p.binds[q.fields[i].pat] : i \in DOMAIN q.fields}
  BY <1>2 DEF Names
<1> QED
  BY <1>1, <1>2, <1>3, <1>4 DEF fs


(* The first pattern of a work list is matched. *)
LEMMA TakenPattern ==
  ASSUME NEW p, Validated(p), NEW todo, todo # <<>>, NEW f, NEW D,
         PatternOk(p, todo, f, D)
  PROVE  /\ Head(todo).pat \in DOMAIN p.binds
         /\ BindsOk(p, Head(todo).pat)
         /\ PatternOk(p, Tail(todo), f, D \cup p.binds[Head(todo).pat])
<1>1. /\ IsSeq(todo)
      /\ f.index \in DOMAIN f.node.arms
      /\ \A i \in DOMAIN todo : todo[i].pat \in DOMAIN p.binds
      /\ D \cup Names(p, todo) = DOMAIN f.saved \cup p.binds[f.node.arms[f.index].pat]
  BY DEF PatternOk
<1>2. Head(todo).pat \in DOMAIN p.binds
  BY <1>1, HeadPattern
<1>3. BindsOk(p, Head(todo).pat)
  BY <1>2, PatternRules
<1> DEFINE rest == Tail(todo)
           q == Head(todo).pat
<1>4. /\ IsSeq(rest)
      /\ \A i \in DOMAIN rest : \E j \in DOMAIN todo : rest[i] = todo[j]
      /\ Names(p, todo) = p.binds[q] \cup Names(p, rest)
  BY <1>1, TailNames
<1> HIDE DEF rest, q
<1>5. \A i \in DOMAIN rest : rest[i].pat \in DOMAIN p.binds
  BY <1>1, <1>4
<1>6. (D \cup p.binds[q]) \cup Names(p, rest) = D \cup Names(p, todo)
  BY <1>4
<1>7. PatternOk(p, rest, f, D \cup p.binds[q])
  BY <1>1, <1>4, <1>5, <1>6 DEF PatternOk
<1> QED
  BY <1>2, <1>3, <1>7 DEF rest, q


------------------------------------------------------------------------------
(***************************************************************************)
(* Every action keeps the names in order.                                  *)
(***************************************************************************)
LEMMA ScopeStep ==
  ASSUME Shape, Shape', call.prog \in ValidatedPrograms,
         ScopeOk(Program, ctl, stack, DOMAIN env), Next
  PROVE  ScopeOk(Program, ctl', stack', DOMAIN env')
<1> USE DEF CallFn, Eval, Kids, ChargeFor, Return, NextArm, Matching, Fail, Done,
            Ended
<1> DEFINE D == DOMAIN env
<1>0. /\ Validated(Program)
      /\ FunctionTable = Program.functions
      /\ IsSeq(stack)
      /\ CtlOk(Program, ctl, stack, D)
      /\ ~Ended(ctl) => Chained(Program, stack, D)
  BY DEF ValidatedPrograms, Program, FunctionTable, Shape, ScopeOk
<1> HIDE DEF D
(* call_function *)
<1>1. CASE OutOfSteps
  BY <1>1, OtherErrors DEF OutOfSteps, ScopeOk, CtlOk
<1>2. CASE EnterFunction
  <2> DEFINE f == BodyFrame(env)
             E == DOMAIN env'
  <2>1. /\ ctl.name \in DOMAIN Program.functions
        /\ E = Range(Program.functions[ctl.name].params)
        /\ ctl' = Eval(Program.functions[ctl.name].body)
        /\ stack' = Append(stack, f)
        /\ ctl.at = "call"
    BY <1>0, <1>2 DEF EnterFunction, InsertAll, Push
  <2>2. <<Program.functions[ctl.name].body, E>> \in Program.visits
    BY <1>0, <2>1, FunctionRules
  <2>3. FrameOk(Program, f, E) /\ After(f, E) = D
    BY DEF FrameOk, After, BodyFrame, D
  <2> HIDE DEF f, E
  <2>4. Chained(Program, stack', E)
    BY <1>0, <2>1, <2>3, ChainedPush
  <2> QED
    BY <2>1, <2>2, <2>4 DEF ScopeOk, CtlOk, E
<1>3. CASE RefuseCall
  <2>1. ctl' = Fail(DepthError)
    BY <1>0, <1>3 DEF RefuseCall, CtlOk, Arity
  <2> QED
    BY <2>1, OtherErrors DEF ScopeOk, CtlOk, DepthError
<1>4. CASE ReturnFromFunction
  <2>1. /\ ctl' = ctl /\ ctl.at = "return" /\ stack # <<>> /\ stack' = Front(stack)
        /\ DOMAIN env' = After(Last(stack), D)
    BY <1>4 DEF ReturnFromFunction, TopIs, Top, SavedEnv, Pop, After
  <2>2. Chained(Program, stack', DOMAIN env')
    BY <1>0, <2>1, ChainedPop
  <2> QED
    BY <2>1, <2>2 DEF ScopeOk, CtlOk
(* leaves *)
<1>5. CASE EvalLeaf
  BY <1>0, <1>5 DEF EvalLeaf, ScopeOk, CtlOk, D
<1>6. CASE EvalUnknownLocal
  <2>1. <<ctl.node, D>> \in Program.visits /\ LeafValue(ctl.node) = {} /\ IsLeaf(ctl.node)
    BY <1>0, <1>6 DEF EvalUnknownLocal, CtlOk
  <2>2. ctl.node.kind = "LocalRef" /\ ctl.node.name \notin D
    BY <2>1, BoundNames DEF LeafValue, IsLeaf, D
  <2> QED
    BY <1>0, <2>1, <2>2, VisitRules DEF VisitOk
(* sub-expressions from left to right *)
<1>7. CASE EvalKids
  <2> DEFINE f == KidsFrame(ctl.node, <<>>)
  <2>1. /\ stack' = Append(stack, f) /\ ctl' = Kids /\ DOMAIN env' = D
        /\ HasKids(ctl.node) /\ ctl.at = "eval"
    BY <1>7 DEF EvalKids, Push, D
  <2>2. <<ctl.node, D>> \in Program.visits
    BY <1>0, <2>1 DEF CtlOk
  <2>3. IsSeq(ctl.node.kids)
    BY <1>0, <2>1, <2>2, VisitRules DEF VisitOk, IrShape
  <2>4. IsSeq(<<>>) /\ Len(<<>>) = 0 /\ Len(ctl.node.kids) \in Nat
    BY <2>3, Domain, EmptySeq DEF IsSeq
  <2>5. FrameOk(Program, f, D) /\ After(f, D) = D
    BY <2>1, <2>2, <2>4 DEF FrameOk, After, KidsFrame
  <2> HIDE DEF f
  <2>6. Chained(Program, stack', D)
    BY <1>0, <2>1, <2>5, ChainedPush
  <2> QED
    BY <2>1, <2>6 DEF ScopeOk, CtlOk
<1>8. CASE NextKid
  <2>1. /\ ctl.at = "kids" /\ TopIs("kids") /\ ~AllKidsDone(Top)
        /\ ctl' = Eval(Top.node.kids[Len(Top.vals) + 1])
        /\ stack' = stack /\ DOMAIN env' = D
    BY <1>8 DEF NextKid, Shape, D
  <2>2. FrameOk(Program, Top, D)
    BY <1>0, <2>1, ChainedPop DEF TopIs, Top
  <2>3. /\ <<Top.node, D>> \in Program.visits /\ HasKids(Top.node) /\ IsSeq(Top.vals)
    BY <2>1, <2>2 DEF FrameOk, After, TopIs
  <2>4. /\ IsSeq(Top.node.kids)
        /\ \A i \in DOMAIN Top.node.kids : <<Top.node.kids[i], D>> \in Program.visits
    BY <1>0, <2>3, VisitRules DEF VisitOk, IrShape
  <2>5. Len(Top.vals) + 1 \in DOMAIN Top.node.kids
    <3>1. /\ Len(Top.vals) \in Nat /\ Len(Top.node.kids) \in Nat
          /\ DOMAIN Top.node.kids = 1 .. Len(Top.node.kids)
      BY <2>3, <2>4, Domain
    <3> QED
      BY <2>1, <3>1 DEF AllKidsDone
  <2> QED
    BY <1>0, <2>1, <2>4, <2>5 DEF ScopeOk, CtlOk
<1>9. CASE ReturnToKids
  <2> DEFINE f == KidsFrame(Top.node, Append(Top.vals, ctl.val))
  <2>1. /\ ctl.at = "return" /\ TopIs("kids") /\ stack # <<>> /\ ~AllKidsDone(Top)
        /\ ctl' = Kids /\ stack' = Append(Front(stack), f) /\ DOMAIN env' = D
    BY <1>9 DEF ReturnToKids, Replace, TopIs, D
  <2>2. FrameOk(Program, Top, D)
    BY <1>0, <2>1, ChainedPop DEF Top
  <2>3. /\ <<Top.node, D>> \in Program.visits /\ HasKids(Top.node) /\ IsSeq(Top.vals)
        /\ After(Top, D) = D
    BY <2>1, <2>2 DEF FrameOk, After, TopIs
  <2>4. IsSeq(Top.node.kids)
    BY <1>0, <2>3, VisitRules DEF VisitOk, IrShape
  <2>5. /\ IsSeq(Append(Top.vals, ctl.val))
        /\ Len(Append(Top.vals, ctl.val)) <= Len(Top.node.kids)
    <3>1. Len(Top.vals) \in Nat /\ Len(Top.node.kids) \in Nat
      BY <2>3, <2>4, Domain
    <3> QED
      BY <2>1, <2>3, <3>1, Appended DEF AllKidsDone
  <2>6. FrameOk(Program, f, D) /\ After(f, D) = D
    BY <2>3, <2>5 DEF FrameOk, After, KidsFrame
  <2> HIDE DEF f
  <2>7. Chained(Program, stack', D)
    BY <1>0, <2>1, <2>3, <2>6, ChainedReplace DEF Top
  <2> QED
    BY <2>1, <2>7 DEF ScopeOk, CtlOk
<1>10. CASE BuildValue
  <2>1. /\ ctl.at = "kids" /\ TopIs("kids") /\ stack # <<>> /\ stack' = Front(stack)
        /\ Top.node.kind # "Call" /\ DOMAIN env' = D
        /\ \/ ctl' = ChargeFor(Built(Top.node, Top.vals).val)
           \/ ctl' = Fail(Built(Top.node, Top.vals))
    BY <1>10 DEF BuildValue, Shape, TopIs, Pop, D
  <2>2. FrameOk(Program, Top, D) /\ Chained(Program, stack', After(Top, D))
    BY <1>0, <2>1, ChainedPop DEF Top
  <2>3. /\ <<Top.node, D>> \in Program.visits /\ HasKids(Top.node)
        /\ After(Top, D) = D
    BY <2>1, <2>2 DEF FrameOk, After, TopIs
  <2>4. Built(Top.node, Top.vals) \notin NameTraps
    BY <1>0, <2>1, <2>3, VisitRules, BuiltErrors DEF VisitOk
  <2> QED
    BY <2>1, <2>2, <2>3, <2>4 DEF ScopeOk, CtlOk
<1>11. CASE BuildCall
  <2>1. /\ ctl.at = "kids" /\ TopIs("kids") /\ AllKidsDone(Top)
        /\ Top.node.kind = "Call" /\ ctl' = CallFn(Top.node.callee, Top.vals)
        /\ stack' = stack /\ DOMAIN env' = D
    BY <1>11 DEF BuildCall, Shape, D
  <2>2. FrameOk(Program, Top, D)
    BY <1>0, <2>1, ChainedPop DEF TopIs, Top
  <2>3. /\ <<Top.node, D>> \in Program.visits /\ IsSeq(Top.vals) /\ HasKids(Top.node)
        /\ Len(Top.vals) <= Len(Top.node.kids)
    BY <2>1, <2>2 DEF FrameOk, After, TopIs
  <2>4. CallOk(Program, Top.node) /\ IsSeq(Top.node.kids)
    BY <1>0, <2>1, <2>3, VisitRules DEF VisitOk, IrShape
  <2>5. Len(Top.vals) = Len(Top.node.kids)
    <3>1. Len(Top.vals) \in Nat /\ Len(Top.node.kids) \in Nat
      BY <2>3, <2>4, Domain
    <3> QED
      BY <2>1, <2>3, <3>1 DEF AllKidsDone
  <2> QED
    BY <1>0, <2>1, <2>4, <2>5 DEF ScopeOk, CtlOk, CallOk
<1>12. CASE ReturnToCall
  <2>1. /\ ctl.at = "return" /\ TopIs("kids") /\ stack # <<>> /\ stack' = Front(stack)
        /\ ctl' = ChargeFor(ctl.val) /\ DOMAIN env' = After(Last(stack), D)
    BY <1>12 DEF ReturnToCall, TopIs, Top, Pop, After, D
  <2>2. Chained(Program, stack', DOMAIN env')
    BY <1>0, <2>1, ChainedPop
  <2> QED
    BY <2>1, <2>2 DEF ScopeOk, CtlOk
(* Let *)
<1>13. CASE EvalLet
  <2> DEFINE f == LetValueFrame(ctl.node)
  <2>1. /\ stack' = Append(stack, f) /\ ctl' = Eval(ctl.node.value)
        /\ DOMAIN env' = D /\ ctl.node.kind = "Let" /\ ctl.at = "eval"
    BY <1>13 DEF EvalLet, Push, D
  <2>2. <<ctl.node, D>> \in Program.visits
    BY <1>0, <2>1 DEF CtlOk
  <2>3. <<ctl.node.value, D>> \in Program.visits
    BY <1>0, <2>1, <2>2, VisitRules DEF VisitOk
  <2>4. FrameOk(Program, f, D) /\ After(f, D) = D
    BY <2>1, <2>2 DEF FrameOk, After, LetValueFrame
  <2> HIDE DEF f
  <2>5. Chained(Program, stack', D)
    BY <1>0, <2>1, <2>4, ChainedPush
  <2> QED
    BY <2>1, <2>3, <2>5 DEF ScopeOk, CtlOk
<1>14. CASE ReturnToLetValue
  <2> DEFINE n == Top.node
             f == LetBodyFrame(n, Lookup(env, n.name))
             E == D \cup {n.name}
  <2>1. /\ ctl.at = "return" /\ TopIs("letValue") /\ stack # <<>>
        /\ ctl' = Eval(n.body) /\ stack' = Append(Front(stack), f)
        /\ DOMAIN env' = E
    BY <1>14, BoundNames DEF ReturnToLetValue, Replace, TopIs, D
  <2>2. FrameOk(Program, Top, D)
    BY <1>0, <2>1, ChainedPop DEF Top
  <2>3. <<n, D>> \in Program.visits /\ n.kind = "Let" /\ After(Top, D) = D
    BY <2>1, <2>2 DEF FrameOk, After, TopIs
  <2>4. <<n.body, E>> \in Program.visits
    BY <1>0, <2>3, VisitRules DEF VisitOk
  <2>5. After(f, E) = D
    BY BoundNames DEF After, LetBodyFrame, D
  <2>6. FrameOk(Program, f, E)
    BY <2>3, <2>5 DEF FrameOk, LetBodyFrame
  <2> HIDE DEF f, E, n
  <2>7. Chained(Program, stack', E)
    BY <1>0, <2>1, <2>3, <2>5, <2>6, ChainedReplace DEF Top
  <2> QED
    BY <2>1, <2>4, <2>7 DEF ScopeOk, CtlOk
<1>15. CASE ReturnToLetBody
  <2>1. /\ ctl.at = "return" /\ TopIs("letBody") /\ stack # <<>>
        /\ stack' = Front(stack) /\ ctl' = ChargeFor(ctl.val)
        /\ env' = Restored(Top, env)
    BY <1>15 DEF ReturnToLetBody, TopIs, Pop
  <2>2. DOMAIN env' = After(Last(stack), D)
    <3>1. CASE Top.prev = {}
      BY <2>1, <3>1, BoundNames DEF Restored, After, TopIs, Top, D
    <3>2. CASE Top.prev # {}
      <4>1. DOMAIN env' = D \cup {Top.node.name}
        BY <2>1, <3>2, BoundNames DEF Restored, D
      <4> QED
        BY <2>1, <3>2, <4>1 DEF After, TopIs, Top
    <3> QED
      BY <3>1, <3>2
  <2>3. Chained(Program, stack', DOMAIN env')
    BY <1>0, <2>1, <2>2, ChainedPop
  <2> QED
    BY <2>1, <2>3 DEF ScopeOk, CtlOk
(* Match *)
<1>16. CASE EvalMatch
  <2> DEFINE f == SubjectFrame(ctl.node)
  <2>1. /\ stack' = Append(stack, f) /\ ctl' = Eval(ctl.node.subject)
        /\ DOMAIN env' = D /\ ctl.node.kind = "Match" /\ ctl.at = "eval"
    BY <1>16 DEF EvalMatch, Push, D
  <2>2. <<ctl.node, D>> \in Program.visits
    BY <1>0, <2>1 DEF CtlOk
  <2>3. <<ctl.node.subject, D>> \in Program.visits
    BY <1>0, <2>1, <2>2, VisitRules DEF VisitOk
  <2>4. FrameOk(Program, f, D) /\ After(f, D) = D
    BY <2>1, <2>2 DEF FrameOk, After, SubjectFrame
  <2> HIDE DEF f
  <2>5. Chained(Program, stack', D)
    BY <1>0, <2>1, <2>4, ChainedPush
  <2> QED
    BY <2>1, <2>3, <2>5 DEF ScopeOk, CtlOk
<1>17. CASE ReturnToSubject
  <2> DEFINE f == ArmsFrame(Top.node, ctl.val, 1, env)
  <2>1. /\ ctl.at = "return" /\ TopIs("subject") /\ stack # <<>> /\ ctl' = NextArm
        /\ stack' = Append(Front(stack), f) /\ DOMAIN env' = D
    BY <1>17 DEF ReturnToSubject, Replace, TopIs, D
  <2>2. FrameOk(Program, Top, D)
    BY <1>0, <2>1, ChainedPop DEF Top
  <2>3. <<Top.node, D>> \in Program.visits /\ Top.node.kind = "Match" /\ After(Top, D) = D
    BY <2>1, <2>2 DEF FrameOk, After, TopIs
  <2>4. FrameOk(Program, f, D) /\ After(f, D) = D /\ DOMAIN f.saved = D
    BY <2>3 DEF FrameOk, After, ArmsFrame, D
  <2>5. Last(stack') = f
    BY <1>0, <2>1, ReplacedTop
  <2> HIDE DEF f
  <2>6. Chained(Program, stack', D)
    BY <1>0, <2>1, <2>3, <2>4, ChainedReplace DEF Top
  <2> QED
    BY <2>1, <2>4, <2>5, <2>6 DEF ScopeOk, CtlOk
<1>18. CASE TryArm
  <2> DEFINE q == Top.node.arms[Top.index].pat
             todo == <<[pat |-> q, src |-> {Top.val}]>>
  <2>1. /\ ctl.at = "arm" /\ TopIs("arms") /\ stack # <<>> /\ ArmsLeft(Top)
        /\ ctl'.at = "pattern" /\ ctl'.todo = todo /\ stack' = stack /\ DOMAIN env' = D
        /\ D = DOMAIN Top.saved
    BY <1>0, <1>18 DEF TryArm, Shape, TopIs, CtlOk, Top, D
  <2>2. FrameOk(Program, Top, D)
    BY <1>0, <2>1, ChainedPop DEF Top
  <2>3. /\ <<Top.node, After(Top, D)>> \in Program.visits
        /\ Top.node.kind = "Match" /\ Top.index \in Nat \ {0}
    BY <2>1, <2>2 DEF FrameOk, TopIs
  <2>4. /\ IsSeq(Top.node.arms)
        /\ \A i \in DOMAIN Top.node.arms : Top.node.arms[i].pat \in DOMAIN Program.binds
    BY <1>0, <2>3, VisitRules DEF VisitOk, IrShape
  <2>5. Top.index \in DOMAIN Top.node.arms
    BY <2>1, <2>3, <2>4, Domain DEF ArmsLeft
  <2>6. q \in DOMAIN Program.binds
    BY <2>4, <2>5
  <2>7. /\ IsSeq(todo) /\ DOMAIN todo = {1} /\ todo[1].pat = q
    BY DEF IsSeq, Range
  <2> HIDE DEF todo, q
  <2>8. Names(Program, todo) = Program.binds[q]
    BY <2>7 DEF Names
  <2>9. PatternOk(Program, todo, Top, D)
    BY <2>1, <2>5, <2>6, <2>7, <2>8 DEF PatternOk, q
  <2> QED
    BY <1>0, <2>1, <2>9 DEF ScopeOk, CtlOk, Top
<1>19. CASE NoArm
  BY <1>19, OtherErrors DEF NoArm, ScopeOk, CtlOk
<1>20. CASE ArmMatches
  <2> DEFINE f == ArmBodyFrame(Top.node, Top.saved)
  <2>1. /\ ctl.at = "pattern" /\ ctl.todo = <<>> /\ TopIs("arms") /\ stack # <<>>
        /\ ctl' = Eval(Top.node.arms[Top.index].body)
        /\ stack' = Append(Front(stack), f) /\ DOMAIN env' = D
        /\ PatternOk(Program, ctl.todo, Top, D)
    BY <1>0, <1>20 DEF ArmMatches, Shape, TopIs, CtlOk, Top, Replace, D
  <2>2. FrameOk(Program, Top, D)
    BY <1>0, <2>1, ChainedPop DEF Top
  <2>3. /\ <<Top.node, DOMAIN Top.saved>> \in Program.visits
        /\ After(Top, D) = DOMAIN Top.saved /\ Top.node.kind = "Match"
    BY <2>1, <2>2 DEF FrameOk, After, TopIs
  <2>4. Names(Program, ctl.todo) = {}
    BY <2>1 DEF Names
  <2>5. /\ D = DOMAIN Top.saved \cup Program.binds[Top.node.arms[Top.index].pat]
        /\ Top.index \in DOMAIN Top.node.arms
    BY <2>1, <2>4 DEF PatternOk
  <2>6. <<Top.node.arms[Top.index].body, D>> \in Program.visits
    BY <1>0, <2>3, <2>5, VisitRules DEF VisitOk
  <2>7. FrameOk(Program, f, D) /\ After(f, D) = DOMAIN Top.saved
    BY <2>3 DEF FrameOk, After, ArmBodyFrame
  <2> HIDE DEF f
  <2>8. Chained(Program, stack', D)
    BY <1>0, <2>1, <2>3, <2>7, ChainedReplace DEF Top
  <2> QED
    BY <2>1, <2>6, <2>8 DEF ScopeOk, CtlOk
<1>21. CASE ReturnToMatch
  <2>1. /\ ctl.at = "return" /\ TopIs("armBody") /\ stack # <<>> /\ stack' = Front(stack)
        /\ ctl' = ChargeFor(ctl.val) /\ DOMAIN env' = After(Last(stack), D)
    BY <1>21 DEF ReturnToMatch, TopIs, Top, Pop, After, SavedEnv, D
  <2>2. Chained(Program, stack', DOMAIN env')
    BY <1>0, <2>1, ChainedPop
  <2> QED
    BY <2>1, <2>2 DEF ScopeOk, CtlOk
(* pattern_matches *)
<1>22. CASE FieldMissing
  BY <1>22, OtherErrors DEF FieldMissing, ScopeOk, CtlOk
<1>23. CASE MatchWildcard
  <2> DEFINE q == Head(ctl.todo).pat
             rest == Tail(ctl.todo)
  <2>1. /\ ctl.at = "pattern" /\ ctl.todo # <<>> /\ stack' = stack /\ DOMAIN env' = D
        /\ ctl'.at = "pattern" /\ ctl'.todo = rest /\ q.kind = "Wildcard"
        /\ PatternOk(Program, ctl.todo, Last(stack), D)
    BY <1>0, <1>23 DEF MatchWildcard, AtPattern, CtlOk, NextPattern, D
  <2>2. /\ BindsOk(Program, q)
        /\ PatternOk(Program, rest, Last(stack), D \cup Program.binds[q])
    BY <1>0, <2>1, TakenPattern
  <2> HIDE DEF rest, q
  <2>3. D \cup Program.binds[q] = D
    BY <2>1, <2>2 DEF BindsOk
  <2>4. PatternOk(Program, rest, Last(stack), D)
    BY <2>2, <2>3
  <2> QED
    BY <1>0, <2>1, <2>4 DEF ScopeOk, CtlOk
<1>24. CASE MatchBinding
  <2> DEFINE q == Head(ctl.todo).pat
             rest == Tail(ctl.todo)
             E == D \cup {q.name}
  <2>1. /\ ctl.at = "pattern" /\ ctl.todo # <<>> /\ stack' = stack
        /\ ctl'.at = "pattern" /\ ctl'.todo = rest /\ q.kind = "Binding"
        /\ PatternOk(Program, ctl.todo, Last(stack), D)
    BY <1>0, <1>24 DEF MatchBinding, AtPattern, CtlOk, NextPattern
  <2>2. DOMAIN env' = E
    BY <1>24, BoundNames DEF MatchBinding, NextPattern, D
  <2>3. Last(stack).kind = "arms" /\ stack # <<>>
    BY <2>1 DEF Shape, TopIs, Top
  <2>4. /\ BindsOk(Program, q)
        /\ PatternOk(Program, rest, Last(stack), D \cup Program.binds[q])
    BY <1>0, <2>1, TakenPattern
  <2> HIDE DEF rest, q
  <2>5. D \cup Program.binds[q] = E
    BY <2>1, <2>4 DEF BindsOk
  <2>6. PatternOk(Program, rest, Last(stack), E)
    BY <2>4, <2>5
  <2>7. FrameOk(Program, Last(stack), D)
    BY <1>0, <2>1, <2>3, ChainedPop
  <2> HIDE DEF E
  <2>8. FrameOk(Program, Last(stack), E) /\ After(Last(stack), E) = After(Last(stack), D)
    BY <2>3, <2>7 DEF FrameOk, After
  <2>9. Chained(Program, stack, E)
    BY <1>0, <2>1, <2>3, <2>8, ChainedTop
  <2> QED
    BY <2>1, <2>2, <2>6, <2>9 DEF ScopeOk, CtlOk
<1>25. CASE MatchVariant
  <2> DEFINE q == Head(ctl.todo).pat
             fs == FieldPatterns(q, PatternSource.fields)
             rest == Tail(ctl.todo)
  <2>1. /\ ctl.at = "pattern" /\ ctl.todo # <<>> /\ stack' = stack /\ DOMAIN env' = D
        /\ ctl'.at = "pattern" /\ ctl'.todo = fs \o rest /\ q.kind = "Variant"
        /\ PatternOk(Program, ctl.todo, Last(stack), D)
    BY <1>0, <1>25 DEF MatchVariant, AtPattern, CtlOk, NextPattern, D
  <2>2. /\ q \in DOMAIN Program.binds /\ BindsOk(Program, q)
        /\ PatternOk(Program, rest, Last(stack), D \cup Program.binds[q])
    BY <1>0, <2>1, TakenPattern
  <2>3. /\ IsSeq(fs) /\ \A i \in DOMAIN fs : fs[i].pat \in DOMAIN Program.binds
        /\ Names(Program, fs) = Program.binds[q]
    BY <2>1, <2>2, FieldNames
  <2> HIDE DEF q, fs, rest
  <2>4. /\ IsSeq(rest) /\ \A i \in DOMAIN rest : rest[i].pat \in DOMAIN Program.binds
        /\ Last(stack).index \in DOMAIN Last(stack).node.arms
        /\ (D \cup Program.binds[q]) \cup Names(Program, rest)
            = DOMAIN Last(stack).saved
              \cup Program.binds[Last(stack).node.arms[Last(stack).index].pat]
    BY <2>2 DEF PatternOk
  <2>5. /\ IsSeq(fs \o rest)
        /\ \A k \in DOMAIN (fs \o rest) : \/ \E i \in DOMAIN fs : (fs \o rest)[k] = fs[i]
                                          \/ \E i \in DOMAIN rest : (fs \o rest)[k] = rest[i]
        /\ Names(Program, fs \o rest) = Program.binds[q] \cup Names(Program, rest)
    BY <2>3, <2>4, JoinedNames
  <2> DEFINE todo == fs \o rest
  <2> HIDE DEF todo
  <2>6. \A k \in DOMAIN todo : todo[k].pat \in DOMAIN Program.binds
    BY <2>3, <2>4, <2>5 DEF todo
  <2>7. /\ IsSeq(todo)
        /\ D \cup Names(Program, todo)
            = (D \cup Program.binds[q]) \cup Names(Program, rest)
    BY <2>5 DEF todo
  <2>8. PatternOk(Program, todo, Last(stack), D)
    BY <2>4, <2>6, <2>7 DEF PatternOk
  <2> QED
    BY <1>0, <2>1, <2>8 DEF ScopeOk, CtlOk, todo
<1>26. CASE MissVariant
  <2> DEFINE f == ArmsFrame(Top.node, Top.val, Top.index + 1, Top.saved)
             E == DOMAIN Top.saved
  <2>1. /\ ctl.at = "pattern" /\ TopIs("arms") /\ stack # <<>> /\ ctl' = NextArm
        /\ stack' = Append(Front(stack), f) /\ DOMAIN env' = E
    BY <1>26 DEF MissVariant, AtPattern, Shape, TopIs, Replace, SavedEnv
  <2>2. FrameOk(Program, Top, D)
    BY <1>0, <2>1, ChainedPop DEF Top
  <2>3. /\ <<Top.node, E>> \in Program.visits /\ Top.node.kind = "Match"
        /\ After(Top, D) = E /\ Top.index \in Nat \ {0}
    BY <2>1, <2>2 DEF FrameOk, After, TopIs
  <2>4. FrameOk(Program, f, E) /\ After(f, E) = E /\ DOMAIN f.saved = E
    BY <2>3 DEF FrameOk, After, ArmsFrame
  <2>5. Last(stack') = f
    BY <1>0, <2>1, ReplacedTop
  <2> HIDE DEF f, E
  <2>6. Chained(Program, stack', E)
    BY <1>0, <2>1, <2>3, <2>4, ChainedReplace DEF Top
  <2> QED
    BY <2>1, <2>4, <2>5, <2>6 DEF ScopeOk, CtlOk
<1>27. CASE MatchNonEnum
  BY <1>27, OtherErrors DEF MatchNonEnum, ScopeOk, CtlOk
(* the budgets and the end *)
<1>28. CASE Charge
  <2>1. /\ ctl.at = "charge" /\ stack' = stack /\ DOMAIN env' = D
        /\ \/ ctl' = Fail(Err("MemoryLimitExceeded", "memory"))
           \/ ctl' = Return(ctl.val)
    BY <1>28 DEF Charge, D
  <2> QED
    BY <1>0, <2>1, OtherErrors DEF ScopeOk, CtlOk
<1>29. CASE Unwind
  <2>1. ctl' = ctl /\ ctl.at = "error"
    BY <1>29 DEF Unwind
  <2> QED
    BY <1>0, <2>1 DEF ScopeOk, CtlOk
<1>30. CASE Finish
  <2>1. call.entry \in {"update", "query"}
    BY CallsAssumption DEF Shape
  <2>2. CASE ctl.at = "error"
    <3>1. ctl' = Done(ctl.err)
      BY <1>30, <2>2 DEF Finish
    <3> QED
      BY <1>0, <2>2, <3>1 DEF ScopeOk, CtlOk
  <2>3. CASE ctl.at = "return" /\ call.entry = "update"
    <3>1. ctl' = Done(UpdateResult(ctl.val))
      BY <1>30, <2>3 DEF Finish
    <3> QED
      BY <3>1, UpdateErrors DEF ScopeOk, CtlOk
  <2>4. CASE ctl.at = "return" /\ call.entry = "query"
    <3>1. ctl' = Done(Ok(ctl.val))
      BY <1>30, <2>4 DEF Finish
    <3> QED
      BY <3>1, Successes DEF ScopeOk, CtlOk
  <2> QED
    BY <1>30, <2>1, <2>2, <2>3, <2>4 DEF Finish
<1> QED
  BY <1>1, <1>2, <1>3, <1>4, <1>5, <1>6, <1>7, <1>8, <1>9, <1>10, <1>11, <1>12, <1>13, <1>14, <1>15, <1>16, <1>17, <1>18, <1>19, <1>20, <1>21, <1>22, <1>23, <1>24, <1>25, <1>26, <1>27, <1>28, <1>29, <1>30
     DEF Next, CallFunction, EvalSimple, EvalCompound, EvalLetExpr, EvalMatchExpr,
         PatternMatches

------------------------------------------------------------------------------
LEMMA ScopeInit == ASSUME Init PROVE ScopeInv
<1> SUFFICES ASSUME call.prog \in ValidatedPrograms
             PROVE  ScopeOk(Program, ctl, stack, DOMAIN env)
  BY DEF ScopeInv
<1>1. Validated(Program) /\ call.entry \in {"update", "query"}
  BY CallsAssumption DEF Init, ValidatedPrograms, Program
<1>2. /\ ctl = CallFn(Program[call.entry], <<call.state, call.input>>)
      /\ stack = <<>> /\ Len(stack) = 0
  BY EmptySeq DEF Init, Program
<1>3. CtlOk(Program, ctl, stack, DOMAIN env)
  BY <1>1, <1>2, EntryRules DEF CtlOk, CallFn
<1>4. Chained(Program, stack, DOMAIN env)
  <2>1. [i \in {0} |-> DOMAIN env][Len(stack)] = DOMAIN env /\ 1 .. Len(stack) = {}
    BY <1>2
  <2> QED
    BY <2>1 DEF Chained
<1> QED
  BY <1>3, <1>4 DEF ScopeOk

LEMMA SameCall == ASSUME Next PROVE call' = call
BY DEF Next, OutOfSteps, CallFunction, EnterFunction, RefuseCall, ReturnFromFunction,
       EvalSimple, EvalLeaf, EvalUnknownLocal, EvalCompound, EvalKids, NextKid,
       ReturnToKids, BuildValue, BuildCall, ReturnToCall, EvalLetExpr, EvalLet,
       ReturnToLetValue, ReturnToLetBody, EvalMatchExpr, EvalMatch, ReturnToSubject,
       TryArm, NoArm, ArmMatches, ReturnToMatch, PatternMatches, FieldMissing,
       MatchWildcard, MatchBinding, MatchVariant, MissVariant, MatchNonEnum, Charge,
       Unwind, Finish

LEMMA ScopeNext ==
  ASSUME Shape, ScopeInv, [Next]_vars
  PROVE  ScopeInv'
<1>1. CASE UNCHANGED vars
  BY <1>1 DEF vars, ScopeInv, ScopeOk, CtlOk, Chained, Ended, Program
<1>2. CASE Next
  <2>1. call' = call /\ Program' = Program
    BY <1>2, SameCall DEF Program
  <2>2. Shape'
    BY ShapeNext
  <2> SUFFICES ASSUME call.prog \in ValidatedPrograms
               PROVE  ScopeOk(Program, ctl', stack', DOMAIN env')
    BY <2>1 DEF ScopeInv, ValidatedPrograms
  <2> QED
    BY <1>2, <2>2, ScopeStep DEF ScopeInv
<1> QED
  BY <1>1, <1>2

(***************************************************************************)
(* Every expression of a validated program is evaluated with exactly the   *)
(* names that validate_program knew there.                                 *)
(***************************************************************************)
THEOREM NamesAgree == Spec => []ScopeAgrees
<1>1. Init => ScopeInv
  BY ScopeInit
<1>2. Shape /\ ScopeInv /\ [Next]_vars => ScopeInv'
  BY ScopeNext
<1>3. ScopeInv => ScopeAgrees
  BY DEF ScopeInv, ScopeOk, CtlOk, ScopeAgrees
<1> QED
  BY <1>1, <1>2, <1>3, ShapeAlways, PTL DEF Spec

(***************************************************************************)
(* A validated program never traps on an unknown local, an unknown         *)
(* function or a wrong number of arguments.                                *)
(***************************************************************************)
THEOREM NamesNeverTrap == Spec => []NoNameTrap
<1>1. Init => ScopeInv
  BY ScopeInit
<1>2. Shape /\ ScopeInv /\ [Next]_vars => ScopeInv'
  BY ScopeNext
<1>3. ScopeInv => NoNameTrap
  BY DEF ScopeInv, ScopeOk, CtlOk, NoNameTrap
<1> QED
  BY <1>1, <1>2, <1>3, ShapeAlways, PTL DEF Spec

=============================================================================
