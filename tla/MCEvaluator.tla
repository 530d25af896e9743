----------------------------- MODULE MCEvaluator -----------------------------
(***************************************************************************)
(* Instances of the evaluator for TLC: IR programs like those of the tests *)
(* of cino-vm, programs built to disturb the environment and the counters, *)
(* and IR that no validator has seen, called with every limit from nothing *)
(* to more than they need.                                                 *)
(***************************************************************************)
EXTENDS Evaluator, ProgramWalk

------------------------------------------------------------------------------
(* IR constructors. *)
Ref(x)          == [kind |-> "LocalRef", name |-> x]
Int_(i)         == [kind |-> "Int", int |-> i]
Bool_(b)        == [kind |-> "Bool", bool |-> b]
Tup(ks)         == [kind |-> "Tuple", kids |-> ks]
Lst(ks)         == [kind |-> "List", kids |-> ks]
Rec(n, fs, ks)  == [kind |-> "Record", name |-> n, names |-> fs, kids |-> ks]
Bin(o, l, r)    == [kind |-> "Binary", op |-> o, kids |-> <<l, r>>]
Fn(f, as)       == [kind |-> "Call", callee |-> f, kids |-> as]
Let(x, v, b)    == [kind |-> "Let", name |-> x, value |-> v, body |-> b]
Case(s, as)     == [kind |-> "Match", subject |-> s, arms |-> as]
Arm(p, b)       == [pat |-> p, body |-> b]
Wild            == [kind |-> "Wildcard"]
As(x)           == [kind |-> "Binding", name |-> x]
Var(n, fs)      == [kind |-> "Variant", name |-> n, fields |-> fs]
At(x, p)        == [name |-> x, pat |-> p]
Function(ps, b) == [params |-> ps, body |-> b]

------------------------------------------------------------------------------
(* The counter of the tests of cino-vm, with a division and a query that   *)
(* shadows its parameter.                                                  *)
CounterProgram == Measured(Walked(
  [update |-> Function(<<"state", "event">>,
     Case(Ref("event"), <<
       Arm(Var("Inc", <<At("by", As("n"))>>),
           Let("next", Bin("Add", Ref("state"), Ref("n")),
               Tup(<<Ref("next"), Lst(<<Rec("Log", <<"to">>, <<Ref("next")>>)>>)>>))),
       Arm(Var("Div", <<At("by", As("n"))>>),
           Tup(<<Bin("Div", Ref("state"), Ref("n")), Lst(<<>>)>>)),
       Arm(Var("Reset", <<>>), Tup(<<Int_(0), Lst(<<>>)>>))>>)),
   query |-> Function(<<"state", "q">>,
     Let("state", Bin("Mul", Ref("state"), Ref("q")), Bin("Sub", Fn("twice", <<Ref("state")>>), Ref("q")))),
   twice |-> Function(<<"x">>, Bin("Sub", Ref("x"), Bin("Sub", Int_(0), Ref("x"))))],
  "update", "query"))

(* Lets that shadow each other and names that only an inner pattern binds, *)
(* in an arm that then misses.                                             *)
ScopesProgram == Measured(Walked(
  [update |-> Function(<<"s", "e">>,
     Case(Ref("e"), <<
       Arm(Var("Pair", <<At("l", As("s")), At("r", Var("Some", <<At("v", As("x"))>>))>>),
           Tup(<<Bin("Add", Ref("s"), Ref("x")), Lst(<<>>)>>)),
       Arm(Var("Pair", <<At("l", As("x")), At("r", Wild)>>),
           Tup(<<Bin("Sub", Ref("s"), Ref("x")), Lst(<<Ref("e")>>)>>)),
       Arm(As("x"), Let("s", Ref("x"), Tup(<<Ref("s"), Lst(<<Ref("x")>>)>>)))>>)),
   query |-> Function(<<"s", "q">>,
     Bin("Add",
       Let("s", Let("t", Bin("Add", Ref("s"), Int_(1)), Bin("Add", Ref("t"), Ref("s"))),
           Let("s", Bin("Add", Ref("s"), Ref("q")), Ref("s"))),
       Ref("s")))],
  "update", "query"))

(* Recursion over data and without end. *)
RecursionProgram == Measured(Walked(
  [step  |-> Function(<<"s", "e">>, Tup(<<Fn("len", <<Ref("e")>>), Lst(<<>>)>>)),
   ask   |-> Function(<<"s", "q">>, Fn("spin", <<Ref("q")>>)),
   len   |-> Function(<<"l">>,
     Case(Ref("l"), <<
       Arm(Var("Cons", <<At("tail", As("t"))>>), Bin("Add", Int_(1), Fn("len", <<Ref("t")>>))),
       Arm(Var("Nil", <<>>), Int_(0))>>)),
   spin  |-> Function(<<"x">>, Let("y", Tup(<<Ref("x")>>), Fn("spin", <<Ref("y")>>)))],
  "step", "ask"))

(* Patterns that nest deeper than the expressions around them. *)
Peeled(q) == Var("Cons", <<At("tail", q)>>)
PatternsProgram == Measured(Walked(
  [update |-> Function(<<"s", "e">>,
     Case(Ref("e"), <<
       Arm(Var("Pair", <<At("l", Peeled(Peeled(Peeled(Wild)))), At("r", Peeled(As("s")))>>),
           Tup(<<Ref("s"), Lst(<<>>)>>)),
       Arm(As("x"), Tup(<<Ref("x"), Lst(<<>>)>>))>>)),
   query |-> Function(<<"s", "q">>,
     Case(Ref("q"), <<Arm(Peeled(Peeled(Peeled(Peeled(As("x"))))), Ref("x")),
                      Arm(Wild, Ref("s"))>>))],
  "update", "query"))

(* IR that was never validated, one defect for each event. *)
UnvalidatedProgram == Measured(Walked(
  [update |-> Function(<<"s", "e">>,
     Case(Ref("e"), <<
       Arm(Var("Unbound", <<>>), Tup(<<Ref("nobody"), Lst(<<>>)>>)),
       Arm(Var("Leak", <<>>), Tup(<<Let("x", Int_(1), Ref("x")), Lst(<<Ref("x")>>)>>)),
       Arm(Var("Missing", <<>>), Fn("nothing", <<>>)),
       Arm(Var("Arity", <<>>), Fn("query", <<Ref("s")>>)),
       Arm(Var("NotTuple", <<>>), Ref("s")),
       Arm(Var("Triple", <<>>), Tup(<<Ref("s"), Lst(<<>>), Ref("s")>>)),
       Arm(Var("NotList", <<>>), Tup(<<Ref("s"), Bool_(TRUE)>>)),
       Arm(Var("NotInt", <<>>), Bin("Add", Ref("e"), Ref("s")))>>)),
   query |-> Function(<<"s", "q">>, Tup(<<Ref("s"), Ref("q")>>))],
  "update", "query"))

(* One operation on what the host sends. *)
Calculator(o) == Measured(Walked(
  [update |-> Function(<<"s", "e">>, Tup(<<Ref("s"), Lst(<<>>)>>)),
   query  |-> Function(<<"s", "q">>, Bin(o, Ref("s"), Ref("q")))],
  "update", "query"))

Adder      == Calculator("Add")
Subtracter == Calculator("Sub")
Multiplier == Calculator("Mul")
Divider    == Calculator("Div")

------------------------------------------------------------------------------
AllPrograms ==
  [counter |-> CounterProgram, scopes |-> ScopesProgram,
   recursion |-> RecursionProgram, patterns |-> PatternsProgram,
   unvalidated |-> UnvalidatedProgram,
   Add |-> Adder, Sub |-> Subtracter, Mul |-> Multiplier, Div |-> Divider]

------------------------------------------------------------------------------
NoFields      == [x \in {} |-> UnitV]
Tag(n)        == EnumV(n, NoFields)
Tag1(n, x, v) == EnumV(n, x :> v)
Nil           == Tag("Nil")
ConsV(t)       == Tag1("Cons", "tail", t)

(* i64, on three bits and a sign. *)
MCMinInt == -8

Roomy == [max_steps |-> 60, max_memory_bytes |-> MaxUsize, max_recursion_depth |-> 8]

(* Each limit on its own, from nothing to more than is needed. *)
LimitSet ==
  {[Roomy EXCEPT !.max_steps = n] : n \in 0 .. 40}
    \cup {[Roomy EXCEPT !.max_memory_bytes = n] : n \in {16 * k : k \in 0 .. 24} \cup {MaxUsize}}
    \cup {[Roomy EXCEPT !.max_recursion_depth = n] : n \in 0 .. 5}
    \cup {Roomy}

CallsOf(prog, entry, states, inputs, limits) ==
  {[prog |-> prog, entry |-> entry, state |-> s, input |-> i, limits |-> l] :
     s \in states, i \in inputs, l \in limits}

(* Calls of validated programs, well typed or not: the host chooses the    *)
(* state and the event.                                                    *)
CounterCalls ==
  CallsOf("counter", "update", {IntV(3)}, {Tag1("Inc", "by", IntV(2))}, LimitSet)
    \cup CallsOf("counter", "update", {IntV(-8), IntV(5)},
                 {Tag1("Inc", "by", IntV(3)), Tag1("Div", "by", IntV(0)),
                  Tag1("Div", "by", IntV(-1)), Tag1("Div", "by", IntV(2)),
                  Tag("Reset"), Tag("Inc"), Tag("Unknown"), UnitV}, {Roomy})
    \cup CallsOf("counter", "query", {IntV(-2)}, {IntV(1)}, LimitSet)
    \cup CallsOf("counter", "query", {IntV(-2)}, {IntV(4), BoolV(TRUE)}, {Roomy})

ScopeCalls ==
  CallsOf("scopes", "update", {IntV(1)},
          {EnumV("Pair", [l |-> IntV(2), r |-> Tag1("Some", "v", IntV(3))]),
           EnumV("Pair", [l |-> IntV(2), r |-> Tag("None")])}, LimitSet)
    \cup CallsOf("scopes", "update", {IntV(1)},
                 {UnitV, Tag("Other"), Tag1("Pair", "l", IntV(2)),
                  EnumV("Pair", [l |-> IntV(2), r |-> IntV(3)])}, {Roomy})
    \cup CallsOf("scopes", "query", {IntV(1)}, {IntV(0), IntV(2)}, LimitSet)

RecursionCalls ==
  CallsOf("recursion", "update", {IntV(0)}, {ConsV(ConsV(Nil))}, LimitSet)
    \cup CallsOf("recursion", "query", {IntV(0)},
                 {ListV(<<IntV(1), IntV(2), IntV(3)>>)}, LimitSet)
    \cup CallsOf("recursion", "update", {IntV(0)}, {ConsV(IntV(1)), Tag("Cons")}, {Roomy})

PatternCalls ==
  LET Cons3(v) == ConsV(ConsV(ConsV(v)))
  IN  CallsOf("patterns", "update", {IntV(1)},
              {EnumV("Pair", [l |-> Cons3(Nil), r |-> ConsV(IntV(2))])}, LimitSet)
        \cup CallsOf("patterns", "update", {IntV(1)},
                     {EnumV("Pair", [l |-> Cons3(UnitV), r |-> Nil]),
                      EnumV("Pair", [l |-> ConsV(Nil), r |-> Nil])}, {Roomy})
        \cup CallsOf("patterns", "query", {IntV(1)},
                     {Cons3(ConsV(IntV(2))), Cons3(Nil), Cons3(Tag("Cons"))}, LimitSet)

UnvalidatedCalls ==
  CallsOf("unvalidated", "update", {IntV(1)},
          {Tag(n) : n \in {"Unbound", "Leak", "Missing", "Arity", "NotTuple",
                           "Triple", "NotList", "NotInt", "Other"}}, {Roomy})
    \cup CallsOf("unvalidated", "query", {IntV(1)}, {IntV(0)},
                 {[Roomy EXCEPT !.max_memory_bytes = n] : n \in {32, 47, 48, 79, 80}})

(* Every operation on integers of either sign, odd and even, and at both   *)
(* ends of the range.                                                      *)
SomeIntegers == {IntV(i) : i \in {-8, -7, -3, -1, 0, 1, 2, 3, 7}}
CalculatorCalls ==
  UNION {CallsOf(o, "query", SomeIntegers, SomeIntegers, {Roomy}) : o \in Operations}

AllCalls == CounterCalls \cup ScopeCalls \cup RecursionCalls \cup PatternCalls \cup UnvalidatedCalls
              \cup CalculatorCalls

MCExpected(c) == VM!AnswerOf(c, Programs[c.prog])

=============================================================================
