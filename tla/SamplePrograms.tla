--------------------------- MODULE SamplePrograms ----------------------------
(***************************************************************************)
(* Syntax trees to try the front end on: a small reactive program in the   *)
(* style of the examples, with every kind of arm list and of expression in *)
(* it, right and wrong ones; and programs with other signatures and other  *)
(* sets of functions.                                                      *)
(***************************************************************************)
EXTENDS SourceTree

Body(x)         == Block(<<>>, {x})
To(q, x)        == Arm(q, {}, x)
If(a)           == [a EXCEPT !.guard = {Truth(TRUE)}]
F(x)            == PatField(x, {})
FP(x, q)        == PatField(x, {q})
Sum_(k, n, vs)  == Declared(k, n, <<>>, <<>>, vs)

------------------------------------------------------------------------------
L == Named("L")
P == Named("P")
E == Named("E")
Q == Named("Q")
Actions  == ListT(Named("Action"))
ResultOf(t) == Type("Result", <<t, IntT>>)

Types == <<
  Sum_("Enum", "L", <<Variant("Red", <<>>), Variant("Tag", <<Field("k", IntT)>>)>>),
  Sum_("Event", "E", <<Variant("Set", <<Field("l", L)>>),
                       Variant("Put", <<Field("n", IntT)>>)>>),
  Sum_("Query", "Q", <<Variant("Get", <<>>)>>),
  Sum_("Enum", "Action", <<Variant("NoOp", <<>>)>>),
  Declared("Enum", "Result", <<"T", "E1">>, <<>>,
           <<Variant("Ok", <<Field("v", Named("T"))>>), Variant("Err", <<Field("e", Named("E1"))>>)>>),
  Declared("Record", "P", <<>>, <<Field("l", L), Field("n", IntT)>>, <<>>)>>

Flip == Function("User", "flip", <<Field("l", L)>>, L,
  Body(Case(Id("l"), <<To(Var("Red", <<>>), Rec("Tag", <<"k">>, <<Num(1)>>)),
                       To(Var("Tag", <<F("k")>>), Rec("Red", <<>>, <<>>))>>)))
Spin(S) == Function("User", "spin", <<Field("s", S)>>, S, Body(Fn("spin", <<Id("s")>>)))

Update(S, x) == Function("Update", "update", <<Field("state", S), Field("event", E)>>,
                         TupleT(<<S, Actions>>), Body(x))
AskFor(S)    == Function("Query", "query", <<Field("state", S), Field("q", Q)>>, ResultOf(S),
                  Body(Case(Id("q"), <<To(Var("Get", <<>>), Rec("Ok", <<"v">>, <<Id("state")>>))>>)))

Source(ts, fs) == [origin |-> "source", types |-> ts, fns |-> fs]
Program(S, x)  == Source(Types, <<Flip, Spin(S), Update(S, x), AskFor(S)>>)

(***************************************************************************)
(* The match of update: the first arm makes x its state, the others y.     *)
(***************************************************************************)
ArmLists ==
  LET set  == Var("Set", <<F("l")>>)
      put  == Var("Put", <<F("n")>>)
      red  == Var("Set", <<FP("l", Var("Red", <<>>))>>)
      tag  == Var("Set", <<FP("l", Var("Tag", <<F("k")>>))>>)
  IN  {<<set, put>>, <<put, set>>, <<set>>, <<set, Wild>>, <<Wild, set>>, <<set, set, Wild>>,
       <<red, put>>, <<red, tag, put>>, <<red, Wild>>, <<tag, Wild>>,
       <<Var("Set", <<FP("l", Wild)>>), put>>, <<Var("Foo", <<>>), Wild>>,
       <<Var("Set", <<F("z")>>), Wild>>, <<Var("Put", <<FP("n", Var("Red", <<>>))>>), Wild>>,
       <<Var("Set", <<>>), Var("Put", <<>>)>>, <<>>}

Next2(x)   == Tup(<<x, Lst(<<>>)>>)
Arms(qs, x, y) == [i \in DOMAIN qs |-> To(qs[i], Next2(IF i = 1 THEN x ELSE y))]

(* What the first arm makes the state, whatever the type of the state. *)
Expressions ==
  LET red   == Rec("Red", <<>>, <<>>)
      tag   == Rec("Tag", <<"k">>, <<Num(1)>>)
      lets  == <<LetS("a", Id("state")), LetS("b", Id("a"))>>
  IN  {Id("state"), Id("l"), Id("n"), Id("k"), red, tag, Rec("Tag", <<>>, <<>>), Rec("L", <<>>, <<>>),
       Rec("Tag", <<"k">>, <<red>>), Rec("Tag", <<"j">>, <<Num(1)>>), Rec("Nobody", <<>>, <<>>),
       Rec("P", <<"l", "n">>, <<red, Num(1)>>), Rec("P", <<"n">>, <<Num(1)>>),
       Bin("Add", Id("n"), Num(1)), Bin("Div", Num(1), Id("n")), Bin("Mul", red, Num(1)),
       Lst(<<>>), Lst(<<Num(1)>>), Lst(<<Num(1), red>>),
       Fn("flip", <<Id("l")>>), Fn("flip", <<Id("n")>>), Fn("flip", <<>>), Fn("spin", <<Id("state")>>),
       Fn("now", <<>>), Fn("nobody", <<Id("k")>>), Odd(Fn("flip", <<Id("l")>>), <<Id("k")>>),
       Block(lets, {Id("b")}), Block(lets, {}), Block(<<RetS(Id("state"))>>, {Id("state")}),
       Block(<<LetS("state", Id("l"))>>, {Id("state")}),
       Block(<<LetS("x", Case(Num(1), <<>>))>>, {Id("state")}),
       Case(Id("l"), <<To(Var("Red", <<>>), Id("state")), To(Var("Tag", <<F("k")>>), Id("state"))>>),
       Case(Fn("flip", <<red>>), <<If(To(Wild, Id("state")))>>),
       Case(tag, <<To(Var("Tag", <<F("k")>>), Id("k")), To(Wild, Num(0))>>)}

StateTypes == {IntT, L, P, ListT(IntT)}

Reactive ==
  {Program(S, Case(Id("event"), Arms(qs, x, Id("state")))) :
     S \in StateTypes, qs \in ArmLists, x \in Expressions}

(* An empty list goes with every list: the arms after it can be anything. *)
Lists ==
  {Program(ListT(IntT), Case(Id("event"), Arms(qs, x, y))) :
     qs \in {qs \in ArmLists : Len(qs) = 2},
     x, y \in {Lst(<<>>), Lst(<<Truth(TRUE)>>), Lst(<<Num(1)>>), Lst(<<Lst(<<>>), Lst(<<Num(1)>>)>>)}}

------------------------------------------------------------------------------
(* Signatures and sets of functions. *)
Good == Update(L, Case(Id("event"), Arms(<<Var("Set", <<F("l")>>), Wild>>, Id("l"), Id("state"))))
Other(f, n)     == [f EXCEPT !.name = n]
WithRet(f, t)   == [f EXCEPT !.ret = t]
WithTypes(f, t) == [f EXCEPT !.types = t]
Wrong == Update(L, Case(Id("event"), Arms(<<Wild>>, Num(1), Num(1))))
Asks  == AskFor(L)

Functions_ == {
  <<Good, Asks>>, <<Good>>, <<Asks>>, <<Good, Asks, Other(Good, "again")>>, <<Good, Asks, Asks>>,
  <<Good, Asks, Other(Asks, "again")>>, <<Flip, Flip, Good, Asks>>,
  <<Good, Asks, Function("User", "update", <<Field("l", L)>>, L, Body(Id("l")))>>,
  <<Function("User", "query", <<Field("a", L), Field("b", Q)>>, L, Body(Id("a"))), Good, Asks>>,
  <<WithRet(Wrong, TupleT(<<IntT, Actions>>)), Asks>>, <<Wrong, Asks>>,
  <<WithTypes(Good, <<L, L>>), Asks>>, <<WithTypes(Good, <<E, E>>), Asks>>,
  <<[Good EXCEPT !.params = <<"state">>, !.types = <<L>>], Asks>>,
  <<[Good EXCEPT !.params = Append(@, "l"), !.types = Append(@, L)], Asks>>,
  <<WithRet(Good, L), Asks>>, <<WithRet(Good, TupleT(<<L, ListT(L)>>)), Asks>>,
  <<WithRet(Good, TupleT(<<L, Actions, L>>)), Asks>>,
  <<Good, WithRet(Asks, L)>>, <<Good, WithTypes(Asks, <<L, E>>)>>, <<Good, AskFor(IntT)>>,
  <<Good, [AskFor(IntT) EXCEPT !.body =
             Body(Rec("Ok", <<"v">>, <<Bin("Add", Id("state"), Num(1))>>))]>>}

Signatures == {Source(Types, fs) : fs \in Functions_}

(* Two records with the same fields, one made where the other is meant. *)
P2 == Declared("Record", "P2", <<>>, <<Field("l", L), Field("n", IntT)>>, <<>>)
Twins ==
  {Source(Append(Types, P2),
     <<Update(P, Next2(Rec(n, <<"l", "n">>, <<Rec("Red", <<>>, <<>>), Num(1)>>))), AskFor(P)>>) :
     n \in {"P", "P2"}}

SourcePrograms == Reactive \cup Lists \cup Signatures \cup Twins

------------------------------------------------------------------------------
(* The sample programs of examples/, word by word, and their numerals. *)
ExampleNumerals == [w \in {"0", "1"} |-> IF w = "0" THEN 0 ELSE 1]

ResultDecl == <<
    "enum", "Result", "<", "T", ",", "E", ">", "=", "|", "Ok", "{", "v", ":", "T", "}", "|",
    "Err", "{", "e", ":", "E", "}">>

Counter == <<
    "enum", "Action", "=", "|", "NoOp">> \o ResultDecl \o <<
    "event", "CounterEvent", "=", "|", "Increment", "|", "Decrement", "|", "Reset", "query",
    "CounterQuery", "=", "|", "GetCount", "update", "(", "count", ":", "Int", ",", "event", ":",
    "CounterEvent", ")", "->", "(", "Int", ",", "List", "<", "Action", ">", ")", "{", "match",
    "event", "{", "Increment", "=>", "(", "count", "+", "1", ",", "[", "]", ")", "Decrement",
    "=>", "(", "count", "-", "1", ",", "[", "]", ")", "Reset", "=>", "(", "0", ",", "[", "]",
    ")", "}", "}", "query", "(", "count", ":", "Int", ",", "q", ":", "CounterQuery", ")", "->",
    "Result", "<", "Int", ",", "Int", ">", "{", "match", "q", "{", "GetCount", "=>", "Ok", "{",
    "v", ":", "count", "}", "}", "}", "end">>

TodoList == <<
    "enum", "Action", "=", "|", "TaskCompleted">> \o ResultDecl \o <<
    "event", "TodoEvent", "=", "|", "AddTask", "|", "CompleteTask", "|", "Clear", "query",
    "TodoQuery", "=", "|", "PendingCount", "update", "(", "pending", ":", "Int", ",", "event",
    ":", "TodoEvent", ")", "->", "(", "Int", ",", "List", "<", "Action", ">", ")", "{", "match",
    "event", "{", "AddTask", "=>", "(", "pending", "+", "1", ",", "[", "]", ")", "CompleteTask",
    "=>", "(", "pending", "-", "1", ",", "[", "TaskCompleted", "{", "}", "]", ")", "Clear",
    "=>", "(", "0", ",", "[", "]", ")", "}", "}", "query", "(", "pending", ":", "Int", ",", "q",
    ":", "TodoQuery", ")", "->", "Result", "<", "Int", ",", "Int", ">", "{", "match", "q", "{",
    "PendingCount", "=>", "Ok", "{", "v", ":", "pending", "}", "}", "}", "end">>

TrafficLight == <<
    "enum", "Action", "=", "|", "NoOp">> \o ResultDecl \o <<
    "enum", "TrafficLight", "=", "|", "Red", "|", "Yellow", "|", "Green", "event",
    "TrafficEvent", "=", "|", "Tick", "query", "TrafficQuery", "=", "|", "CurrentLight",
    "update", "(", "light", ":", "TrafficLight", ",", "event", ":", "TrafficEvent", ")", "->",
    "(", "TrafficLight", ",", "List", "<", "Action", ">", ")", "{", "match", "event", "{",
    "Tick", "=>", "(", "match", "light", "{", "Red", "=>", "Green", "{", "}", "Green", "=>",
    "Yellow", "{", "}", "Yellow", "=>", "Red", "{", "}", "}", ",", "[", "]", ")", "}", "}",
    "query", "(", "light", ":", "TrafficLight", ",", "q", ":", "TrafficQuery", ")", "->",
    "Result", "<", "TrafficLight", ",", "Int", ">", "{", "match", "q", "{", "CurrentLight",
    "=>", "Ok", "{", "v", ":", "light", "}", "}", "}", "end">>

ShoppingCart == <<
    "enum", "Action", "=", "|", "OrderPlaced", "{", "total", ":", "Int", "}", "|",
    "CartCleared">> \o ResultDecl \o <<
    "event", "CartEvent", "=", "|", "AddItem", "{", "price", ":", "Int", "}", "|", "RemoveItem",
    "{", "price", ":", "Int", "}", "|", "ApplyDiscount", "{", "amount", ":", "Int", "}", "|",
    "PlaceOrder", "|", "Clear", "query", "CartQuery", "=", "|", "GetTotal", "fn",
    "apply_discount", "(", "total", ":", "Int", ",", "discount", ":", "Int", ")", "->", "Int",
    "{", "total", "-", "discount", "}", "update", "(", "total", ":", "Int", ",", "event", ":",
    "CartEvent", ")", "->", "(", "Int", ",", "List", "<", "Action", ">", ")", "{", "match",
    "event", "{", "AddItem", "{", "price", "}", "=>", "(", "total", "+", "price", ",", "[", "]",
    ")", "RemoveItem", "{", "price", "}", "=>", "(", "total", "-", "price", ",", "[", "]", ")",
    "ApplyDiscount", "{", "amount", "}", "=>", "(", "apply_discount", "(", "total", ",",
    "amount", ")", ",", "[", "]", ")", "PlaceOrder", "=>", "(", "0", ",", "[", "OrderPlaced",
    "{", "total", ":", "total", "}", "]", ")", "Clear", "=>", "(", "0", ",", "[", "CartCleared",
    "{", "}", "]", ")", "}", "}", "query", "(", "total", ":", "Int", ",", "q", ":", "CartQuery",
    ")", "->", "Result", "<", "Int", ",", "Int", ">", "{", "match", "q", "{", "GetTotal", "=>",
    "Ok", "{", "v", ":", "total", "}", "}", "}", "end">>

ExampleWords == {Counter, TodoList, TrafficLight, ShoppingCart}

=============================================================================
