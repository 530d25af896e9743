------------------------------- MODULE MCSyntax -------------------------------
(***************************************************************************)
(* Texts for Syntax: the programs of SamplePrograms that can be written,   *)
(* more expressions, the example programs of the repository as they are,   *)
(* and two programs to edit.                                               *)
(***************************************************************************)
EXTENDS Syntax, SamplePrograms

MCNumerals == [w \in {"0", "1", "2"} |-> CASE w = "0" -> 0 [] w = "1" -> 1 [] w = "2" -> 2]

(* The two entry points are called what their keywords say. *)
CanBeWritten(p) ==
  \A i \in DOMAIN p.fns : /\ p.fns[i].kind = "Update" => p.fns[i].name = "update"
                          /\ p.fns[i].kind = "Query" => p.fns[i].name = "query"

Operators == {"Add", "Sub", "Mul", "Div"}
Nested ==
  LET a == Id("a")
      two == {Bin(o, a, Num(1)) : o \in Operators}
  IN  {Bin(o, x, y) : o \in Operators, x \in two, y \in two \cup {a}}
      \cup {Bin(o, a, x) : o \in Operators, x \in two}

Shapes ==
  LET a == Id("a")
      t == Case(a, <<To(Var("R", <<F("x"), FP("y", Wild), FP("z", Var("S", <<>>))>>), a),
                     If(To(Wild, Rec("R", <<"x">>, <<a>>)))>>)
  IN  {Fn("a", <<>>), Odd(Fn("a", <<a>>), <<a, Num(1)>>), Odd(Num(1), <<>>), Odd(Bin("Add", a, a), <<a>>),
       Odd(t, <<>>), Odd(Tup(<<a, a>>), <<>>), t, Case(t, <<>>), Case(a, <<>>), Case(Bin("Add", Num(1), a), <<>>),
       Case(Rec("R", <<>>, <<>>), <<To(Wild, a)>>), Bin("Mul", t, t), Block(<<>>, {}),
       Block(<<LetS("b", a), RetS(t), LetS("state", Id("b"))>>, {Block(<<>>, {a})}),
       Case(Id("event"), <<>>), Case(Block(<<>>, {a}), <<To(Wild, Block(<<RetS(a)>>, {}))>>),
       Lst(<<Tup(<<a, Lst(<<>>)>>), Rec("R", <<"state">>, <<Id("record")>>)>>)}

OneFunction(x) ==
  [types |-> <<Declared("State", "S", <<"T">>, <<Field("a", TupleT(<<>>)), Field("b", ListT(ListT(IntT)))>>, <<>>)>>,
   fns   |-> <<Function("User", "f", <<>>, TupleT(<<IntT>>), Body(x)),
               Function("Query", "query", <<Field("match", L)>>, L, Block(<<RetS(x)>>, {x}))>>]

(* Of the reactive programs, those with one list of arms or one expression. *)
Some ==
  {Program(L, Case(Id("event"), Arms(qs, Id("l"), Id("state")))) : qs \in ArmLists}
  \cup {Program(L, Case(Id("event"), Arms(<<Wild>>, x, x))) : x \in Expressions}

MCPrograms ==
  {[types |-> p.types, fns |-> p.fns] :
     p \in {p \in Some \cup Lists \cup Signatures \cup Twins : CanBeWritten(p)}}
  \cup {OneFunction(x) : x \in Nested \cup Shapes}

------------------------------------------------------------------------------
MCTexts == ExampleWords

(* Small programs with something of everything, to edit. *)
MCEditable == {
  <<"query", "Q", "<", "T", ">", "=", "|", "A", "{", "x", ":", "T", "}", "|", "B",
    "query", "(", "q", ":", "Q", ",", "n", ":", "Int", ")", "->", "(", "Int", ",", "List", "<", "T", ">", ")", "{",
      "let", "a", "=", "f", "(", "1", ")", ";",
      "match", "a", "{", "A", "{", "x", ":", "_", "}", "if", "true", "=>", "R", "{", "y", ":", "2", "}", ",",
                         "_", "=>", "(", "1", "+", "2", ")", "*", "n", "}", "}", "end">>,
  <<"state", "S", "{", "a", ":", "Int", ",", "b", ":", "Int", ";", "}",
    "fn", "f", "(", ")", "->", "S", "{", "return", "(", "a", ",", "[", "b", "]", ")", "}",
    "fn", "g", "(", "n", ":", "S", ")", "->", "S", "{", "n", "-", "1", "/", "2", "}", "end">>}
MCEditWords == {"x", "1", "{", "}", "(", ")", ",", ":", "|", "+", "let", "match"}

=============================================================================
