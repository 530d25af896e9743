------------------------------ MODULE MCSession ------------------------------
(***************************************************************************)
(* Session on the programs of SamplePrograms, and on IR with one defect    *)
(* each.                                                                   *)
(***************************************************************************)
EXTENDS Session, MCFrontEnd, SamplePrograms

------------------------------------------------------------------------------
(* IR: the good program with one expression in place of its update's body. *)
Ref(x, t)       == [kind |-> "LocalRef", name |-> x, ty |-> t]
One             == [kind |-> "Int", int |-> 1, ty |-> IntT]
Kids(k, ns, t)  == [kind |-> k, kids |-> ns, ty |-> t]
CallIr(f, ns, t) == [kind |-> "Call", callee |-> f, kids |-> ns, ty |-> t]
LetIr(x, v, b, t) == [kind |-> "Let", name |-> x, value |-> v, body |-> b, ty |-> t]
MatchIr(s, as, t) == [kind |-> "Match", subject |-> s, arms |-> as, ty |-> t]
ArmIr(q, b)     == [pat |-> q, body |-> b]
AsIr(x, t)      == [kind |-> "Binding", name |-> x, ty |-> t]

Bodies ==
  LET make(n) == Kids("Tuple", <<n, Kids("List", <<>>, Actions)>>, TupleT(<<n.ty, Actions>>))
      st      == Ref("state", L)
      flip(t) == CallIr("flip", <<st>>, t)
  IN  {make(n) : n \in {
         st, Ref("state", IntT), Ref("nobody", L), Ref("state", UnknownT),
         flip(L), flip(IntT), CallIr("flip", <<>>, L), CallIr("flip", <<One>>, L),
         CallIr("nobody", <<>>, L), [One EXCEPT !.ty = L],
         LetIr("x", st, Ref("x", L), L), LetIr("x", st, Ref("x", L), IntT),
         LetIr("y", LetIr("x", st, Ref("x", L), L), Ref("x", L), L),
         LetIr("state", One, st, L),
         MatchIr(st, <<>>, L), MatchIr(st, <<ArmIr(AsIr("x", L), Ref("x", L))>>, L),
         MatchIr(st, <<ArmIr(AsIr("x", IntT), st)>>, L),
         MatchIr(st, <<ArmIr([kind |-> "Wildcard", ty |-> L], One)>>, L),
         MatchIr(One, <<ArmIr(AsIr("x", IntT), st), ArmIr([kind |-> "Wildcard", ty |-> IntT], Ref("x", L))>>, L),
         [kind |-> "Binary", op |-> "Add", kids |-> <<One, st>>, ty |-> L]}}
      \cup {st, Kids("List", <<One>>, L), Kids("Tuple", <<One>>, TupleT(<<L, Actions>>))}

MCIrs ==
  LET ir == LowerResult(Source(Types, <<Flip, Good, Asks>>)).fns
      withBody(b) == [ir EXCEPT ![2].body = b]
  IN  {[origin |-> "ir", types |-> Types, fns |-> fs] :
         fs \in {withBody(b) : b \in Bodies}
                \cup {Append(ir, [ir[1] EXCEPT !.ret = IntT]), Append(ir, Other(ir[2], "again")),
                      Append(ir, Other(ir[3], "again")),
                      [ir EXCEPT ![2].params = <<"state">>, ![2].types = <<L>>, ![2].body = Ref("state", L)]}}

------------------------------------------------------------------------------
(* The programs of examples/, as they are read. *)
ReadExamples ==
  {Source(p.types, p.fns) : p \in {MCProgramOf(words) : words \in ExampleWords}}

(* What recurs, by its equations. *)
RECURSIVE MCHasType(_, _, _), MCValuesOf(_, _, _), MCSubExprs(_), MCTypesIn(_),
          MCIsKnown(_), MCIrWithin(_)
MCHasType(c, v, t)  == LET holds == HasTypeStep(c, v, t) IN holds
MCValuesOf(c, t, d) == LET vs == ValuesOfStep(c, t, d) IN vs
MCSubExprs(x)       == LET xs == SubExprsStep(x) IN xs
MCTypesIn(t)        == LET ts == TypesInStep(t) IN ts
MCIsKnown(t)        == LET holds == IsKnownStep(t) IN holds
MCIrWithin(n)       == LET ns == IrWithinStep(n) IN ns

MCSources    == SourcePrograms \cup ReadExamples
MCMinInt     == -8
MCSampleInts == {0, 5}
MCLimits     == [max_steps |-> 60, max_memory_bytes |-> 2000, max_recursion_depth |-> 4]

=============================================================================
