------------------------------- MODULE BigStep -------------------------------
(***************************************************************************)
(* What a call of the VM means, in the style of a definitional             *)
(* interpreter: names are scoped lexically, by passing each sub-expression *)
(* the environment it sees, and the recursion level is passed down.        *)
(* Nothing is changed in place, so nothing needs restoring: the evaluator, *)
(* which has one environment and one depth counter that it changes and     *)
(* puts back, must come to the same answers.                               *)
(*                                                                         *)
(* An outcome is [r, steps, mem]: the result or error, the steps left and  *)
(* the bytes charged so far.  Only the budgets are threaded through.       *)
(*                                                                         *)
(* The four operators that recur are constants, and RecursionEquations     *)
(* says what they are: each ...Step unfolds one of them once.  ProgramWalk *)
(* defines them by these equations for TLC; the proofs use the equations   *)
(* and nothing else.  (Every recursion hands on an error as it is, so      *)
(* operators that satisfy the equations exist, whatever the arguments.)    *)
(***************************************************************************)
EXTENDS VmValue

CONSTANTS
  BytesOf(_),                      \* estimate_value_bytes
  EvalIn(_, _, _, _, _),           \* an expression
  EvalRest(_, _, _, _, _, _),      \* the operands that are left
  ChooseArm(_, _, _, _, _, _, _),  \* the arms that are left
  MatchAll(_, _)                   \* the patterns that are left

Budget(steps, mem) == [steps |-> steps, mem |-> mem]
Outcome(r, left)   == [r |-> r, steps |-> left.steps, mem |-> left.mem]
Left(o)            == Budget(o.steps, o.mem)
Spend(left)        == Budget(left.steps - 1, left.mem)

Fault(code, why, left) == Outcome(Err(code, why), left)

(***************************************************************************)
(* A machine m has the functions of a program, and limits.                 *)
(***************************************************************************)
ApplyFn(m, f, args, d, left) ==
  IF left.steps = 0 THEN Fault("StepLimitExceeded", "steps", left)
  ELSE IF d >= m.limits.max_recursion_depth
    THEN Fault("RecursionLimitExceeded", "depth", Spend(left))
  ELSE IF f \notin DOMAIN m.functions
    THEN Fault("Trap", "unknown_function", Spend(left))
  ELSE IF Len(args) # Len(m.functions[f].params)
    THEN Fault("Trap", "arity", Spend(left))
  ELSE EvalIn(m, m.functions[f].body, InsertAll(m.functions[f].params, args),
              d + 1, Spend(left))

(* A completed value is paid for; o is passed on if it is an error. *)
Charged(m, o) ==
  LET total == o.mem + BytesOf(o.r.val)
      sum   == IF total > MaxUsize THEN MaxUsize ELSE total
      left  == Budget(o.steps, sum)
  IN  IF ~o.r.ok THEN o
      ELSE IF sum > m.limits.max_memory_bytes
        THEN Fault("MemoryLimitExceeded", "memory", left)
      ELSE Outcome(o.r, left)

(***************************************************************************)
(* Operands are evaluated from left to right; vals are the values of the   *)
(* first of ns.  A compound expression is then made of all of them.        *)
(***************************************************************************)
EvalRestStep(m, ns, vals, e, d, left) ==
  IF Len(vals) >= Len(ns) THEN Outcome(Ok(vals), left)
  ELSE LET o == EvalIn(m, ns[Len(vals) + 1], e, d, left)
       IN  IF o.r.ok THEN EvalRest(m, ns, Append(vals, o.r.val), e, d, Left(o)) ELSE o

Made(m, n, d, o) ==
  IF ~o.r.ok THEN o
  ELSE CASE n.kind = "Tuple"  -> Outcome(Ok(TupleV(o.r.val)), Left(o))
         [] n.kind = "List"   -> Outcome(Ok(ListV(o.r.val)), Left(o))
         [] n.kind = "Record" ->
              Outcome(Ok(EnumV(n.name, InsertAll(n.names, o.r.val))), Left(o))
         [] n.kind = "Binary" -> Outcome(EvalBinary(n.op, o.r.val[1], o.r.val[2]), Left(o))
         [] n.kind = "Call"   -> ApplyFn(m, n.callee, o.r.val, d, Left(o))

(***************************************************************************)
(* Patterns extend a match b = [r, hit, env, steps].  A pattern that is    *)
(* left is an entry [pat, src]: the pattern and the value it is for, or    *)
(* the empty set for a payload field that the value does not have.         *)
(***************************************************************************)
Match(r, hit, e, steps) == [r |-> r, hit |-> hit, env |-> e, steps |-> steps]

Bindings(q, v, b) ==
  LET rest == b.steps - 1
  IN  IF b.steps = 0 THEN Match(Err("StepLimitExceeded", "steps"), b.hit, b.env, b.steps)
      ELSE CASE q.kind = "Wildcard" -> Match(b.r, b.hit, b.env, rest)
             [] q.kind = "Binding"  -> Match(b.r, b.hit, Bind(b.env, q.name, v), rest)
             [] q.kind = "Variant"  ->
                  IF v.t # "Enum"
                    THEN Match(Err("InvalidInput", "not_enum_like"), b.hit, b.env, rest)
                  ELSE IF v.tag # q.name THEN Match(b.r, FALSE, b.env, rest)
                  ELSE MatchAll([i \in DOMAIN q.fields |->
                                   [pat |-> q.fields[i].pat,
                                    src |-> Lookup(v.fields, q.fields[i].name)]],
                                Match(b.r, b.hit, b.env, rest))

MatchAllStep(todo, b) ==
  IF todo = <<>> \/ ~b.hit \/ ~b.r.ok THEN b
  ELSE MatchAll(Tail(todo),
         IF Head(todo).src = {}
           THEN Match(Err("InvalidInput", "missing_payload_field"), b.hit, b.env, b.steps)
           ELSE Bindings(Head(todo).pat, CHOOSE v \in Head(todo).src : TRUE, b))

(* The first of the arms, from the i-th on, whose pattern matches v. *)
Chosen(m, arms, i, v, e, d, mem, b) ==
  IF ~b.r.ok THEN Outcome(b.r, Budget(b.steps, mem))
  ELSE IF b.hit THEN EvalIn(m, arms[i].body, b.env, d, Budget(b.steps, mem))
  ELSE ChooseArm(m, arms, i + 1, v, e, d, Budget(b.steps, mem))

ChooseArmStep(m, arms, i, v, e, d, left) ==
  IF ~(i <= Len(arms)) THEN Fault("Trap", "non_exhaustive_match", left)
  ELSE Chosen(m, arms, i, v, e, d, left.mem,
              Bindings(arms[i].pat, v, Match(Ok(v), TRUE, e, left.steps)))

------------------------------------------------------------------------------
(* Where o is the outcome of the value of a Let, or of a match's subject. *)
BodyOf(m, n, e, d, o) ==
  IF o.r.ok THEN EvalIn(m, n.body, Bind(e, n.name, o.r.val), d, Left(o)) ELSE o

ArmsOf(m, n, e, d, o) ==
  IF o.r.ok THEN ChooseArm(m, n.arms, 1, o.r.val, e, d, Left(o)) ELSE o

ValueOf(m, n, e, d, left) ==
  CASE n.kind = "Int"      -> Outcome(Ok(IntV(n.int)), left)
    [] n.kind = "Bool"     -> Outcome(Ok(BoolV(n.bool)), left)
    [] n.kind = "LocalRef" -> IF n.name \in DOMAIN e THEN Outcome(Ok(e[n.name]), left)
                              ELSE Fault("Trap", "unknown_local", left)
    [] n.kind \in {"Tuple", "List", "Record", "Binary", "Call"} ->
                              Made(m, n, d, EvalRest(m, n.kids, <<>>, e, d, left))
    [] n.kind = "Let"      -> BodyOf(m, n, e, d, EvalIn(m, n.value, e, d, left))
    [] n.kind = "Match"    -> ArmsOf(m, n, e, d, EvalIn(m, n.subject, e, d, left))

EvalInStep(m, n, e, d, left) ==
  IF left.steps = 0 THEN Fault("StepLimitExceeded", "steps", left)
  ELSE Charged(m, ValueOf(m, n, e, d, Spend(left)))

RecursionEquations ==
  /\ \A m, n, e, d, left : EvalIn(m, n, e, d, left) = EvalInStep(m, n, e, d, left)
  /\ \A m, ns, vals, e, d, left :
       EvalRest(m, ns, vals, e, d, left) = EvalRestStep(m, ns, vals, e, d, left)
  /\ \A m, arms, i, v, e, d, left :
       ChooseArm(m, arms, i, v, e, d, left) = ChooseArmStep(m, arms, i, v, e, d, left)
  /\ \A todo, b : MatchAll(todo, b) = MatchAllStep(todo, b)

------------------------------------------------------------------------------
(* The outcome of a function that the host calls, with its full budget. *)
RunFunction(m, f, args) == ApplyFn(m, f, args, 0, Budget(m.limits.max_steps, 0))

IsUpdateResult(v) ==
  v.t = "Tuple" /\ Len(v.items) = 2 /\ v.items[2].t = "List"

(* What the caller of update or query gets when the entry function made r. *)
Answer(entry, r) ==
  IF ~r.ok THEN [ok |-> FALSE, code |-> r.code]
  ELSE IF entry = "update" /\ ~IsUpdateResult(r.val)
    THEN [ok |-> FALSE, code |-> "Trap"]
  ELSE r

(* What a call c of program p answers, and the budgets as they end up. *)
MachineOf(c, p) == [functions |-> p.functions, limits |-> c.limits]

AnswerOf(c, p) ==
  LET o == RunFunction(MachineOf(c, p), p[c.entry], <<c.state, c.input>>)
  IN  [answer |-> Answer(c.entry, o.r), steps |-> o.steps, mem |-> o.mem]

=============================================================================
