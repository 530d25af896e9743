---------------------------- MODULE MeaningProofs ----------------------------
(***************************************************************************)
(* The evaluator implements the lexically scoped definition of BigStep:    *)
(* the answer of a call, and what is left of its budgets.                  *)
(*                                                                         *)
(* A suspended activation is a function: it takes the outcome of what it   *)
(* waits for, together with the environment and the level that it finds    *)
(* then, to its own outcome.  The invariant says that the outcome of the   *)
(* running activation, as BigStep defines it from the current state, goes  *)
(* through all of the stack to the outcome of the whole call.              *)
(***************************************************************************)
EXTENDS EvaluatorProofs, BigStep

(* What an implementation of BigStep is for the calls of the evaluator. *)
MeansBigStep ==
  /\ RecursionEquations
  /\ \A v : BytesOf(v) = EstimateBytes(v)
  /\ \A c \in Calls : Expected(c) = AnswerOf(c, Programs[c.prog])

------------------------------------------------------------------------------
(***************************************************************************)
(* Lists of patterns: to match one list after the other is to match their  *)
(* concatenation (by induction on its length, as the least counterexample).*)
(***************************************************************************)

(* No pattern is matched after one that missed or failed. *)
LEMMA MatchedAll ==
  ASSUME RecursionEquations, NEW todo, NEW b, todo = <<>> \/ ~b.hit \/ ~b.r.ok
  PROVE  MatchAll(todo, b) = b
<1>1. MatchAll(todo, b) = MatchAllStep(todo, b)
  BY DEF RecursionEquations
<1> QED
  BY <1>1 DEF MatchAllStep

(* The match after the first entry of a list. *)
FirstMatched(entry, b) ==
  IF entry.src = {}
    THEN Match(Err("InvalidInput", "missing_payload_field"), b.hit, b.env, b.steps)
  ELSE Bindings(entry.pat, CHOOSE v \in entry.src : TRUE, b)

LEMMA MatchedFirst ==
  ASSUME RecursionEquations, NEW todo, NEW b, todo # <<>>, b.hit, b.r.ok
  PROVE  MatchAll(todo, b) = MatchAll(Tail(todo), FirstMatched(Head(todo), b))
<1>1. MatchAll(todo, b) = MatchAllStep(todo, b)
  BY DEF RecursionEquations
<1> QED
  BY <1>1 DEF MatchAllStep, FirstMatched

LEMMA MatchedInTurn ==
  ASSUME RecursionEquations, NEW s0, NEW t, NEW b0, IsSeq(s0), IsSeq(t)
  PROVE  MatchAll(s0 \o t, b0) = MatchAll(t, MatchAll(s0, b0))
<1> DEFINE Differs(n) == \E s, b : /\ IsSeq(s) /\ Len(s) = n
                                   /\ MatchAll(s \o t, b) # MatchAll(t, MatchAll(s, b))
           T == {n \in Nat : Differs(n)}
<1>1. ASSUME T # {} PROVE FALSE
  <2>1. PICK n \in T : \A k \in T : n <= k
    BY <1>1, LeastNumber
  <2>2. PICK s, b : /\ IsSeq(s) /\ Len(s) = n /\ n \in Nat
                    /\ MatchAll(s \o t, b) # MatchAll(t, MatchAll(s, b))
    BY <2>1
  <2>3. b.hit /\ b.r.ok
    BY <2>2, MatchedAll
  <2>4. s # <<>>
    <3> SUFFICES ASSUME s = <<>> PROVE FALSE
      OBVIOUS
    <3>1. s \o t = t /\ MatchAll(s, b) = b
      BY <2>2, Joined, MatchedAll
    <3> QED
      BY <2>2, <3>1
  <2> DEFINE c == FirstMatched(Head(s), b)
  <2>5. /\ IsSeq(Tail(s)) /\ Len(Tail(s)) = n - 1 /\ n - 1 \in Nat
        /\ s \o t # <<>> /\ Head(s \o t) = Head(s) /\ Tail(s \o t) = Tail(s) \o t
    BY <2>2, <2>4, Shortened, Joined
  <2>6. MatchAll(s, b) = MatchAll(Tail(s), c)
    BY <2>3, <2>4, MatchedFirst
  <2>7. MatchAll(s \o t, b) = MatchAll(Tail(s) \o t, c)
    <3>1. FirstMatched(Head(s \o t), b) = c
      <4>1. Head(s \o t) = Head(s)
        BY <2>5
      <4> QED
        BY <4>1, Zenon
    <3> HIDE DEF c
    <3>2. MatchAll(s \o t, b) = MatchAll(Tail(s \o t), FirstMatched(Head(s \o t), b))
      BY <2>3, <2>5, MatchedFirst
    <3> QED
      BY <2>5, <3>1, <3>2
  <2> HIDE DEF c
  <2>8. MatchAll(Tail(s) \o t, c) # MatchAll(t, MatchAll(Tail(s), c))
    BY <2>2, <2>6, <2>7
  <2>9. n - 1 \in T
    BY <2>5, <2>8
  <2> QED
    BY <2>1, <2>2, <2>9
<1>2. Len(s0) \in Nat
  BY Domain
<1> QED
  BY <1>1, <1>2

------------------------------------------------------------------------------
(***************************************************************************)
(* The suspended activations as functions.  A level of the stack has the   *)
(* environment and the depth of its activation, and its outcome.           *)
(***************************************************************************)
Level(e, d, o) == [env |-> e, depth |-> d, out |-> o]

(* What frame f finds when it gets its value, or leaves when it fails. *)
EnvUnder(f, e) ==
  CASE f.kind = "letBody" -> Restored(f, e)
    [] f.kind \in {"arms", "armBody", "body"} -> f.saved
    [] OTHER -> e

(* What an activation goes on to do with the outcome o that it waited for. *)
Resume(m, f, e, d, o) ==
  IF ~o.r.ok THEN o
  ELSE CASE f.kind = "kids" ->
              Charged(m, IF AllKidsDone(f) THEN o
                         ELSE Made(m, f.node, d,
                                   EvalRest(m, f.node.kids, Append(f.vals, o.r.val), e, d, Left(o))))
         [] f.kind = "letValue" -> Charged(m, BodyOf(m, f.node, e, d, o))
         [] f.kind = "subject"  -> Charged(m, ArmsOf(m, f.node, e, d, o))
         [] f.kind \in {"letBody", "armBody"} -> Charged(m, o)
         [] f.kind \in {"arms", "body"} -> o

Below(m, f, hi) ==
  LET e == EnvUnder(f, hi.env)
      d == LevelBelow(f, hi.depth)
  IN  Level(e, d, Resume(m, f, e, d, hi.out))

IsMap(e) == e = [x \in DOMAIN e |-> e[x]]

(* Through the stack st, the level hi leads to the outcome goal. *)
Leads(m, st, hi, goal) ==
  \E w : /\ w[Len(st)] = hi
         /\ w[0].out = goal
         /\ \A k \in 1 .. Len(st) : w[k - 1] = Below(m, st[k], w[k])
         /\ \A k \in 0 .. Len(st) : IsMap(w[k].env)

LEMMA LeadsHome ==
  ASSUME NEW m, NEW hi, NEW goal
  PROVE  Leads(m, <<>>, hi, goal) <=> IsMap(hi.env) /\ hi.out = goal
<1>1. Len(<<>>) = 0
  BY EmptySeq
<1>2. ASSUME Leads(m, <<>>, hi, goal) PROVE IsMap(hi.env) /\ hi.out = goal
  BY <1>1, <1>2 DEF Leads
<1>3. ASSUME IsMap(hi.env), hi.out = goal PROVE Leads(m, <<>>, hi, goal)
  <2> DEFINE w == [k \in {0} |-> hi]
  <2>1. w[0] = hi /\ 1 .. 0 = {} /\ 0 .. 0 = {0}
    OBVIOUS
  <2> HIDE DEF w
  <2> QED
    BY <1>1, <1>3, <2>1 DEF Leads
<1> QED
  BY <1>2, <1>3

LEMMA LeadsOn ==
  ASSUME NEW m, NEW st, IsSeq(st), NEW t, IsSeq(t), Len(t) = Len(st) + 1,
         \A k \in 1 .. Len(st) : t[k] = st[k],
         NEW hi, NEW goal
  PROVE  Leads(m, t, hi, goal)
           <=> IsMap(hi.env) /\ Leads(m, st, Below(m, t[Len(t)], hi), goal)
<1> DEFINE n == Len(st)
           lo == Below(m, t[n + 1], hi)
<1>1. n \in Nat /\ Len(t) = n + 1 /\ \A k \in 1 .. n : t[k] = st[k]
  BY Domain
<1> HIDE DEF n
<1>2. ASSUME Leads(m, t, hi, goal) PROVE IsMap(hi.env) /\ Leads(m, st, lo, goal)
  <2>1. PICK w : /\ w[n + 1] = hi
                 /\ w[0].out = goal
                 /\ \A k \in 1 .. n + 1 : w[k - 1] = Below(m, t[k], w[k])
                 /\ \A k \in 0 .. n + 1 : IsMap(w[k].env)
    BY <1>1, <1>2 DEF Leads
  <2>2. w[n] = lo /\ IsMap(hi.env)
    <3>1. n + 1 \in 1 .. n + 1 /\ n + 1 \in 0 .. n + 1 /\ (n + 1) - 1 = n
      BY <1>1
    <3> QED
      BY <2>1, <3>1
  <2>3. \A k \in 1 .. n : w[k - 1] = Below(m, st[k], w[k])
    BY <1>1, <2>1
  <2>4. \A k \in 0 .. n : IsMap(w[k].env)
    BY <1>1, <2>1
  <2> HIDE DEF lo
  <2> QED
    BY <2>1, <2>2, <2>3, <2>4 DEF Leads, n
<1>3. ASSUME IsMap(hi.env), Leads(m, st, lo, goal) PROVE Leads(m, t, hi, goal)
  <2>1. PICK w : /\ w[n] = lo
                 /\ w[0].out = goal
                 /\ \A k \in 1 .. n : w[k - 1] = Below(m, st[k], w[k])
                 /\ \A k \in 0 .. n : IsMap(w[k].env)
    BY <1>3 DEF Leads, n
  <2> DEFINE u == [k \in 0 .. n + 1 |-> IF k = n + 1 THEN hi ELSE w[k]]
  <2>2. u[n + 1] = hi /\ \A k \in 0 .. n : u[k] = w[k]
    BY <1>1
  <2> HIDE DEF u
  <2>3. ASSUME NEW k \in 1 .. n + 1 PROVE u[k - 1] = Below(m, t[k], u[k])
    <3>1. CASE k = n + 1
      <4>1. k - 1 = n /\ n \in 0 .. n
        BY <1>1, <3>1
      <4> QED
        BY <2>1, <2>2, <3>1, <4>1
    <3>2. CASE k # n + 1
      <4>1. k \in 1 .. n /\ k \in 0 .. n /\ k - 1 \in 0 .. n
        BY <1>1, <3>2
      <4> QED
        BY <1>1, <2>1, <2>2, <4>1
    <3> QED
      BY <3>1, <3>2
  <2>4. ASSUME NEW k \in 0 .. n + 1 PROVE IsMap(u[k].env)
    <3>1. CASE k = n + 1
      BY <1>3, <2>2, <3>1
    <3>2. CASE k # n + 1
      <4>1. k \in 0 .. n
        BY <1>1, <3>2
      <4> QED
        BY <2>1, <2>2, <4>1
    <3> QED
      BY <3>1, <3>2
  <2>5. u[0].out = goal
    <3>1. 0 \in 0 .. n
      BY <1>1
    <3> QED
      BY <2>1, <2>2, <3>1
  <2> QED
    BY <1>1, <2>2, <2>3, <2>4, <2>5 DEF Leads
<1> QED
  BY <1>1, <1>2, <1>3

(* A frame that is pushed, and the frame on top. *)
LEMMA LeadsPush ==
  ASSUME NEW m, NEW st, IsSeq(st), NEW f, NEW hi, NEW goal
  PROVE  Leads(m, Append(st, f), hi, goal)
           <=> IsMap(hi.env) /\ Leads(m, st, Below(m, f, hi), goal)
<1> DEFINE t == Append(st, f)
<1>1. /\ IsSeq(t) /\ Len(t) = Len(st) + 1
      /\ \A k \in 1 .. Len(st) : t[k] = st[k]
      /\ t[Len(t)] = f
  BY Appended
<1> HIDE DEF t
<1>2. Leads(m, t, hi, goal) <=> IsMap(hi.env) /\ Leads(m, st, Below(m, f, hi), goal)
  BY <1>1, LeadsOn
<1> QED
  BY <1>2 DEF t

LEMMA LeadsPop ==
  ASSUME NEW m, NEW st, IsSeq(st), st # <<>>, NEW hi, NEW goal
  PROVE  Leads(m, st, hi, goal)
           <=> IsMap(hi.env) /\ Leads(m, Front(st), Below(m, Last(st), hi), goal)
<1> DEFINE t == Front(st)
<1>1. /\ IsSeq(t) /\ Len(st) = Len(t) + 1
      /\ \A k \in 1 .. Len(t) : st[k] = t[k]
      /\ Last(st) = st[Len(st)]
  BY FrontOf
<1> HIDE DEF t
<1>2. Leads(m, st, hi, goal) <=> IsMap(hi.env) /\ Leads(m, t, Below(m, Last(st), hi), goal)
  BY <1>1, LeadsOn
<1> QED
  BY <1>2 DEF t

LEMMA FrontAppended ==
  ASSUME NEW st, IsSeq(st), NEW f
  PROVE  Front(Append(st, f)) = st
<1> DEFINE t == Append(st, f)
           u == Front(t)
           S == Range(st) \cup Range(u)
<1>1. /\ IsSeq(t) /\ Len(t) = Len(st) + 1 /\ t # <<>>
      /\ \A i \in 1 .. Len(st) : t[i] = st[i]
  BY Appended
<1> HIDE DEF t
<1>2. /\ IsSeq(u) /\ Len(u) = Len(t) - 1
      /\ \A i \in 1 .. Len(t) - 1 : u[i] = t[i]
  BY <1>1, FrontOf
<1> HIDE DEF u
<1>3. Len(u) = Len(st) /\ \A i \in 1 .. Len(u) : u[i] = st[i]
  BY <1>1, <1>2, Domain
<1>4. u \in Seq(S) /\ st \in Seq(S)
  BY <1>2 DEF IsSeq
<1> HIDE DEF S
<1> QED
  BY <1>3, <1>4, SeqEqual DEF u, t

------------------------------------------------------------------------------
(***************************************************************************)
(* The invariant.                                                          *)
(***************************************************************************)
Machine == MachineOf(call, Program)
Purse   == Budget(steps, mem)
Goal    == RunFunction(Machine, Program[call.entry], <<call.state, call.input>>)

Reaches(st, e, d, o) == Leads(Machine, st, Level(e, d, o), Goal)

(* What the activation of the frame f goes on to, from each control point  *)
(* that works on a frame of its own.                                       *)
FromKids(f, e, d, left) ==
  Charged(Machine, Made(Machine, f.node, d, EvalRest(Machine, f.node.kids, f.vals, e, d, left)))

FromArm(f, e, d, left) ==
  Charged(Machine, ChooseArm(Machine, f.node.arms, f.index, f.val, e, d, left))

FromMatch(f, d, b, m) ==
  Charged(Machine, Chosen(Machine, f.node.arms, f.index, f.val, f.saved, d, m, b))

MatchLeft(todo, f, e, left) == MatchAll(todo, Match(Ok(f.val), TRUE, e, left))

TodoOk(todo) ==
  IsSeq(todo) /\ \A i \in DOMAIN todo : todo[i].pat \in DOMAIN Program.binds

AgreeInv ==
  /\ ctl.at = "call" =>
       Reaches(stack, env, depth, ApplyFn(Machine, ctl.name, ctl.args, depth, Purse))
  /\ ctl.at = "eval" =>
       Reaches(stack, env, depth, EvalIn(Machine, ctl.node, env, depth, Purse))
  /\ ctl.at = "charge" =>
       Reaches(stack, env, depth, Charged(Machine, Outcome(Ok(ctl.val), Purse)))
  /\ ctl.at = "return" => Reaches(stack, env, depth, Outcome(Ok(ctl.val), Purse))
  /\ ctl.at = "error" => ~ctl.err.ok /\ Reaches(stack, env, depth, Outcome(ctl.err, Purse))
  /\ ctl.at = "kids" =>
       Reaches(Front(stack), env, depth, FromKids(Top, env, depth, Purse))
  /\ ctl.at = "arm" =>
       env = Top.saved /\ Reaches(Front(stack), env, depth, FromArm(Top, env, depth, Purse))
  /\ ctl.at = "pattern" =>
       /\ TodoOk(ctl.todo)
       /\ IsMap(env)
       /\ Reaches(Front(stack), Top.saved, depth,
                  FromMatch(Top, depth, MatchLeft(ctl.todo, Top, env, steps), mem))
  /\ ctl.at = "done" =>
       /\ Verdict(ctl.result) = Answer(call.entry, Goal.r)
       /\ steps = Goal.steps /\ mem = Goal.mem

LEMMA MachineHas == Machine.functions = FunctionTable /\ Machine.limits = Limits
BY DEF Machine, MachineOf, FunctionTable, Limits

LEMMA SameGoal ==
  ASSUME call' = call
  PROVE  Machine' = Machine /\ Goal' = Goal /\ Program' = Program
BY DEF Machine, Goal, Program

LEMMA BudgetParts ==
  ASSUME NEW s, NEW m, NEW r
  PROVE  /\ Budget(s, m).steps = s /\ Budget(s, m).mem = m
         /\ Spend(Budget(s, m)) = Budget(s - 1, m)
         /\ Outcome(r, Budget(s, m)).r = r
         /\ Outcome(r, Budget(s, m)).steps = s
         /\ Outcome(r, Budget(s, m)).mem = m
         /\ Left(Outcome(r, Budget(s, m))) = Budget(s, m)
BY DEF Budget, Spend, Outcome, Left

(***************************************************************************)
(* The stack as the invariant sees it.                                     *)
(***************************************************************************)
LEMMA ReachesHome ==
  ASSUME NEW e, NEW d, NEW o
  PROVE  Reaches(<<>>, e, d, o) <=> IsMap(e) /\ o = Goal
BY LeadsHome DEF Reaches, Level

LEMMA ReachesPush ==
  ASSUME NEW st, IsSeq(st), NEW f, NEW e, NEW d, NEW o
  PROVE  Reaches(Append(st, f), e, d, o)
           <=> /\ IsMap(e)
               /\ Reaches(st, EnvUnder(f, e), LevelBelow(f, d),
                          Resume(Machine, f, EnvUnder(f, e), LevelBelow(f, d), o))
BY LeadsPush DEF Reaches, Level, Below

LEMMA ReachesPop ==
  ASSUME NEW st, IsSeq(st), st # <<>>, NEW e, NEW d, NEW o
  PROVE  Reaches(st, e, d, o)
           <=> /\ IsMap(e)
               /\ Reaches(Front(st), EnvUnder(Last(st), e), LevelBelow(Last(st), d),
                          Resume(Machine, Last(st), EnvUnder(Last(st), e),
                                 LevelBelow(Last(st), d), o))
<1> DEFINE f == Last(st)
           t == Front(st)
           hi == Level(e, d, o)
<1>1. Leads(Machine, st, hi, Goal) <=> IsMap(hi.env) /\ Leads(Machine, t, Below(Machine, f, hi), Goal)
  BY LeadsPop
<1> HIDE DEF f, t
<1>2. /\ hi.env = e
      /\ Below(Machine, f, hi) = Level(EnvUnder(f, e), LevelBelow(f, d),
            Resume(Machine, f, EnvUnder(f, e), LevelBelow(f, d), o))
  BY DEF Below, Level
<1> QED
  BY <1>1, <1>2 DEF Reaches, f, t

LEMMA ReachesIsMap ==
  ASSUME NEW st, IsSeq(st), NEW e, NEW d, NEW o, Reaches(st, e, d, o)
  PROVE  IsMap(e)
<1>1. CASE st = <<>>
  BY <1>1, ReachesHome
<1>2. CASE st # <<>>
  BY <1>2, ReachesPop
<1> QED
  BY <1>1, <1>2

------------------------------------------------------------------------------
(***************************************************************************)
(* What each control point asks of a state, for the steps that lead there. *)
(***************************************************************************)
PurseNext == Budget(steps', mem')

LEMMA AgreeAtCall ==
  ASSUME call' = call, NEW f, NEW args, ctl' = CallFn(f, args),
         Reaches(stack', env', depth', ApplyFn(Machine, f, args, depth', PurseNext))
  PROVE  AgreeInv'
BY SameGoal DEF AgreeInv, Reaches, CallFn, Purse, PurseNext

LEMMA AgreeAtEval ==
  ASSUME call' = call, NEW n, ctl' = Eval(n),
         Reaches(stack', env', depth', EvalIn(Machine, n, env', depth', PurseNext))
  PROVE  AgreeInv'
BY SameGoal DEF AgreeInv, Reaches, Eval, Purse, PurseNext

LEMMA AgreeAtCharge ==
  ASSUME call' = call, NEW v, ctl' = ChargeFor(v),
         Reaches(stack', env', depth', Charged(Machine, Outcome(Ok(v), PurseNext)))
  PROVE  AgreeInv'
BY SameGoal DEF AgreeInv, Reaches, ChargeFor, Purse, PurseNext

LEMMA AgreeAtReturn ==
  ASSUME call' = call, NEW v, ctl' = Return(v),
         Reaches(stack', env', depth', Outcome(Ok(v), PurseNext))
  PROVE  AgreeInv'
BY SameGoal DEF AgreeInv, Reaches, Return, Purse, PurseNext

LEMMA AgreeAtError ==
  ASSUME call' = call, NEW e, ctl' = Fail(e), ~e.ok,
         Reaches(stack', env', depth', Outcome(e, PurseNext))
  PROVE  AgreeInv'
BY SameGoal DEF AgreeInv, Reaches, Fail, Purse, PurseNext

LEMMA AgreeAtKids ==
  ASSUME call' = call, ctl' = Kids, NEW st, NEW f, Front(stack') = st, Last(stack') = f,
         Reaches(st, env', depth', FromKids(f, env', depth', PurseNext))
  PROVE  AgreeInv'
BY SameGoal DEF AgreeInv, Reaches, Kids, Purse, PurseNext, FromKids, Top

LEMMA AgreeAtArm ==
  ASSUME call' = call, ctl' = NextArm, NEW st, NEW f, Front(stack') = st, Last(stack') = f,
         env' = f.saved, Reaches(st, env', depth', FromArm(f, env', depth', PurseNext))
  PROVE  AgreeInv'
BY SameGoal DEF AgreeInv, Reaches, NextArm, Purse, PurseNext, FromArm, Top

LEMMA AgreeAtPattern ==
  ASSUME call' = call, NEW todo, ctl'.at = "pattern" /\ ctl'.todo = todo, stack' = stack,
         TodoOk(todo), IsMap(env'),
         Reaches(Front(stack), Top.saved, depth',
                 FromMatch(Top, depth', MatchLeft(todo, Top, env', steps'), mem'))
  PROVE  AgreeInv'
BY SameGoal DEF AgreeInv, Reaches, Matching, FromMatch, MatchLeft, Top, TodoOk

------------------------------------------------------------------------------
(***************************************************************************)
(* BigStep, one step at a time.                                            *)
(***************************************************************************)
LEMMA ChargedError ==
  ASSUME NEW m, NEW o, ~o.r.ok
  PROVE  Charged(m, o) = o
BY DEF Charged

LEMMA ChargedAnyway ==
  ASSUME NEW m, NEW o
  PROVE  (IF ~o.r.ok THEN o ELSE Charged(m, o)) = Charged(m, o)
BY DEF Charged

LEMMA EvalCosts ==
  ASSUME RecursionEquations, NEW m, NEW n, NEW e, NEW d, NEW s, s # 0, NEW b
  PROVE  EvalIn(m, n, e, d, Budget(s, b)) = Charged(m, ValueOf(m, n, e, d, Budget(s - 1, b)))
<1>1. EvalIn(m, n, e, d, Budget(s, b)) = EvalInStep(m, n, e, d, Budget(s, b))
  BY DEF RecursionEquations
<1>2. Spend(Budget(s, b)) = Budget(s - 1, b) /\ Budget(s, b).steps # 0
  BY BudgetParts
<1> QED
  BY <1>1, <1>2 DEF EvalInStep

LEMMA EvalEnds ==
  ASSUME RecursionEquations, NEW m, NEW n, NEW e, NEW d, NEW b
  PROVE  EvalIn(m, n, e, d, Budget(0, b))
           = Outcome(Err("StepLimitExceeded", "steps"), Budget(0, b))
<1>1. EvalIn(m, n, e, d, Budget(0, b)) = EvalInStep(m, n, e, d, Budget(0, b))
  BY DEF RecursionEquations
<1>2. Budget(0, b).steps = 0
  BY BudgetParts
<1> QED
  BY <1>1, <1>2 DEF EvalInStep, Fault

LEMMA RestEnds ==
  ASSUME RecursionEquations, NEW m, NEW ns, NEW vals, NEW e, NEW d, NEW left,
         Len(vals) >= Len(ns)
  PROVE  EvalRest(m, ns, vals, e, d, left) = Outcome(Ok(vals), left)
<1>1. EvalRest(m, ns, vals, e, d, left) = EvalRestStep(m, ns, vals, e, d, left)
  BY DEF RecursionEquations
<1> QED
  BY <1>1 DEF EvalRestStep

LEMMA RestGoesOn ==
  ASSUME RecursionEquations, NEW m, NEW n, NEW vals, NEW e, NEW d, NEW left,
         ~(Len(vals) >= Len(n.kids)), NEW o,
         o = EvalIn(m, n.kids[Len(vals) + 1], e, d, left)
  PROVE  Charged(m, Made(m, n, d, EvalRest(m, n.kids, vals, e, d, left)))
           = Resume(m, KidsFrame(n, vals), e, d, o)
<1> DEFINE f == KidsFrame(n, vals)
           rest == EvalRest(m, n.kids, Append(vals, o.r.val), e, d, Left(o))
<1>1. EvalRest(m, n.kids, vals, e, d, left) = IF o.r.ok THEN rest ELSE o
  <2>1. EvalRest(m, n.kids, vals, e, d, left) = EvalRestStep(m, n.kids, vals, e, d, left)
    BY DEF RecursionEquations
  <2> QED
    BY <2>1 DEF EvalRestStep
<1>2. f.kind = "kids" /\ f.node = n /\ f.vals = vals /\ ~AllKidsDone(f)
  BY DEF KidsFrame, AllKidsDone
<1> HIDE DEF f
<1>3. CASE o.r.ok
  <2>1. Resume(m, f, e, d, o) = Charged(m, Made(m, n, d, rest))
    BY <1>2, <1>3 DEF Resume
  <2> QED
    BY <1>1, <1>3, <2>1 DEF f
<1>4. CASE ~o.r.ok
  <2>1. Resume(m, f, e, d, o) = o
    BY <1>4 DEF Resume
  <2>2. Made(m, n, d, o) = o
    BY <1>4 DEF Made
  <2> QED
    BY <1>1, <1>4, <2>1, <2>2, ChargedError DEF f
<1> QED
  BY <1>3, <1>4

LEMMA ArmTried ==
  ASSUME RecursionEquations, NEW m, NEW arms, NEW i, NEW v, NEW e, NEW d, NEW s, NEW b,
         i <= Len(arms), NEW todo, todo = <<[pat |-> arms[i].pat, src |-> {v}]>>
  PROVE  ChooseArm(m, arms, i, v, e, d, Budget(s, b))
           = Chosen(m, arms, i, v, e, d, b, MatchAll(todo, Match(Ok(v), TRUE, e, s)))
<1> DEFINE entry == [pat |-> arms[i].pat, src |-> {v}]
           b0 == Match(Ok(v), TRUE, e, s)
           b1 == Bindings(arms[i].pat, v, b0)
<1>1. ChooseArm(m, arms, i, v, e, d, Budget(s, b))
        = ChooseArmStep(m, arms, i, v, e, d, Budget(s, b))
  BY DEF RecursionEquations
<1>2. ChooseArm(m, arms, i, v, e, d, Budget(s, b)) = Chosen(m, arms, i, v, e, d, b, b1)
  <2> DEFINE left == Budget(s, b)
  <2>1. left.steps = s /\ left.mem = b
    BY DEF Budget
  <2>2. ChooseArm(m, arms, i, v, e, d, left) = ChooseArmStep(m, arms, i, v, e, d, left)
    BY <1>1
  <2> HIDE DEF left
  <2> QED
    BY <2>1, <2>2 DEF ChooseArmStep, left
<1>3. FirstMatched(entry, b0) = b1
  <2>1. entry.src = {v} /\ entry.pat = arms[i].pat /\ (CHOOSE x \in {v} : TRUE) = v /\ {v} # {}
    OBVIOUS
  <2> HIDE DEF entry
  <2> QED
    BY <2>1 DEF FirstMatched
<1>4. <<entry>> # <<>> /\ Head(<<entry>>) = entry /\ Tail(<<entry>>) = <<>>
  <2> HIDE DEF entry
  <2> QED
    OBVIOUS
<1>5. b0.hit /\ b0.r.ok
  BY DEF Match, Ok
<1> HIDE DEF entry, b0, b1
<1>6. MatchAll(<<entry>>, b0) = MatchAll(<<>>, b1)
  BY <1>3, <1>4, <1>5, MatchedFirst
<1>7. MatchAll(<<>>, b1) = b1
  BY MatchedAll
<1> QED
  BY <1>2, <1>6, <1>7 DEF entry, b0

LEMMA ArmsEnd ==
  ASSUME RecursionEquations, NEW m, NEW arms, NEW i, NEW v, NEW e, NEW d, NEW left,
         ~(i <= Len(arms))
  PROVE  ChooseArm(m, arms, i, v, e, d, left) = Outcome(Err("Trap", "non_exhaustive_match"), left)
<1>1. ChooseArm(m, arms, i, v, e, d, left) = ChooseArmStep(m, arms, i, v, e, d, left)
  BY DEF RecursionEquations
<1> QED
  BY <1>1 DEF ChooseArmStep, Fault

------------------------------------------------------------------------------
(***************************************************************************)
(* What the invariant says where a pattern is next.                        *)
(***************************************************************************)
Entered == Match(Ok(Top.val), TRUE, env, steps)

(* The first of a list of patterns of the program, and the others. *)
LEMMA TodoParts ==
  ASSUME NEW todo, TodoOk(todo), todo # <<>>
  PROVE  TodoOk(Tail(todo)) /\ Head(todo).pat \in DOMAIN Program.binds
<1> DEFINE t == Tail(todo)
           h == Head(todo)
<1>1. /\ IsSeq(t) /\ 1 \in DOMAIN todo /\ h = todo[1]
      /\ \A i \in DOMAIN t : i + 1 \in DOMAIN todo /\ t[i] = todo[i + 1]
  BY Shortened DEF TodoOk
<1> HIDE DEF t, h
<1>2. TodoOk(t) /\ h.pat \in DOMAIN Program.binds
  BY <1>1 DEF TodoOk
<1> QED
  BY <1>2 DEF t, h

LEMMA PatternStep ==
  ASSUME RecursionEquations, Shape, AgreeInv, ctl.at = "pattern", ctl.todo # <<>>,
         NEW b, b = FirstMatched(Head(ctl.todo), Entered)
  PROVE  /\ TopIs("arms") /\ IsMap(env)
         /\ TodoOk(Tail(ctl.todo)) /\ Head(ctl.todo).pat \in DOMAIN Program.binds
         /\ Reaches(Front(stack), Top.saved, depth,
                    FromMatch(Top, depth, MatchAll(Tail(ctl.todo), b), mem))
<1>1. /\ TopIs("arms") /\ IsMap(env) /\ TodoOk(ctl.todo)
      /\ Reaches(Front(stack), Top.saved, depth,
                 FromMatch(Top, depth, MatchLeft(ctl.todo, Top, env, steps), mem))
  BY DEF Shape, AgreeInv
<1>2. MatchLeft(ctl.todo, Top, env, steps) = MatchAll(Tail(ctl.todo), b)
  <2>1. Entered.hit /\ Entered.r.ok
    BY DEF Entered, Match, Ok
  <2>2. MatchAll(ctl.todo, Entered) = MatchAll(Tail(ctl.todo), b)
    BY <2>1, MatchedFirst
  <2> QED
    BY <2>2 DEF MatchLeft, Entered
<1>3. TodoOk(Tail(ctl.todo)) /\ Head(ctl.todo).pat \in DOMAIN Program.binds
  BY <1>1, TodoParts
<1> QED
  BY <1>1, <1>2, <1>3

(* An error among the arms of a match leaves the clone behind. *)
LEMMA ArmsFail ==
  ASSUME Shape, TopIs("arms"), IsMap(env), NEW o, ~o.r.ok,
         Reaches(Front(stack), Top.saved, depth, o)
  PROVE  Reaches(stack, env, depth, o)
<1>1. /\ EnvUnder(Top, env) = Top.saved /\ LevelBelow(Top, depth) = depth
      /\ Resume(Machine, Top, Top.saved, depth, o) = o
  BY DEF TopIs, EnvUnder, LevelBelow, Resume
<1>2. IsSeq(stack) /\ stack # <<>> /\ Last(stack) = Top
  BY DEF Shape, TopIs, Top
<1> QED
  BY <1>1, <1>2, ReachesPop

LEMMA PatternFails ==
  ASSUME RecursionEquations, Shape, AgreeInv, ctl.at = "pattern", ctl.todo # <<>>,
         NEW e, ~e.ok, NEW s, FirstMatched(Head(ctl.todo), Entered) = Match(e, TRUE, env, s)
  PROVE  Reaches(stack, env, depth, Outcome(e, Budget(s, mem)))
<1> DEFINE b == Match(e, TRUE, env, s)
           o == Outcome(e, Budget(s, mem))
<1>1. b.r = e /\ b.steps = s /\ o.r = e
  BY DEF Match, Outcome
<1>2. /\ TopIs("arms") /\ IsMap(env)
      /\ Reaches(Front(stack), Top.saved, depth,
                 FromMatch(Top, depth, MatchAll(Tail(ctl.todo), b), mem))
  BY PatternStep
<1>3. FromMatch(Top, depth, b, mem) = o
  <2> HIDE DEF b
  <2>1. Chosen(Machine, Top.node.arms, Top.index, Top.val, Top.saved, depth, mem, b) = o
    BY <1>1 DEF Chosen
  <2> HIDE DEF o
  <2> QED
    BY <1>1, <2>1, ChargedError DEF FromMatch
<1>4. MatchAll(Tail(ctl.todo), b) = b
  BY <1>1, MatchedAll
<1> HIDE DEF b, o
<1> QED
  BY <1>1, <1>2, <1>3, <1>4, ArmsFail DEF o

(* The step of the pattern that is next. *)
LEMMA PatternTaken ==
  ASSUME Shape, NextPattern.src # {}, ConsumeStep, NEW b,
         b = FirstMatched(Head(ctl.todo), Entered)
  PROVE  /\ steps' = steps - 1 /\ NextPattern = Head(ctl.todo)
         /\ b = Bindings(NextPattern.pat, PatternSource, Entered)
         /\ Entered.steps # 0 /\ Entered.steps = steps
         /\ Entered.r = Ok(Top.val) /\ Entered.hit = TRUE /\ Entered.env = env
<1>1. steps \in Nat /\ steps > 0 /\ steps' = steps - 1
  BY DEF Shape, ConsumeStep
<1>2. /\ Entered.steps = steps /\ Entered.r = Ok(Top.val)
      /\ Entered.hit = TRUE /\ Entered.env = env
  BY DEF Entered, Match
<1>3. b = Bindings(NextPattern.pat, PatternSource, Entered)
  BY DEF FirstMatched, NextPattern, PatternSource
<1> QED
  BY <1>1, <1>2, <1>3 DEF NextPattern

------------------------------------------------------------------------------
(***************************************************************************)
(* The steps of the evaluator keep the invariant: call_function.           *)
(***************************************************************************)
LEMMA AgreeOutOfSteps ==
  ASSUME RecursionEquations, Shape, AgreeInv, OutOfSteps
  PROVE  AgreeInv'
<1> DEFINE e == Err("StepLimitExceeded", "steps")
           o == Outcome(e, Purse)
<1>1. /\ ConsumesStep /\ steps = 0 /\ ctl' = Fail(e)
      /\ call' = call /\ stack' = stack /\ env' = env /\ steps' = steps
      /\ depth' = depth /\ mem' = mem
  BY DEF OutOfSteps
<1>2. ~e.ok /\ Purse = Budget(0, mem) /\ Purse.steps = 0 /\ PurseNext = Purse
  BY <1>1 DEF Err, Purse, Budget, PurseNext
<1>3. CASE ctl.at = "call"
  <2>1. ApplyFn(Machine, ctl.name, ctl.args, depth, Purse) = o
    BY <1>2 DEF ApplyFn, Fault
  <2> QED
    BY <1>1, <1>2, <1>3, <2>1, AgreeAtError DEF AgreeInv
<1>4. CASE ctl.at = "eval"
  <2>1. EvalIn(Machine, ctl.node, env, depth, Purse) = o
    BY <1>2, EvalEnds
  <2> QED
    BY <1>1, <1>2, <1>4, <2>1, AgreeAtError DEF AgreeInv
<1>5. CASE ctl.at = "pattern" /\ ctl.todo # <<>> /\ Head(ctl.todo).src # {}
  <2>1. Entered.steps = 0 /\ Entered.hit = TRUE /\ Entered.env = env
    BY <1>1 DEF Entered, Match
  <2>2. FirstMatched(Head(ctl.todo), Entered) = Match(e, TRUE, env, 0)
    BY <1>5, <2>1 DEF FirstMatched, Bindings
  <2>3. Reaches(stack, env, depth, o)
    BY <1>2, <1>5, <2>2, PatternFails
  <2> QED
    BY <1>1, <1>2, <2>3, AgreeAtError
<1> QED
  BY <1>1, <1>3, <1>4, <1>5 DEF ConsumesStep

LEMMA AgreeEnterFunction ==
  ASSUME Shape, NestInv, AgreeInv, EnterFunction
  PROVE  AgreeInv'
<1> DEFINE body == FunctionTable[ctl.name].body
           e    == InsertAll(FunctionTable[ctl.name].params, ctl.args)
           f    == BodyFrame(env)
           o    == EvalIn(Machine, body, e, depth + 1, Budget(steps - 1, mem))
<1>1. /\ ctl.at = "call" /\ steps' = steps - 1 /\ steps # 0
      /\ ~(depth >= Limits.max_recursion_depth) /\ ctl.name \in DOMAIN FunctionTable
      /\ Len(ctl.args) = Len(FunctionTable[ctl.name].params)
      /\ depth' = depth + 1 /\ env' = e /\ stack' = Append(stack, f)
      /\ ctl' = Eval(body) /\ call' = call /\ mem' = mem
  BY DEF EnterFunction, ConsumeStep, Shape, DepthExceeded, Arity, Push
<1>2. Purse.steps = steps /\ Spend(Purse) = Budget(steps - 1, mem)
  BY DEF Purse, Budget, Spend
<1>3. ApplyFn(Machine, ctl.name, ctl.args, depth, Purse) = o
  BY <1>1, <1>2, MachineHas DEF ApplyFn
<1>4. IsMap(e)
  BY DEF IsMap, InsertAll
<1>5. f.kind = "body" /\ f.saved = env
  BY DEF BodyFrame
<1> HIDE DEF f, e, body, o
<1>6. /\ EnvUnder(f, e) = env /\ LevelBelow(f, depth + 1) = depth
      /\ Resume(Machine, f, env, depth, o) = o
  BY <1>5 DEF EnvUnder, LevelBelow, Resume, NestInv
<1>7. Reaches(stack, env, depth, o)
  BY <1>1, <1>3 DEF AgreeInv
<1>8. Reaches(Append(stack, f), e, depth + 1, o)
  BY <1>4, <1>6, <1>7, ReachesPush DEF Shape
<1>9. o = EvalIn(Machine, body, env', depth', PurseNext)
  BY <1>1 DEF o, PurseNext
<1> QED
  BY <1>1, <1>8, <1>9, AgreeAtEval

LEMMA AgreeRefuseCall ==
  ASSUME Shape, AgreeInv, RefuseCall
  PROVE  AgreeInv'
<1>1. /\ ctl.at = "call" /\ steps' = steps - 1 /\ steps # 0
      /\ call' = call /\ stack' = stack /\ env' = env /\ depth' = depth /\ mem' = mem
  BY DEF RefuseCall, ConsumeStep, Shape
<1>2. Purse.steps = steps /\ Spend(Purse) = PurseNext
  BY <1>1 DEF Purse, Budget, Spend, PurseNext
<1>3. ASSUME NEW e, ~e.ok, ctl' = Fail(e),
             ApplyFn(Machine, ctl.name, ctl.args, depth, Purse) = Outcome(e, Spend(Purse))
      PROVE  AgreeInv'
  BY <1>1, <1>2, <1>3, AgreeAtError DEF AgreeInv
<1>4. CASE DepthExceeded /\ ctl' = Fail(DepthError)
  <2>1. ~DepthError.ok
    BY DEF DepthError, Err
  <2>2. ApplyFn(Machine, ctl.name, ctl.args, depth, Purse) = Outcome(DepthError, Spend(Purse))
    BY <1>1, <1>2, <1>4, MachineHas DEF ApplyFn, Fault, DepthExceeded, DepthError
  <2> QED
    BY <1>3, <1>4, <2>1, <2>2
<1>5. CASE /\ ~DepthExceeded /\ ctl.name \notin DOMAIN FunctionTable
           /\ ctl' = Fail(Err("Trap", "unknown_function"))
  <2> DEFINE e == Err("Trap", "unknown_function")
  <2>1. ~e.ok
    BY DEF Err
  <2>2. ApplyFn(Machine, ctl.name, ctl.args, depth, Purse) = Outcome(e, Spend(Purse))
    BY <1>1, <1>2, <1>5, MachineHas DEF ApplyFn, Fault, DepthExceeded
  <2> QED
    BY <1>3, <1>5, <2>1, <2>2
<1>6. CASE /\ ~DepthExceeded /\ ctl.name \in DOMAIN FunctionTable
           /\ Len(ctl.args) # Arity(ctl.name) /\ ctl' = Fail(Err("Trap", "arity"))
  <2> DEFINE e == Err("Trap", "arity")
  <2>1. ~e.ok
    BY DEF Err
  <2>2. ApplyFn(Machine, ctl.name, ctl.args, depth, Purse) = Outcome(e, Spend(Purse))
    BY <1>1, <1>2, <1>6, MachineHas DEF ApplyFn, Fault, DepthExceeded, Arity
  <2> QED
    BY <1>3, <1>6, <2>1, <2>2
<1> QED
  BY <1>4, <1>5, <1>6 DEF RefuseCall

(* A frame is popped on the way back, with a value or with an error. *)
LEMMA Popped ==
  ASSUME Shape, stack # <<>>, NEW o, Reaches(stack, env, depth, o),
         NEW e, EnvUnder(Top, env) = e, NEW d, LevelBelow(Top, depth) = d,
         NEW p, Resume(Machine, Top, e, d, o) = p
  PROVE  Reaches(Front(stack), e, d, p)
BY ReachesPop DEF Shape, Top

LEMMA AgreeReturnFromFunction ==
  ASSUME Shape, AgreeInv, ReturnFromFunction
  PROVE  AgreeInv'
<1> DEFINE o == Outcome(Ok(ctl.val), Purse)
<1>1. /\ ctl.at = "return" /\ stack # <<>> /\ Top.kind = "body"
      /\ env' = Top.saved /\ depth' = depth - 1 /\ stack' = Front(stack)
      /\ call' = call /\ ctl' = ctl /\ steps' = steps /\ mem' = mem
  BY DEF ReturnFromFunction, TopIs, SavedEnv, Pop
<1>2. Reaches(stack, env, depth, o) /\ PurseNext = Purse
  BY <1>1 DEF AgreeInv, Purse, PurseNext
<1>3. /\ EnvUnder(Top, env) = Top.saved /\ LevelBelow(Top, depth) = depth - 1
      /\ Resume(Machine, Top, Top.saved, depth - 1, o) = o
  BY <1>1 DEF EnvUnder, LevelBelow, Resume
<1> HIDE DEF o
<1>4. Reaches(stack', env', depth', o)
  BY <1>1, <1>2, <1>3, Popped
<1> QED
  BY <1>1, <1>2, <1>4, SameGoal DEF o, AgreeInv, Reaches, Purse, PurseNext

------------------------------------------------------------------------------
(***************************************************************************)
(* eval_expr.                                                              *)
(***************************************************************************)
LEMMA AgreeEvaluating ==
  ASSUME RecursionEquations, Shape, AgreeInv, ctl.at = "eval", ConsumeStep, mem' = mem
  PROVE  /\ Reaches(stack, env, depth,
                    Charged(Machine, ValueOf(Machine, ctl.node, env, depth, PurseNext)))
         /\ IsSeq(stack) /\ IsMap(env)
<1>1. steps # 0 /\ Purse = Budget(steps, mem) /\ PurseNext = Budget(steps - 1, mem)
  BY DEF Shape, ConsumeStep, Purse, PurseNext
<1>2. EvalIn(Machine, ctl.node, env, depth, Purse)
        = Charged(Machine, ValueOf(Machine, ctl.node, env, depth, PurseNext))
  BY <1>1, EvalCosts
<1>3. Reaches(stack, env, depth, EvalIn(Machine, ctl.node, env, depth, Purse)) /\ IsSeq(stack)
  BY DEF AgreeInv, Shape
<1> QED
  BY <1>2, <1>3, ReachesIsMap

LEMMA AgreeEvalLeaf ==
  ASSUME RecursionEquations, Shape, AgreeInv, EvalLeaf
  PROVE  AgreeInv'
<1>1. PICK v \in LeafValue(ctl.node) : ctl' = ChargeFor(v)
  BY DEF EvalLeaf
<1>2. /\ ctl.at = "eval" /\ IsLeaf(ctl.node) /\ ConsumeStep
      /\ call' = call /\ stack' = stack /\ env' = env /\ depth' = depth /\ mem' = mem
  BY DEF EvalLeaf
<1>3. ValueOf(Machine, ctl.node, env, depth, PurseNext) = Outcome(Ok(v), PurseNext)
  BY <1>1, <1>2 DEF ValueOf, IsLeaf, LeafValue, Lookup
<1> QED
  BY <1>1, <1>2, <1>3, AgreeEvaluating, AgreeAtCharge

LEMMA AgreeEvalUnknownLocal ==
  ASSUME RecursionEquations, Shape, AgreeInv, EvalUnknownLocal
  PROVE  AgreeInv'
<1> DEFINE e == Err("Trap", "unknown_local")
           o == Outcome(e, PurseNext)
<1>1. /\ ctl.at = "eval" /\ IsLeaf(ctl.node) /\ ConsumeStep /\ LeafValue(ctl.node) = {}
      /\ call' = call /\ stack' = stack /\ env' = env /\ depth' = depth /\ mem' = mem
      /\ ctl' = Fail(e)
  BY DEF EvalUnknownLocal
<1>2. ~e.ok /\ o.r = e
  BY DEF Err, Outcome
<1>3. ctl.node.kind = "LocalRef" /\ ctl.node.name \notin DOMAIN env
  BY <1>1 DEF IsLeaf, LeafValue, Lookup
<1>4. ValueOf(Machine, ctl.node, env, depth, PurseNext) = o
  BY <1>3 DEF ValueOf, Fault
<1>5. Charged(Machine, o) = o
  BY <1>2, ChargedError
<1>6. Reaches(stack, env, depth, o)
  BY <1>1, <1>4, <1>5, AgreeEvaluating
<1> QED
  BY <1>1, <1>2, <1>6, AgreeAtError

LEMMA AgreeEvalKids ==
  ASSUME RecursionEquations, Shape, AgreeInv, EvalKids
  PROVE  AgreeInv'
<1> DEFINE f == KidsFrame(ctl.node, <<>>)
<1>1. /\ ctl.at = "eval" /\ HasKids(ctl.node) /\ ConsumeStep /\ ctl' = Kids
      /\ call' = call /\ stack' = Append(stack, f) /\ env' = env /\ depth' = depth /\ mem' = mem
  BY DEF EvalKids, Push
<1>2. f.node = ctl.node /\ f.vals = <<>>
  BY DEF KidsFrame
<1>3. ValueOf(Machine, ctl.node, env, depth, PurseNext)
        = Made(Machine, ctl.node, depth,
               EvalRest(Machine, ctl.node.kids, <<>>, env, depth, PurseNext))
  BY <1>1 DEF ValueOf, HasKids
<1> HIDE DEF f
<1>4. Reaches(stack, env, depth, FromKids(f, env, depth, PurseNext)) /\ IsSeq(stack)
  BY <1>1, <1>2, <1>3, AgreeEvaluating DEF FromKids
<1>5. Front(stack') = stack /\ Last(stack') = f
  BY <1>1, <1>4, FrontAppended, Appended
<1> QED
  BY <1>1, <1>4, <1>5, AgreeAtKids

(* What is known of a frame that waits for sub-expressions. *)
LEMMA KidsOnTop ==
  ASSUME Shape, NestInv, TopIs("kids")
  PROVE  /\ IsSeq(stack) /\ stack # <<>> /\ Last(stack) = Top /\ Top.kind = "kids"
         /\ HasKids(Top.node) /\ IsSeq(Top.vals)
         /\ EnvUnder(Top, env) = env /\ LevelBelow(Top, depth) = depth
<1>1. IsSeq(stack) /\ stack # <<>> /\ Last(stack) = Top /\ Top.kind = "kids"
  BY DEF Shape, TopIs, Top
<1>2. HasKids(Top.node) /\ IsSeq(Top.vals)
  BY <1>1, TopNests DEF FrameNests
<1> QED
  BY <1>1, <1>2 DEF EnvUnder, LevelBelow

LEMMA AgreeNextKid ==
  ASSUME RecursionEquations, Shape, NestInv, AgreeInv, NextKid
  PROVE  AgreeInv'
<1> DEFINE n == Top.node
           kid == n.kids[Len(Top.vals) + 1]
           o == EvalIn(Machine, kid, env, depth, Purse)
<1>1. /\ ctl.at = "kids" /\ ~AllKidsDone(Top) /\ ctl' = Eval(kid)
      /\ UNCHANGED <<call, stack, env, steps, depth, mem>>
  BY DEF NextKid
<1>2. /\ TopIs("kids") /\ ~(Len(Top.vals) >= Len(n.kids))
      /\ Reaches(Front(stack), env, depth, FromKids(Top, env, depth, Purse))
  BY <1>1 DEF Shape, AgreeInv, AllKidsDone
<1>3. FromKids(Top, env, depth, Purse) = Resume(Machine, KidsFrame(n, Top.vals), env, depth, o)
  BY <1>2, RestGoesOn DEF FromKids
<1>4. Resume(Machine, KidsFrame(n, Top.vals), env, depth, o)
        = Resume(Machine, Top, env, depth, o)
  BY <1>2 DEF Resume, KidsFrame, TopIs, AllKidsDone
<1>5. IsMap(env)
  BY <1>2, KidsOnTop, ReachesIsMap, FrontOf
<1> HIDE DEF o
<1>6. Reaches(stack, env, depth, o)
  BY <1>2, <1>3, <1>4, <1>5, KidsOnTop, ReachesPop
<1>7. PurseNext = Purse
  BY <1>1 DEF Purse, PurseNext
<1> QED
  BY <1>1, <1>6, <1>7, AgreeAtEval DEF o

LEMMA AgreeReturnToKids ==
  ASSUME Shape, NestInv, AgreeInv, ReturnToKids
  PROVE  AgreeInv'
<1> DEFINE o == Outcome(Ok(ctl.val), Purse)
           f == KidsFrame(Top.node, Append(Top.vals, ctl.val))
<1>1. /\ ctl.at = "return" /\ TopIs("kids") /\ ~AllKidsDone(Top) /\ ctl' = Kids
      /\ stack' = Append(Front(stack), f)
      /\ UNCHANGED <<call, env, steps, depth, mem>>
  BY DEF ReturnToKids, Replace
<1>2. Reaches(stack, env, depth, o) /\ PurseNext = Purse
  BY <1>1 DEF AgreeInv, Purse, PurseNext
<1>3. o.r = Ok(ctl.val) /\ o.r.ok /\ o.r.val = ctl.val /\ Left(o) = Purse
  BY DEF Ok, Outcome, Purse, Budget, Left
<1> HIDE DEF o
<1>4. f.node = Top.node /\ f.vals = Append(Top.vals, ctl.val)
  BY DEF KidsFrame
<1>5. Resume(Machine, Top, env, depth, o) = FromKids(f, env, depth, Purse)
  BY <1>1, <1>3, <1>4 DEF Resume, FromKids, TopIs
<1> HIDE DEF f
<1>6. Reaches(Front(stack), env, depth, FromKids(f, env, depth, Purse))
  BY <1>1, <1>2, <1>5, KidsOnTop, Popped
<1>7. Front(stack') = Front(stack) /\ Last(stack') = f
  BY <1>1, KidsOnTop, FrontOf, FrontAppended, Appended
<1> QED
  BY <1>1, <1>2, <1>6, <1>7, AgreeAtKids

LEMMA AgreeBuildValue ==
  ASSUME RecursionEquations, Shape, NestInv, AgreeInv, BuildValue
  PROVE  AgreeInv'
<1> DEFINE n == Top.node
           r == Built(n, Top.vals)
           o == Outcome(Ok(Top.vals), Purse)
<1>1. /\ ctl.at = "kids" /\ AllKidsDone(Top) /\ n.kind # "Call"
      /\ ctl' = IF r.ok THEN ChargeFor(r.val) ELSE Fail(r)
      /\ stack' = Front(stack) /\ UNCHANGED <<call, env, steps, depth, mem>>
  BY DEF BuildValue, Pop
<1>2. /\ TopIs("kids") /\ Len(Top.vals) >= Len(n.kids) /\ HasKids(n)
      /\ Reaches(Front(stack), env, depth, FromKids(Top, env, depth, Purse))
  BY <1>1, KidsOnTop DEF Shape, AgreeInv, AllKidsDone
<1>3. EvalRest(Machine, n.kids, Top.vals, env, depth, Purse) = o
  BY <1>2, RestEnds
<1>4. o.r.ok /\ o.r.val = Top.vals /\ Left(o) = Purse
  BY DEF Ok, Outcome, Purse, Budget, Left
<1> HIDE DEF o
<1>5. Made(Machine, n, depth, o) = Outcome(r, Purse)
  BY <1>1, <1>2, <1>4 DEF Made, Built, HasKids, Ok
<1>6. FromKids(Top, env, depth, Purse) = Charged(Machine, Outcome(r, Purse))
  BY <1>3, <1>5 DEF FromKids
<1>7. PurseNext = Purse
  BY <1>1 DEF Purse, PurseNext
<1>8. CASE r.ok
  <2>1. r = Ok(r.val)
    <3>1. \A i : Checked(i).ok => Checked(i) = Ok(Checked(i).val)
      BY DEF Checked, Ok, Err
    <3>2. \A op, a, b : op \in {"Add", "Sub", "Mul", "Div"} /\ EvalBinary(op, a, b).ok
                          => EvalBinary(op, a, b) = Ok(EvalBinary(op, a, b).val)
      BY <3>1 DEF EvalBinary, Err
    <3>3. n.kind = "Binary" => n.op \in {"Add", "Sub", "Mul", "Div"}
      BY <1>2, TopNests, ProgramNests, PartsFit DEF TopIs, FrameNests, IrShape
    <3>4. n.kind \in {"Tuple", "List", "Record", "Binary"}
      BY <1>1, <1>2 DEF HasKids
    <3>5. CASE n.kind = "Binary"
      BY <1>8, <3>2, <3>3, <3>5 DEF Built
    <3>6. CASE n.kind \in {"Tuple", "List", "Record"}
      BY <3>6 DEF Built, Ok
    <3> QED
      BY <3>4, <3>5, <3>6
  <2> HIDE DEF r
  <2> QED
    BY <1>1, <1>2, <1>6, <1>7, <1>8, <2>1, AgreeAtCharge
<1>9. CASE ~r.ok
  <2> HIDE DEF r
  <2>1. Charged(Machine, Outcome(r, Purse)) = Outcome(r, Purse)
    <3>1. Outcome(r, Purse).r = r
      BY DEF Outcome
    <3> QED
      BY <1>9, <3>1, ChargedError
  <2> QED
    BY <1>1, <1>2, <1>6, <1>7, <1>9, <2>1, AgreeAtError
<1> QED
  BY <1>8, <1>9

LEMMA AgreeBuildCall ==
  ASSUME RecursionEquations, Shape, NestInv, AgreeInv, BuildCall
  PROVE  AgreeInv'
<1> DEFINE n == Top.node
           o == Outcome(Ok(Top.vals), Purse)
           p == ApplyFn(Machine, n.callee, Top.vals, depth, Purse)
<1>1. /\ ctl.at = "kids" /\ AllKidsDone(Top) /\ n.kind = "Call"
      /\ ctl' = CallFn(n.callee, Top.vals)
      /\ UNCHANGED <<call, stack, env, steps, depth, mem>>
  BY DEF BuildCall
<1>2. /\ TopIs("kids") /\ Len(Top.vals) >= Len(n.kids)
      /\ Reaches(Front(stack), env, depth, FromKids(Top, env, depth, Purse))
  BY <1>1 DEF Shape, AgreeInv, AllKidsDone
<1>3. EvalRest(Machine, n.kids, Top.vals, env, depth, Purse) = o
  BY <1>2, RestEnds
<1>4. o.r.ok /\ o.r.val = Top.vals /\ Left(o) = Purse
  BY DEF Ok, Outcome, Purse, Budget, Left
<1> HIDE DEF o
<1>5. Made(Machine, n, depth, o) = p
  BY <1>1, <1>4 DEF Made
<1> HIDE DEF p
<1>6. FromKids(Top, env, depth, Purse) = Charged(Machine, p)
  BY <1>3, <1>5 DEF FromKids
<1>7. Resume(Machine, Top, env, depth, p) = Charged(Machine, p)
  BY <1>1, <1>2, ChargedAnyway DEF Resume, TopIs
<1>8. IsMap(env)
  BY <1>2, KidsOnTop, ReachesIsMap, FrontOf
<1>9. Reaches(stack, env, depth, p)
  BY <1>2, <1>6, <1>7, <1>8, KidsOnTop, ReachesPop
<1>10. PurseNext = Purse
  BY <1>1 DEF Purse, PurseNext
<1> QED
  BY <1>1, <1>9, <1>10, AgreeAtCall DEF p

LEMMA AgreeReturnToCall ==
  ASSUME Shape, NestInv, AgreeInv, ReturnToCall
  PROVE  AgreeInv'
<1> DEFINE o == Outcome(Ok(ctl.val), Purse)
<1>1. /\ ctl.at = "return" /\ TopIs("kids") /\ AllKidsDone(Top)
      /\ ctl' = ChargeFor(ctl.val) /\ stack' = Front(stack)
      /\ UNCHANGED <<call, env, steps, depth, mem>>
  BY DEF ReturnToCall, Pop
<1>2. Reaches(stack, env, depth, o) /\ PurseNext = Purse
  BY <1>1 DEF AgreeInv, Purse, PurseNext
<1>3. o.r.ok
  BY DEF Ok, Outcome
<1> HIDE DEF o
<1>4. Resume(Machine, Top, env, depth, o) = Charged(Machine, o)
  BY <1>1, <1>3 DEF Resume, TopIs
<1>5. Reaches(Front(stack), env, depth, Charged(Machine, o))
  BY <1>1, <1>2, <1>4, KidsOnTop, Popped
<1> QED
  BY <1>1, <1>2, <1>5, AgreeAtCharge DEF o

------------------------------------------------------------------------------
(***************************************************************************)
(* eval_expr: Let.  What is put back is the environment that the Let saw.  *)
(***************************************************************************)
LEMMA AgreeEvalLet ==
  ASSUME RecursionEquations, Shape, AgreeInv, EvalLet
  PROVE  AgreeInv'
<1> DEFINE n == ctl.node
           f == LetValueFrame(n)
           o == EvalIn(Machine, n.value, env, depth, PurseNext)
<1>1. /\ ctl.at = "eval" /\ n.kind = "Let" /\ ConsumeStep /\ ctl' = Eval(n.value)
      /\ call' = call /\ stack' = Append(stack, f) /\ env' = env /\ depth' = depth /\ mem' = mem
  BY DEF EvalLet, Push
<1>2. f.kind = "letValue" /\ f.node = n
  BY DEF LetValueFrame
<1> HIDE DEF o
<1>3. ValueOf(Machine, n, env, depth, PurseNext) = BodyOf(Machine, n, env, depth, o)
  BY <1>1 DEF ValueOf, o
<1>4. Reaches(stack, env, depth, Charged(Machine, BodyOf(Machine, n, env, depth, o)))
      /\ IsSeq(stack) /\ IsMap(env)
  BY <1>1, <1>3, AgreeEvaluating
<1> HIDE DEF f
<1>5. EnvUnder(f, env) = env /\ LevelBelow(f, depth) = depth
  BY <1>2 DEF EnvUnder, LevelBelow
<1>6. Resume(Machine, f, env, depth, o) = Charged(Machine, BodyOf(Machine, n, env, depth, o))
  <2>1. ~o.r.ok => BodyOf(Machine, n, env, depth, o) = o
    BY DEF BodyOf
  <2>2. ~o.r.ok => Charged(Machine, o) = o
    BY ChargedError
  <2> QED
    BY <1>2, <2>1, <2>2 DEF Resume
<1>7. Reaches(Append(stack, f), env, depth, o)
  BY <1>4, <1>5, <1>6, ReachesPush
<1> QED
  BY <1>1, <1>7, AgreeAtEval DEF o

LEMMA RestoredBound ==
  ASSUME NEW e, IsMap(e), NEW v, NEW f, f.prev = Lookup(e, f.node.name)
  PROVE  Restored(f, Bind(e, f.node.name, v)) = e
<1> DEFINE x == f.node.name
           b == Bind(e, x, v)
<1>1. DOMAIN b = DOMAIN e \cup {x} /\ \A y \in DOMAIN e \ {x} : b[y] = e[y]
  BY DEF Bind
<1>2. CASE x \in DOMAIN e
  <2>1. f.prev = {e[x]} /\ f.prev # {} /\ (CHOOSE w \in f.prev : TRUE) = e[x]
    BY <1>2 DEF Lookup
  <2> HIDE DEF b, x
  <2>2. Bind(b, x, e[x]) = [y \in DOMAIN e |-> e[y]]
    <3>1. DOMAIN b \cup {x} = DOMAIN e
      BY <1>1, <1>2
    <3>2. \A y \in DOMAIN e : (IF y = x THEN e[x] ELSE b[y]) = e[y]
      BY <1>1
    <3> QED
      BY <3>1, <3>2 DEF Bind
  <2> QED
    BY <2>1, <2>2 DEF Restored, IsMap, b, x
<1>3. CASE x \notin DOMAIN e
  <2>1. f.prev = {}
    BY <1>3 DEF Lookup
  <2> HIDE DEF b, x
  <2>2. Unbind(b, x) = [y \in DOMAIN e |-> e[y]]
    <3>1. DOMAIN b \ {x} = DOMAIN e
      BY <1>1, <1>3
    <3>2. \A y \in DOMAIN e : b[y] = e[y]
      BY <1>1, <1>3
    <3> QED
      BY <3>1, <3>2 DEF Unbind
  <2> QED
    BY <2>1, <2>2 DEF Restored, IsMap, b, x
<1> QED
  BY <1>2, <1>3

LEMMA AgreeReturnToLetValue ==
  ASSUME Shape, AgreeInv, ReturnToLetValue
  PROVE  AgreeInv'
<1> DEFINE n == Top.node
           e == Bind(env, n.name, ctl.val)
           f == LetBodyFrame(n, Lookup(env, n.name))
           o == Outcome(Ok(ctl.val), Purse)
           p == EvalIn(Machine, n.body, e, depth, Purse)
<1>1. /\ ctl.at = "return" /\ stack # <<>> /\ Top.kind = "letValue"
      /\ env' = e /\ stack' = Append(Front(stack), f) /\ ctl' = Eval(n.body)
      /\ UNCHANGED <<call, steps, depth, mem>>
  BY DEF ReturnToLetValue, Replace, TopIs
<1>2. Reaches(stack, env, depth, o) /\ PurseNext = Purse /\ IsSeq(stack)
  BY <1>1 DEF AgreeInv, Purse, PurseNext, Shape
<1>3. o.r.ok /\ o.r.val = ctl.val /\ Left(o) = Purse
  BY DEF Ok, Outcome, Purse, Budget, Left
<1> HIDE DEF o
<1>4. BodyOf(Machine, n, env, depth, o) = p
  BY <1>3 DEF BodyOf
<1> HIDE DEF p
<1>5. /\ EnvUnder(Top, env) = env /\ LevelBelow(Top, depth) = depth
      /\ Resume(Machine, Top, env, depth, o) = Charged(Machine, p)
  BY <1>1, <1>3, <1>4 DEF EnvUnder, LevelBelow, Resume
<1>6. Reaches(Front(stack), env, depth, Charged(Machine, p))
  BY <1>1, <1>2, <1>5, Popped
<1>7. IsMap(env) /\ IsMap(e) /\ IsSeq(Front(stack))
  <2>1. IsMap(e)
    BY DEF IsMap, Bind
  <2> QED
    BY <1>1, <1>2, <2>1, ReachesIsMap, FrontOf
<1>8. f.kind = "letBody" /\ f.node = n /\ f.prev = Lookup(env, f.node.name)
  BY DEF LetBodyFrame
<1> HIDE DEF f
<1>9. Restored(f, e) = env
  BY <1>7, <1>8, RestoredBound
<1> HIDE DEF e
<1>10. /\ EnvUnder(f, e) = env /\ LevelBelow(f, depth) = depth
       /\ Resume(Machine, f, env, depth, p) = Charged(Machine, p)
  BY <1>8, <1>9, ChargedAnyway DEF EnvUnder, LevelBelow, Resume
<1>11. Reaches(Append(Front(stack), f), e, depth, p)
  BY <1>6, <1>7, <1>10, ReachesPush
<1> QED
  BY <1>1, <1>2, <1>11, AgreeAtEval DEF p

LEMMA AgreeReturnToLetBody ==
  ASSUME Shape, AgreeInv, ReturnToLetBody
  PROVE  AgreeInv'
<1> DEFINE o == Outcome(Ok(ctl.val), Purse)
<1>1. /\ ctl.at = "return" /\ stack # <<>> /\ Top.kind = "letBody"
      /\ env' = Restored(Top, env) /\ stack' = Front(stack) /\ ctl' = ChargeFor(ctl.val)
      /\ UNCHANGED <<call, steps, depth, mem>>
  BY DEF ReturnToLetBody, TopIs, Pop
<1>2. Reaches(stack, env, depth, o) /\ PurseNext = Purse
  BY <1>1 DEF AgreeInv, Purse, PurseNext
<1>3. o.r.ok
  BY DEF Ok, Outcome
<1> HIDE DEF o
<1>4. /\ EnvUnder(Top, env) = Restored(Top, env) /\ LevelBelow(Top, depth) = depth
      /\ Resume(Machine, Top, Restored(Top, env), depth, o) = Charged(Machine, o)
  BY <1>1, <1>3 DEF EnvUnder, LevelBelow, Resume
<1>5. Reaches(stack', env', depth', Charged(Machine, o))
  BY <1>1, <1>2, <1>4, Popped
<1> QED
  BY <1>1, <1>2, <1>5, AgreeAtCharge DEF o

------------------------------------------------------------------------------
(***************************************************************************)
(* eval_expr: Match.                                                       *)
(***************************************************************************)
LEMMA AgreeEvalMatch ==
  ASSUME RecursionEquations, Shape, AgreeInv, EvalMatch
  PROVE  AgreeInv'
<1> DEFINE n == ctl.node
           f == SubjectFrame(n)
           o == EvalIn(Machine, n.subject, env, depth, PurseNext)
<1>1. /\ ctl.at = "eval" /\ n.kind = "Match" /\ ConsumeStep /\ ctl' = Eval(n.subject)
      /\ call' = call /\ stack' = Append(stack, f) /\ env' = env /\ depth' = depth /\ mem' = mem
  BY DEF EvalMatch, Push
<1>2. f.kind = "subject" /\ f.node = n
  BY DEF SubjectFrame
<1> HIDE DEF o
<1>3. ValueOf(Machine, n, env, depth, PurseNext) = ArmsOf(Machine, n, env, depth, o)
  BY <1>1 DEF ValueOf, o
<1>4. Reaches(stack, env, depth, Charged(Machine, ArmsOf(Machine, n, env, depth, o)))
      /\ IsSeq(stack) /\ IsMap(env)
  BY <1>1, <1>3, AgreeEvaluating
<1> HIDE DEF f
<1>5. EnvUnder(f, env) = env /\ LevelBelow(f, depth) = depth
  BY <1>2 DEF EnvUnder, LevelBelow
<1>6. Resume(Machine, f, env, depth, o) = Charged(Machine, ArmsOf(Machine, n, env, depth, o))
  <2>1. ~o.r.ok => ArmsOf(Machine, n, env, depth, o) = o
    BY DEF ArmsOf
  <2>2. ~o.r.ok => Charged(Machine, o) = o
    BY ChargedError
  <2> QED
    BY <1>2, <2>1, <2>2 DEF Resume
<1>7. Reaches(Append(stack, f), env, depth, o)
  BY <1>4, <1>5, <1>6, ReachesPush
<1> QED
  BY <1>1, <1>7, AgreeAtEval DEF o

LEMMA AgreeReturnToSubject ==
  ASSUME Shape, AgreeInv, ReturnToSubject
  PROVE  AgreeInv'
<1> DEFINE n == Top.node
           f == ArmsFrame(n, ctl.val, 1, env)
           o == Outcome(Ok(ctl.val), Purse)
<1>1. /\ ctl.at = "return" /\ stack # <<>> /\ Top.kind = "subject"
      /\ stack' = Append(Front(stack), f) /\ ctl' = NextArm
      /\ UNCHANGED <<call, env, steps, depth, mem>>
  BY DEF ReturnToSubject, Replace, TopIs
<1>2. Reaches(stack, env, depth, o) /\ PurseNext = Purse /\ IsSeq(stack)
  BY <1>1 DEF AgreeInv, Purse, PurseNext, Shape
<1>3. o.r.ok /\ o.r.val = ctl.val /\ Left(o) = Purse
  BY DEF Ok, Outcome, Purse, Budget, Left
<1> HIDE DEF o
<1>4. /\ f.node = n /\ f.val = ctl.val /\ f.index = 1 /\ f.saved = env
  BY DEF ArmsFrame
<1> HIDE DEF f
<1>5. Charged(Machine, ArmsOf(Machine, n, env, depth, o)) = FromArm(f, env, depth, Purse)
  BY <1>3, <1>4 DEF ArmsOf, FromArm
<1>6. /\ EnvUnder(Top, env) = env /\ LevelBelow(Top, depth) = depth
      /\ Resume(Machine, Top, env, depth, o) = FromArm(f, env, depth, Purse)
  BY <1>1, <1>3, <1>5 DEF EnvUnder, LevelBelow, Resume
<1>7. Reaches(Front(stack), env, depth, FromArm(f, env, depth, Purse))
  BY <1>1, <1>2, <1>6, Popped
<1>8. Front(stack') = Front(stack) /\ Last(stack') = f
  BY <1>1, <1>2, FrontOf, FrontAppended, Appended
<1> QED
  BY <1>1, <1>2, <1>4, <1>7, <1>8, AgreeAtArm

(* What is known of a frame whose arms are tried. *)
LEMMA ArmsOnTop ==
  ASSUME Shape, NestInv, TopIs("arms")
  PROVE  /\ IsSeq(stack) /\ stack # <<>> /\ IsSeq(Front(stack))
         /\ Top.node.kind = "Match" /\ Top.node \in DOMAIN Program.heights
         /\ IsSeq(Top.node.arms) /\ Top.index \in Nat \ {0}
<1>1. IsSeq(stack) /\ stack # <<>> /\ Top.kind = "arms"
  BY DEF Shape, TopIs
<1>2. /\ Top.node.kind = "Match" /\ Top.node \in DOMAIN Program.heights
      /\ Top.index \in Nat \ {0}
  BY <1>1, TopNests DEF FrameNests
<1>3. IsSeq(Top.node.arms)
  BY <1>2, ProgramNests, PartsFit DEF IrShape
<1> QED
  BY <1>1, <1>2, <1>3, FrontOf

LEMMA AgreeTryArm ==
  ASSUME RecursionEquations, Shape, NestInv, AgreeInv, TryArm
  PROVE  AgreeInv'
<1> DEFINE q == Top.node.arms[Top.index].pat
           entry == [pat |-> q, src |-> {Top.val}]
           todo == <<entry>>
<1>1. /\ ctl.at = "arm" /\ Top.index <= Len(Top.node.arms) /\ ctl'.at = "pattern" /\ ctl'.todo = todo
      /\ UNCHANGED <<call, stack, env, steps, depth, mem>>
  BY DEF TryArm, ArmsLeft, Matching
<1>2. /\ TopIs("arms") /\ env = Top.saved
      /\ Reaches(Front(stack), env, depth, FromArm(Top, env, depth, Purse))
  BY <1>1 DEF Shape, AgreeInv
<1>3. q \in DOMAIN Program.binds
  <2>1. Top.index \in DOMAIN Top.node.arms
    BY <1>1, <1>2, ArmsOnTop, Domain
  <2> QED
    BY <1>2, <2>1, ArmsOnTop, ProgramPatterns DEF PatternsOk
<1>4. TodoOk(todo)
  <2>1. IsSeq(<<>>) /\ todo = Append(<<>>, entry) /\ Len(<<>>) = 0
    BY EmptySeq DEF IsSeq
  <2> HIDE DEF entry, todo
  <2>2. /\ IsSeq(Append(<<>>, entry)) /\ Len(Append(<<>>, entry)) = Len(<<>>) + 1
        /\ Append(<<>>, entry)[Len(<<>>) + 1] = entry
    BY <2>1, Appended
  <2>3. IsSeq(todo) /\ Len(todo) = 1 /\ todo[1] = entry
    BY <2>1, <2>2
  <2>4. DOMAIN todo = 1 .. 1
    BY <2>3, Domain
  <2> QED
    BY <1>3, <2>3, <2>4 DEF TodoOk, entry
<1>5. FromArm(Top, env, depth, Purse)
        = FromMatch(Top, depth, MatchLeft(todo, Top, env, steps), mem)
  <2> DEFINE arms == Top.node.arms
             i == Top.index
             v == Top.val
  <2>1. i <= Len(arms) /\ todo = <<[pat |-> arms[i].pat, src |-> {v}]>>
    BY <1>1
  <2> HIDE DEF todo, arms, i, v
  <2>2. ChooseArm(Machine, arms, i, v, env, depth, Budget(steps, mem))
          = Chosen(Machine, arms, i, v, env, depth, mem,
                   MatchAll(todo, Match(Ok(v), TRUE, env, steps)))
    BY <2>1, ArmTried
  <2> QED
    BY <1>2, <2>1, <2>2 DEF FromArm, FromMatch, MatchLeft, Purse, arms, i, v
<1>6. IsMap(env)
  BY <1>2, ArmsOnTop, ReachesIsMap
<1> HIDE DEF todo
<1>7. Reaches(Front(stack), Top.saved, depth,
              FromMatch(Top, depth, MatchLeft(todo, Top, env, steps), mem))
  BY <1>2, <1>5
<1> QED
  BY <1>1, <1>4, <1>6, <1>7, AgreeAtPattern

LEMMA AgreeNoArm ==
  ASSUME RecursionEquations, Shape, NestInv, AgreeInv, NoArm
  PROVE  AgreeInv'
<1> DEFINE e == Err("Trap", "non_exhaustive_match")
           o == Outcome(e, Purse)
<1>1. /\ ctl.at = "arm" /\ ~(Top.index <= Len(Top.node.arms)) /\ ctl' = Fail(e)
      /\ UNCHANGED <<call, stack, env, steps, depth, mem>>
  BY DEF NoArm, ArmsLeft
<1>2. /\ TopIs("arms") /\ env = Top.saved
      /\ Reaches(Front(stack), env, depth, FromArm(Top, env, depth, Purse))
  BY <1>1 DEF Shape, AgreeInv
<1>3. ~e.ok /\ o.r = e
  BY DEF Err, Outcome
<1>4. FromArm(Top, env, depth, Purse) = o
  <2>1. ChooseArm(Machine, Top.node.arms, Top.index, Top.val, env, depth, Purse) = o
    BY <1>1, ArmsEnd
  <2> HIDE DEF o, e
  <2> QED
    BY <1>3, <2>1, ChargedError DEF FromArm
<1>5. IsMap(env)
  BY <1>2, ArmsOnTop, ReachesIsMap
<1>6. Reaches(stack, env, depth, o)
  BY <1>2, <1>3, <1>4, <1>5, ArmsFail
<1>7. PurseNext = Purse
  BY <1>1 DEF Purse, PurseNext
<1> QED
  BY <1>1, <1>3, <1>6, <1>7, AgreeAtError

LEMMA AgreeArmMatches ==
  ASSUME RecursionEquations, Shape, NestInv, AgreeInv, ArmMatches
  PROVE  AgreeInv'
<1> DEFINE n == Top.node
           body == n.arms[Top.index].body
           f == ArmBodyFrame(n, Top.saved)
           o == EvalIn(Machine, body, env, depth, Purse)
<1>1. /\ ctl.at = "pattern" /\ ctl.todo = <<>> /\ ctl' = Eval(body)
      /\ stack' = Append(Front(stack), f)
      /\ UNCHANGED <<call, env, steps, depth, mem>>
  BY DEF ArmMatches, Replace
<1>2. /\ TopIs("arms") /\ IsMap(env)
      /\ Reaches(Front(stack), Top.saved, depth,
                 FromMatch(Top, depth, MatchLeft(<<>>, Top, env, steps), mem))
  BY <1>1 DEF Shape, AgreeInv
<1>3. MatchLeft(<<>>, Top, env, steps) = Entered
  BY MatchedAll DEF MatchLeft, Entered
<1>4. FromMatch(Top, depth, Entered, mem) = Charged(Machine, o)
  BY DEF FromMatch, Chosen, Entered, Match, Ok, Purse
<1>5. f.kind = "armBody" /\ f.saved = Top.saved
  BY DEF ArmBodyFrame
<1> HIDE DEF f, o
<1>6. /\ EnvUnder(f, env) = Top.saved /\ LevelBelow(f, depth) = depth
      /\ Resume(Machine, f, Top.saved, depth, o) = Charged(Machine, o)
  BY <1>5, ChargedAnyway DEF EnvUnder, LevelBelow, Resume
<1>7. Reaches(Append(Front(stack), f), env, depth, o)
  BY <1>2, <1>3, <1>4, <1>6, ArmsOnTop, ReachesPush
<1>8. PurseNext = Purse
  BY <1>1 DEF Purse, PurseNext
<1> QED
  BY <1>1, <1>7, <1>8, AgreeAtEval DEF o

LEMMA AgreeReturnToMatch ==
  ASSUME Shape, AgreeInv, ReturnToMatch
  PROVE  AgreeInv'
<1> DEFINE o == Outcome(Ok(ctl.val), Purse)
<1>1. /\ ctl.at = "return" /\ stack # <<>> /\ Top.kind = "armBody"
      /\ env' = Top.saved /\ stack' = Front(stack) /\ ctl' = ChargeFor(ctl.val)
      /\ UNCHANGED <<call, steps, depth, mem>>
  BY DEF ReturnToMatch, TopIs, Pop, SavedEnv
<1>2. Reaches(stack, env, depth, o) /\ PurseNext = Purse
  BY <1>1 DEF AgreeInv, Purse, PurseNext
<1>3. o.r.ok
  BY DEF Ok, Outcome
<1> HIDE DEF o
<1>4. /\ EnvUnder(Top, env) = Top.saved /\ LevelBelow(Top, depth) = depth
      /\ Resume(Machine, Top, Top.saved, depth, o) = Charged(Machine, o)
  BY <1>1, <1>3 DEF EnvUnder, LevelBelow, Resume
<1>5. Reaches(stack', env', depth', Charged(Machine, o))
  BY <1>1, <1>2, <1>4, Popped
<1> QED
  BY <1>1, <1>2, <1>5, AgreeAtCharge DEF o

------------------------------------------------------------------------------
(***************************************************************************)
(* pattern_matches.                                                        *)
(***************************************************************************)
LEMMA AgreeFieldMissing ==
  ASSUME RecursionEquations, Shape, AgreeInv, FieldMissing
  PROVE  AgreeInv'
<1> DEFINE e == Err("InvalidInput", "missing_payload_field")
<1>1. /\ ctl.at = "pattern" /\ ctl.todo # <<>> /\ Head(ctl.todo).src = {} /\ ctl' = Fail(e)
      /\ UNCHANGED <<call, stack, env, steps, depth, mem>>
  BY DEF FieldMissing, NextPattern
<1>2. Entered.hit = TRUE /\ Entered.env = env /\ Entered.steps = steps
  BY DEF Entered, Match
<1>3. FirstMatched(Head(ctl.todo), Entered) = Match(e, TRUE, env, steps)
  BY <1>1, <1>2 DEF FirstMatched
<1>4. ~e.ok
  BY DEF Err
<1> HIDE DEF e
<1>5. Reaches(stack, env, depth, Outcome(e, Budget(steps, mem)))
  BY <1>1, <1>3, <1>4, PatternFails
<1> QED
  BY <1>1, <1>4, <1>5, AgreeAtError DEF PurseNext

LEMMA AgreeMatchNonEnum ==
  ASSUME RecursionEquations, Shape, AgreeInv, MatchNonEnum
  PROVE  AgreeInv'
<1> DEFINE e == Err("InvalidInput", "not_enum_like")
           b == FirstMatched(Head(ctl.todo), Entered)
<1>1. /\ ctl.at = "pattern" /\ ctl.todo # <<>> /\ NextPattern.src # {}
      /\ NextPattern.pat.kind = "Variant" /\ ConsumeStep /\ PatternSource.t # "Enum" /\ ctl' = Fail(e)
      /\ UNCHANGED <<call, stack, env, depth, mem>>
  BY DEF MatchNonEnum, AtPattern
<1>0. b = FirstMatched(Head(ctl.todo), Entered)
  OBVIOUS
<1> HIDE DEF b
<1>2. /\ ctl.at = "pattern" /\ ctl.todo # <<>> /\ steps' = steps - 1
      /\ NextPattern.pat.kind = "Variant"
      /\ b = Bindings(NextPattern.pat, PatternSource, Entered)
      /\ Entered.steps # 0 /\ Entered.steps = steps
      /\ Entered.hit = TRUE /\ Entered.env = env
  BY <1>0, <1>1, PatternTaken
<1>3. b = Match(e, TRUE, env, steps - 1)
  BY <1>1, <1>2 DEF Bindings
<1>4. ~e.ok
  BY DEF Err
<1> HIDE DEF e
<1>5. Reaches(stack, env, depth, Outcome(e, Budget(steps - 1, mem)))
  BY <1>0, <1>2, <1>3, <1>4, PatternFails
<1> QED
  BY <1>1, <1>2, <1>4, <1>5, AgreeAtError DEF PurseNext

LEMMA AgreeMatchWildcard ==
  ASSUME RecursionEquations, Shape, AgreeInv, MatchWildcard
  PROVE  AgreeInv'
<1> DEFINE b == FirstMatched(Head(ctl.todo), Entered)
<1>1. /\ ctl.at = "pattern" /\ ctl.todo # <<>> /\ NextPattern.src # {}
      /\ NextPattern.pat.kind = "Wildcard" /\ ConsumeStep /\ ctl'.at = "pattern" /\ ctl'.todo = Tail(ctl.todo)
      /\ UNCHANGED <<call, stack, env, depth, mem>>
  BY DEF MatchWildcard, AtPattern, Matching
<1>0. b = FirstMatched(Head(ctl.todo), Entered)
  OBVIOUS
<1> HIDE DEF b
<1>2. /\ ctl.at = "pattern" /\ ctl.todo # <<>> /\ steps' = steps - 1
      /\ NextPattern.pat.kind = "Wildcard"
      /\ b = Bindings(NextPattern.pat, PatternSource, Entered)
      /\ Entered.steps # 0 /\ Entered.steps = steps
      /\ Entered.r = Ok(Top.val) /\ Entered.hit = TRUE /\ Entered.env = env
  BY <1>0, <1>1, PatternTaken
<1>3. b = Match(Ok(Top.val), TRUE, env, steps - 1)
  BY <1>2 DEF Bindings
<1>4. /\ IsMap(env) /\ TodoOk(Tail(ctl.todo))
      /\ Reaches(Front(stack), Top.saved, depth,
                 FromMatch(Top, depth, MatchAll(Tail(ctl.todo), b), mem))
  BY <1>0, <1>2, PatternStep
<1>5. MatchAll(Tail(ctl.todo), b) = MatchLeft(Tail(ctl.todo), Top, env', steps')
  BY <1>1, <1>2, <1>3 DEF MatchLeft
<1> QED
  BY <1>1, <1>4, <1>5, AgreeAtPattern

LEMMA AgreeMatchBinding ==
  ASSUME RecursionEquations, Shape, AgreeInv, MatchBinding
  PROVE  AgreeInv'
<1> DEFINE b == FirstMatched(Head(ctl.todo), Entered)
           e == Bind(env, NextPattern.pat.name, PatternSource)
<1>1. /\ ctl.at = "pattern" /\ ctl.todo # <<>> /\ NextPattern.src # {}
      /\ NextPattern.pat.kind = "Binding" /\ ConsumeStep /\ ctl'.at = "pattern" /\ ctl'.todo = Tail(ctl.todo) /\ env' = e
      /\ UNCHANGED <<call, stack, depth, mem>>
  BY DEF MatchBinding, AtPattern, Matching
<1>0. b = FirstMatched(Head(ctl.todo), Entered)
  OBVIOUS
<1> HIDE DEF b
<1>2. /\ ctl.at = "pattern" /\ ctl.todo # <<>> /\ steps' = steps - 1
      /\ NextPattern.pat.kind = "Binding"
      /\ b = Bindings(NextPattern.pat, PatternSource, Entered)
      /\ Entered.steps # 0 /\ Entered.steps = steps
      /\ Entered.r = Ok(Top.val) /\ Entered.hit = TRUE /\ Entered.env = env
  BY <1>0, <1>1, PatternTaken
<1>3. IsMap(e)
  BY DEF IsMap, Bind
<1>4. b = Match(Ok(Top.val), TRUE, e, steps - 1)
  BY <1>2 DEF Bindings
<1> HIDE DEF e
<1>5. /\ TodoOk(Tail(ctl.todo))
      /\ Reaches(Front(stack), Top.saved, depth,
                 FromMatch(Top, depth, MatchAll(Tail(ctl.todo), b), mem))
  BY <1>0, <1>2, PatternStep
<1>6. MatchAll(Tail(ctl.todo), b) = MatchLeft(Tail(ctl.todo), Top, env', steps')
  BY <1>1, <1>2, <1>4 DEF MatchLeft
<1> QED
  BY <1>1, <1>3, <1>5, <1>6, AgreeAtPattern

(* The patterns of the fields of a pattern of the program. *)
LEMMA FieldsToMatch ==
  ASSUME Shape, NEW q \in DOMAIN Program.binds, q.kind = "Variant", NEW payload
  PROVE  TodoOk(FieldPatterns(q, payload))
<1> DEFINE t == FieldPatterns(q, payload)
<1>1. IsSeq(q.fields) /\ \A i \in DOMAIN q.fields : q.fields[i].pat \in DOMAIN Program.binds
  BY ProgramPatterns DEF PatternsOk
<1>2. DOMAIN q.fields = 1 .. Len(q.fields) /\ Len(q.fields) \in Nat
  BY <1>1, Domain
<1>3. DOMAIN t = 1 .. Len(q.fields) /\ \A i \in 1 .. Len(q.fields) : t[i].pat = q.fields[i].pat
  BY <1>2 DEF FieldPatterns
<1>4. t = [i \in 1 .. Len(q.fields) |-> t[i]]
  BY <1>2 DEF FieldPatterns
<1> HIDE DEF t
<1>5. \A i \in 1 .. Len(q.fields) : t[i] \in Range(t)
  BY <1>3 DEF Range
<1>6. t \in [1 .. Len(q.fields) -> Range(t)]
  BY <1>4, <1>5
<1>7. t \in Seq(Range(t))
  BY <1>2, <1>6, SeqDef
<1> QED
  BY <1>1, <1>2, <1>3, <1>7 DEF TodoOk, IsSeq, t

LEMMA TodoJoined ==
  ASSUME NEW s, NEW t, TodoOk(s), TodoOk(t)
  PROVE  TodoOk(s \o t)
<1> DEFINE u == s \o t
<1>1. /\ IsSeq(u)
      /\ \A i \in DOMAIN u : \/ i \in DOMAIN s /\ u[i] = s[i]
                             \/ i - Len(s) \in DOMAIN t /\ u[i] = t[i - Len(s)]
  BY Joined DEF TodoOk
<1> HIDE DEF u
<1>2. TodoOk(u)
  BY <1>1 DEF TodoOk
<1> QED
  BY <1>2 DEF u

LEMMA AgreeMatchVariant ==
  ASSUME RecursionEquations, Shape, AgreeInv, MatchVariant
  PROVE  AgreeInv'
<1> DEFINE b == FirstMatched(Head(ctl.todo), Entered)
           q == NextPattern.pat
           s == FieldPatterns(q, PatternSource.fields)
           t == Tail(ctl.todo)
           c == Match(Ok(Top.val), TRUE, env, steps - 1)
<1>1. /\ ctl.at = "pattern" /\ ctl.todo # <<>> /\ NextPattern.src # {}
      /\ NextPattern.pat.kind = "Variant" /\ ConsumeStep /\ PatternSource.t = "Enum" /\ PatternSource.tag = q.name
      /\ ctl'.at = "pattern" /\ ctl'.todo = s \o t
      /\ UNCHANGED <<call, stack, env, depth, mem>>
  BY DEF MatchVariant, AtPattern, Matching
<1>0. b = FirstMatched(Head(ctl.todo), Entered)
  OBVIOUS
<1> HIDE DEF b
<1>2. /\ ctl.at = "pattern" /\ ctl.todo # <<>> /\ steps' = steps - 1
      /\ q.kind = "Variant" /\ NextPattern = Head(ctl.todo)
      /\ b = Bindings(q, PatternSource, Entered)
      /\ Entered.steps # 0 /\ Entered.steps = steps
      /\ Entered.r = Ok(Top.val) /\ Entered.hit = TRUE /\ Entered.env = env
  BY <1>0, <1>1, PatternTaken
<1>3. b = MatchAll(s, c)
  BY <1>1, <1>2 DEF Bindings, FieldPatterns
<1>4. /\ IsMap(env) /\ TodoOk(t) /\ q \in DOMAIN Program.binds
      /\ Reaches(Front(stack), Top.saved, depth, FromMatch(Top, depth, MatchAll(t, b), mem))
  BY <1>0, <1>2, PatternStep
<1>5. TodoOk(s)
  BY <1>2, <1>4, FieldsToMatch
<1> HIDE DEF s, t, q
<1>6. TodoOk(s \o t)
  BY <1>4, <1>5, TodoJoined
<1>7. MatchAll(t, b) = MatchAll(s \o t, c)
  <2>1. IsSeq(s) /\ IsSeq(t)
    BY <1>4, <1>5 DEF TodoOk
  <2> HIDE DEF c
  <2>2. MatchAll(s \o t, c) = MatchAll(t, MatchAll(s, c))
    BY <2>1, MatchedInTurn
  <2> QED
    BY <1>3, <2>2
<1>8. MatchAll(s \o t, c) = MatchLeft(s \o t, Top, env', steps')
  BY <1>1, <1>2 DEF MatchLeft
<1> QED
  BY <1>1, <1>4, <1>6, <1>7, <1>8, AgreeAtPattern

LEMMA AgreeMissVariant ==
  ASSUME RecursionEquations, Shape, NestInv, AgreeInv, MissVariant
  PROVE  AgreeInv'
<1> DEFINE b == FirstMatched(Head(ctl.todo), Entered)
           f == ArmsFrame(Top.node, Top.val, Top.index + 1, Top.saved)
<1>1. /\ ctl.at = "pattern" /\ ctl.todo # <<>> /\ NextPattern.src # {}
      /\ NextPattern.pat.kind = "Variant" /\ ConsumeStep /\ PatternSource.t = "Enum"
      /\ PatternSource.tag # NextPattern.pat.name
      /\ env' = Top.saved /\ stack' = Append(Front(stack), f) /\ ctl' = NextArm
      /\ UNCHANGED <<call, depth, mem>>
  BY DEF MissVariant, AtPattern, SavedEnv, Replace
<1>0. b = FirstMatched(Head(ctl.todo), Entered)
  OBVIOUS
<1> HIDE DEF b
<1>2. /\ ctl.at = "pattern" /\ ctl.todo # <<>> /\ steps' = steps - 1
      /\ NextPattern.pat.kind = "Variant"
      /\ b = Bindings(NextPattern.pat, PatternSource, Entered)
      /\ Entered.steps # 0 /\ Entered.steps = steps
      /\ Entered.r = Ok(Top.val) /\ Entered.hit = TRUE /\ Entered.env = env
  BY <1>0, <1>1, PatternTaken
<1>3. b = Match(Ok(Top.val), FALSE, env, steps - 1)
  BY <1>1, <1>2 DEF Bindings
<1>4. ~b.hit /\ b.r.ok /\ b.steps = steps - 1
  BY <1>3 DEF Match, Ok
<1>5. /\ TopIs("arms")
      /\ Reaches(Front(stack), Top.saved, depth,
                 FromMatch(Top, depth, MatchAll(Tail(ctl.todo), b), mem))
  BY <1>0, <1>2, PatternStep
<1>6. MatchAll(Tail(ctl.todo), b) = b
  BY <1>4, MatchedAll
<1>7. /\ f.node = Top.node /\ f.val = Top.val /\ f.index = Top.index + 1
      /\ f.saved = Top.saved
  BY DEF ArmsFrame
<1> HIDE DEF f
<1>8. FromMatch(Top, depth, b, mem) = FromArm(f, Top.saved, depth, Budget(steps - 1, mem))
  BY <1>4, <1>7 DEF FromMatch, FromArm, Chosen
<1>9. Front(stack') = Front(stack) /\ Last(stack') = f
  BY <1>1, <1>5, ArmsOnTop, FrontAppended, Appended
<1>10. PurseNext = Budget(steps - 1, mem) /\ call' = call /\ depth' = depth
  BY <1>1, <1>2 DEF PurseNext
<1>11. Reaches(Front(stack), env', depth', FromArm(f, env', depth', PurseNext))
  BY <1>1, <1>5, <1>6, <1>8, <1>10
<1> QED
  BY <1>1, <1>7, <1>9, <1>10, <1>11, AgreeAtArm

------------------------------------------------------------------------------
(***************************************************************************)
(* charge_memory, the unwinding of an error, and the end of a call.        *)
(***************************************************************************)
LEMMA AgreeCharge ==
  ASSUME \A v : BytesOf(v) = EstimateBytes(v), Shape, AgreeInv, Charge
  PROVE  AgreeInv'
<1> DEFINE v == ctl.val
           o == Outcome(Ok(v), Purse)
           e == Err("MemoryLimitExceeded", "memory")
<1>1. /\ ctl.at = "charge" /\ mem' = SaturatingAdd(mem, EstimateBytes(v))
      /\ ctl' = IF mem' > Limits.max_memory_bytes THEN Fail(e) ELSE Return(v)
      /\ UNCHANGED <<call, stack, env, steps, depth>>
  BY DEF Charge, MemoryExceeded
<1>2. Reaches(stack, env, depth, Charged(Machine, o))
  BY <1>1 DEF AgreeInv
<1>3. /\ o.r = Ok(v) /\ o.r.ok /\ o.r.val = v /\ o.steps = steps /\ o.mem = mem
  BY DEF Ok, Outcome, Purse, Budget
<1>4. PurseNext = Budget(steps, mem')
  BY <1>1 DEF PurseNext
<1>5. Charged(Machine, o) = IF mem' > Limits.max_memory_bytes THEN Outcome(e, PurseNext)
                            ELSE Outcome(Ok(v), PurseNext)
  <2>1. BytesOf(v) = EstimateBytes(v)
    OBVIOUS
  <2> HIDE DEF o, v
  <2>2. mem' = IF mem + BytesOf(v) > MaxUsize THEN MaxUsize ELSE mem + BytesOf(v)
    BY <1>1, <2>1 DEF SaturatingAdd
  <2> QED
    BY <1>3, <1>4, <2>2, MachineHas DEF Charged, Fault
<1>6. ~e.ok
  BY DEF Err
<1> HIDE DEF o, e, v
<1>7. CASE mem' > Limits.max_memory_bytes
  BY <1>1, <1>2, <1>5, <1>6, <1>7, AgreeAtError
<1>8. CASE ~(mem' > Limits.max_memory_bytes)
  BY <1>1, <1>2, <1>5, <1>8, AgreeAtReturn
<1> QED
  BY <1>7, <1>8

LEMMA AgreeUnwind ==
  ASSUME Shape, AgreeInv, Unwind
  PROVE  AgreeInv'
<1> DEFINE e == ctl.err
           o == Outcome(e, Purse)
<1>1. /\ ctl.at = "error" /\ stack # <<>> /\ stack' = Front(stack)
      /\ UNCHANGED <<call, ctl, steps, mem>>
  BY DEF Unwind, Pop
<1>2. ~e.ok /\ Reaches(stack, env, depth, o) /\ PurseNext = Purse /\ o.r = e
  BY <1>1 DEF AgreeInv, Purse, PurseNext, Outcome
<1>3. EnvUnder(Top, env) = env'
  BY <1>1 DEF Unwind, EnvUnder, TopIs, SavedEnv
<1>4. LevelBelow(Top, depth) = depth'
  BY <1>1 DEF Unwind, LevelBelow, LevelAfterTop, TopIs
<1> HIDE DEF o
<1>5. Resume(Machine, Top, env', depth', o) = o
  BY <1>2 DEF Resume
<1>6. Reaches(stack', env', depth', o)
  BY <1>1, <1>2, <1>3, <1>4, <1>5, Popped
<1> QED
  BY <1>1, <1>2, <1>6, SameGoal DEF o, AgreeInv, Reaches, Purse, PurseNext

LEMMA UpdateAnswers ==
  ASSUME NEW v
  PROVE  Verdict(UpdateResult(v)) = Answer("update", Ok(v))
<1>1. CASE IsUpdateResult(v)
  BY <1>1 DEF IsUpdateResult, UpdateResult, Answer, Verdict, Ok
<1>2. CASE ~IsUpdateResult(v)
  <2>1. /\ ~UpdateResult(v).ok /\ UpdateResult(v).code = "Trap"
    BY <1>2 DEF IsUpdateResult, UpdateResult, Err, Ok
  <2> QED
    BY <1>2, <2>1 DEF Answer, Verdict, Ok
<1> QED
  BY <1>1, <1>2

LEMMA AgreeFinish ==
  ASSUME Shape, AgreeInv, Finish
  PROVE  AgreeInv'
<1>1. /\ stack = <<>> /\ ctl.at \in {"return", "error"}
      /\ UNCHANGED <<call, stack, env, steps, depth, mem>>
      /\ call.entry \in {"update", "query"}
  BY CallsAssumption DEF Finish, Shape
<1>2. ASSUME NEW r, Goal = Outcome(r, Purse), NEW s, ctl' = Done(s),
             Verdict(s) = Answer(call.entry, r)
      PROVE  AgreeInv'
  <2>1. Goal.r = r /\ Goal.steps = steps /\ Goal.mem = mem
    BY <1>2 DEF Outcome, Purse, Budget
  <2>2. Goal' = Goal
    BY <1>1, SameGoal
  <2> QED
    BY <1>1, <1>2, <2>1, <2>2 DEF AgreeInv, Done
<1>3. CASE ctl.at = "error"
  <2> DEFINE e == ctl.err
  <2>1. Goal = Outcome(e, Purse) /\ ~e.ok
    BY <1>1, <1>3, ReachesHome DEF AgreeInv
  <2>2. ctl' = Done(e)
    BY <1>3 DEF Finish
  <2>3. Verdict(e) = Answer(call.entry, e)
    BY <2>1 DEF Verdict, Answer
  <2> QED
    BY <1>2, <2>1, <2>2, <2>3
<1>4. CASE ctl.at = "return"
  <2> DEFINE v == ctl.val
  <2>1. Goal = Outcome(Ok(v), Purse)
    BY <1>1, <1>4, ReachesHome DEF AgreeInv
  <2>2. CASE call.entry = "update"
    <3>1. ctl' = Done(UpdateResult(v))
      BY <1>4, <2>2 DEF Finish
    <3> QED
      BY <1>2, <2>1, <2>2, <3>1, UpdateAnswers
  <2>3. CASE call.entry = "query"
    <3>1. ctl' = Done(Ok(v))
      BY <1>4, <2>3 DEF Finish
    <3>2. Verdict(Ok(v)) = Answer("query", Ok(v))
      BY DEF Verdict, Answer, Ok
    <3> QED
      BY <1>2, <2>1, <2>3, <3>1, <3>2
  <2> QED
    BY <1>1, <2>2, <2>3
<1> QED
  BY <1>1, <1>3, <1>4

LEMMA AgreeInit == ASSUME Init PROVE AgreeInv
<1>1. /\ stack = <<>> /\ env = EmptyEnv /\ depth = 0
      /\ ctl.at = "call" /\ ctl.name = Program[call.entry]
      /\ ctl.args = <<call.state, call.input>>
      /\ Purse = Budget(Machine.limits.max_steps, 0)
  BY MachineHas DEF Init, CallFn, Program, Purse, Limits
<1>2. IsMap(env)
  BY <1>1 DEF IsMap, EmptyEnv
<1>3. ApplyFn(Machine, ctl.name, ctl.args, depth, Purse) = Goal
  BY <1>1 DEF Goal, RunFunction
<1> QED
  BY <1>1, <1>2, <1>3, ReachesHome DEF AgreeInv

LEMMA AgreeNext ==
  ASSUME MeansBigStep, Shape, NestInv, AgreeInv, [Next]_vars
  PROVE  AgreeInv'
<1>0. RecursionEquations /\ \A v : BytesOf(v) = EstimateBytes(v)
  BY DEF MeansBigStep
<1>1. CASE CallFunction
  BY <1>1, AgreeEnterFunction, AgreeRefuseCall, AgreeReturnFromFunction DEF CallFunction
<1>2. CASE EvalSimple
  BY <1>0, <1>2, AgreeEvalLeaf, AgreeEvalUnknownLocal DEF EvalSimple
<1>3. CASE EvalCompound
  BY <1>0, <1>3, AgreeEvalKids, AgreeNextKid, AgreeReturnToKids, AgreeBuildValue,
     AgreeBuildCall, AgreeReturnToCall
     DEF EvalCompound
<1>4. CASE EvalLetExpr
  BY <1>0, <1>4, AgreeEvalLet, AgreeReturnToLetValue, AgreeReturnToLetBody DEF EvalLetExpr
<1>5. CASE EvalMatchExpr
  BY <1>0, <1>5, AgreeEvalMatch, AgreeReturnToSubject, AgreeTryArm, AgreeNoArm,
     AgreeArmMatches, AgreeReturnToMatch
     DEF EvalMatchExpr
<1>6. CASE PatternMatches
  BY <1>0, <1>6, AgreeFieldMissing, AgreeMatchWildcard, AgreeMatchBinding,
     AgreeMatchVariant, AgreeMissVariant, AgreeMatchNonEnum
     DEF PatternMatches
<1>7. CASE UNCHANGED vars
  BY <1>7 DEF vars, AgreeInv, Reaches, Machine, Goal, Program, Purse, Top, FromKids, FromArm,
              FromMatch, MatchLeft, TodoOk
<1> QED
  BY <1>0, <1>1, <1>2, <1>3, <1>4, <1>5, <1>6, <1>7, AgreeOutOfSteps, AgreeCharge,
     AgreeUnwind, AgreeFinish
     DEF Next

LEMMA AgreeAlways == ASSUME MeansBigStep PROVE Spec => []AgreeInv
<1>1. Init => Shape /\ NestInv /\ AgreeInv
  BY ShapeInit, NestInit, AgreeInit
<1>2. (Shape /\ NestInv /\ AgreeInv) /\ [Next]_vars => (Shape /\ NestInv /\ AgreeInv)'
  BY ShapeNext, NestNext, AgreeNext
<1> QED
  BY <1>1, <1>2, PTL DEF Spec

(* What the definition gives for the call that is running. *)
LEMMA MeantOutcome ==
  ASSUME MeansBigStep, Shape
  PROVE  /\ Outcomes[call].answer = Answer(call.entry, Goal.r)
         /\ Outcomes[call].steps = Goal.steps
         /\ Outcomes[call].mem = Goal.mem
         /\ Meaning(call) = Answer(call.entry, Goal.r)
<1>1. call \in Calls
  BY DEF Shape
<1>2. Outcomes[call] = AnswerOf(call, Programs[call.prog])
  BY <1>1 DEF Outcomes, MeansBigStep
<1>3. AnswerOf(call, Programs[call.prog])
        = [answer |-> Answer(call.entry, Goal.r), steps |-> Goal.steps, mem |-> Goal.mem]
  BY DEF AnswerOf, Goal, Machine, Program
<1> QED
  BY <1>2, <1>3 DEF Meaning

------------------------------------------------------------------------------
(***************************************************************************)
(* The budgets end as the definition says, for all programs, calls and     *)
(* limits.                                                                 *)
(***************************************************************************)
THEOREM BudgetsAsDefined == ASSUME MeansBigStep PROVE Spec => []BudgetsAgree
<1>1. Shape /\ AgreeInv => BudgetsAgree
  BY MeantOutcome DEF AgreeInv, BudgetsAgree, Answered
<1> QED
  BY <1>1, ShapeAlways, AgreeAlways, PTL

------------------------------------------------------------------------------
(***************************************************************************)
(* The evaluator implements PureCall: the first answer is the one of the   *)
(* definition, and there is no second.                                     *)
(***************************************************************************)
GivenAnswer == IF Answered THEN Verdict(ctl.result) ELSE NoAnswer

LEMMA NothingAfterDone == ASSUME Next PROVE ctl.at # "done"
BY DEF Next, CallFunction, EvalSimple, EvalCompound, EvalLetExpr, EvalMatchExpr, PatternMatches,
       OutOfSteps, ConsumesStep, EnterFunction, RefuseCall, ReturnFromFunction,
       EvalLeaf, EvalUnknownLocal, EvalKids, NextKid, ReturnToKids, BuildValue, BuildCall,
       ReturnToCall, EvalLet, ReturnToLetValue, ReturnToLetBody, EvalMatch, ReturnToSubject,
       TryArm, NoArm, ArmMatches, ReturnToMatch, FieldMissing, MatchWildcard, MatchBinding,
       MatchVariant, MissVariant, MatchNonEnum, AtPattern, Charge, Unwind, Finish

LEMMA OnlyFinishAnswers ==
  ASSUME Next, ~Finish
  PROVE  ctl'.at # "done" /\ call' = call
<1> USE DEF CallFn, Eval, Kids, ChargeFor, Return, NextArm, Matching, Fail
<1>1. CASE OutOfSteps \/ Charge \/ Unwind
  BY <1>1 DEF OutOfSteps, Charge, Unwind
<1>2. CASE CallFunction
  BY <1>2 DEF CallFunction, EnterFunction, RefuseCall, ReturnFromFunction
<1>3. CASE EvalSimple
  BY <1>3 DEF EvalSimple, EvalLeaf, EvalUnknownLocal
<1>4. CASE EvalCompound
  BY <1>4 DEF EvalCompound, EvalKids, NextKid, ReturnToKids, BuildValue, BuildCall, ReturnToCall
<1>5. CASE EvalLetExpr
  BY <1>5 DEF EvalLetExpr, EvalLet, ReturnToLetValue, ReturnToLetBody
<1>6. CASE EvalMatchExpr
  BY <1>6 DEF EvalMatchExpr, EvalMatch, ReturnToSubject, TryArm, NoArm, ArmMatches, ReturnToMatch
<1>7. CASE PatternMatches
  <2>1. CASE FieldMissing \/ MatchNonEnum
    BY <2>1 DEF FieldMissing, MatchNonEnum
  <2>2. CASE MatchWildcard \/ MatchBinding
    BY <2>2 DEF MatchWildcard, MatchBinding
  <2>3. CASE MatchVariant
    BY <2>3 DEF MatchVariant
  <2>4. CASE MissVariant
    BY <2>4 DEF MissVariant
  <2> QED
    BY <1>7, <2>1, <2>2, <2>3, <2>4 DEF PatternMatches
<1> QED
  BY <1>1, <1>2, <1>3, <1>4, <1>5, <1>6, <1>7 DEF Next

(* A verdict says whether the call succeeded, the pending answer does not. *)
LEMMA NotPending == ASSUME NEW r, r.ok => \E v : r = Ok(v) PROVE Verdict(r) # NoAnswer
<1>1. "ok" \in DOMAIN Verdict(r)
  BY DEF Verdict, Ok
<1>2. "ok" \notin DOMAIN NoAnswer
  BY DEF NoAnswer
<1> QED
  BY <1>1, <1>2

LEMMA AnswerStep ==
  ASSUME MeansBigStep, Shape, AgreeInv, Shape', AgreeInv', Finish
  PROVE  Abstract!Answer
<1>1. /\ call' = call /\ ctl.at \in {"return", "error"} /\ ctl'.at = "done"
      /\ call.entry \in {"update", "query"}
  BY CallsAssumption DEF Finish, Done, Shape
<1>2. ctl'.result.ok => \E v : ctl'.result = Ok(v)
  <2>1. CASE ctl.at = "error"
    <3>1. ~ctl.err.ok /\ ctl'.result = ctl.err
      BY <2>1 DEF AgreeInv, Finish, Done
    <3> QED
      BY <3>1
  <2>2. CASE ctl.at = "return" /\ call.entry = "update"
    <3>1. ctl'.result = UpdateResult(ctl.val)
      BY <2>2 DEF Finish, Done
    <3> QED
      BY <3>1 DEF UpdateResult, Err
  <2>3. CASE ctl.at = "return" /\ call.entry = "query"
    <3>1. ctl'.result = Ok(ctl.val)
      BY <2>3 DEF Finish, Done
    <3> QED
      BY <3>1
  <2> QED
    BY <1>1, <2>1, <2>2, <2>3
<1>3. GivenAnswer = NoAnswer /\ GivenAnswer' = Verdict(ctl'.result)
  BY <1>1 DEF GivenAnswer, Answered, Verdict, NoAnswer
<1>4. GivenAnswer' # NoAnswer
  BY <1>2, <1>3, NotPending
<1>5. Verdict(ctl'.result) = Answer(call.entry, Goal.r)
  BY <1>1, SameGoal DEF AgreeInv, Verdict
<1>6. GivenAnswer' = Meaning(call)
  BY <1>3, <1>5, MeantOutcome
<1> QED
  BY <1>1, <1>3, <1>4, <1>6 DEF Abstract!Answer, GivenAnswer

THEOREM AnswersPureCall == ASSUME MeansBigStep PROVE Spec => ImplementsPureCall
<1>1. Init => Abstract!Init
  BY DEF Init, Abstract!Init, Answered, CallFn
<1>2. Shape /\ AgreeInv /\ Shape' /\ AgreeInv' /\ [Next]_vars
        => [Abstract!Answer]_<<call, GivenAnswer>>
  <2> SUFFICES ASSUME Shape, AgreeInv, Shape', AgreeInv', [Next]_vars
               PROVE  [Abstract!Answer]_<<call, GivenAnswer>>
    OBVIOUS
  <2>1. CASE UNCHANGED vars
    BY <2>1 DEF vars, GivenAnswer, Answered, Verdict, NoAnswer
  <2>2. CASE Finish
    BY <2>2, AnswerStep
  <2>3. CASE Next /\ ~Finish
    BY <2>3, NothingAfterDone, OnlyFinishAnswers DEF GivenAnswer, Answered, NoAnswer
  <2> QED
    BY <2>1, <2>2, <2>3
<1> QED
  BY <1>1, <1>2, ShapeAlways, AgreeAlways, PTL
     DEF Spec, ImplementsPureCall, Abstract!Spec, GivenAnswer

------------------------------------------------------------------------------
(***************************************************************************)
(* Larger limits: what a machine m answers without reporting a limit, a    *)
(* machine w of the same program with limits at least as large answers     *)
(* too, and if x more steps were left at the start, x more are at the end. *)
(*                                                                         *)
(* All of BigStep recurs on fewer steps, so this is shown by induction on  *)
(* the steps that are left.                                                *)
(***************************************************************************)
Wider(m, w) ==
  /\ m.functions = FunctionTable /\ w.functions = FunctionTable
  /\ m.limits.max_memory_bytes \in Nat /\ m.limits.max_recursion_depth \in Nat
  /\ w.limits.max_memory_bytes \in Nat /\ w.limits.max_recursion_depth \in Nat
  /\ w.limits.max_memory_bytes >= m.limits.max_memory_bytes
  /\ w.limits.max_recursion_depth >= m.limits.max_recursion_depth

Cut(r) == ~r.ok /\ r.code \in LimitCodes

Longer(b, c, x) == c.r = b.r /\ c.hit = b.hit /\ c.env = b.env /\ c.steps = b.steps + x

(* A match that follows from one with k steps left, in both machines. *)
Matches(b, c, k, x) == b.steps \in Nat /\ b.steps <= k /\ (Cut(b.r) \/ Longer(b, c, x))

(* An outcome where k steps were left, in both machines. *)
Follows(o, p, k, x) ==
  /\ o.steps \in Nat /\ o.steps <= k /\ o.mem \in Nat
  /\ Cut(o.r) \/ (p.r = o.r /\ p.steps = o.steps + x /\ p.mem = o.mem)

Expressions == DOMAIN Program.heights

MatchKeeps(x, k) ==
  \A todo, b, c :
    TodoOk(todo) /\ b.steps = k /\ Longer(b, c, x)
      => Matches(MatchAll(todo, b), MatchAll(todo, c), k, x)

EvalKeeps(m, w, x, k) ==
  \A n \in Expressions, d \in Nat, b \in Nat : \A e :
    LET o == EvalIn(m, n, e, d, Budget(k, b))
    IN  /\ Follows(o, EvalIn(w, n, e, d, Budget(k + x, b)), k, x)
        /\ o.r.ok => o.steps < k

RestKeeps(m, w, x, k) ==
  \A d \in Nat, b \in Nat : \A ns, vals, e :
    IsSeq(ns) /\ Range(ns) \subseteq Expressions /\ IsSeq(vals)
      => Follows(EvalRest(m, ns, vals, e, d, Budget(k, b)),
                 EvalRest(w, ns, vals, e, d, Budget(k + x, b)), k, x)

ArmsFit(arms) ==
  /\ IsSeq(arms)
  /\ \A i \in DOMAIN arms : /\ arms[i].pat \in DOMAIN Program.binds
                            /\ arms[i].body \in Expressions

ArmsKeep(m, w, x, k) ==
  \A d \in Nat, b \in Nat, i \in Nat \ {0} : \A arms, v, e :
    ArmsFit(arms)
      => Follows(ChooseArm(m, arms, i, v, e, d, Budget(k, b)),
                 ChooseArm(w, arms, i, v, e, d, Budget(k + x, b)), k, x)

LEMMA FollowsLater ==
  ASSUME NEW o, NEW p, NEW x, NEW j \in Nat, NEW k \in Nat, j <= k, Follows(o, p, j, x)
  PROVE  Follows(o, p, k, x)
BY DEF Follows

(***************************************************************************)
(* Patterns.                                                               *)
(***************************************************************************)
LEMMA MatchesStop ==
  ASSUME NEW x \in Nat, NEW k \in Nat, NEW b, NEW c, NEW j \in Nat, j <= k,
         b.steps = j, Longer(b, c, x)
  PROVE  Matches(b, c, k, x)
BY DEF Matches

LEMMA BindingsKeep ==
  ASSUME Shape, NEW x \in Nat, NEW k \in Nat, \A j \in 0 .. k - 1 : MatchKeeps(x, j),
         NEW q \in DOMAIN Program.binds, NEW v, NEW b, NEW c, b.steps = k, Longer(b, c, x)
  PROVE  /\ Matches(Bindings(q, v, b), Bindings(q, v, c), k, x)
         /\ Bindings(q, v, b).r.ok => Bindings(q, v, b).steps < k
<1>0. q.kind \in {"Wildcard", "Binding", "Variant"}
  BY ProgramPatterns DEF PatternsOk
<1>1. CASE k = 0
  <2>1. Bindings(q, v, b) = Match(Err("StepLimitExceeded", "steps"), b.hit, b.env, b.steps)
    BY <1>1 DEF Bindings
  <2> QED
    BY <1>1, <2>1 DEF Matches, Match, Err, Cut, LimitCodes
<1>2. ASSUME k # 0 PROVE c.steps # 0 /\ c.steps - 1 = k - 1 + x /\ k - 1 \in 0 .. k - 1
  BY <1>2 DEF Longer
<1>3. ASSUME k # 0, NEW r, NEW hit, NEW e,
             Bindings(q, v, b) = Match(r, hit, e, k - 1),
             Bindings(q, v, c) = Match(r, hit, e, c.steps - 1)
      PROVE  /\ Matches(Bindings(q, v, b), Bindings(q, v, c), k, x)
             /\ Bindings(q, v, b).steps < k
  BY <1>2, <1>3 DEF Matches, Longer, Match
<1>4. CASE k # 0 /\ q.kind = "Wildcard"
  <2>1. /\ Bindings(q, v, b) = Match(b.r, b.hit, b.env, k - 1)
        /\ Bindings(q, v, c) = Match(b.r, b.hit, b.env, c.steps - 1)
    BY <1>2, <1>4 DEF Bindings, Longer
  <2> QED
    BY <1>3, <1>4, <2>1
<1>5. CASE k # 0 /\ q.kind = "Binding"
  <2>1. /\ Bindings(q, v, b) = Match(b.r, b.hit, Bind(b.env, q.name, v), k - 1)
        /\ Bindings(q, v, c) = Match(b.r, b.hit, Bind(b.env, q.name, v), c.steps - 1)
    BY <1>2, <1>5 DEF Bindings, Longer
  <2> QED
    BY <1>3, <1>5, <2>1
<1>6. CASE k # 0 /\ q.kind = "Variant"
  <2> DEFINE todo == FieldPatterns(q, v.fields)
             inner == Match(b.r, b.hit, b.env, k - 1)
             outer == Match(b.r, b.hit, b.env, c.steps - 1)
  <2>1. CASE v.t # "Enum"
    <3> DEFINE r == Err("InvalidInput", "not_enum_like")
    <3>1. /\ Bindings(q, v, b) = Match(r, b.hit, b.env, k - 1)
          /\ Bindings(q, v, c) = Match(r, b.hit, b.env, c.steps - 1)
      BY <1>2, <1>6, <2>1 DEF Bindings, Longer
    <3> QED
      BY <1>3, <1>6, <3>1
  <2>2. CASE v.t = "Enum" /\ v.tag # q.name
    <3>1. /\ Bindings(q, v, b) = Match(b.r, FALSE, b.env, k - 1)
          /\ Bindings(q, v, c) = Match(b.r, FALSE, b.env, c.steps - 1)
      BY <1>2, <1>6, <2>2 DEF Bindings, Longer
    <3> QED
      BY <1>3, <1>6, <3>1
  <2>3. CASE v.t = "Enum" /\ v.tag = q.name
    <3>1. /\ Bindings(q, v, b) = MatchAll(todo, inner)
          /\ Bindings(q, v, c) = MatchAll(todo, outer)
      BY <1>2, <1>6, <2>3 DEF Bindings, Longer, FieldPatterns
    <3>2. TodoOk(todo)
      BY <1>6, FieldsToMatch
    <3>3. inner.steps = k - 1 /\ Longer(inner, outer, x)
      BY <1>2, <1>6 DEF Match, Longer
    <3>4. MatchKeeps(x, k - 1)
      BY <1>2, <1>6
    <3> HIDE DEF todo, inner, outer
    <3>5. Matches(MatchAll(todo, inner), MatchAll(todo, outer), k - 1, x)
      BY <3>2, <3>3, <3>4 DEF MatchKeeps
    <3> QED
      BY <1>6, <3>1, <3>5 DEF Matches
  <2> QED
    BY <2>1, <2>2, <2>3
<1> QED
  BY <1>0, <1>1, <1>4, <1>5, <1>6

LEMMA MatchKept ==
  ASSUME RecursionEquations, Shape, NEW x \in Nat, NEW k \in Nat,
         \A j \in 0 .. k - 1 : MatchKeeps(x, j)
  PROVE  MatchKeeps(x, k)
<1> SUFFICES ASSUME NEW todo, NEW b, NEW c, TodoOk(todo), b.steps = k, Longer(b, c, x)
             PROVE  Matches(MatchAll(todo, b), MatchAll(todo, c), k, x)
  BY DEF MatchKeeps
<1>0. /\ \A t, a : MatchAll(t, a) = MatchAllStep(t, a)
      /\ c.r = b.r /\ c.hit = b.hit
  BY DEF RecursionEquations, Longer
<1>1. CASE todo = <<>> \/ ~b.hit \/ ~b.r.ok
  <2>1. MatchAll(todo, b) = b /\ MatchAll(todo, c) = c
    BY <1>0, <1>1 DEF MatchAllStep
  <2> QED
    BY <2>1, MatchesStop
<1>2. CASE ~(todo = <<>> \/ ~b.hit \/ ~b.r.ok)
  <2> DEFINE h == Head(todo)
             t == Tail(todo)
             missing(a) == Match(Err("InvalidInput", "missing_payload_field"), a.hit, a.env, a.steps)
             v == CHOOSE u \in h.src : TRUE
  <2>1. TodoOk(t) /\ h.pat \in DOMAIN Program.binds
    BY <1>2, TodoParts
  <2>2. ASSUME NEW a, ~a.r.ok PROVE MatchAll(t, a) = a
    BY <1>0, <2>2 DEF MatchAllStep
  <2>3. CASE h.src = {}
    <3>1. MatchAll(todo, b) = MatchAll(t, missing(b)) /\ MatchAll(todo, c) = MatchAll(t, missing(c))
      BY <1>0, <1>2, <2>3 DEF MatchAllStep
    <3>2. ~missing(b).r.ok /\ ~missing(c).r.ok
      BY DEF Match, Err
    <3>3. MatchAll(t, missing(b)) = missing(b) /\ MatchAll(t, missing(c)) = missing(c)
      BY <2>2, <3>2
    <3>4. missing(b).steps = k /\ Longer(missing(b), missing(c), x)
      BY DEF Match, Longer
    <3> HIDE DEF missing
    <3> QED
      BY <3>1, <3>3, <3>4, MatchesStop
  <2>4. CASE h.src # {}
    <3> DEFINE f == Bindings(h.pat, v, b)
               g == Bindings(h.pat, v, c)
    <3>1. MatchAll(todo, b) = MatchAll(t, f) /\ MatchAll(todo, c) = MatchAll(t, g)
      BY <1>0, <1>2, <2>4 DEF MatchAllStep
    <3>2. Matches(f, g, k, x) /\ (f.r.ok => f.steps < k)
      BY <2>1, BindingsKeep
    <3> HIDE DEF f, g, t, v
    <3>3. CASE ~f.r.ok
      <4>1. MatchAll(t, f) = f
        BY <2>2, <3>3
      <4>2. Longer(f, g, x) => MatchAll(t, g) = g
        BY <2>2, <3>3 DEF Longer
      <4> QED
        BY <3>1, <3>2, <4>1, <4>2 DEF Matches
    <3>4. CASE f.r.ok
      <4>1. f.steps \in 0 .. k - 1 /\ Longer(f, g, x)
        BY <3>2, <3>4 DEF Matches, Cut
      <4>2. MatchKeeps(x, f.steps)
        BY <4>1
      <4>3. Matches(MatchAll(t, f), MatchAll(t, g), f.steps, x)
        BY <2>1, <4>1, <4>2 DEF MatchKeeps
      <4> QED
        BY <3>1, <4>1, <4>3 DEF Matches
    <3> QED
      BY <3>3, <3>4
  <2> QED
    BY <2>3, <2>4
<1> QED
  BY <1>1, <1>2

LEMMA MatchAlwaysKeeps ==
  ASSUME RecursionEquations, Shape, NEW x \in Nat
  PROVE  \A k \in Nat : MatchKeeps(x, k)
<1> DEFINE T == {k \in Nat : ~MatchKeeps(x, k)}
<1>1. SUFFICES T = {}
  OBVIOUS
<1>2. CASE T # {}
  <2>1. PICK n \in T : \A k \in T : n <= k
    BY <1>2, LeastNumber
  <2>2. n \in Nat /\ ~MatchKeeps(x, n)
    OBVIOUS
  <2>3. \A j \in 0 .. n - 1 : MatchKeeps(x, j)
    BY <2>1, <2>2
  <2> QED
    BY <2>2, <2>3, MatchKept
<1> QED
  BY <1>2

------------------------------------------------------------------------------
(***************************************************************************)
(* Calls, operands, arms and expressions.                                  *)
(***************************************************************************)
LEMMA FaultFollows ==
  ASSUME NEW x \in Nat, NEW k \in Nat, NEW j \in Nat, j <= k, NEW b \in Nat, NEW c, NEW y, NEW p,
         \/ c \in LimitCodes
         \/ p = Fault(c, y, Budget(j + x, b))
  PROVE  /\ Follows(Fault(c, y, Budget(j, b)), p, k, x)
         /\ ~Fault(c, y, Budget(j, b)).r.ok
<1> DEFINE o == Fault(c, y, Budget(j, b))
<1>1. o.steps = j /\ o.mem = b /\ o.r = Err(c, y)
  BY DEF Fault, Outcome, Budget
<1>2. ~Err(c, y).ok /\ Err(c, y).code = c
  BY DEF Err
<1>3. p = Fault(c, y, Budget(j + x, b)) => p.r = Err(c, y) /\ p.steps = j + x /\ p.mem = b
  BY DEF Fault, Outcome, Budget
<1> HIDE DEF o
<1>4. Follows(o, p, k, x) /\ ~o.r.ok
  BY <1>1, <1>2, <1>3 DEF Follows, Cut
<1> QED
  BY <1>4 DEF o

LEMMA OutcomeFollows ==
  ASSUME NEW x \in Nat, NEW k \in Nat, NEW j \in Nat, j <= k, NEW b \in Nat, NEW r
  PROVE  Follows(Outcome(r, Budget(j, b)), Outcome(r, Budget(j + x, b)), k, x)
BY DEF Follows, Outcome, Budget

LEMMA ApplyKept ==
  ASSUME Shape, NEW m, NEW w, Wider(m, w), NEW x \in Nat, NEW k \in Nat,
         \A j \in 0 .. k - 1 : EvalKeeps(m, w, x, j),
         NEW f, NEW args, NEW d \in Nat, NEW b \in Nat
  PROVE  Follows(ApplyFn(m, f, args, d, Budget(k, b)),
                 ApplyFn(w, f, args, d, Budget(k + x, b)), k, x)
<1> DEFINE o == ApplyFn(m, f, args, d, Budget(k, b))
           p == ApplyFn(w, f, args, d, Budget(k + x, b))
<1> SUFFICES Follows(o, p, k, x)
  OBVIOUS
<1> HIDE DEF o, p
<1>1. CASE k = 0
  <2>1. o = Fault("StepLimitExceeded", "steps", Budget(k, b))
    BY <1>1, BudgetParts DEF o, p, ApplyFn
  <2> QED
    BY <2>1, FaultFollows DEF LimitCodes
<1>2. ASSUME k # 0
      PROVE  /\ k - 1 \in 0 .. k - 1 /\ k - 1 <= k /\ k + x # 0
             /\ Spend(Budget(k, b)) = Budget(k - 1, b)
             /\ Spend(Budget(k + x, b)) = Budget(k - 1 + x, b)
             /\ Budget(k, b).steps # 0 /\ Budget(k + x, b).steps # 0
  BY <1>2 DEF Budget, Spend
<1>3. CASE k # 0 /\ d >= m.limits.max_recursion_depth
  <2>1. o = Fault("RecursionLimitExceeded", "depth", Budget(k - 1, b))
    BY <1>2, <1>3 DEF o, p, ApplyFn
  <2> QED
    BY <1>2, <1>3, <2>1, FaultFollows DEF LimitCodes
<1>4. CASE k # 0 /\ ~(d >= m.limits.max_recursion_depth)
  <2>1. ~(d >= w.limits.max_recursion_depth)
    BY <1>4 DEF Wider
  <2>2. m.functions = FunctionTable /\ w.functions = FunctionTable
    BY DEF Wider
  <2>3. CASE f \notin DOMAIN FunctionTable
    <3>1. /\ o = Fault("Trap", "unknown_function", Budget(k - 1, b))
          /\ p = Fault("Trap", "unknown_function", Budget(k - 1 + x, b))
      BY <1>2, <1>4, <2>1, <2>2, <2>3 DEF o, p, ApplyFn
    <3> QED
      BY <1>2, <1>4, <3>1, FaultFollows
  <2>4. CASE f \in DOMAIN FunctionTable /\ Len(args) # Len(FunctionTable[f].params)
    <3>1. /\ o = Fault("Trap", "arity", Budget(k - 1, b))
          /\ p = Fault("Trap", "arity", Budget(k - 1 + x, b))
      BY <1>2, <1>4, <2>1, <2>2, <2>4 DEF o, p, ApplyFn
    <3> QED
      BY <1>2, <1>4, <3>1, FaultFollows
  <2>5. CASE f \in DOMAIN FunctionTable /\ Len(args) = Len(FunctionTable[f].params)
    <3> DEFINE n == FunctionTable[f].body
               e == InsertAll(FunctionTable[f].params, args)
    <3>1. /\ o = EvalIn(m, n, e, d + 1, Budget(k - 1, b))
          /\ p = EvalIn(w, n, e, d + 1, Budget(k - 1 + x, b))
      BY <1>2, <1>4, <2>1, <2>2, <2>5 DEF o, p, ApplyFn
    <3>2. n \in Expressions /\ d + 1 \in Nat
      BY <2>5, ProgramNests DEF NestingOk, Expressions, FunctionTable
    <3>3. EvalKeeps(m, w, x, k - 1)
      BY <1>2, <1>4
    <3> HIDE DEF n, e
    <3>4. Follows(o, p, k - 1, x)
      BY <3>1, <3>2, <3>3 DEF EvalKeeps
    <3> QED
      BY <1>2, <1>4, <3>4, FollowsLater
  <2> QED
    BY <2>3, <2>4, <2>5
<1> QED
  BY <1>1, <1>3, <1>4

LEMMA ChargeFollows ==
  ASSUME EstimatesAreUsize, \A v : BytesOf(v) = EstimateBytes(v),
         NEW m, NEW w, Wider(m, w), NEW x \in Nat, NEW k \in Nat,
         NEW o, NEW p, Follows(o, p, k, x)
  PROVE  Follows(Charged(m, o), Charged(w, p), k, x)
<1>1. CASE ~o.r.ok
  <2>1. Charged(m, o) = o
    BY <1>1, ChargedError
  <2>2. ~Cut(o.r) => Charged(w, p) = p
    BY <1>1, ChargedError DEF Follows
  <2> QED
    BY <2>1, <2>2 DEF Follows
<1>2. CASE o.r.ok
  <2> DEFINE total == o.mem + BytesOf(o.r.val)
             sum == IF total > MaxUsize THEN MaxUsize ELSE total
  <2>1. /\ o.steps \in Nat /\ o.steps <= k /\ o.mem \in Nat
        /\ p.r = o.r /\ p.steps = o.steps + x /\ p.mem = o.mem
    BY <1>2 DEF Follows, Cut
  <2>2. sum \in Nat
    <3>1. BytesOf(o.r.val) \in Nat
      BY UsizeAssumption DEF EstimatesAreUsize
    <3> HIDE DEF EstimatesAreUsize
    <3> QED
      BY <2>1, <3>1, UsizeAssumption
  <2>3. /\ Charged(m, o) = IF sum > m.limits.max_memory_bytes
                             THEN Fault("MemoryLimitExceeded", "memory", Budget(o.steps, sum))
                             ELSE Outcome(o.r, Budget(o.steps, sum))
        /\ Charged(w, p) = IF sum > w.limits.max_memory_bytes
                             THEN Fault("MemoryLimitExceeded", "memory", Budget(o.steps + x, sum))
                             ELSE Outcome(o.r, Budget(o.steps + x, sum))
    BY <1>2, <2>1 DEF Charged
  <2> HIDE DEF sum
  <2>4. CASE sum > m.limits.max_memory_bytes
    <3>1. "MemoryLimitExceeded" \in LimitCodes
      BY DEF LimitCodes
    <3>2. Follows(Fault("MemoryLimitExceeded", "memory", Budget(o.steps, sum)), Charged(w, p), k, x)
      BY <2>1, <2>2, <3>1, FaultFollows
    <3> QED
      BY <2>3, <2>4, <3>2
  <2>5. CASE ~(sum > m.limits.max_memory_bytes)
    <3>1. ~(sum > w.limits.max_memory_bytes)
      BY <2>2, <2>5 DEF Wider
    <3> QED
      BY <2>1, <2>2, <2>3, <2>5, <3>1, OutcomeFollows
  <2> QED
    BY <2>4, <2>5
<1> QED
  BY <1>1, <1>2

(* An operand, and those that come after it. *)
LEMMA RestKept ==
  ASSUME RecursionEquations, NEW m, NEW w, NEW x \in Nat, NEW k \in Nat,
         EvalKeeps(m, w, x, k), \A j \in 0 .. k - 1 : RestKeeps(m, w, x, j)
  PROVE  RestKeeps(m, w, x, k)
<1> SUFFICES ASSUME NEW d \in Nat, NEW b \in Nat, NEW ns, NEW vals, NEW e,
                    IsSeq(ns), Range(ns) \subseteq Expressions, IsSeq(vals)
             PROVE  Follows(EvalRest(m, ns, vals, e, d, Budget(k, b)),
                            EvalRest(w, ns, vals, e, d, Budget(k + x, b)), k, x)
  BY DEF RestKeeps
<1>0. /\ EvalRest(m, ns, vals, e, d, Budget(k, b)) = EvalRestStep(m, ns, vals, e, d, Budget(k, b))
      /\ EvalRest(w, ns, vals, e, d, Budget(k + x, b))
           = EvalRestStep(w, ns, vals, e, d, Budget(k + x, b))
  BY DEF RecursionEquations
<1>1. Len(vals) \in Nat /\ Len(ns) \in Nat /\ DOMAIN ns = 1 .. Len(ns)
  BY Domain
<1>2. CASE Len(vals) >= Len(ns)
  BY <1>0, <1>2, OutcomeFollows DEF EvalRestStep
<1>3. CASE ~(Len(vals) >= Len(ns))
  <2> DEFINE n == ns[Len(vals) + 1]
             o == EvalIn(m, n, e, d, Budget(k, b))
             p == EvalIn(w, n, e, d, Budget(k + x, b))
  <2>1. n \in Expressions
    <3>1. Len(vals) + 1 \in DOMAIN ns
      BY <1>1, <1>3
    <3> QED
      BY <3>1 DEF Range
  <2>2. Follows(o, p, k, x) /\ (o.r.ok => o.steps < k)
    <3> HIDE DEF n
    <3> QED
      BY <2>1 DEF EvalKeeps
  <2>3. /\ EvalRestStep(m, ns, vals, e, d, Budget(k, b))
             = IF o.r.ok THEN EvalRest(m, ns, Append(vals, o.r.val), e, d, Left(o)) ELSE o
        /\ EvalRestStep(w, ns, vals, e, d, Budget(k + x, b))
             = IF p.r.ok THEN EvalRest(w, ns, Append(vals, p.r.val), e, d, Left(p)) ELSE p
    BY <1>3 DEF EvalRestStep
  <2> HIDE DEF o, p
  <2>4. CASE ~o.r.ok
    BY <1>0, <2>2, <2>3, <2>4 DEF Follows
  <2>5. CASE o.r.ok
    <3> DEFINE t == Append(vals, o.r.val)
    <3>1. /\ o.steps \in 0 .. k - 1 /\ o.mem \in Nat
          /\ p.r = o.r /\ p.steps = o.steps + x /\ p.mem = o.mem
      BY <2>2, <2>5 DEF Follows, Cut
    <3>2. IsSeq(t)
      BY Appended
    <3>3. /\ EvalRest(m, ns, vals, e, d, Budget(k, b))
               = EvalRest(m, ns, t, e, d, Budget(o.steps, o.mem))
          /\ EvalRest(w, ns, vals, e, d, Budget(k + x, b))
               = EvalRest(w, ns, t, e, d, Budget(o.steps + x, o.mem))
      BY <1>0, <2>3, <2>5, <3>1 DEF Left
    <3>4. RestKeeps(m, w, x, o.steps)
      BY <3>1
    <3> HIDE DEF t
    <3>5. Follows(EvalRest(m, ns, t, e, d, Budget(o.steps, o.mem)),
                  EvalRest(w, ns, t, e, d, Budget(o.steps + x, o.mem)), o.steps, x)
      BY <3>1, <3>2, <3>4 DEF RestKeeps
    <3> QED
      BY <3>1, <3>3, <3>5, FollowsLater
  <2> QED
    BY <2>4, <2>5
<1> QED
  BY <1>2, <1>3

(* The arms of a match, from the i-th on. *)
LEMMA ArmsKept ==
  ASSUME RecursionEquations, Shape, NEW m, NEW w, NEW x \in Nat, NEW k \in Nat,
         \A j \in 0 .. k - 1 : EvalKeeps(m, w, x, j) /\ ArmsKeep(m, w, x, j)
  PROVE  ArmsKeep(m, w, x, k)
<1> SUFFICES ASSUME NEW d \in Nat, NEW b \in Nat, NEW i \in Nat \ {0}, NEW arms, NEW v, NEW e,
                    ArmsFit(arms)
             PROVE  Follows(ChooseArm(m, arms, i, v, e, d, Budget(k, b)),
                            ChooseArm(w, arms, i, v, e, d, Budget(k + x, b)), k, x)
  BY DEF ArmsKeep
<1> DEFINE o == ChooseArm(m, arms, i, v, e, d, Budget(k, b))
           p == ChooseArm(w, arms, i, v, e, d, Budget(k + x, b))
<1> SUFFICES Follows(o, p, k, x)
  OBVIOUS
<1> HIDE DEF o, p
<1>0. /\ o = ChooseArmStep(m, arms, i, v, e, d, Budget(k, b))
      /\ p = ChooseArmStep(w, arms, i, v, e, d, Budget(k + x, b))
  BY DEF RecursionEquations, o, p
<1>1. Len(arms) \in Nat /\ DOMAIN arms = 1 .. Len(arms)
  BY Domain DEF ArmsFit
<1>2. CASE ~(i <= Len(arms))
  <2>1. /\ o = Fault("Trap", "non_exhaustive_match", Budget(k, b))
        /\ p = Fault("Trap", "non_exhaustive_match", Budget(k + x, b))
    BY <1>0, <1>2 DEF ChooseArmStep
  <2> QED
    BY <2>1, FaultFollows
<1>3. CASE i <= Len(arms)
  <2> DEFINE q == arms[i].pat
             body == arms[i].body
             near == Match(Ok(v), TRUE, e, k)
             far == Match(Ok(v), TRUE, e, k + x)
             f == Bindings(q, v, near)
             g == Bindings(q, v, far)
  <2>1. q \in DOMAIN Program.binds /\ body \in Expressions
    BY <1>1, <1>3 DEF ArmsFit
  <2>2. /\ o = Chosen(m, arms, i, v, e, d, b, f)
        /\ p = Chosen(w, arms, i, v, e, d, b, g)
    BY <1>0, <1>3 DEF ChooseArmStep, Budget
  <2>3. near.steps = k /\ Longer(near, far, x)
    BY DEF Match, Longer
  <2>4. Matches(f, g, k, x) /\ (f.r.ok => f.steps < k)
    <3>1. \A j \in 0 .. k - 1 : MatchKeeps(x, j)
      BY MatchAlwaysKeeps
    <3> HIDE DEF q, near, far
    <3> QED
      BY <2>1, <2>3, <3>1, BindingsKeep
  <2> HIDE DEF q, f, g
  <2>5. CASE ~f.r.ok
    <3>1. o = Outcome(f.r, Budget(f.steps, b))
      BY <2>2, <2>5 DEF Chosen
    <3>2. CASE Cut(f.r)
      BY <2>4, <3>1, <3>2 DEF Follows, Matches, Outcome, Budget
    <3>3. CASE ~Cut(f.r)
      <4>1. f.steps \in Nat /\ f.steps <= k /\ g.r = f.r /\ g.steps = f.steps + x
        BY <2>4, <3>3 DEF Matches, Longer
      <4>2. p = Outcome(f.r, Budget(f.steps + x, b))
        BY <2>2, <2>5, <4>1 DEF Chosen
      <4> QED
        BY <3>1, <4>1, <4>2, OutcomeFollows
    <3> QED
      BY <3>2, <3>3
  <2>6. CASE f.r.ok
    <3>1. /\ f.steps \in 0 .. k - 1 /\ f.steps \in Nat /\ f.steps <= k
          /\ g.r = f.r /\ g.hit = f.hit /\ g.env = f.env /\ g.steps = f.steps + x
      BY <2>4, <2>6 DEF Matches, Longer, Cut
    <3>2. EvalKeeps(m, w, x, f.steps) /\ ArmsKeep(m, w, x, f.steps)
      BY <3>1
    <3>3. CASE f.hit
      <4>1. /\ o = EvalIn(m, body, f.env, d, Budget(f.steps, b))
            /\ p = EvalIn(w, body, f.env, d, Budget(f.steps + x, b))
        BY <2>2, <2>6, <3>1, <3>3 DEF Chosen
      <4> HIDE DEF body
      <4>2. Follows(o, p, f.steps, x)
        BY <2>1, <3>2, <4>1 DEF EvalKeeps
      <4> QED
        BY <3>1, <4>2, FollowsLater
    <3>4. CASE ~f.hit
      <4>1. /\ o = ChooseArm(m, arms, i + 1, v, e, d, Budget(f.steps, b))
            /\ p = ChooseArm(w, arms, i + 1, v, e, d, Budget(f.steps + x, b))
        BY <2>2, <2>6, <3>1, <3>4 DEF Chosen
      <4>2. i + 1 \in Nat \ {0}
        OBVIOUS
      <4>3. Follows(o, p, f.steps, x)
        BY <3>2, <4>1, <4>2 DEF ArmsKeep
      <4> QED
        BY <3>1, <4>3, FollowsLater
    <3> QED
      BY <3>3, <3>4
  <2> QED
    BY <2>5, <2>6
<1> QED
  BY <1>2, <1>3

(* A compound expression, given its operands. *)
LEMMA MadeKept ==
  ASSUME Shape, NEW m, NEW w, Wider(m, w), NEW x \in Nat, NEW k \in Nat,
         \A j \in 0 .. k : EvalKeeps(m, w, x, j),
         NEW n, HasKids(n), NEW d \in Nat, NEW o, NEW p, Follows(o, p, k, x)
  PROVE  Follows(Made(m, n, d, o), Made(w, n, d, p), k, x)
<1>1. CASE ~o.r.ok
  <2>1. Made(m, n, d, o) = o /\ (~p.r.ok => Made(w, n, d, p) = p)
    BY <1>1 DEF Made
  <2> QED
    BY <1>1, <2>1 DEF Follows
<1>2. CASE o.r.ok
  <2>1. /\ o.steps \in Nat /\ o.steps <= k /\ o.mem \in Nat
        /\ p.r = o.r /\ p.steps = o.steps + x /\ p.mem = o.mem
    BY <1>2 DEF Follows, Cut
  <2>2. Left(o) = Budget(o.steps, o.mem) /\ Left(p) = Budget(o.steps + x, o.mem)
    BY <2>1 DEF Left
  <2>3. ASSUME NEW r, Made(m, n, d, o) = Outcome(r, Left(o)), Made(w, n, d, p) = Outcome(r, Left(p))
        PROVE  Follows(Made(m, n, d, o), Made(w, n, d, p), k, x)
    BY <2>1, <2>2, <2>3, OutcomeFollows
  <2>4. CASE n.kind = "Tuple"
    <3>1. /\ Made(m, n, d, o) = Outcome(Ok(TupleV(o.r.val)), Left(o))
          /\ Made(w, n, d, p) = Outcome(Ok(TupleV(o.r.val)), Left(p))
      BY <1>2, <2>1, <2>4 DEF Made
    <3> QED
      BY <2>3, <3>1
  <2>5. CASE n.kind = "List"
    <3>1. /\ Made(m, n, d, o) = Outcome(Ok(ListV(o.r.val)), Left(o))
          /\ Made(w, n, d, p) = Outcome(Ok(ListV(o.r.val)), Left(p))
      BY <1>2, <2>1, <2>5 DEF Made
    <3> QED
      BY <2>3, <3>1
  <2>6. CASE n.kind = "Record"
    <3>1. /\ Made(m, n, d, o) = Outcome(Ok(EnumV(n.name, InsertAll(n.names, o.r.val))), Left(o))
          /\ Made(w, n, d, p) = Outcome(Ok(EnumV(n.name, InsertAll(n.names, o.r.val))), Left(p))
      BY <1>2, <2>1, <2>6 DEF Made
    <3> QED
      BY <2>3, <3>1
  <2>7. CASE n.kind = "Binary"
    <3>1. /\ Made(m, n, d, o) = Outcome(EvalBinary(n.op, o.r.val[1], o.r.val[2]), Left(o))
          /\ Made(w, n, d, p) = Outcome(EvalBinary(n.op, o.r.val[1], o.r.val[2]), Left(p))
      BY <1>2, <2>1, <2>7 DEF Made
    <3> QED
      BY <2>3, <3>1
  <2>8. CASE n.kind = "Call"
    <3>1. /\ Made(m, n, d, o) = ApplyFn(m, n.callee, o.r.val, d, Budget(o.steps, o.mem))
          /\ Made(w, n, d, p) = ApplyFn(w, n.callee, o.r.val, d, Budget(o.steps + x, o.mem))
      BY <1>2, <2>1, <2>2, <2>8 DEF Made
    <3>2. \A j \in 0 .. o.steps - 1 : EvalKeeps(m, w, x, j)
      BY <2>1
    <3>3. Follows(Made(m, n, d, o), Made(w, n, d, p), o.steps, x)
      BY <2>1, <3>1, <3>2, ApplyKept
    <3> QED
      BY <2>1, <3>3, FollowsLater
  <2> QED
    BY <2>4, <2>5, <2>6, <2>7, <2>8 DEF HasKids
<1> QED
  BY <1>1, <1>2

(* The parts of an expression of the program. *)
LEMMA ExpressionParts ==
  ASSUME Shape, NEW n \in Expressions
  PROVE  /\ IsLeaf(n) \/ HasKids(n) \/ n.kind \in {"Let", "Match"}
         /\ HasKids(n) => IsSeq(n.kids) /\ Range(n.kids) \subseteq Expressions
         /\ n.kind = "Let" => n.value \in Expressions /\ n.body \in Expressions
         /\ n.kind = "Match" => n.subject \in Expressions /\ ArmsFit(n.arms)
<1>1. /\ IrShape(n)
      /\ \A p \in SubExpressions(n) : p \in Expressions
  BY ProgramNests DEF NestingOk, Expressions
<1>2. CASE IsLeaf(n)
  BY <1>2 DEF IsLeaf, HasKids
<1>3. CASE HasKids(n)
  <2>1. SubExpressions(n) = Range(n.kids) /\ IsSeq(n.kids)
    BY <1>1, <1>3 DEF SubExpressions, HasKids, IsLeaf, IrShape
  <2> QED
    BY <1>1, <1>3, <2>1 DEF HasKids
<1>4. CASE n.kind = "Let"
  <2>1. SubExpressions(n) = {n.value, n.body}
    BY <1>4 DEF SubExpressions, HasKids, IsLeaf
  <2> QED
    BY <1>1, <1>4, <2>1 DEF HasKids
<1>5. CASE n.kind = "Match"
  <2>1. /\ SubExpressions(n) = {n.subject} \cup {n.arms[i].body : i \in DOMAIN n.arms}
        /\ IsSeq(n.arms)
    BY <1>1, <1>5 DEF SubExpressions, HasKids, IsLeaf, IrShape
  <2>2. \A i \in DOMAIN n.arms : n.arms[i].pat \in DOMAIN Program.binds
    BY <1>5, ProgramPatterns DEF PatternsOk, Expressions
  <2>3. n.subject \in Expressions /\ \A i \in DOMAIN n.arms : n.arms[i].body \in Expressions
    BY <1>1, <2>1
  <2> QED
    BY <1>5, <2>1, <2>2, <2>3 DEF HasKids, ArmsFit
<1> QED
  BY <1>1, <1>2, <1>3, <1>4, <1>5 DEF IrShape

(* The value of an expression, before it is paid for. *)
LEMMA ValueKept ==
  ASSUME Shape, NEW m, NEW w, Wider(m, w), NEW x \in Nat, NEW k \in Nat,
         \A j \in 0 .. k : EvalKeeps(m, w, x, j) /\ ArmsKeep(m, w, x, j),
         RestKeeps(m, w, x, k),
         NEW n \in Expressions, NEW e, NEW d \in Nat, NEW b \in Nat
  PROVE  Follows(ValueOf(m, n, e, d, Budget(k, b)), ValueOf(w, n, e, d, Budget(k + x, b)), k, x)
<1> DEFINE near == Budget(k, b)
           far == Budget(k + x, b)
           o == ValueOf(m, n, e, d, near)
           p == ValueOf(w, n, e, d, far)
<1> SUFFICES Follows(o, p, k, x)
  OBVIOUS
<1> HIDE DEF o, p
<1>0. /\ IsLeaf(n) \/ HasKids(n) \/ n.kind \in {"Let", "Match"}
      /\ HasKids(n) => IsSeq(n.kids) /\ Range(n.kids) \subseteq Expressions
      /\ n.kind = "Let" => n.value \in Expressions /\ n.body \in Expressions
      /\ n.kind = "Match" => n.subject \in Expressions /\ ArmsFit(n.arms)
  BY ExpressionParts
<1>1. ASSUME NEW r, o = Outcome(r, near), p = Outcome(r, far) PROVE Follows(o, p, k, x)
  BY <1>1, OutcomeFollows
<1>2. EvalKeeps(m, w, x, k)
  OBVIOUS
<1>3. CASE n.kind = "Int"
  <2>1. o = Outcome(Ok(IntV(n.int)), near) /\ p = Outcome(Ok(IntV(n.int)), far)
    BY <1>3 DEF o, p, ValueOf
  <2> QED
    BY <1>1, <2>1
<1>4. CASE n.kind = "Bool"
  <2>1. o = Outcome(Ok(BoolV(n.bool)), near) /\ p = Outcome(Ok(BoolV(n.bool)), far)
    BY <1>4 DEF o, p, ValueOf
  <2> QED
    BY <1>1, <2>1
<1>5. CASE n.kind = "LocalRef"
  <2>1. CASE n.name \in DOMAIN e
    <3>1. o = Outcome(Ok(e[n.name]), near) /\ p = Outcome(Ok(e[n.name]), far)
      BY <1>5, <2>1 DEF o, p, ValueOf
    <3> QED
      BY <1>1, <3>1
  <2>2. CASE n.name \notin DOMAIN e
    <3>1. /\ o = Fault("Trap", "unknown_local", near)
          /\ p = Fault("Trap", "unknown_local", far)
      BY <1>5, <2>2 DEF o, p, ValueOf
    <3> QED
      BY <3>1, FaultFollows
  <2> QED
    BY <2>1, <2>2
<1>6. CASE HasKids(n)
  <2> DEFINE f == EvalRest(m, n.kids, <<>>, e, d, near)
             g == EvalRest(w, n.kids, <<>>, e, d, far)
  <2>1. o = Made(m, n, d, f) /\ p = Made(w, n, d, g)
    BY <1>6 DEF o, p, ValueOf, HasKids
  <2>2. IsSeq(<<>>)
    BY DEF IsSeq
  <2>3. Follows(f, g, k, x)
    BY <1>0, <1>6, <2>2 DEF RestKeeps
  <2> HIDE DEF f, g, near, far
  <2>4. \A j \in 0 .. k : EvalKeeps(m, w, x, j)
    OBVIOUS
  <2> QED
    BY <1>6, <2>1, <2>3, <2>4, MadeKept
<1>7. CASE n.kind = "Let"
  <2> DEFINE f == EvalIn(m, n.value, e, d, near)
             g == EvalIn(w, n.value, e, d, far)
  <2>1. o = BodyOf(m, n, e, d, f) /\ p = BodyOf(w, n, e, d, g)
    BY <1>7 DEF o, p, ValueOf
  <2>2. Follows(f, g, k, x)
    BY <1>0, <1>2, <1>7 DEF EvalKeeps
  <2> HIDE DEF f, g, near, far
  <2>3. CASE ~f.r.ok
    <3>1. o = f /\ (~g.r.ok => p = g)
      BY <2>1, <2>3 DEF BodyOf
    <3> QED
      BY <2>2, <2>3, <3>1 DEF Follows
  <2>4. CASE f.r.ok
    <3>1. /\ f.steps \in 0 .. k /\ f.steps \in Nat /\ f.steps <= k /\ f.mem \in Nat
          /\ g.r = f.r /\ g.steps = f.steps + x /\ g.mem = f.mem
      BY <2>2, <2>4 DEF Follows, Cut
    <3> DEFINE h == Bind(e, n.name, f.r.val)
    <3>2. /\ o = EvalIn(m, n.body, h, d, Budget(f.steps, f.mem))
          /\ p = EvalIn(w, n.body, h, d, Budget(f.steps + x, f.mem))
      BY <2>1, <2>4, <3>1 DEF BodyOf, Left
    <3>3. EvalKeeps(m, w, x, f.steps)
      BY <3>1
    <3> HIDE DEF h
    <3>4. Follows(o, p, f.steps, x)
      BY <1>0, <1>7, <3>1, <3>2, <3>3 DEF EvalKeeps
    <3> QED
      BY <3>1, <3>4, FollowsLater
  <2> QED
    BY <2>3, <2>4
<1>8. CASE n.kind = "Match"
  <2> DEFINE f == EvalIn(m, n.subject, e, d, near)
             g == EvalIn(w, n.subject, e, d, far)
  <2>1. o = ArmsOf(m, n, e, d, f) /\ p = ArmsOf(w, n, e, d, g)
    BY <1>8 DEF o, p, ValueOf
  <2>2. Follows(f, g, k, x)
    BY <1>0, <1>2, <1>8 DEF EvalKeeps
  <2> HIDE DEF f, g, near, far
  <2>3. CASE ~f.r.ok
    <3>1. o = f /\ (~g.r.ok => p = g)
      BY <2>1, <2>3 DEF ArmsOf
    <3> QED
      BY <2>2, <2>3, <3>1 DEF Follows
  <2>4. CASE f.r.ok
    <3>1. /\ f.steps \in 0 .. k /\ f.steps \in Nat /\ f.steps <= k /\ f.mem \in Nat
          /\ g.r = f.r /\ g.steps = f.steps + x /\ g.mem = f.mem
      BY <2>2, <2>4 DEF Follows, Cut
    <3>2. /\ o = ChooseArm(m, n.arms, 1, f.r.val, e, d, Budget(f.steps, f.mem))
          /\ p = ChooseArm(w, n.arms, 1, f.r.val, e, d, Budget(f.steps + x, f.mem))
      BY <2>1, <2>4, <3>1 DEF ArmsOf, Left
    <3>3. \A j \in Nat \ {0} : \A arms, v :
             ArmsFit(arms)
               => Follows(ChooseArm(m, arms, j, v, e, d, Budget(f.steps, f.mem)),
                          ChooseArm(w, arms, j, v, e, d, Budget(f.steps + x, f.mem)), f.steps, x)
      <4>1. ArmsKeep(m, w, x, f.steps)
        BY <3>1
      <4> QED
        BY <3>1, <4>1 DEF ArmsKeep
    <3>4. Follows(ChooseArm(m, n.arms, 1, f.r.val, e, d, Budget(f.steps, f.mem)),
                  ChooseArm(w, n.arms, 1, f.r.val, e, d, Budget(f.steps + x, f.mem)), f.steps, x)
      <4>1. 1 \in Nat \ {0} /\ ArmsFit(n.arms)
        BY <1>0, <1>8
      <4> QED
        BY <3>3, <4>1, Zenon
    <3>5. Follows(o, p, f.steps, x)
      BY <3>2, <3>4, Zenon
    <3> QED
      BY <3>1, <3>5, FollowsLater
  <2> QED
    BY <2>3, <2>4
<1> QED
  BY <1>0, <1>3, <1>4, <1>5, <1>6, <1>7, <1>8 DEF IsLeaf

LEMMA EvalKept ==
  ASSUME EstimatesAreUsize, RecursionEquations, \A v : BytesOf(v) = EstimateBytes(v),
         Shape, NEW m, NEW w, Wider(m, w), NEW x \in Nat, NEW k \in Nat,
         \A j \in 0 .. k - 1 : /\ EvalKeeps(m, w, x, j)
                               /\ RestKeeps(m, w, x, j)
                               /\ ArmsKeep(m, w, x, j)
  PROVE  EvalKeeps(m, w, x, k)
<1> SUFFICES ASSUME NEW n \in Expressions, NEW d \in Nat, NEW b \in Nat, NEW e
             PROVE  LET o == EvalIn(m, n, e, d, Budget(k, b))
                    IN  /\ Follows(o, EvalIn(w, n, e, d, Budget(k + x, b)), k, x)
                        /\ o.r.ok => o.steps < k
  BY DEF EvalKeeps
<1> DEFINE o == EvalIn(m, n, e, d, Budget(k, b))
           p == EvalIn(w, n, e, d, Budget(k + x, b))
<1> SUFFICES Follows(o, p, k, x) /\ (o.r.ok => o.steps < k)
  OBVIOUS
<1> HIDE DEF o, p
<1>0. /\ o = EvalInStep(m, n, e, d, Budget(k, b))
      /\ p = EvalInStep(w, n, e, d, Budget(k + x, b))
  BY DEF RecursionEquations, o, p
<1>1. CASE k = 0
  <2>1. o = Fault("StepLimitExceeded", "steps", Budget(k, b))
    BY <1>0, <1>1, BudgetParts DEF EvalInStep
  <2> QED
    BY <2>1, FaultFollows DEF LimitCodes
<1>2. CASE k # 0
  <2>1. k - 1 \in Nat /\ k - 1 \in 0 .. k - 1 /\ k - 1 <= k /\ k + x # 0 /\ k + x - 1 = k - 1 + x
    BY <1>2
  <2> DEFINE f == ValueOf(m, n, e, d, Budget(k - 1, b))
             g == ValueOf(w, n, e, d, Budget(k - 1 + x, b))
  <2>2. o = Charged(m, f) /\ p = Charged(w, g)
    BY <1>0, <1>2, <2>1 DEF EvalInStep, Spend, Budget
  <2>3. RestKeeps(m, w, x, k - 1)
    BY <2>1
  <2>4. Follows(f, g, k - 1, x)
    BY <2>1, <2>3, ValueKept
  <2> HIDE DEF f, g
  <2>5. Follows(o, p, k - 1, x)
    BY <2>1, <2>2, <2>4, ChargeFollows
  <2>6. o.steps < k
    BY <2>1, <2>5 DEF Follows
  <2> QED
    BY <2>1, <2>5, <2>6, FollowsLater
<1> QED
  BY <1>1, <1>2

LEMMA AlwaysKeeps ==
  ASSUME EstimatesAreUsize, RecursionEquations, \A v : BytesOf(v) = EstimateBytes(v),
         Shape, NEW m, NEW w, Wider(m, w), NEW x \in Nat
  PROVE  \A k \in Nat : EvalKeeps(m, w, x, k)
<1> DEFINE Keeps(k) == EvalKeeps(m, w, x, k) /\ RestKeeps(m, w, x, k) /\ ArmsKeep(m, w, x, k)
           T == {k \in Nat : ~Keeps(k)}
<1>1. CASE T # {}
  <2>1. PICK n \in T : \A k \in T : n <= k
    BY <1>1, LeastNumber
  <2>2. n \in Nat /\ ~Keeps(n)
    OBVIOUS
  <2>3. \A j \in 0 .. n - 1 : Keeps(j)
    BY <2>1, <2>2
  <2>4. EvalKeeps(m, w, x, n)
    BY <2>2, <2>3, EvalKept
  <2>5. RestKeeps(m, w, x, n)
    BY <2>2, <2>3, <2>4, RestKept
  <2>6. ArmsKeep(m, w, x, n)
    BY <2>2, <2>3, ArmsKept
  <2> QED
    BY <2>2, <2>4, <2>5, <2>6
<1> QED
  BY <1>1

(***************************************************************************)
(* A limit only cuts a call short: an answer that does not report a limit  *)
(* is the answer under all larger limits too.                              *)
(***************************************************************************)
LEMMA MoreLimits ==
  ASSUME EstimatesAreUsize, MeansBigStep, Shape, NEW l, WithLimits(l) \in Calls,
         AtLeast(l, call.limits), ~Cut(Goal.r)
  PROVE  Meaning(WithLimits(l)) = Answer(call.entry, Goal.r)
<1> DEFINE c == WithLimits(l)
           w == MachineOf(c, Program)
           f == Program[call.entry]
           args == <<call.state, call.input>>
           k == call.limits.max_steps
           x == l.max_steps - call.limits.max_steps
           p == RunFunction(w, f, args)
<1>1. /\ c.prog = call.prog /\ c.entry = call.entry /\ c.state = call.state
      /\ c.input = call.input /\ c.limits = l
  BY DEF WithLimits
<1>2. /\ k \in Nat /\ call.limits.max_memory_bytes \in Nat
      /\ call.limits.max_recursion_depth \in Nat
      /\ l.max_steps \in Nat /\ l.max_memory_bytes \in Nat /\ l.max_recursion_depth \in Nat
  BY <1>1, CallsAssumption DEF Shape
<1>3. /\ l.max_steps >= k /\ l.max_memory_bytes >= call.limits.max_memory_bytes
      /\ l.max_recursion_depth >= call.limits.max_recursion_depth
  BY DEF AtLeast
<1>4. /\ Machine.functions = FunctionTable /\ Machine.limits = call.limits
      /\ w.functions = FunctionTable /\ w.limits = l
  BY <1>1 DEF Machine, MachineOf, FunctionTable
<1>5. x \in Nat /\ l.max_steps = k + x
  BY <1>2, <1>3
<1>6. /\ Goal = ApplyFn(Machine, f, args, 0, Budget(k, 0))
      /\ p = ApplyFn(w, f, args, 0, Budget(k + x, 0))
  BY <1>4, <1>5 DEF Goal, RunFunction
<1>7. Meaning(c) = Answer(call.entry, p.r)
  <2>1. Outcomes[c] = AnswerOf(c, Program)
    BY <1>1 DEF Outcomes, MeansBigStep, Program
  <2> QED
    BY <1>1, <2>1 DEF AnswerOf, Meaning
<1> HIDE DEF c, w, f, args, k, x, p
<1>8. Wider(Machine, w)
  BY <1>2, <1>3, <1>4 DEF Wider
<1>9. Follows(Goal, p, k, x)
  <2>1. \A j \in Nat : EvalKeeps(Machine, w, x, j)
    BY <1>5, <1>8, AlwaysKeeps DEF MeansBigStep
  <2>2. \A j \in 0 .. k - 1 : EvalKeeps(Machine, w, x, j)
    BY <1>2, <2>1
  <2> QED
    BY <1>2, <1>5, <1>6, <1>8, <2>2, ApplyKept
<1> QED
  BY <1>7, <1>9 DEF Follows, c

THEOREM LargerLimitsAgree ==
  ASSUME EstimatesAreUsize, MeansBigStep PROVE Spec => []LimitsOnlyCut
<1>1. Shape /\ AgreeInv => LimitsOnlyCut
  <2> SUFFICES ASSUME Shape, AgreeInv, Answered,
                      ctl.result.ok \/ ctl.result.code \notin LimitCodes,
                      NEW l, AtLeast(l, call.limits), WithLimits(l) \in Calls
               PROVE  Meaning(WithLimits(l)) = Verdict(ctl.result)
    BY DEF LimitsOnlyCut
  <2>1. Verdict(ctl.result) = Answer(call.entry, Goal.r)
    BY DEF AgreeInv, Answered
  <2>2. ~Cut(Goal.r)
    <3>1. SUFFICES ASSUME Cut(Goal.r) PROVE FALSE
      OBVIOUS
    <3>2. ~Goal.r.ok /\ Goal.r.code \in LimitCodes
      BY <3>1 DEF Cut
    <3>3. Verdict(ctl.result) = [ok |-> FALSE, code |-> Goal.r.code]
      BY <2>1, <3>2 DEF Answer
    <3>4. ~ctl.result.ok /\ ctl.result.code = Goal.r.code
      BY <3>3 DEF Verdict
    <3> QED
      BY <3>2, <3>4
  <2> QED
    BY <2>1, <2>2, MoreLimits
<1> QED
  BY <1>1, ShapeAlways, AgreeAlways, PTL

=============================================================================
