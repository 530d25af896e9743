------------------------------ MODULE Evaluator ------------------------------
(***************************************************************************)
(* One call of an IR program by the cino VM: IrVmProgram::update or        *)
(* IrVmProgram::query of cino-vm/src/lib.rs, as the sequence of steps its  *)
(* recursive evaluator takes.                                              *)
(*                                                                         *)
(* The Rust code is recursive; its native call stack is "stack", one frame *)
(* per activation of eval_expr or call_function that is waiting for the    *)
(* value of another.  Two more functions of it recurse: pattern_matches    *)
(* over a pattern, so that every pattern still to be matched is kept with  *)
(* its level, the activations it will be matched by one inside the other;  *)
(* and estimate_value_bytes over a value, which is as deep as the value.   *)
(* The environment map that the code passes down as &mut is "env": a Let   *)
(* changes it in place and puts it back, a match arm and a function body   *)
(* work on a map of their own.                                             *)
(*                                                                         *)
(* An expression is the record of its IrExprKind: the sub-expressions that *)
(* are evaluated from left to right are the sequence "kids".               *)
(***************************************************************************)
EXTENDS NameResolution

CONSTANTS
  Programs,           \* the IR programs, by name
  Calls,              \* the calls of the VM that are considered
  EstimateBytes(_),   \* estimate_value_bytes
  ValueDepth(_),      \* how deep estimate_value_bytes recurses over a value
  Expected(_)         \* what a call means: AnswerOf of BigStep

ASSUME CallsAssumption ==
  \A c \in Calls : /\ c.prog \in DOMAIN Programs
                   /\ c.entry \in {"update", "query"}
                   /\ c.limits.max_steps \in Nat
                   /\ c.limits.max_memory_bytes \in Nat
                   /\ c.limits.max_recursion_depth \in Nat
                   /\ ValueDepth(c.state) \in Nat
                   /\ ValueDepth(c.input) \in Nat

(***************************************************************************)
(* An expression is a finite tree, and so is a pattern.  The program says  *)
(* how deep each of its expressions and patterns nests, and how deep the   *)
(* deepest function body does.  A match is deeper than its patterns.       *)
(***************************************************************************)
SubExpressions(n) ==
  CASE IsLeaf(n)        -> {}
    [] HasKids(n)       -> Range(n.kids)
    [] n.kind = "Let"   -> {n.value, n.body}
    [] n.kind = "Match" -> {n.subject} \cup {n.arms[i].body : i \in DOMAIN n.arms}

NestingOk(p) ==
  /\ p.height \in Nat
  /\ \A f \in DOMAIN p.functions :
       /\ IsSeq(p.functions[f].params)
       /\ p.functions[f].body \in DOMAIN p.heights
       /\ p.heights[p.functions[f].body] <= p.height
  /\ \A n \in DOMAIN p.heights :
       /\ IrShape(n)
       /\ p.heights[n] \in Nat
       /\ ~IsLeaf(n) => p.heights[n] >= 1
       /\ \A m \in SubExpressions(n) : /\ m \in DOMAIN p.heights
                                       /\ p.heights[m] < p.heights[n]

ASSUME NestingAssumption == \A name \in DOMAIN Programs : NestingOk(Programs[name])

PatternsOk(p) ==
  /\ \A n \in DOMAIN p.heights :
       n.kind = "Match" => \A i \in DOMAIN n.arms :
                             /\ n.arms[i].pat \in DOMAIN p.binds
                             /\ p.depths[n.arms[i].pat] < p.heights[n]
  /\ \A q \in DOMAIN p.binds :
       /\ q.kind \in {"Wildcard", "Binding", "Variant"}
       /\ p.depths[q] \in Nat
       /\ q.kind = "Variant" =>
            /\ IsSeq(q.fields)
            /\ \A i \in DOMAIN q.fields :
                 /\ q.fields[i].pat \in DOMAIN p.binds
                 /\ p.depths[q.fields[i].pat] < p.depths[q]

ASSUME PatternAssumption == \A name \in DOMAIN Programs : PatternsOk(Programs[name])

VARIABLES
  call,    \* the call: its program, entry point, arguments and limits
  ctl,     \* what the evaluator does next
  stack,   \* the suspended activations, the innermost last
  env,     \* the environment of the running activation
  steps,   \* remaining_steps
  depth,   \* current_depth
  mem      \* memory_bytes

vars == <<call, ctl, stack, env, steps, depth, mem>>

Limits        == call.limits
Program       == Programs[call.prog]
FunctionTable == Program.functions

(***************************************************************************)
(* The control points.                                                     *)
(***************************************************************************)
CallFn(f, args)  == [at |-> "call", name |-> f, args |-> args]
Eval(n)          == [at |-> "eval", node |-> n]
Kids             == [at |-> "kids"]
ChargeFor(v)     == [at |-> "charge", val |-> v]
Return(v)        == [at |-> "return", val |-> v]
NextArm          == [at |-> "arm"]
Matching(todo, levels) == [at |-> "pattern", todo |-> todo, levels |-> levels]
Fail(err)        == [at |-> "error", err |-> err]
Done(r)          == [at |-> "done", result |-> r]

(***************************************************************************)
(* The frames: which local variables of the Rust code wait for a value.    *)
(***************************************************************************)
KidsFrame(n, vs)     == [kind |-> "kids", node |-> n, vals |-> vs]
LetValueFrame(n)     == [kind |-> "letValue", node |-> n]
LetBodyFrame(n, p)   == [kind |-> "letBody", node |-> n, prev |-> p]
SubjectFrame(n)      == [kind |-> "subject", node |-> n]
ArmsFrame(n, v, i, e) ==
  [kind |-> "arms", node |-> n, val |-> v, index |-> i, saved |-> e]
ArmBodyFrame(n, e)   == [kind |-> "armBody", node |-> n, saved |-> e]
BodyFrame(e)         == [kind |-> "body", saved |-> e]

Top            == Last(stack)
TopIs(k)       == stack # <<>> /\ Top.kind = k
Push(f)        == stack' = Append(stack, f)
Pop            == stack' = Front(stack)
Replace(f)     == stack' = Append(Front(stack), f)
EmptyEnv       == [x \in {} |-> UnitV]

(***************************************************************************)
(* execute_entry makes an evaluator with a full budget and calls the entry *)
(* function with the state and the event or query.                         *)
(***************************************************************************)
Init ==
  /\ call \in Calls
  /\ ctl = CallFn(Programs[call.prog][call.entry], <<call.state, call.input>>)
  /\ stack = <<>>
  /\ env = EmptyEnv
  /\ steps = call.limits.max_steps
  /\ depth = 0
  /\ mem = 0

(* consume_step, where a step is left (and without its test, or without    *)
(* its use in eval_expr and pattern_matches, or in the latter alone).      *)
ConsumeUnchecked == steps' = steps - 1
ConsumeInCalls   == steps > 0 /\ steps' = IF ctl.at = "call" THEN steps - 1 ELSE steps
ConsumeOutside   == steps > 0 /\ steps' = IF ctl.at = "pattern" THEN steps ELSE steps - 1
ConsumeStep      == steps > 0 /\ steps' = steps - 1

(***************************************************************************)
(* consume_step, where none is left.  A payload field that is missing is   *)
(* found before the pattern for it consumes its step.                      *)
(***************************************************************************)
PatternsAreFree == ctl.at \in {"call", "eval"}
ConsumesStep ==
  \/ ctl.at \in {"call", "eval"}
  \/ ctl.at = "pattern" /\ ctl.todo # <<>> /\ Head(ctl.todo).src # {}

OutOfSteps ==
  /\ ConsumesStep
  /\ steps = 0
  /\ ctl' = Fail(Err("StepLimitExceeded", "steps"))
  /\ UNCHANGED <<call, stack, env, steps, depth, mem>>

------------------------------------------------------------------------------
(***************************************************************************)
(* call_function.                                                          *)
(***************************************************************************)
DepthPassed   == depth > Limits.max_recursion_depth
DepthExceeded == depth >= Limits.max_recursion_depth
DepthTrap     == Err("Trap", "depth")
DepthError    == Err("RecursionLimitExceeded", "depth")
Arity(f)      == Len(FunctionTable[f].params)

EnterFunction ==
  /\ ctl.at = "call"
  /\ ConsumeStep
  /\ ~DepthExceeded
  /\ ctl.name \in DOMAIN FunctionTable
  /\ Len(ctl.args) = Arity(ctl.name)
  /\ depth' = depth + 1
  /\ env' = InsertAll(FunctionTable[ctl.name].params, ctl.args)
  /\ Push(BodyFrame(env))
  /\ ctl' = Eval(FunctionTable[ctl.name].body)
  /\ UNCHANGED <<call, mem>>

RefuseCall ==
  /\ ctl.at = "call"
  /\ ConsumeStep
  /\ \/ /\ DepthExceeded
        /\ ctl' = Fail(DepthError)
     \/ /\ ~DepthExceeded
        /\ ctl.name \notin DOMAIN FunctionTable
        /\ ctl' = Fail(Err("Trap", "unknown_function"))
     \/ /\ ~DepthExceeded
        /\ ctl.name \in DOMAIN FunctionTable
        /\ Len(ctl.args) # Arity(ctl.name)
        /\ ctl' = Fail(Err("Trap", "arity"))
  /\ UNCHANGED <<call, stack, env, depth, mem>>

(* The caller's own environment was never touched, nor the one that an arm *)
(* was given a clone of.                                                   *)
ClonedEnv == env
SavedEnv  == Top.saved

(* The value of the body is the value of the call. *)
ReturnFromFunction ==
  /\ ctl.at = "return"
  /\ TopIs("body")
  /\ env' = SavedEnv
  /\ depth' = depth - 1
  /\ Pop
  /\ UNCHANGED <<call, ctl, steps, mem>>

------------------------------------------------------------------------------
(***************************************************************************)
(* eval_expr: the expressions without sub-expressions.                     *)
(***************************************************************************)
(* The value of a leaf, as a set of at most one value. *)
LeafValue(n) ==
  CASE n.kind = "Int"      -> {IntV(n.int)}
    [] n.kind = "Bool"     -> {BoolV(n.bool)}
    [] n.kind = "LocalRef" -> Lookup(env, n.name)

EvalLeaf ==
  /\ ctl.at = "eval" /\ IsLeaf(ctl.node)
  /\ ConsumeStep
  /\ \E v \in LeafValue(ctl.node) : ctl' = ChargeFor(v)
  /\ UNCHANGED <<call, stack, env, depth, mem>>

EvalUnknownLocal ==
  /\ ctl.at = "eval" /\ IsLeaf(ctl.node)
  /\ ConsumeStep
  /\ LeafValue(ctl.node) = {}
  /\ ctl' = Fail(Err("Trap", "unknown_local"))
  /\ UNCHANGED <<call, stack, env, depth, mem>>

(***************************************************************************)
(* eval_expr: Tuple, List, Record, Binary and Call evaluate their          *)
(* sub-expressions from left to right, and then make their value.          *)
(***************************************************************************)
EvalKids ==
  /\ ctl.at = "eval" /\ HasKids(ctl.node)
  /\ ConsumeStep
  /\ Push(KidsFrame(ctl.node, <<>>))
  /\ ctl' = Kids
  /\ UNCHANGED <<call, env, depth, mem>>

AllKidsDone(f) == Len(f.vals) >= Len(f.node.kids)

NextKid ==
  /\ ctl.at = "kids" /\ ~AllKidsDone(Top)
  /\ ctl' = Eval(Top.node.kids[Len(Top.vals) + 1])
  /\ UNCHANGED <<call, stack, env, steps, depth, mem>>

ReturnToKids ==
  /\ ctl.at = "return"
  /\ TopIs("kids") /\ ~AllKidsDone(Top)
  /\ Replace(KidsFrame(Top.node, Append(Top.vals, ctl.val)))
  /\ ctl' = Kids
  /\ UNCHANGED <<call, env, steps, depth, mem>>

(* What a node makes of the values of its sub-expressions. *)
Built(n, vals) ==
  CASE n.kind = "Tuple"  -> Ok(TupleV(vals))
    [] n.kind = "List"   -> Ok(ListV(vals))
    [] n.kind = "Record" -> Ok(EnumV(n.name, InsertAll(n.names, vals)))
    [] n.kind = "Binary" -> EvalBinary(n.op, vals[1], vals[2])

BuildValue ==
  /\ ctl.at = "kids" /\ AllKidsDone(Top) /\ Top.node.kind # "Call"
  /\ LET r == Built(Top.node, Top.vals)
     IN  ctl' = IF r.ok THEN ChargeFor(r.val) ELSE Fail(r)
  /\ Pop
  /\ UNCHANGED <<call, env, steps, depth, mem>>

(* The frame of a Call waits for the value of the callee. *)
BuildCall ==
  /\ ctl.at = "kids" /\ AllKidsDone(Top) /\ Top.node.kind = "Call"
  /\ ctl' = CallFn(Top.node.callee, Top.vals)
  /\ UNCHANGED <<call, stack, env, steps, depth, mem>>

ReturnToCall ==
  /\ ctl.at = "return"
  /\ TopIs("kids") /\ AllKidsDone(Top)
  /\ Pop
  /\ ctl' = ChargeFor(ctl.val)
  /\ UNCHANGED <<call, env, steps, depth, mem>>

------------------------------------------------------------------------------
(***************************************************************************)
(* eval_expr: Let binds its name for the body and then puts back what the  *)
(* name stood for, or removes it.                                          *)
(***************************************************************************)
EvalLet ==
  /\ ctl.at = "eval" /\ ctl.node.kind = "Let"
  /\ ConsumeStep
  /\ Push(LetValueFrame(ctl.node))
  /\ ctl' = Eval(ctl.node.value)
  /\ UNCHANGED <<call, env, depth, mem>>

ReturnToLetValue ==
  /\ ctl.at = "return"
  /\ TopIs("letValue")
  /\ LET n == Top.node
     IN  /\ env' = Bind(env, n.name, ctl.val)
         /\ Replace(LetBodyFrame(n, Lookup(env, n.name)))
         /\ ctl' = Eval(n.body)
  /\ UNCHANGED <<call, steps, depth, mem>>

(* The environment after the body of a Let, whether or not it failed: what *)
(* insert displaced is put back.                                           *)
Removed(f, e) == Unbind(e, f.node.name)
Restored(f, e) ==
  IF f.prev = {} THEN Unbind(e, f.node.name)
  ELSE Bind(e, f.node.name, CHOOSE v \in f.prev : TRUE)

ReturnToLetBody ==
  /\ ctl.at = "return"
  /\ TopIs("letBody")
  /\ env' = Restored(Top, env)
  /\ Pop
  /\ ctl' = ChargeFor(ctl.val)
  /\ UNCHANGED <<call, steps, depth, mem>>

------------------------------------------------------------------------------
(***************************************************************************)
(* eval_expr: Match tries its arms in order, each in a clone of the        *)
(* environment.                                                            *)
(***************************************************************************)
EvalMatch ==
  /\ ctl.at = "eval" /\ ctl.node.kind = "Match"
  /\ ConsumeStep
  /\ Push(SubjectFrame(ctl.node))
  /\ ctl' = Eval(ctl.node.subject)
  /\ UNCHANGED <<call, env, depth, mem>>

ReturnToSubject ==
  /\ ctl.at = "return"
  /\ TopIs("subject")
  /\ Replace(ArmsFrame(Top.node, ctl.val, 1, env))
  /\ ctl' = NextArm
  /\ UNCHANGED <<call, env, steps, depth, mem>>

ArmsLeft(f) == f.index <= Len(f.node.arms)

TryArm ==
  /\ ctl.at = "arm" /\ ArmsLeft(Top)
  /\ ctl' = Matching(<<[pat |-> Top.node.arms[Top.index].pat, src |-> {Top.val}]>>, <<1>>)
  /\ UNCHANGED <<call, stack, env, steps, depth, mem>>

NoArm ==
  /\ ctl.at = "arm" /\ ~ArmsLeft(Top)
  /\ ctl' = Fail(Err("Trap", "non_exhaustive_match"))
  /\ UNCHANGED <<call, stack, env, steps, depth, mem>>

(***************************************************************************)
(* pattern_matches, with the patterns still to be matched as a work list.  *)
(* An entry holds the pattern and the payload field it is for, as a set    *)
(* that is empty if the payload has no such field; "levels" says for each  *)
(* entry how many activations of pattern_matches there are when it is      *)
(* matched: a field is matched by one more than the variant it is in.      *)
(***************************************************************************)
NextPattern   == Head(ctl.todo)
AtPattern(k)  ==
  /\ ctl.at = "pattern" /\ ctl.todo # <<>>
  /\ NextPattern.src # {}
  /\ NextPattern.pat.kind = k
  /\ ConsumeStep
PatternSource == CHOOSE v \in NextPattern.src : TRUE

FieldMissing ==
  /\ ctl.at = "pattern" /\ ctl.todo # <<>>
  /\ NextPattern.src = {}
  /\ ctl' = Fail(Err("InvalidInput", "missing_payload_field"))
  /\ UNCHANGED <<call, stack, env, steps, depth, mem>>

MatchWildcard ==
  /\ AtPattern("Wildcard")
  /\ ctl' = Matching(Tail(ctl.todo), Tail(ctl.levels))
  /\ UNCHANGED <<call, stack, env, depth, mem>>

MatchBinding ==
  /\ AtPattern("Binding")
  /\ env' = Bind(env, NextPattern.pat.name, PatternSource)
  /\ ctl' = Matching(Tail(ctl.todo), Tail(ctl.levels))
  /\ UNCHANGED <<call, stack, depth, mem>>

FieldPatterns(p, payload) ==
  [i \in DOMAIN p.fields |->
     [pat |-> p.fields[i].pat, src |-> Lookup(payload, p.fields[i].name)]]

FieldLevels(p) == [i \in DOMAIN p.fields |-> Head(ctl.levels) + 1]

MatchVariant ==
  /\ AtPattern("Variant")
  /\ PatternSource.t = "Enum"
  /\ PatternSource.tag = NextPattern.pat.name
  /\ ctl' = Matching(FieldPatterns(NextPattern.pat, PatternSource.fields)
                      \o Tail(ctl.todo),
                    FieldLevels(NextPattern.pat) \o Tail(ctl.levels))
  /\ UNCHANGED <<call, stack, env, depth, mem>>

(* The clone made for this arm is dropped; the next arm gets its own. *)
MissVariant ==
  /\ AtPattern("Variant")
  /\ PatternSource.t = "Enum"
  /\ PatternSource.tag # NextPattern.pat.name
  /\ env' = SavedEnv
  /\ Replace(ArmsFrame(Top.node, Top.val, Top.index + 1, Top.saved))
  /\ ctl' = NextArm
  /\ UNCHANGED <<call, depth, mem>>

MatchNonEnum ==
  /\ AtPattern("Variant")
  /\ PatternSource.t # "Enum"
  /\ ctl' = Fail(Err("InvalidInput", "not_enum_like"))
  /\ UNCHANGED <<call, stack, env, depth, mem>>

ArmMatches ==
  /\ ctl.at = "pattern" /\ ctl.todo = <<>>
  /\ Replace(ArmBodyFrame(Top.node, Top.saved))
  /\ ctl' = Eval(Top.node.arms[Top.index].body)
  /\ UNCHANGED <<call, env, steps, depth, mem>>

ReturnToMatch ==
  /\ ctl.at = "return"
  /\ TopIs("armBody")
  /\ env' = SavedEnv
  /\ Pop
  /\ ctl' = ChargeFor(ctl.val)
  /\ UNCHANGED <<call, steps, depth, mem>>

------------------------------------------------------------------------------
(***************************************************************************)
(* charge_memory: every completed expression pays for its value, and what  *)
(* was paid is never given back.                                           *)
(***************************************************************************)
WrappingAdd(a, b)   == (a + b) % (MaxUsize + 1)
SaturatingAdd(a, b) == IF a + b > MaxUsize THEN MaxUsize ELSE a + b

WasExceeded(m)    == mem > Limits.max_memory_bytes
MemoryExceeded(m) == m > Limits.max_memory_bytes

Charge ==
  /\ ctl.at = "charge"
  /\ mem' = SaturatingAdd(mem, EstimateBytes(ctl.val))
  /\ ctl' = IF MemoryExceeded(mem')
              THEN Fail(Err("MemoryLimitExceeded", "memory"))
              ELSE Return(ctl.val)
  /\ UNCHANGED <<call, stack, env, steps, depth>>

(***************************************************************************)
(* An error leaves every activation at once with "?"; on its way a Let     *)
(* still restores the environment and a function still leaves its level.   *)
(***************************************************************************)
LevelKept     == depth
LevelAfterTop == IF TopIs("body") THEN depth - 1 ELSE depth

Unwind ==
  /\ ctl.at = "error" /\ stack # <<>>
  /\ env' = CASE TopIs("letBody") -> Restored(Top, env)
              [] Top.kind \in {"arms", "armBody", "body"} -> SavedEnv
              [] OTHER -> env
  /\ depth' = LevelAfterTop
  /\ Pop
  /\ UNCHANGED <<call, ctl, steps, mem>>

(***************************************************************************)
(* execute_entry is done: update checks that it got (state, actions).      *)
(***************************************************************************)
UpdateResult(v) ==
  IF v.t # "Tuple" THEN Err("Trap", "not_a_tuple")
  ELSE IF Len(v.items) # 2 THEN Err("Trap", "not_2_items")
  ELSE IF v.items[2].t # "List" THEN Err("Trap", "actions_not_a_list")
  ELSE Ok(v)

Finish ==
  /\ ctl.at \in {"return", "error"} /\ stack = <<>>
  /\ ctl' = Done(CASE ctl.at = "error"        -> ctl.err
                   [] ctl.at = "return" /\ call.entry = "update" -> UpdateResult(ctl.val)
                   [] ctl.at = "return" /\ call.entry = "query"  -> Ok(ctl.val))
  /\ UNCHANGED <<call, stack, env, steps, depth, mem>>

------------------------------------------------------------------------------
CallFunction == EnterFunction \/ RefuseCall \/ ReturnFromFunction
EvalSimple   == EvalLeaf \/ EvalUnknownLocal
EvalCompound == EvalKids \/ NextKid \/ ReturnToKids \/ BuildValue \/ BuildCall
                  \/ ReturnToCall
EvalLetExpr  == EvalLet \/ ReturnToLetValue \/ ReturnToLetBody
EvalMatchExpr == EvalMatch \/ ReturnToSubject \/ TryArm \/ NoArm \/ ArmMatches
                   \/ ReturnToMatch
PatternMatches == FieldMissing \/ MatchWildcard \/ MatchBinding \/ MatchVariant
                    \/ MissVariant \/ MatchNonEnum

Next ==
  \/ OutOfSteps
  \/ CallFunction
  \/ EvalSimple
  \/ EvalCompound
  \/ EvalLetExpr
  \/ EvalMatchExpr
  \/ PatternMatches
  \/ Charge
  \/ Unwind
  \/ Finish

Spec     == Init /\ [][Next]_vars
FairSpec == Spec /\ WF_vars(Next)

------------------------------------------------------------------------------
(***************************************************************************)
(* Properties.                                                             *)
(***************************************************************************)
ValidatedPrograms == {p \in DOMAIN Programs : Validated(Programs[p])}

Answered    == ctl.at = "done"
Activations == {i \in DOMAIN stack : stack[i].kind = "body"}

(***************************************************************************)
(* The evaluator's state is well formed: the counters stay within the      *)
(* limits they are checked against, and the frame on top of the stack is   *)
(* one that the control point belongs to.                                  *)
(***************************************************************************)
TypeOK ==
  /\ ctl.at \in {"call", "eval", "kids", "charge", "return", "arm", "pattern",
                 "error", "done"}
  /\ \A i \in DOMAIN stack :
       stack[i].kind \in {"kids", "letValue", "letBody", "subject", "arms",
                          "armBody", "body"}
  /\ steps \in 0 .. Limits.max_steps
  /\ depth \in 0 .. Limits.max_recursion_depth
  /\ mem \in 0 .. MaxUsize
  /\ ctl.at = "kids" => TopIs("kids")
  /\ ctl.at \in {"arm", "pattern"} => TopIs("arms")

(***************************************************************************)
(* The native stack: the activations of the recursive functions of lib.rs  *)
(* that wait for another one.  Those of eval_expr and call_function are    *)
(* the frames; pattern_matches waits at every level above the pattern that *)
(* is being matched; and while a value is charged for, the eval_expr that  *)
(* made it and all but the innermost estimate_value_bytes wait.  (Derived  *)
(* clones and drops, which recurse over the same trees, are not counted.)  *)
(***************************************************************************)
PatternFrames ==
  IF ctl.at = "pattern" /\ ctl.todo # <<>> THEN Head(ctl.levels) - 1 ELSE 0
ValueFrames == IF ctl.at = "charge" THEN ValueDepth(ctl.val) ELSE 0
NativeStack == Len(stack) + PatternFrames + ValueFrames

(* How deep the values are that the host passes in. *)
InputDepth ==
  IF ValueDepth(call.state) > ValueDepth(call.input)
    THEN ValueDepth(call.state) ELSE ValueDepth(call.input)

(***************************************************************************)
(* Every suspended native activation was paid for with a step of its own   *)
(* that is still spent: the step limit bounds the native stack, whatever   *)
(* mixture of calls, nested expressions and nested patterns is running.    *)
(* Only a value can be deeper than that, by what the host passed in: each  *)
(* level the program puts around a value took a step of its own as well    *)
(* (consume_step in eval_expr, call_function and pattern_matches).         *)
(***************************************************************************)
StepsPayForFrames ==
  NativeStack + steps
    <= Limits.max_steps + (IF ctl.at = "charge" THEN InputDepth ELSE 0)

(***************************************************************************)
(* current_depth counts the function activations on the native stack, also *)
(* while an error unwinds it, and never passes the recursion limit         *)
(* (call_function adds and subtracts around eval_expr).                    *)
(***************************************************************************)
DepthCountsActivations ==
  /\ depth = Cardinality(Activations)
  /\ depth <= Limits.max_recursion_depth

(***************************************************************************)
(* The native stack holds at most one body's nesting, its patterns         *)
(* included, for each level of recursion: the recursion limit bounds it    *)
(* (call_function), which matters because wrap_panic cannot catch an       *)
(* exhausted native stack.  It does not bound the depth of a value, which  *)
(* the estimate recurses over: that grows with the steps spent.            *)
(***************************************************************************)
NativeStackBounded ==
  NativeStack
    <= Limits.max_recursion_depth * (1 + Program.height)
         + (IF ctl.at = "charge" THEN InputDepth + (Limits.max_steps - steps) ELSE 0)

(***************************************************************************)
(* A validated program evaluates every expression in an environment that   *)
(* has exactly the names the validator knew there: what Let puts back,     *)
(* what a failed arm had bound and what a call leaves behind never leaks.  *)
(***************************************************************************)
ScopeAgrees ==
  call.prog \in ValidatedPrograms /\ ctl.at = "eval"
    => <<ctl.node, DOMAIN env>> \in Program.visits

(***************************************************************************)
(* A validated program never traps on a name: no unknown local reference,  *)
(* no unknown function, no wrong number of arguments (the three traps of   *)
(* eval_expr and call_function that validate_program is there to exclude). *)
(***************************************************************************)
NameTraps == {Err("Trap", w) : w \in {"unknown_local", "unknown_function", "arity"}}

NoNameTrap ==
  call.prog \in ValidatedPrograms =>
    /\ ctl.at = "error" => ctl.err \notin NameTraps
    /\ ctl.at = "done" => ctl.result \notin NameTraps

(***************************************************************************)
(* A call that succeeds returns a value within the memory limit, however   *)
(* the value was put together (charge_memory on every completed value).    *)
(***************************************************************************)
ResultWithinBudget ==
  Answered /\ ctl.result.ok
    => EstimateBytes(ctl.result.val) <= Limits.max_memory_bytes

(***************************************************************************)
(* Every call ends with an answer, also of a program that never returns:   *)
(* the step limit ends it (consume_step).                                  *)
(***************************************************************************)
EveryCallAnswers == <>Answered

(***************************************************************************)
(* What is left of a call, as a number: a step pays for all that the       *)
(* evaluator does until it consumes the next one, a waiting activation for *)
(* its own return.                                                         *)
(***************************************************************************)
Rank(at) ==
  CASE at = "done"             -> 0
    [] at = "error"            -> 1
    [] at \in {"call", "eval"} -> 2
    [] at = "pattern"          -> 3
    [] at = "arm"              -> 4
    [] at = "kids"             -> 5
    [] at = "return"           -> 6
    [] at = "charge"           -> 7

WorkLeft == 8 * steps + 3 * Len(stack) + Rank(ctl.at)

(***************************************************************************)
(* Nothing the evaluator does is free: every step of it, also the ones     *)
(* that consume no budget (a next arm, the unwinding of an error), uses up *)
(* part of what the step limit paid for, so that a call of any program,    *)
(* which begins with nothing on the stack, is over after 8 * max_steps + 2 *)
(* of them (consume_step, and where it is called from).                    *)
(***************************************************************************)
WorkRunsOut == [][WorkLeft' \in 0 .. WorkLeft - 1]_vars

(***************************************************************************)
(* n is the quotient of a and b rounded towards zero: what it leaves over  *)
(* is smaller than b and has the sign of a.                                *)
(***************************************************************************)
IsQuotient(n, a, b) ==
  LET rest == a - b * n
  IN  /\ AbsInt(rest) < AbsInt(b)
      /\ rest > 0 => a > 0
      /\ rest < 0 => a < 0

Operations == {"Add", "Sub", "Mul", "Div"}

IsResult(n, op, a, b) ==
  \/ op = "Add" /\ n - a = b
  \/ op = "Sub" /\ n + b = a
  \/ op = "Mul" /\ n = a * b
  \/ op = "Div" /\ IsQuotient(n, a, b)

(* A node is about to work out an operation, this one on a and b. *)
Operates == ctl.at = "kids" /\ AllKidsDone(Top) /\ Top.node.kind = "Binary"
OperatesOn(op, a, b) ==
  Top.node.op = op /\ Top.vals[1] = IntV(a) /\ Top.vals[2] = IntV(b)

Answers(op, a, b) ==
  \E n \in MinInt .. MaxInt : ctl' = ChargeFor(IntV(n)) /\ IsResult(n, op, a, b)

Refuses(op, a, b) ==
  /\ ctl' = Fail(Err("Trap", IF op = "Div" /\ b = 0 THEN "division_by_zero" ELSE "overflow"))
  /\ \A n \in MinInt .. MaxInt : ~IsResult(n, op, a, b)
  /\ op = "Div" /\ b # 0 => a = MinInt /\ b = -1

(***************************************************************************)
(* What an operation on integers answers is its result, and an i64; it is  *)
(* refused only where no i64 is the result, and of all quotients only that *)
(* of the smallest integer and -1 (eval_binary: checked_add, checked_sub,  *)
(* checked_mul, the test for zero and checked_div).                        *)
(***************************************************************************)
ArithmeticIsExact ==
  [][Operates =>
       \A op \in Operations, a, b \in MinInt .. MaxInt :
         OperatesOn(op, a, b) => Answers(op, a, b) \/ Refuses(op, a, b)]_vars

------------------------------------------------------------------------------
(***************************************************************************)
(* The abstract specification, and the evaluator's answer as its answer.   *)
(* The outcomes of all calls are worked out once.                          *)
(***************************************************************************)
Outcomes   == [c \in Calls |-> Expected(c)]
Meaning(c) == Outcomes[c].answer
NoAnswer   == [pending |-> TRUE]
Verdict(r) == IF r.ok THEN r ELSE [ok |-> FALSE, code |-> r.code]

Abstract == INSTANCE PureCall
              WITH Pending <- NoAnswer,
                   answer <- IF Answered THEN Verdict(ctl.result) ELSE NoAnswer

(***************************************************************************)
(* The answer is the one the lexically scoped definition gives: in-place   *)
(* changes of the environment and the depth counter, and what errors leave *)
(* behind, are invisible to the caller (eval_expr, call_function,          *)
(* pattern_matches, update, query).                                        *)
(***************************************************************************)
ImplementsPureCall == Abstract!Spec

(***************************************************************************)
(* The budgets are accounted for exactly as in the definition: steps,      *)
(* also those of failed patterns, and bytes.                               *)
(***************************************************************************)
BudgetsAgree ==
  Answered => steps = Outcomes[call].steps /\ mem = Outcomes[call].mem

(***************************************************************************)
(* A limit only cuts a call short: an answer that does not report a limit  *)
(* is the answer under all larger limits too.                              *)
(***************************************************************************)
LimitCodes == {"StepLimitExceeded", "MemoryLimitExceeded", "RecursionLimitExceeded"}

AtLeast(l, m) ==
  \A x \in {"max_steps", "max_memory_bytes", "max_recursion_depth"} : l[x] >= m[x]

AllLimits     == {c.limits : c \in Calls}
WithLimits(l) == [prog |-> call.prog, entry |-> call.entry, state |-> call.state,
                  input |-> call.input, limits |-> l]

LimitsOnlyCut ==
  Answered /\ (ctl.result.ok \/ ctl.result.code \notin LimitCodes) =>
    \A l \in AllLimits :
      AtLeast(l, call.limits) /\ WithLimits(l) \in Calls
        => Meaning(WithLimits(l)) = Verdict(ctl.result)

=============================================================================
