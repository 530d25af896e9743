------------------------------- MODULE Session -------------------------------
(***************************************************************************)
(* From a parsed program to its running: lower_program (checker, lowering  *)
(* and validator), IrVmProgram::from_ir, and then updates, each from the   *)
(* state the last one made, and queries, as setup_vm and the commands of   *)
(* cino-cli and the counter sample do it.  A program may also arrive as IR *)
(* that somebody else made and that is validated before it is loaded.      *)
(*                                                                         *)
(* The host is well behaved: it starts from a state of the state type and  *)
(* sends events and queries of theirs.                                     *)
(***************************************************************************)
EXTENDS Pipeline

CONSTANTS
  Sources,            \* parsed programs
  Irs,                \* IR programs, with the types they are about
  SampleInts,         \* the integers that inputs are made of
  MaxCalls,           \* bound on the updates and queries of a session
  HasType(_, _, _),   \* a value is of a type
  ValuesOf(_, _, _),  \* some values of a type
  SubExprs(_),        \* a source expression or pattern and all below it
  TypesIn(_),         \* a type and all its parts
  IsKnown(_),         \* a type with no unknown part
  IrWithin(_)         \* an IR expression and all below it

------------------------------------------------------------------------------
(***************************************************************************)
(* What the types of a program say about the values it runs on, and which  *)
(* programs are written carefully enough for the types to be trusted.      *)
(***************************************************************************)
(* The fields that the values of a type with the tag have. *)
FieldsOf(c, t, tag) ==
  IF HasVariants(c, t) THEN Variants(c.types[t.name])[tag] ELSE c.types[t.name].fields

TagsOf(c, t) ==
  CASE t.name \notin DOMAIN c.types -> {}
    [] HasVariants(c, t) -> DOMAIN Variants(c.types[t.name])
    [] OTHER -> {t.name}

(* A value is of a type: declared types are tagged records at run time. *)
HasTypeStep(c, v, t) ==
  CASE t = IntT  -> v.t = "Int"
    [] t = BoolT -> v.t = "Bool"
    [] t.name = "List" ->
         v.t = "List" /\ \A i \in DOMAIN v.items : HasType(c, v.items[i], t.args[1])
    [] OTHER ->
         /\ v.t = "Enum"
         /\ v.tag \in TagsOf(c, t)
         /\ LET fs == FieldsOf(c, t, v.tag)
            IN  /\ DOMAIN v.fields = Range(NamesIn(fs))
                /\ \A i \in DOMAIN fs : HasType(c, v.fields[fs[i].name], fs[i].ty)

(* Some values of a type, nested at most d deep, lists with one item. *)
ValuesOfStep(c, t, d) ==
  LET payloads(fs) ==
        {f \in [Range(NamesIn(fs)) -> UNION {ValuesOf(c, fs[i].ty, d - 1) : i \in DOMAIN fs}] :
           \A i \in DOMAIN fs : f[fs[i].name] \in ValuesOf(c, fs[i].ty, d - 1)}
  IN  IF d = 0 THEN {}
      ELSE CASE t = IntT  -> {IntV(i) : i \in SampleInts}
             [] t = BoolT -> {BoolV(b) : b \in BOOLEAN}
             [] t.name = "List" ->
                  {ListV(<<>>)} \cup {ListV(<<v>>) : v \in ValuesOf(c, t.args[1], d - 1)}
             [] OTHER ->
                  UNION {{EnumV(tag, f) : f \in payloads(FieldsOf(c, t, tag))} :
                           tag \in TagsOf(c, t)}

(***************************************************************************)
(* The tree of the source below x: expressions and patterns.               *)
(***************************************************************************)
ItemKinds    == {"Tuple", "List", "Record", "Binary", "Call"}
ExprKinds    == ItemKinds \cup {"Ident", "Int", "Bool", "Block", "Match"}
PatternKinds == {"Wildcard", "Variant"}

ExprsIn(x) ==
  CASE x.kind \in ItemKinds -> Range(x.kids)
    [] x.kind = "Block" -> x.tail \cup {x.statements[i].value : i \in DOMAIN x.statements}
    [] x.kind = "Match" -> {x.subject} \cup {x.arms[i].body : i \in DOMAIN x.arms}
    [] OTHER -> {}

PatternsOf(x) ==
  CASE x.kind = "Match"   -> {x.arms[i].pat : i \in DOMAIN x.arms}
    [] x.kind = "Variant" -> UNION {x.fields[i].pat : i \in DOMAIN x.fields}
    [] OTHER -> {}

SubExprsStep(x) == {x} \cup UNION {SubExprs(y) : y \in ExprsIn(x) \cup PatternsOf(x)}

TypesInStep(t) == {t} \cup UNION {TypesIn(t.args[i]) : i \in DOMAIN t.args}

------------------------------------------------------------------------------
(***************************************************************************)
(* Programs that do not depend on what the checker leaves unchecked.       *)
(***************************************************************************)
IsKnownStep(t) == t # UnknownT /\ \A i \in DOMAIN t.args : IsKnown(t.args[i])

(* Where the first type is not fully known, the others can differ from it  *)
(* and still be compatible, each in another way.                           *)
AgreesWithFirst(types) ==
  types = <<>> \/ IsKnown(types[1]) \/ \A i \in DOMAIN types : types[i] = types[1]

CarefulRecord(c, n) ==
  /\ \A con \in Constructed(c, n.name) : Range(n.names) = Range(NamesIn(con.fields))
  /\ ~HasVariants(c, Named(n.name))

CarefulNode(c, n) ==
  /\ n.kind = "Record" => CarefulRecord(c, n)
  /\ n.kind = "List"   => AgreesWithFirst([i \in DOMAIN n.kids |-> n.kids[i].ty])
  /\ n.kind = "Match"  =>
       /\ AgreesWithFirst([i \in DOMAIN n.arms |-> n.arms[i].body.ty])
       /\ \A i \in DOMAIN n.arms :
            n.arms[i].pat.kind = "Variant" =>
              \A j \in DOMAIN n.arms[i].pat.fields :
                n.arms[i].pat.fields[j].pat.kind # "Variant"

CarefulTypes(c) ==
  /\ "List" \notin DOMAIN c.types
  /\ \A t \in DOMAIN c.types : Range(c.types[t].generics) \cap DOMAIN c.types = {}

Careful(c, vm) == CarefulTypes(c) /\ \A v \in vm.visits : CarefulNode(c, v[1])

------------------------------------------------------------------------------
(***************************************************************************)
(* What the types of ast.rs and ir.rs say of programs: functions are in    *)
(* sequences, each parameter has its type, and source, types and IR are    *)
(* made of finite trees.                                                   *)
(***************************************************************************)
IrParts(n) ==
  CASE IsLeaf(n)         -> {}
    [] HasKids(n)        -> {n.kids[i] : i \in DOMAIN n.kids}
    [] n.kind = "Let"    -> {n.value, n.body}
    [] n.kind = "Match"  -> {n.subject} \cup {n.arms[i].body : i \in DOMAIN n.arms}

IrWithinStep(n) == {n} \cup UNION {IrWithin(m) : m \in IrParts(n)}

IsIrPattern(q) ==
  \A r \in SubPatterns(q) :
    /\ r.kind \in {"Wildcard", "Binding", "Variant"}
    /\ r.kind = "Variant" => IsSeq(r.fields)
    /\ IsFiniteSet(SubPatterns(r))
    /\ \A k \in PatternParts(r) : r \notin SubPatterns(k)

IsIrExpr(n) ==
  \A m \in IrWithin(n) :
    /\ IrShape(m)
    /\ m.kind = "Match" => \A i \in DOMAIN m.arms : IsIrPattern(m.arms[i].pat)
    /\ IsFiniteSet(IrWithin(m))
    /\ \A k \in IrParts(m) : m \notin IrWithin(k)

IsFunction(f) ==
  /\ {"kind", "name", "params", "types", "ret", "body"} \subseteq DOMAIN f
  /\ f.kind \in {"User", "Update", "Query"}
  /\ IsSeq(f.params) /\ IsSeq(f.types) /\ Len(f.params) = Len(f.types)

AreFunctions(fs) == IsSeq(fs) /\ \A f \in Range(fs) : IsFunction(f)

(* A type that is written down is not the unknown one. *)
IsDeclaredType(t) ==
  /\ t # UnknownT
  /\ \A u \in TypesIn(t) :
       /\ IsSeq(u.args)
       /\ IsFiniteSet(TypesIn(u))
       /\ \A i \in DOMAIN u.args : u \notin TypesIn(u.args[i])

AreFields(fs) == IsSeq(fs) /\ \A i \in DOMAIN fs : IsDeclaredType(fs[i].ty)

IsDeclaration(d) ==
  /\ d.name # UnknownT.name
  /\ IsSeq(d.generics) /\ AreFields(d.fields)
  /\ IsSeq(d.variants) /\ \A i \in DOMAIN d.variants : AreFields(d.variants[i].payload)
  /\ d.kind \notin {"Enum", "Event", "Query"} => d.variants = <<>>

(* true and false are keywords to the lexer, never names. *)
SourceShape(x) ==
  /\ \A y \in ExprsIn(x) : y.kind \in ExprKinds
  /\ \A q \in PatternsOf(x) : q.kind \in PatternKinds
  /\ x.kind \in ItemKinds => IsSeq(x.kids)
  /\ x.kind = "Ident"     => x.name \notin {"true", "false"}
  /\ x.kind = "Block"     =>
       IsSeq(x.statements) /\ \A s \in Range(x.statements) : s.kind \in {"Let", "Return"}
  /\ x.kind = "Match"     => IsSeq(x.arms)
  /\ x.kind = "Variant"   => IsSeq(x.fields)

IsBody(x) ==
  /\ x.kind = "Block"
  /\ \A y \in SubExprs(x) :
       /\ SourceShape(y)
       /\ IsFiniteSet(SubExprs(y))
       /\ \A z \in ExprsIn(y) \cup PatternsOf(y) : y \notin SubExprs(z)

(* A program is lowered only if the checker finds nothing in it. *)
ASSUME SourceAssumption ==
  \A p \in Sources :
    /\ p.origin = "source"
    /\ IsSeq(p.types) /\ \A d \in Range(p.types) : IsDeclaration(d)
    /\ AreFunctions(p.fns)
    /\ \A f \in Range(p.fns) :
         /\ \A i \in DOMAIN f.types : IsDeclaredType(f.types[i])
         /\ IsDeclaredType(f.ret)
         /\ IsBody(f.body)
    /\ Analyze(p) = {} =>
         \A f \in Range(p.fns) : \A n \in LowerFunction(Tables(p), f).node : IsIrExpr(n.body)

ASSUME IrAssumption ==
  \A p \in Irs :
    /\ p.origin = "ir"
    /\ AreFunctions(p.fns)
    /\ \A f \in Range(p.fns) : IsIrExpr(f.body)

------------------------------------------------------------------------------
VARIABLES
  program,   \* its origin (source or IR), type declarations and functions
  stage,     \* how far the program has come
  fns,       \* the functions of the IR
  bad,       \* diagnostic codes
  vm,        \* the IrVmProgram, or the error that from_ir made
  state,     \* the state of the session, as a set of at most one value
  answer,    \* what the last call answered
  calls      \* number of calls made

vars == <<program, stage, fns, bad, vm, state, answer, calls>>

NoAnswer == [pending |-> TRUE]
C        == Tables(program)

(* No call has been made yet. *)
Fresh ==
  /\ bad = {}
  /\ vm = NoAnswer
  /\ state = {}
  /\ answer = NoAnswer
  /\ calls = 0

Init ==
  /\ \/ program \in Sources /\ stage = "parsed" /\ fns = <<>>
     \/ program \in Irs /\ stage = "unvalidated" /\ fns = program.fns
  /\ Fresh

IsSource == program.origin = "source"

------------------------------------------------------------------------------
LowerProgram ==
  /\ stage = "parsed"
  /\ \E r \in {LowerResult(program)} :
       /\ fns' = r.fns
       /\ bad' = r.bad
       /\ stage' = IF r.bad = {} THEN "valid" ELSE "refused"
  /\ UNCHANGED <<program, vm, state, answer, calls>>

(* validate_program on IR that does not come from the lowering. *)
ValidateIr ==
  /\ stage = "unvalidated"
  /\ bad' = ValidateProgram(fns)
  /\ stage' = IF bad' = {} THEN "valid" ELSE "refused"
  /\ UNCHANGED <<program, fns, vm, state, answer, calls>>

Load ==
  /\ stage = "valid"
  /\ vm' = FromIr(fns)
  /\ stage' = IF vm'.ok THEN "loaded" ELSE "refused"
  /\ UNCHANGED <<program, fns, bad, state, answer, calls>>

------------------------------------------------------------------------------
Entry(kind)   == CHOOSE f \in Range(fns) : f.kind = kind
StateType     == Entry("Update").types[1]
InputType(k)  == Entry(k).types[2]
Depth         == 3   \* nesting of the host's values

Start ==
  /\ stage = "loaded"
  /\ \E s \in ValuesOf(C, StateType, Depth) : state' = {s}
  /\ stage' = "running"
  /\ UNCHANGED <<program, fns, bad, vm, answer, calls>>

(* An error ends the command, or the sample application with a panic. *)
Dispatch ==
  /\ stage = "running" /\ calls < MaxCalls
  /\ \E s \in state, e \in ValuesOf(C, InputType("Update"), Depth) :
       \E r \in {Call(vm.val, "update", s, e)} :
         /\ answer' = r
         /\ state' = IF r.ok THEN {r.val.items[1]} ELSE state
         /\ stage' = IF r.ok THEN "running" ELSE "failed"
  /\ calls' = calls + 1
  /\ UNCHANGED <<program, fns, bad, vm>>

Ask ==
  /\ stage = "running" /\ calls < MaxCalls
  /\ \E s \in state, q \in ValuesOf(C, InputType("Query"), Depth) :
       \E r \in {Call(vm.val, "query", s, q)} :
         /\ answer' = r
         /\ stage' = IF r.ok THEN "running" ELSE "failed"
  /\ calls' = calls + 1
  /\ UNCHANGED <<program, fns, bad, vm, state>>

Next == LowerProgram \/ ValidateIr \/ Load \/ Start \/ Dispatch \/ Ask

Spec == Init /\ [][Next]_vars

------------------------------------------------------------------------------
(***************************************************************************)
(* Properties.                                                             *)
(***************************************************************************)
IsLoaded == stage \in {"loaded", "running", "failed"}

(***************************************************************************)
(* What loads has passed the validator and is what the checker says it is: *)
(* every name in it resolves as NameResolution requires, so that the       *)
(* theorems about validated programs apply to it (validate_program).       *)
(* The entry points of IR that was not lowered may take any parameters.    *)
(***************************************************************************)
EntriesTakeTwo ==
  \A k \in {"Update", "Query"} : Len(Entry(k).params) = 2

LoadedProgramsAreValidated ==
  IsLoaded => /\ IsSource => EntriesTakeTwo
              /\ EntriesTakeTwo => Validated(vm.val)

(***************************************************************************)
(* Every function of a loaded program is the one that its name runs, and   *)
(* the entry points are the functions declared as such (from_ir).          *)
(***************************************************************************)
LoadedAsDeclared ==
  IsLoaded =>
    /\ \A i \in DOMAIN fns : vm.val.functions[fns[i].name] = fns[i]
    /\ \A i \in DOMAIN fns : /\ fns[i].kind = "Update" => vm.val.update = fns[i].name
                             /\ fns[i].kind = "Query"  => vm.val.query = fns[i].name

(***************************************************************************)
(* The checker, the lowering and the validator, which type every program   *)
(* by rules of their own, agree: a program that passes the checker is      *)
(* refused later only for a block without a tail, a match without arms, or *)
(* a set of functions that from_ir cannot load (main's Check command and   *)
(* setup_vm).                                                              *)
(***************************************************************************)
Regular(p) ==
  /\ \A i \in DOMAIN p.fns : \A x \in SubExprs(p.fns[i].body) :
       /\ x.kind = "Block" => x.tail # {}
       /\ x.kind = "Match" => x.arms # <<>>
  /\ IsInjective(NamesIn(p.fns))
  /\ \A k \in {"Update", "Query"} : Cardinality(OfKind(p.fns, k)) = 1

RefusalsHaveReasons ==
  stage = "refused" /\ IsSource /\ Regular(program) => Analyze(program) # {}

(***************************************************************************)
(* A program that passes the front end and does not depend on what the     *)
(* front end leaves unchecked does not go wrong on well-typed inputs, ever *)
(* again on the states it makes: only arithmetic and the limits stop it.   *)
(***************************************************************************)
Trusted ==
  /\ IsSource /\ IsLoaded
  /\ Careful(C, vm.val)
  /\ Entry("Query").types[1] = StateType

Unavoidable == {"overflow", "division_by_zero", "steps", "depth", "memory"}

CarefulProgramsNeverGoWrong ==
  Trusted /\ stage = "failed" => answer.why \in Unavoidable

(***************************************************************************)
(* And its state stays of the state type, however many updates have made   *)
(* it what it is (check_fn_signature, check_fn).                           *)
(***************************************************************************)
StateKeepsItsType ==
  Trusted => \A s \in state : HasType(C, s, StateType)

------------------------------------------------------------------------------
(***************************************************************************)
(* docs/specs/core-language.md section 8: "match on event / query / any    *)
(* enum must be exhaustive"; "Non-exhaustive matches are compile errors".  *)
(***************************************************************************)
MatchesAreExhaustive ==
  stage = "failed" /\ IsSource => answer.why # "non_exhaustive_match"

(***************************************************************************)
(* validate.rs on record fields: "we don't strictly validate that all      *)
(* required fields are present here, as it should have been caught by      *)
(* sema".                                                                  *)
(***************************************************************************)
RecordsAreComplete ==
  IsLoaded /\ IsSource =>
    \A v \in vm.val.visits :
      v[1].kind = "Record" =>
        \A con \in Constructed(C, v[1].name) :
          Range(NamesIn(con.fields)) \subseteq Range(v[1].names)

=============================================================================
