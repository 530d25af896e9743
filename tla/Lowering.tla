------------------------------- MODULE Lowering -------------------------------
(***************************************************************************)
(* The lowering of a checked program to IR, lower.rs of cino-ir.  It finds *)
(* the types again by rules of its own and reports what it cannot lower.   *)
(*                                                                         *)
(* The result of lowering an expression is an Option: "node" is a set of   *)
(* at most one IR expression.  After None nothing further is lowered; the  *)
(* diagnostics reported until then stay.  An IR expression has the shape   *)
(* that the evaluator runs, and its IrType in "ty".                        *)
(***************************************************************************)
EXTENDS Sema

CONSTANTS
  Lower(_, _, _),             \* lower_expr
  LowerPattern(_, _, _, _),   \* lower_pattern
  LowerFields(_, _, _, _),    \* lower_pattern_fields
  LowerEach(_, _)             \* the loop of Lowerer::lower over the functions

Lowered(n, bad) == [node |-> {n}, bad |-> bad]
Dropped(bad)    == [node |-> {}, bad |-> bad]
Reported(cond, code) == IF cond THEN {code} ELSE {}
TheNode(r)      == CHOOSE n \in r.node : TRUE
NodeTypes(ns)   == [i \in DOMAIN ns |-> ns[i].ty]

(* collect::<Option<Vec<_>>>: nothing is lowered after the first None. *)
Collected(rs) ==
  LET none == {i \in DOMAIN rs : rs[i].node = {}}
      some == {i \in DOMAIN rs : \A j \in none : i < j}
      seen == {i \in DOMAIN rs : \A j \in none : i <= j}
  IN  [ok    |-> none = {},
       nodes |-> [i \in some |-> TheNode(rs[i])],
       bad   |-> UNION {rs[i].bad : i \in seen}]

LowerAll(c, e, xs) == Collected([i \in DOMAIN xs |-> Lower(c, e, xs[i])])

LowerIdent(e, x) ==
  LET ref(t) == [kind |-> "LocalRef", name |-> x.name, ty |-> t]
  IN  CASE x.name \in DOMAIN e -> Lowered(ref(e[x.name]), {})
        [] x.name \notin DOMAIN e /\ x.name \in {"true", "false"} -> Lowered(ref(BoolT), {})
        [] OTHER -> Lowered(ref(UnknownT), {"E-IR-002"})

LowerList(all) ==
  LET item == IF all.nodes = <<>> THEN UnknownT ELSE all.nodes[1].ty
  IN  Lowered([kind |-> "List", kids |-> all.nodes, ty |-> ListT(item)], all.bad)

(* The fields lowered before one that is dropped have been compared. *)
LowerRecord(c, x, all) ==
  LET con   == CHOOSE r \in Constructed(c, x.name) : TRUE
      clash == \E i \in DOMAIN all.nodes : \E t \in FieldType(con.fields, x.names[i]) :
                 ~FieldAccepts(c, con, t, all.nodes[i].ty)
      bad   == all.bad \cup Reported(clash, "E-IR-003")
  IN  IF Constructed(c, x.name) = {} THEN Dropped({"E-IR-002"})
      ELSE IF ~all.ok THEN Dropped(bad)
      ELSE Lowered([kind |-> "Record", name |-> x.name, names |-> x.names,
                    kids |-> all.nodes, ty |-> ConstructedType(c, con)], bad)

LowerBinary(x, all) ==
  Lowered([kind |-> "Binary", op |-> x.op, kids |-> all.nodes, ty |-> IntT],
          all.bad \cup Reported(\E i \in DOMAIN all.nodes :
                                  ~Compatible(all.nodes[i].ty, IntT), "E-IR-003"))

LowerCall(c, x, all) ==
  LET f       == CHOOSE f \in x.callee : TRUE
      sig     == c.fns[f]
      call(t) == [kind |-> "Call", callee |-> f, kids |-> all.nodes, ty |-> t]
      args    == DOMAIN all.nodes \cap DOMAIN sig.types
      clash   == \/ Len(all.nodes) # Len(sig.types)
                 \/ \E i \in args : ~Compatible(all.nodes[i].ty, sig.types[i])
  IN  IF f \notin DOMAIN c.fns THEN Lowered(call(UnknownT), all.bad \cup {"E-IR-002"})
      ELSE Lowered(call(sig.ret), all.bad \cup Reported(clash, "E-IR-003"))

(***************************************************************************)
(* lower_block_expr: a Let of the block becomes a Let around what is left  *)
(* of it, in whose scope (or, without the insert, out of it) that is.      *)
(***************************************************************************)
OutOfScope(e, s, v) == e
InScope(e, s, v)    == Bind(e, s.name, TheNode(v).ty)

AroundRest(s, v, r) ==
  LET let(value, body) ==
        [kind |-> "Let", name |-> s.name, value |-> value, body |-> body, ty |-> body.ty]
  IN  IF r.node = {} THEN Dropped(v.bad \cup r.bad)
      ELSE Lowered(let(TheNode(v), TheNode(r)), v.bad \cup r.bad)

LowerLet(c, e, x, s, v) ==
  IF v.node = {} THEN Dropped(v.bad)
  ELSE AroundRest(s, v, Lower(c, InScope(e, s, v), Remaining(x)))

LowerStatement(c, e, x, s) ==
  CASE s.kind = "Return" -> Dropped({"E-IR-001"})
    [] s.kind = "Let"    -> LowerLet(c, e, x, s, Lower(c, e, s.value))

LowerTail(c, e, x) ==
  IF x.tail = {} THEN Dropped({"E-IR-001"}) ELSE Lower(c, e, CHOOSE t \in x.tail : TRUE)

LowerBlock(c, e, x) ==
  IF x.statements = <<>> THEN LowerTail(c, e, x)
  ELSE LowerStatement(c, e, x, Head(x.statements))

------------------------------------------------------------------------------
(***************************************************************************)
(* lower_pattern and lower_pattern_fields: a field without a pattern       *)
(* becomes a binding of its own name.                                      *)
(***************************************************************************)
Pat(q, env, bad) == [pat |-> {q}, env |-> env, bad |-> bad]
NoPat(env, bad)  == [pat |-> {}, env |-> env, bad |-> bad]
ThePat(r)        == CHOOSE q \in r.pat : TRUE

LowerField(c, f, t, e) ==
  IF f.pat = {} THEN Pat([kind |-> "Binding", name |-> f.name, ty |-> t], Bind(e, f.name, t), {})
  ELSE LowerPattern(c, CHOOSE q \in f.pat : TRUE, t, e)

FieldsResult(ok, fs, env, bad) == [ok |-> ok, fields |-> fs, env |-> env, bad |-> bad]

AddField(f, r, rest) ==
  FieldsResult(rest.ok, <<[name |-> f.name, pat |-> ThePat(r)]>> \o rest.fields,
               rest.env, r.bad \cup rest.bad)

AfterField(c, fields, payload, r) ==
  IF r.pat = {} THEN FieldsResult(FALSE, <<>>, r.env, r.bad)
  ELSE AddField(Head(fields), r, LowerFields(c, Tail(fields), payload, r.env))

LowerFieldsStep(c, fields, payload, e) ==
  LET f    == Head(fields)
      type == FieldType(payload, f.name)
  IN  CASE fields = <<>> -> FieldsResult(TRUE, <<>>, e, {})
        [] fields # <<>> /\ type = {} -> FieldsResult(FALSE, <<>>, e, {"E-IR-002"})
        [] fields # <<>> /\ type # {} ->
             AfterField(c, fields, payload, LowerField(c, f, CHOOSE t \in type : TRUE, e))

VariantPattern(q, t, fs) ==
  IF fs.ok THEN Pat([kind |-> "Variant", name |-> q.name, fields |-> fs.fields, ty |-> t],
                    fs.env, fs.bad)
  ELSE NoPat(fs.env, fs.bad)

LowerPatternStep(c, q, t, e) ==
  IF q.kind = "Wildcard" THEN Pat([kind |-> "Wildcard", ty |-> t], e, {})
  ELSE IF ~IsNamed(t) THEN NoPat(e, {"E-IR-003"})
  ELSE IF t.name \notin DOMAIN c.types THEN NoPat(e, {"E-IR-002"})
  ELSE IF ~HasVariants(c, t) THEN NoPat(e, {"E-IR-003"})
  ELSE IF q.name \notin DOMAIN Variants(c.types[t.name]) THEN NoPat(e, {"E-IR-002"})
  ELSE VariantPattern(q, t, LowerFields(c, q.fields, Variants(c.types[t.name])[q.name], e))

(* lower_match_expr: every arm in an environment of its own. *)
ArmNode(q, bad, b) ==
  IF b.node = {} THEN Dropped(bad \cup b.bad)
  ELSE Lowered([pat |-> q, body |-> TheNode(b)], bad \cup b.bad)

ArmBody(c, a, p) ==
  IF p.pat = {} THEN Dropped(p.bad)
  ELSE ArmNode(ThePat(p), p.bad, Lower(c, p.env, a.body))

LowerArm(c, e, a, t) ==
  IF a.guard # {} THEN Dropped({"E-IR-001"})
  ELSE ArmBody(c, a, LowerPattern(c, a.pat, t, e))

(* Every arm is held against the first. *)
MatchNode(subject, all) ==
  LET types == [i \in DOMAIN all.nodes |-> all.nodes[i].body.ty]
      clash == \E i \in DOMAIN types : ~Compatible(types[1], types[i])
      bad   == subject.bad \cup all.bad \cup Reported(clash, "E-IR-003")
  IN  IF ~all.ok THEN Dropped(bad)
      ELSE Lowered([kind |-> "Match", subject |-> TheNode(subject), arms |-> all.nodes,
                    ty |-> IF types = <<>> THEN UnknownT ELSE types[1]], bad)

LowerArms(c, e, x, subject) ==
  IF subject.node = {} THEN Dropped(subject.bad)
  ELSE MatchNode(subject, Collected([i \in DOMAIN x.arms |->
                                       LowerArm(c, e, x.arms[i], TheNode(subject).ty)]))

LowerMatch(c, e, x) == LowerArms(c, e, x, Lower(c, e, x.subject))

(* lower_expr *)
LowerFrom(c, e, x, all) ==
  CASE x.kind = "Ident"  -> LowerIdent(e, x)
    [] x.kind = "Int"    -> Lowered([kind |-> "Int", int |-> x.int, ty |-> IntT], {})
    [] x.kind = "Bool"   -> Lowered([kind |-> "Bool", bool |-> x.bool, ty |-> BoolT], {})
    [] x.kind = "Block"  -> LowerBlock(c, e, x)
    [] x.kind = "Match"  -> LowerMatch(c, e, x)
    [] x.kind = "Record" -> LowerRecord(c, x, all)
    [] x.kind = "Call" /\ x.callee = {} -> Dropped({"E-IR-001"})
    [] x.kind \in {"Tuple", "List", "Binary", "Call"} ->
         IF ~all.ok THEN Dropped(all.bad)
         ELSE CASE x.kind = "Tuple" ->
                     Lowered([kind |-> "Tuple", kids |-> all.nodes,
                              ty |-> TupleT(NodeTypes(all.nodes))], all.bad)
                [] x.kind = "List"   -> LowerList(all)
                [] x.kind = "Binary" -> LowerBinary(x, all)
                [] x.kind = "Call"   -> LowerCall(c, x, all)

LowerStep(c, e, x) == LowerFrom(c, e, x, LowerAll(c, e, x.kids))

(* lower_function, as a set of at most one IR function. *)
FunctionNode(fd, r) ==
  CASE r.node = {} -> Dropped(r.bad)
    [] r.node # {} /\ ~Compatible(TheNode(r).ty, fd.ret) -> Dropped(r.bad \cup {"E-IR-004"})
    [] OTHER -> Lowered([fd EXCEPT !.body = TheNode(r)], r.bad)

LowerFunction(c, fd) ==
  FunctionNode(fd, Lower(c, InsertAll(fd.params, fd.types), fd.body))

(* What is not lowered is left out, and what was reported of it stays.     *)
AddFunction(r, rest) ==
  [fns |-> IF r.node = {} THEN rest.fns ELSE <<TheNode(r)>> \o rest.fns,
   bad |-> r.bad \cup rest.bad]

LowerEachStep(c, fds) ==
  IF fds = <<>> THEN [fns |-> <<>>, bad |-> {}]
  ELSE AddFunction(LowerFunction(c, Head(fds)), LowerEach(c, Tail(fds)))

=============================================================================
