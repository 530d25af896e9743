------------------------------- MODULE Validator -------------------------------
(***************************************************************************)
(* validate_program of cino-ir: the set of diagnostic codes it reports for *)
(* an IR program, a sequence of functions.  sigs are the signatures of the *)
(* functions by name, e the types of the names in scope.                   *)
(***************************************************************************)
EXTENDS Sema

CONSTANTS
  ValidateExpr(_, _, _),      \* validate_expr
  ValidatePattern(_, _, _),   \* validate_pattern
  ValidateFields(_, _)        \* its loop over the fields of a variant

Diag(cond, code) == IF cond THEN {code} ELSE {}

(***************************************************************************)
(* validate_pattern: the environment with the names that the pattern binds *)
(* and the diagnostics.  The fields are held against their own types.      *)
(***************************************************************************)
ValidatePatternStep(q, t, acc) ==
  LET here == [env |-> acc.env, bad |-> acc.bad \cup Diag(~Compatible(q.ty, t), "E-IR-VAL-013")]
  IN  CASE q.kind = "Wildcard" -> here
        [] q.kind = "Binding"  -> [env |-> Bind(here.env, q.name, q.ty), bad |-> here.bad]
        [] q.kind = "Variant"  -> ValidateFields(q.fields, here)

ValidateFieldsStep(fs, acc) ==
  IF fs = <<>> THEN acc
  ELSE ValidateFields(Tail(fs), ValidatePattern(Head(fs).pat, Head(fs).pat.ty, acc))

(* E-IR-VAL-006 ends the look at a call (or its arity is not compared). *)
AnyArity(sigs, n) ==
  IF n.callee \notin DOMAIN sigs THEN {"E-IR-VAL-006"} ELSE {}

ValidateCall(sigs, n) ==
  IF n.callee \notin DOMAIN sigs THEN {"E-IR-VAL-006"}
  ELSE LET sig  == sigs[n.callee]
           args == DOMAIN n.kids \cap DOMAIN sig.types
       IN  Diag(~Compatible(n.ty, sig.ret), "E-IR-VAL-007")
           \cup Diag(Len(n.kids) # Len(sig.types), "E-IR-VAL-008")
           \cup Diag(\E i \in args : ~Compatible(n.kids[i].ty, sig.types[i]), "E-IR-VAL-009")

ValidateRef(e, n) ==
  IF n.name \notin DOMAIN e THEN {"E-IR-VAL-002"}
  ELSE Diag(~Compatible(n.ty, e[n.name]), "E-IR-VAL-003")

(* An arm has an environment of its own. *)
ValidateArm(sigs, e, n, a) ==
  LET p == ValidatePattern(a.pat, n.subject.ty, [env |-> e, bad |-> {}])
  IN  p.bad \cup ValidateExpr(sigs, p.env, a.body)
            \cup Diag(~Compatible(a.body.ty, n.ty), "E-IR-VAL-012")

(* validate_expr.  A Let's binding is undone after its body. *)
ValidateExprStep(sigs, e, n) ==
  LET kids  == UNION {ValidateExpr(sigs, e, n.kids[i]) : i \in DOMAIN n.kids}
      types == [i \in DOMAIN n.kids |-> n.kids[i].ty]
      item  == IF n.kids = <<>> THEN UnknownT ELSE types[1]
  IN  CASE n.kind = "LocalRef" -> ValidateRef(e, n)
        [] n.kind = "Int"      -> Diag(~Compatible(n.ty, IntT), "E-IR-VAL-004")
        [] n.kind = "Bool"     -> Diag(~Compatible(n.ty, BoolT), "E-IR-VAL-004")
        [] n.kind = "Tuple"    -> kids \cup Diag(~Compatible(n.ty, TupleT(types)), "E-IR-VAL-004")
        [] n.kind = "List"     -> kids \cup Diag(~Compatible(n.ty, ListT(item)), "E-IR-VAL-004")
        [] n.kind = "Record"   -> kids
        [] n.kind = "Binary"   ->
             kids \cup Diag(\E t \in Range(types) \cup {n.ty} : ~Compatible(t, IntT),
                            "E-IR-VAL-005")
        [] n.kind = "Call"     -> kids \cup ValidateCall(sigs, n)
        [] n.kind = "Let"      ->
             ValidateExpr(sigs, e, n.value)
             \cup ValidateExpr(sigs, Bind(e, n.name, n.value.ty), n.body)
             \cup Diag(~Compatible(n.body.ty, n.ty), "E-IR-VAL-010")
        [] n.kind = "Match"    ->
             ValidateExpr(sigs, e, n.subject)
             \cup Diag(n.arms = <<>>, "E-IR-VAL-011")
             \cup UNION {ValidateArm(sigs, e, n, n.arms[i]) : i \in DOMAIN n.arms}

ValidateProgram(fns) ==
  UNION {Diag(~Compatible(f.body.ty, f.ret), "E-IR-VAL-001")
         \cup ValidateExpr(ByName(fns), InsertAll(f.params, f.types), f.body) : f \in Range(fns)}

=============================================================================
