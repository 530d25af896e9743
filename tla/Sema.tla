--------------------------------- MODULE Sema ---------------------------------
(***************************************************************************)
(* The semantic checker, analyze of cino-sema: the type each expression    *)
(* is given and the set of diagnostic codes that are reported for it.      *)
(*                                                                         *)
(* Source expressions are records of their ExprKind: "kids" are the        *)
(* sub-expressions in order (SourceTree has their constructors).  c holds  *)
(* the tables and the kind of the function that is being checked, e the    *)
(* types of the names in scope.                                            *)
(*                                                                         *)
(* What recurs is a constant, here and in the lowering and the validator:  *)
(* each ...Step unfolds one of them once.  MCFrontEnd defines them by      *)
(* these equations for TLC.                                                *)
(***************************************************************************)
EXTENDS SourceTypes

CONSTANTS
  Compatible(_, _),          \* ty_compatible and is_compatible
  Infer(_, _, _),            \* infer_expr
  CheckPattern(_, _, _, _),  \* check_pattern
  CheckFields(_, _, _, _)    \* bind_pattern_fields

(* ty_compatible, written three times in the code. *)
CompatibleStep(a, b) ==
  \/ a = b \/ UnknownT \in {a, b}
  \/ /\ a.name = b.name
     /\ Len(a.args) = Len(b.args)
     /\ \A i \in DOMAIN a.args : Compatible(a.args[i], b.args[i])

FieldAccepts(c, con, expected, actual) ==
  IsGenericParam(c, con, expected) \/ Compatible(actual, expected)

------------------------------------------------------------------------------

Typed(t, bad)    == [ty |-> t, bad |-> bad]
When(cond, code) == IF cond THEN {code} ELSE {}
TypesOf(rs)      == [i \in DOMAIN rs |-> rs[i].ty]
AllBad(rs)       == UNION {rs[i].bad : i \in DOMAIN rs}

Forbidden == {"now", "rand", "random", "clock", "io", "http_get"}

(* emit_purity_violation *)
Impure(c, code) == {code} \cup When(c.kind = "User", "E-FN-002")

InferIdent(e, x) ==
  CASE x.name \in DOMAIN e -> Typed(e[x.name], {})
    [] x.name \notin DOMAIN e /\ x.name \in {"true", "false"} -> Typed(BoolT, {})
    [] OTHER -> Typed(UnknownT, {"E-TYPE-002"})

(* The first item whose type is known sets the type of the list. *)
InferList(rs) ==
  LET known == {i \in DOMAIN rs : rs[i].ty # UnknownT}
      item  == IF known = {} THEN UnknownT ELSE rs[Min(known)].ty
  IN  Typed(ListT(item),
            AllBad(rs) \cup When(\E i \in known : ~Compatible(item, rs[i].ty), "E-TYPE-001"))

(* The fields that are given are checked, not that all fields are given. *)
InferRecord(c, x, rs) ==
  LET fieldBad(con, i) ==
        LET expected == FieldType(con.fields, x.names[i])
        IN  When(expected = {}, "E-TYPE-002") \cup
            When(\E t \in expected : ~FieldAccepts(c, con, t, rs[i].ty), "E-TYPE-001")
  IN  IF Constructed(c, x.name) = {} THEN Typed(UnknownT, {"E-TYPE-002"})
      ELSE LET con == CHOOSE r \in Constructed(c, x.name) : TRUE
           IN  Typed(ConstructedType(c, con),
                     AllBad(rs) \cup UNION {fieldBad(con, i) : i \in DOMAIN rs})

InferBinary(rs) ==
  Typed(IntT, AllBad(rs) \cup
              When(\E i \in DOMAIN rs : ~Compatible(rs[i].ty, IntT), "E-TYPE-001"))

(* The arguments of a callee that is not a name are not looked at. *)
InferCall(c, x, rs) ==
  LET f    == CHOOSE f \in x.callee : TRUE
      sig  == c.fns[f]
      args == DOMAIN rs \cap DOMAIN sig.types
  IN  CASE x.callee = {} -> Typed(UnknownT, Impure(c, "E-PURE-002"))
        [] x.callee # {} /\ f \in Forbidden ->
             Typed(UnknownT, AllBad(rs) \cup Impure(c, "E-PURE-001"))
        [] x.callee # {} /\ f \notin Forbidden /\ f \notin DOMAIN c.fns ->
             Typed(UnknownT, AllBad(rs) \cup Impure(c, "E-PURE-002"))
        [] OTHER ->
             Typed(sig.ret,
                   AllBad(rs) \cup
                   When(\/ Len(rs) # Len(sig.types)
                        \/ \E i \in args : ~Compatible(rs[i].ty, sig.types[i]),
                        "E-TYPE-001"))

AlsoBad(r, bad) == Typed(r.ty, bad \cup r.bad)

(***************************************************************************)
(* check_block, statement by statement: a Let is in scope in what is left  *)
(* of the block.                                                           *)
(***************************************************************************)
Remaining(x) ==
  [kind |-> "Block", statements |-> Tail(x.statements), tail |-> x.tail]

AfterStatement(c, e, x, s, r) ==
  CASE s.kind = "Let"    -> AlsoBad(Infer(c, Bind(e, s.name, r.ty), Remaining(x)), r.bad)
    [] s.kind = "Return" -> AlsoBad(Infer(c, e, Remaining(x)), r.bad \cup {"E-FN-003"})

InferTail(c, e, x) ==
  IF x.tail = {} THEN Typed(UnknownT, {}) ELSE Infer(c, e, CHOOSE t \in x.tail : TRUE)

InferBlock(c, e, x) ==
  IF x.statements = <<>> THEN InferTail(c, e, x)
  ELSE AfterStatement(c, e, x, Head(x.statements), Infer(c, e, Head(x.statements).value))

------------------------------------------------------------------------------
(***************************************************************************)
(* check_pattern and bind_pattern_fields: the names a pattern binds, and   *)
(* the variant it covers, as a set of at most one.                         *)
(***************************************************************************)
PatternResult(e, bad, covers) == [env |-> e, bad |-> bad, covers |-> covers]

CheckField(c, acc, f, type) ==
  LET t               == CHOOSE t \in type : TRUE
      after(env, bad) == PatternResult(env, acc.bad \cup bad, acc.covers)
      nested(r)       == after(r.env, r.bad)
  IN  CASE type = {} -> after(acc.env, {"E-TYPE-002"})
        [] type # {} /\ f.pat = {} -> after(Bind(acc.env, f.name, t), {})
        [] type # {} /\ f.pat # {} ->
             nested(CheckPattern(c, CHOOSE p \in f.pat : TRUE, t, acc.env))

CheckFieldsStep(c, fields, payload, acc) ==
  IF fields = <<>> THEN acc
  ELSE CheckFields(c, Tail(fields), payload,
                   CheckField(c, acc, Head(fields), FieldType(payload, Head(fields).name)))

CheckPatternStep(c, q, t, e) ==
  CASE q.kind = "Wildcard" -> PatternResult(e, {}, {})
    [] q.kind = "Variant" ->
         IF ~IsNamed(t) THEN PatternResult(e, {"E-TYPE-001"}, {})
         ELSE IF t.name \notin DOMAIN c.types \/ q.name \notin DOMAIN Variants(c.types[t.name])
           THEN PatternResult(e, {"E-TYPE-002"}, {})
         ELSE CheckFields(c, q.fields, Variants(c.types[t.name])[q.name],
                          PatternResult(e, {}, {q.name}))

(***************************************************************************)
(* infer_match.  An arm covers the variant its pattern names, whatever the *)
(* patterns of the fields ask for (or, of all variants, none is missing).  *)
(***************************************************************************)
AnyVariants(c, t) == {}
AllVariants(c, t) ==
  IF IsNamed(t) /\ HasVariants(c, t) THEN DOMAIN Variants(c.types[t.name]) ELSE {}

MatchResult(c, x, subject, pats, bodies) ==
  LET arms    == DOMAIN x.arms
      wild(i) == x.arms[i].pat.kind = "Wildcard"
      unreachable(i) == \E j \in arms :
                          j < i /\ (wild(j) \/ pats[i].covers \cap pats[j].covers # {})
      missing == AllVariants(c, subject.ty) \ UNION {pats[i].covers : i \in arms}
  IN  Typed(IF arms = {} THEN UnknownT ELSE bodies[1].ty,
            subject.bad \cup AllBad(pats) \cup AllBad(bodies)
            \cup When(\E i \in arms : x.arms[i].guard # {}, "E-MATCH-003")
            \cup When(\E i \in arms : unreachable(i), "E-MATCH-002")
            \cup When(\E i \in arms : ~Compatible(bodies[1].ty, bodies[i].ty), "E-TYPE-001")
            \cup When(missing # {} /\ ~\E i \in arms : wild(i), "E-MATCH-001"))

InferArms(c, x, subject, pats) ==
  MatchResult(c, x, subject, pats, [i \in DOMAIN x.arms |-> Infer(c, pats[i].env, x.arms[i].body)])

InferPatterns(c, e, x, subject) ==
  InferArms(c, x, subject,
            [i \in DOMAIN x.arms |-> CheckPattern(c, x.arms[i].pat, subject.ty, e)])

InferMatch(c, e, x) == InferPatterns(c, e, x, Infer(c, e, x.subject))

(* infer_expr *)
InferFrom(c, e, x, rs) ==
  CASE x.kind = "Ident"  -> InferIdent(e, x)
    [] x.kind = "Int"    -> Typed(IntT, {})
    [] x.kind = "Bool"   -> Typed(BoolT, {})
    [] x.kind = "Tuple"  -> Typed(TupleT(TypesOf(rs)), AllBad(rs))
    [] x.kind = "List"   -> InferList(rs)
    [] x.kind = "Record" -> InferRecord(c, x, rs)
    [] x.kind = "Binary" -> InferBinary(rs)
    [] x.kind = "Call"   -> InferCall(c, x, rs)
    [] x.kind = "Block"  -> InferBlock(c, e, x)
    [] x.kind = "Match"  -> InferMatch(c, e, x)

InferStep(c, e, x) ==
  InferFrom(c, e, x, [i \in DOMAIN x.kids |-> Infer(c, e, x.kids[i])])

------------------------------------------------------------------------------
(***************************************************************************)
(* check_fn_signature: update(S, event) -> (S, List<Action>), and          *)
(* query(S, query) -> Result<R, E>.                                        *)
(***************************************************************************)
IsOfKind(c, t, kind) ==
  IsNamed(t) /\ t.name \in DOMAIN c.types /\ c.types[t.name].kind = kind

IsListAction(t) ==
  t.name = "List" /\ Len(t.args) = 1 /\ IsNamed(t.args[1]) /\ t.args[1].name = "Action"

(* The new state is of the type of the old (or of any). *)
ReturnsAny(fd)   == TRUE
ReturnsState(fd) == Compatible(fd.ret.args[1], fd.types[1])

SignatureOk(c, fd) ==
  CASE fd.kind = "User"   -> TRUE
    [] fd.kind = "Update" ->
         /\ Len(fd.types) = 2
         /\ IsOfKind(c, fd.types[2], "Event")
         /\ fd.ret.name = "()" /\ Len(fd.ret.args) = 2
         /\ ReturnsState(fd)
         /\ IsListAction(fd.ret.args[2])
    [] fd.kind = "Query"  ->
         /\ Len(fd.types) = 2
         /\ IsOfKind(c, fd.types[2], "Query")
         /\ fd.ret.name = "Result" /\ Len(fd.ret.args) = 2

CheckFn(c, fd) ==
  LET body == Infer(Bind(c, "kind", fd.kind), InsertAll(fd.params, fd.types), fd.body)
  IN  body.bad \cup When(~SignatureOk(c, fd), "E-TYPE-004")
               \cup When(~Compatible(body.ty, fd.ret), "E-TYPE-001")

Analyze(p) == UNION {CheckFn(Tables(p), p.fns[i]) : i \in DOMAIN p.fns}

=============================================================================
