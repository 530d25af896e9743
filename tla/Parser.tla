-------------------------------- MODULE Parser --------------------------------
(***************************************************************************)
(* The parser of cino-syntax, one operator per parse function.  A token is *)
(* [tag] with its spelling as the tag, except names, [tag |-> "Ident",     *)
(* name], numbers, [tag |-> "Int", int], and the end.                      *)
(*                                                                         *)
(* A parser s is the tokens, the cursor "at", the parts of the tree built  *)
(* so far (what the parse functions return, newest last) and "err", the    *)
(* token that the error is about (0 while there is none).  A production is *)
(* written as the sequence of what it expects: the tags of tokens, and the *)
(* names of parse functions (see Symbol).                                  *)
(***************************************************************************)
EXTENDS SourceTree

Parser(toks) == [toks |-> toks, at |-> 1, vals |-> <<>>, err |-> 0]

(* peek_tag, check, bump, consume_if, expect: never past the end. *)
PeekTag(s, k) == s.toks[Min({s.at + k, Len(s.toks)})].tag
Check(s, tag) == s.err = 0 /\ PeekTag(s, 0) = tag
Bump(s)       == IF Check(s, "end") THEN s ELSE [s EXCEPT !.at = @ + 1]
ConsumeIf(s, tag) == IF Check(s, tag) THEN Bump(s) ELSE s
FailAfter(s)      == [s EXCEPT !.err = s.at + 1]
Fail(s)           == [s EXCEPT !.err = s.at]
Expect(s, tag)    == IF Check(s, tag) THEN Bump(s) ELSE Fail(s)

(* Returning a part, and making one out of the last n. *)
Push(s, v) == IF s.err = 0 THEN [s EXCEPT !.vals = Append(@, v)] ELSE s
Made(s, n, Make(_)) ==
  LET rest == Len(s.vals) - n
  IN  IF s.err # 0 THEN s
      ELSE [s EXCEPT !.vals = Append(SubSeq(@, 1, rest), Make(SubSeq(@, rest + 1, Len(@))))]

(* All that was returned since the parser was at before, as one sequence. *)
Collected(before, s) ==
  IF s.err # 0 THEN s ELSE Made(s, Len(s.vals) - Len(before.vals), LAMBDA v : v)

(* token_to_ident: the words of the language are names too. *)
Words == {"fn", "update", "query", "state", "event", "enum", "record", "let", "match",
          "return", "if"}
IsName(tag)  == tag \in Words \cup {"Ident"}
NameOf(t)    == IF t.tag = "Ident" THEN t.name ELSE t.tag
ExpectIdent(s) ==
  IF IsName(PeekTag(s, 0)) THEN Push(Bump(s), NameOf(s.toks[s.at])) ELSE Fail(s)

(* current_binary_op *)
Ops     == [t \in {"+", "-", "*", "/"} |->
              CASE t = "+" -> "Add" [] t = "-" -> "Sub" [] t = "*" -> "Mul" [] t = "/" -> "Div"]
Prec(t) == IF t \in {"+", "-"} THEN 10 ELSE 20

(* The operand on the right of an operator binds tighter than it. *)
RightPrecSame(t) == Prec(t)
RightPrec(t)     == Prec(t) + 1

RECURSIVE Symbol(_, _), Symbols(_, _), CommaItems(_, _), Members(_, _), Variants_(_),
          Statements(_), Infix(_, _), Calls(_), Decls(_)

(* loop { item; if no comma, break } *)
CommaItems(s, item) ==
  LET r == Symbol(s, item) IN IF Check(r, ",") THEN CommaItems(Bump(r), item) ELSE r

(* A list that may be empty, up to the closing token. *)
Enclosed(s, item, close) ==
  Collected(s, Symbol(IF Check(s, close) THEN s ELSE CommaItems(s, item), close))

(* A list in angles, or nothing. *)
Angled(s, item) ==
  IF Check(s, "<") THEN Collected(s, Symbol(CommaItems(Bump(s), item), ">")) ELSE Push(s, <<>>)

(* while !check(RBrace) { item; separators that may be there } *)
Separated(s, item) ==
  IF item = "PatField" THEN ConsumeIf(s, ",") ELSE ConsumeIf(ConsumeIf(s, ","), ";")

Members(s, item) ==
  IF s.err # 0 \/ Check(s, "}") THEN s ELSE Members(Separated(Symbol(s, item), item), item)

Braced(s, item) == Collected(s, Symbol(Members(Symbol(s, "{"), item), "}"))

------------------------------------------------------------------------------
(***************************************************************************)
(* Declarations.                                                           *)
(***************************************************************************)
FieldDecl(s) == Made(Symbols(s, <<"Name", ":", "Type">>), 2, LAMBDA v : Field(v[1], v[2]))

BareType(s)  == Made(Angled(ExpectIdent(s), "Type"), 2, LAMBDA v : Type(v[1], <<>>))
NamedType(s) == Made(Angled(ExpectIdent(s), "Type"), 2, LAMBDA v : Type(v[1], v[2]))
TypeExpr(s)  ==
  IF Check(s, "(") THEN Made(Enclosed(Bump(s), "Type", ")"), 1, LAMBDA v : TupleT(v[1]))
  ELSE NamedType(s)

Payload(s) == IF Check(s, "{") THEN Braced(s, "Field") ELSE Push(s, <<>>)
VariantDecl(s) ==
  Made(Payload(Symbols(s, <<"|", "Name">>)), 2, LAMBDA v : Variant(v[1], v[2]))

Variants_(s)   == IF Check(s, "|") THEN Variants_(Symbol(s, "Variant")) ELSE s
VariantList(s) == IF Check(s, "|") THEN Collected(s, Variants_(s)) ELSE Fail(s)

TypeKind(tag) ==
  CASE tag = "state" -> "State" [] tag = "record" -> "Record" [] tag = "event" -> "Event"
    [] tag = "query" -> "Query" [] tag = "enum" -> "Enum"

RecordDecl(s, word) ==
  Made(Symbols(s, <<word, "Name", "Generics", "Fields">>), 3,
       LAMBDA v : Declared(TypeKind(word), v[1], v[2], v[3], <<>>))
SumDecl(s, word) ==
  Made(Symbols(s, <<word, "Name", "Generics", "=", "Variants">>), 3,
       LAMBDA v : Declared(TypeKind(word), v[1], v[2], <<>>, v[3]))
FnDeclTail(s, kind) ==
  Made(Symbols(s, <<"(", "Params", "->", "Type", "Block">>), 4,
       LAMBDA v : Function(kind, v[1], v[2], v[3], v[4]))

TopDecl(s) ==
  LET word == PeekTag(s, 0)
  IN  CASE word = "fn"     -> FnDeclTail(Symbols(s, <<"fn", "Name">>), "User")
        [] word = "update" -> FnDeclTail(Push(Bump(s), "update"), "Update")
        [] word = "query" /\ PeekTag(s, 1) = "(" ->
             FnDeclTail(Push(Bump(s), "query"), "Query")
        [] word \in {"state", "record"} -> RecordDecl(s, word)
        [] word \in {"event", "enum"} \/ (word = "query" /\ PeekTag(s, 1) # "(") ->
             SumDecl(s, word)
        [] OTHER -> Fail(s)

------------------------------------------------------------------------------
(***************************************************************************)
(* Statements and expressions.                                             *)
(***************************************************************************)
LetStmt(s)    == Made(Symbols(s, <<"let", "Name", "=", "Expr">>), 2, LAMBDA v : LetS(v[1], v[2]))
ReturnStmt(s) == Made(Symbols(s, <<"return", "Expr">>), 1, LAMBDA v : RetS(v[1]))

Statements(s) ==
  CASE Check(s, "let")    -> Statements(ConsumeIf(LetStmt(s), ";"))
    [] Check(s, "return") -> Statements(ConsumeIf(ReturnStmt(s), ";"))
    [] OTHER -> s

Tail_(s) == IF Check(s, "}") THEN Push(s, {}) ELSE Made(Symbol(s, "Expr"), 1, LAMBDA v : {v[1]})

BlockExpr(s) ==
  LET body == Collected(s, Statements(Symbol(s, "{")))
  IN  Made(Symbol(Tail_(body), "}"), 2, LAMBDA v : Block(v[1], v[2]))

(* looks_like_record_expr, asked with the name still in front. *)
LooksLikeRecord(s) ==
  PeekTag(s, 1) = "{" /\ (PeekTag(s, 2) = "}" \/ PeekTag(s, 3) = ":")

RecordField(s) ==
  Made(Symbols(s, <<"Name", ":", "Expr">>), 2, LAMBDA v : [name |-> v[1], value |-> v[2]])
RecordExpr(s) ==
  Made(Braced(ExpectIdent(s), "RecordField"), 2,
       LAMBDA v : Rec(v[1], NamesIn(v[2]), [i \in DOMAIN v[2] |-> v[2][i].value]))

(* In parentheses: a tuple, or the expression itself. *)
ParensSkipFirst(s) ==
  LET first == Symbol(Bump(s), "Expr")
  IN  IF Check(first, ",")
        THEN Made(Collected(first, Symbol(CommaItems(Bump(first), "Expr"), ")")), 2, LAMBDA v : Tup(v[2]))
        ELSE Symbol(first, ")")

InParens(s) ==
  LET first == Symbol(Bump(s), "Expr")
  IN  IF Check(first, ",")
        THEN Made(Collected(s, Symbol(CommaItems(Bump(first), "Expr"), ")")), 1, LAMBDA v : Tup(v[1]))
        ELSE Symbol(first, ")")

PrimaryExpr(s) ==
  LET tag == PeekTag(s, 0)
  IN  CASE tag = "{" -> BlockExpr(s)
        [] tag = "match" ->
             Made(Symbols(s, <<"match", "Expr", "Arms">>), 2, LAMBDA v : Case(v[1], v[2]))
        [] tag = "[" -> Made(Enclosed(Bump(s), "Expr", "]"), 1, LAMBDA v : Lst(v[1]))
        [] tag = "(" -> InParens(s)
        [] tag = "Ident" /\ LooksLikeRecord(s) -> RecordExpr(s)
        [] IsName(tag) /\ tag # "match" /\ ~(tag = "Ident" /\ LooksLikeRecord(s)) ->
             Made(ExpectIdent(s), 1, LAMBDA v : Id(v[1]))
        [] tag = "Int" -> Push(Bump(s), Num(s.toks[s.at].int))
        [] tag \in {"true", "false"} -> Push(Bump(s), Truth(tag = "true"))
        [] OTHER -> Fail(s)

(* parse_postfix_expr and parse_expr *)
Calls(s) ==
  IF Check(s, "(") THEN Calls(Made(Enclosed(Bump(s), "Expr", ")"), 2, LAMBDA v : CallOn(v[1], v[2])))
  ELSE s

Infix(s, min) ==
  LET op == PeekTag(s, 0)
  IN  IF s.err # 0 \/ op \notin DOMAIN Ops \/ (op \in DOMAIN Ops /\ Prec(op) < min) THEN s
      ELSE Infix(Made(Infix(Symbol(Bump(s), "Operand"), RightPrec(op)), 2,
                      LAMBDA v : Bin(Ops[op], v[1], v[2])), min)

Expr(s) == Infix(Symbol(s, "Operand"), 0)

------------------------------------------------------------------------------
(***************************************************************************)
(* Match arms and patterns.                                                *)
(***************************************************************************)
Guard(s) ==
  IF Check(s, "if") THEN Made(Symbol(Bump(s), "Expr"), 1, LAMBDA v : {v[1]}) ELSE Push(s, {})
MatchArm(s) ==
  Made(Symbols(Guard(Symbol(s, "Pattern")), <<"=>", "Expr">>), 3,
       LAMBDA v : Arm(v[1], v[2], v[3]))

PatternFields(s) == IF Check(s, "{") THEN Braced(s, "PatField") ELSE Push(s, <<>>)
Pattern(s) ==
  IF Check(s, "_") THEN Push(Bump(s), Wild)
  ELSE Made(PatternFields(ExpectIdent(s)), 2, LAMBDA v : Var(v[1], v[2]))

SubPattern(s) ==
  IF Check(s, ":") THEN Made(Symbol(Bump(s), "Pattern"), 1, LAMBDA v : {v[1]}) ELSE Push(s, {})
PatternField(s) == Made(SubPattern(ExpectIdent(s)), 2, LAMBDA v : PatField(v[1], v[2]))

------------------------------------------------------------------------------
(* What a production can ask for; `?` returns at the first error. *)
Symbol(s, x) ==
  CASE s.err # 0 -> s
    [] OTHER ->
       CASE x = "Name"        -> ExpectIdent(s)
         [] x = "Type"        -> TypeExpr(s)
         [] x = "Field"       -> FieldDecl(s)
         [] x = "Fields"      -> Braced(s, "Field")
         [] x = "Generics"    -> Angled(s, "Name")
         [] x = "Variant"     -> VariantDecl(s)
         [] x = "Variants"    -> VariantList(s)
         [] x = "Params"      -> Enclosed(s, "Field", ")")
         [] x = "Block"       -> BlockExpr(s)
         [] x = "Expr"        -> Expr(s)
         [] x = "Operand"     -> Calls(PrimaryExpr(s))
         [] x = "RecordField" -> RecordField(s)
         [] x = "Arms"        -> Braced(s, "Arm")
         [] x = "Arm"         -> MatchArm(s)
         [] x = "Pattern"     -> Pattern(s)
         [] x = "PatField"    -> PatternField(s)
         [] OTHER             -> Expect(s, x)

Symbols(s, xs) == IF xs = <<>> THEN s ELSE Symbols(Symbol(s, Head(xs)), Tail(xs))

(* parse_program; types and functions are kept apart, each in their order. *)
Decls(s) == IF s.err # 0 \/ Check(s, "end") THEN s ELSE Decls(TopDecl(s))

IsFunction(d) == "body" \in DOMAIN d
IsTypeDecl(d) == ~IsFunction(d)

Parsed(s) ==
  IF s.err # 0 THEN [ok |-> FALSE, at |-> s.err]
  ELSE [ok |-> TRUE, types |-> SelectSeq(s.vals, IsTypeDecl), fns |-> SelectSeq(s.vals, IsFunction)]

ParseProgram(toks) == Parsed(Decls(Parser(toks)))

=============================================================================
