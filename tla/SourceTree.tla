----------------------------- MODULE SourceTree ------------------------------
(***************************************************************************)
(* The syntax tree of a cino program, ast.rs, without its spans.  What may *)
(* be absent (Option) is a set of at most one: the tail of a block, the    *)
(* guard of an arm, the pattern of a field.  A call has the name of its    *)
(* callee in "callee", or, when it is not a name, the callee in "of".      *)
(* And the text of a tree, word by word, after the grammar of              *)
(* docs/specs/core-language.md section 5.2: what the parser has to read    *)
(* back.                                                                   *)
(***************************************************************************)
EXTENDS SourceTypes

CONSTANT Numerals    \* the value of each numeral

(* ExprKind *)
Id(x)          == [kind |-> "Ident", name |-> x]
Num(i)         == [kind |-> "Int", int |-> i]
Truth(b)       == [kind |-> "Bool", bool |-> b]
Tup(ks)        == [kind |-> "Tuple", kids |-> ks]
Lst(ks)        == [kind |-> "List", kids |-> ks]
Rec(n, xs, ks) == [kind |-> "Record", name |-> n, names |-> xs, kids |-> ks]
Bin(o, l, r)   == [kind |-> "Binary", op |-> o, kids |-> <<l, r>>]
Case(s, as)    == [kind |-> "Match", subject |-> s, arms |-> as]
Block(ss, t)   == [kind |-> "Block", statements |-> ss, tail |-> t]

CallNode(fs, xs, ks) == [kind |-> "Call", callee |-> fs, of |-> xs, kids |-> ks]
Fn(f, ks)            == CallNode({f}, {}, ks)
Odd(x, ks)           == CallNode({}, {x}, ks)
CallOn(x, ks)        == IF x.kind = "Ident" THEN Fn(x.name, ks) ELSE Odd(x, ks)

(* Stmt, MatchArm, PatternKind and PatternField *)
LetS(x, v)      == [kind |-> "Let", name |-> x, value |-> v]
RetS(v)         == [kind |-> "Return", value |-> v]
Arm(q, g, x)    == [pat |-> q, guard |-> g, body |-> x]
Wild            == [kind |-> "Wildcard"]
Var(n, fs)      == [kind |-> "Variant", name |-> n, fields |-> fs]
PatField(x, q)  == [name |-> x, pat |-> q]

(* TypeDecl, FnDecl and their parts; a parameter is a FieldDecl too. *)
Field(x, t)    == [name |-> x, ty |-> t]
Variant(n, fs) == [name |-> n, payload |-> fs]
Declared(k, n, gs, fs, vs) ==
  [kind |-> k, name |-> n, generics |-> gs, fields |-> fs, variants |-> vs]
Function(k, n, ps, r, b) ==
  [kind |-> k, name |-> n, params |-> NamesIn(ps),
   types |-> [i \in DOMAIN ps |-> ps[i].ty], ret |-> r, body |-> b]

------------------------------------------------------------------------------
Spellings == {"(", ")", "{", "}", "[", "]", "<", ">", ",", ":", "=", "=>", "|", "_", "->",
              "+", "-", "*", "/", ";", "end", "true", "false", "fn", "update", "query", "state",
              "event", "enum", "record", "let", "match", "return", "if"}

(* The token that a word of the text is. *)
Token(w) ==
  CASE w \in Spellings -> [tag |-> w]
    [] w \in DOMAIN Numerals -> [tag |-> "Int", int |-> Numerals[w]]
    [] OTHER -> [tag |-> "Ident", name |-> w]

Joined(ws, sep) ==
  FoldLeft(LAMBDA acc, w : IF acc = <<>> THEN w ELSE acc \o sep \o w, <<>>, ws)
The(opt)   == CHOOSE x \in opt : TRUE
Numeral(i) == CHOOSE w \in DOMAIN Numerals : Numerals[w] = i

RECURSIVE TypeText(_), ExprText(_, _), PatternText(_)

Angles(ws)   == IF ws = <<>> THEN <<>> ELSE <<"<">> \o Joined(ws, <<",">>) \o <<">">>
TypeText(t)  ==
  LET args == [i \in DOMAIN t.args |-> TypeText(t.args[i])]
  IN  IF t.name = "()" THEN <<"(">> \o Joined(args, <<",">>) \o <<")">>
      ELSE <<t.name>> \o Angles(args)

FieldText(f)  == <<f.name, ":">> \o TypeText(f.ty)
FieldsText(fs) == Joined([i \in DOMAIN fs |-> FieldText(fs[i])], <<>>)
Braces(w)   == <<"{">> \o w \o <<"}">>

VariantText(v) ==
  <<"|", v.name>> \o IF v.payload = <<>> THEN <<>> ELSE Braces(FieldsText(v.payload))

Keyword == [k \in {"State", "Record", "Event", "Query", "Enum"} |->
              CASE k = "State" -> "state" [] k = "Record" -> "record" [] k = "Event" -> "event"
                [] k = "Query" -> "query" [] k = "Enum" -> "enum"]

TypeDeclText(d) ==
  <<Keyword[d.kind], d.name>> \o Angles([i \in DOMAIN d.generics |-> <<d.generics[i]>>]) \o
  IF d.kind \in {"State", "Record"} THEN Braces(FieldsText(d.fields))
  ELSE <<"=">> \o Joined([i \in DOMAIN d.variants |-> VariantText(d.variants[i])], <<>>)

------------------------------------------------------------------------------
PatternText(q) ==
  LET sub(f)   == IF f.pat = {} THEN <<f.name>>
                  ELSE <<f.name, ":">> \o PatternText(The(f.pat))
  IN  IF q.kind = "Wildcard" THEN <<"_">>
      ELSE <<q.name>> \o IF q.fields = <<>> THEN <<>>
                         ELSE Braces(Joined([i \in DOMAIN q.fields |-> sub(q.fields[i])], <<>>))

Sign(op)     == CASE op = "Add" -> "+" [] op = "Sub" -> "-" [] op = "Mul" -> "*" [] op = "Div" -> "/"
Strength(op) == IF op \in {"Add", "Sub"} THEN 1 ELSE 2
Parens(w) == <<"(">> \o w \o <<")">>

(* A semicolon ends a statement, so that what follows is none of its own. *)
BlockText(x) ==
  LET statement(s) ==
        (IF s.kind = "Let" THEN <<"let", s.name, "=">> ELSE <<"return">>) \o
        ExprText(s.value, 1) \o <<";">>
  IN  Braces(Joined([i \in DOMAIN x.statements |-> statement(x.statements[i])], <<>>) \o
               IF x.tail = {} THEN <<>> ELSE ExprText(The(x.tail), 1))

ArmText(a) ==
  PatternText(a.pat) \o
  (IF a.guard = {} THEN <<>> ELSE <<"if">> \o ExprText(The(a.guard), 1)) \o
  <<"=>">> \o ExprText(a.body, 1)

(* Empty braces after a name would be a record. *)
SubjectText(x) ==
  IF x.arms = <<>> THEN Parens(ExprText(x.subject, 1))
  ELSE ExprText(x.subject, 1)

(* How an expression is written where one of at least strength min stands: *)
(* operators associate to the left, `*` and `/` bind tighter.              *)
ExprText(x, min) ==
  LET items(xs) == Joined([i \in DOMAIN xs |-> ExprText(xs[i], 1)], <<",">>)
      field(i)  == <<x.names[i], ":">> \o ExprText(x.kids[i], 1)
  IN  CASE x.kind = "Ident"  -> <<x.name>>
        [] x.kind = "Int"    -> <<Numeral(x.int)>>
        [] x.kind = "Bool"   -> <<IF x.bool THEN "true" ELSE "false">>
        [] x.kind = "Tuple"  -> Parens(items(x.kids))
        [] x.kind = "List"   -> <<"[">> \o items(x.kids) \o <<"]">>
        [] x.kind = "Record" -> <<x.name>> \o Braces(Joined([i \in DOMAIN x.kids |-> field(i)], <<>>))
        [] x.kind = "Call"   ->
             (IF x.callee # {} THEN <<The(x.callee)>>
              ELSE ExprText(The(x.of), 3)) \o Parens(items(x.kids))
        [] x.kind = "Binary" ->
             LET n == Strength(x.op)
                 w == ExprText(x.kids[1], n) \o <<Sign(x.op)>> \o
                      ExprText(x.kids[2], n + 1)
             IN  IF n < min THEN Parens(w) ELSE w
        [] x.kind = "Match"  ->
             <<"match">> \o SubjectText(x) \o
             Braces(Joined([i \in DOMAIN x.arms |-> ArmText(x.arms[i])], <<>>))
        [] x.kind = "Block"  -> BlockText(x)

FnText(f) ==
  LET params == [i \in DOMAIN f.params |-> <<f.params[i], ":">> \o TypeText(f.types[i])]
  IN  (IF f.kind = "User" THEN <<"fn", f.name>> ELSE <<f.name>>) \o
      Parens(Joined(params, <<",">>)) \o <<"->">> \o TypeText(f.ret) \o
      ExprText(f.body, 1)

Text(p) ==
  Joined([i \in DOMAIN p.types |-> TypeDeclText(p.types[i])], <<>>) \o
  Joined([i \in DOMAIN p.fns |-> FnText(p.fns[i])], <<>>) \o <<"end">>

Tokens(ws)  == [i \in DOMAIN ws |-> Token(ws[i])]
Written(p)  == Tokens(Text(p))

=============================================================================
