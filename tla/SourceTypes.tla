----------------------------- MODULE SourceTypes -----------------------------
(***************************************************************************)
(* The types of cino programs and the tables that the checker (cino-sema)  *)
(* and the lowering (cino-ir) collect from the declarations of a program.  *)
(*                                                                         *)
(* A program is [types, fns]: its type declarations and its functions, in  *)
(* source order.  A type declaration is [name, kind, generics, fields,     *)
(* variants], a function [name, kind, params, types, ret, body]; fields,   *)
(* payloads and parameters are sequences.  Type expressions are given as   *)
(* the types that ty_from_ast makes of them.                               *)
(***************************************************************************)
EXTENDS NameMaps

(* A type is the name of its constructor and its arguments. *)
Type(n, as) == [name |-> n, args |-> as]
IntT        == Type("Int", <<>>)
BoolT       == Type("Bool", <<>>)
UnknownT    == Type("?", <<>>)
TupleT(ts)  == Type("()", ts)
ListT(t)    == Type("List", <<t>>)
Named(n)    == Type(n, <<>>)

BuiltinNames == {"Int", "Bool", "Decimal", "String"}
IsNamed(t)   == t.name \notin {"?", "()"} /\ (t.name \in BuiltinNames => t.args # <<>>)

------------------------------------------------------------------------------
(***************************************************************************)
(* collect_decls: of two declarations with one name the later one counts,  *)
(* but a variant keeps the type it was last declared in.                   *)
(***************************************************************************)
NamesIn(s)  == [i \in DOMAIN s |-> s[i].name]
ByName(s)   == InsertAll(NamesIn(s), s)
Variants(d) == InsertAll(NamesIn(d.variants),
                         [i \in DOMAIN d.variants |-> d.variants[i].payload])

VariantOwner(types) ==
  LET declares(i, v) == v \in Range(NamesIn(types[i].variants))
      all == UNION {Range(NamesIn(types[i].variants)) : i \in DOMAIN types}
  IN  [v \in all |-> types[Max({i \in DOMAIN types : declares(i, v)})].name]

Tables(p) ==
  [types |-> ByName(p.types), owner |-> VariantOwner(p.types), fns |-> ByName(p.fns)]

HasVariants(c, t) ==
  t.name \in DOMAIN c.types /\ c.types[t.name].kind \in {"Enum", "Event", "Query"}

(* The type of the first field of that name, as a set of at most one. *)
FieldType(fields, x) ==
  LET named == {i \in DOMAIN fields : fields[i].name = x}
  IN  IF named = {} THEN {} ELSE {fields[Min(named)].ty}

(***************************************************************************)
(* What a record expression makes: a name is looked up among the types and *)
(* then among the variants.                                                *)
(***************************************************************************)
Constructed(c, name) ==
  CASE name \in DOMAIN c.types ->
         {[type |-> name, fields |-> c.types[name].fields]}
    [] name \notin DOMAIN c.types /\ name \in DOMAIN c.owner ->
         LET variants == Variants(c.types[c.owner[name]])
         IN  {[type   |-> c.owner[name],
               fields |-> IF name \in DOMAIN variants THEN variants[name] ELSE <<>>]}
    [] OTHER -> {}

ConstructedType(c, con) ==
  Type(con.type, [i \in DOMAIN c.types[con.type].generics |-> UnknownT])

(* A field whose type is a parameter of the declaration takes any value. *)
IsGenericParam(c, con, t) ==
  IsNamed(t) /\ t.args = <<>> /\ t.name \in Range(c.types[con.type].generics)

=============================================================================
