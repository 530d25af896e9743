---------------------------- MODULE ValidatorWalk ----------------------------
(***************************************************************************)
(* The record of the walk of validate_program over the functions of a      *)
(* program: what it visits, and what the patterns that it meets bind.      *)
(*                                                                         *)
(* The walk recurs.  Each ...Step unfolds one of its operators once;       *)
(* ProgramWalk defines them by these equations for TLC.                    *)
(***************************************************************************)
EXTENDS NameResolution

CONSTANTS
  Binds(_),        \* the names that a pattern binds
  SubPatterns(_),  \* a pattern and all within it
  Visits(_, _)     \* the visits from an expression on, with the names known there

BindsStep(q) ==
  CASE q.kind = "Wildcard" -> {}
    [] q.kind = "Binding"  -> {q.name}
    [] q.kind = "Variant"  -> UNION {Binds(q.fields[i].pat) : i \in DOMAIN q.fields}

PatternParts(q) ==
  IF q.kind = "Variant" THEN {q.fields[i].pat : i \in DOMAIN q.fields} ELSE {}

SubPatternsStep(q) == {q} \cup UNION {SubPatterns(r) : r \in PatternParts(q)}

VisitsStep(n, S) ==
  {<<n, S>>} \cup
    CASE IsLeaf(n)  -> {}
      [] HasKids(n) -> UNION {Visits(n.kids[i], S) : i \in DOMAIN n.kids}
      [] n.kind = "Let" -> Visits(n.value, S) \cup Visits(n.body, S \cup {n.name})
      [] n.kind = "Match" ->
           Visits(n.subject, S) \cup
             UNION {Visits(n.arms[i].body, S \cup Binds(n.arms[i].pat)) :
                      i \in DOMAIN n.arms}

ArmPatterns(visits) ==
  UNION {{v[1].arms[i].pat : i \in DOMAIN v[1].arms} :
           v \in {w \in visits : w[1].kind = "Match"}}

WalkOf(functions, update, query) ==
  LET visits == UNION {Visits(functions[f].body, Range(functions[f].params)) :
                         f \in DOMAIN functions}
      pats   == UNION {SubPatterns(q) : q \in ArmPatterns(visits)}
  IN  [functions |-> functions, update |-> update, query |-> query,
       visits |-> visits, binds |-> [q \in pats |-> Binds(q)]]

=============================================================================
