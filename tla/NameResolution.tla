--------------------------- MODULE NameResolution ----------------------------
(***************************************************************************)
(* What validate_program of cino-ir/src/validate.rs establishes about the  *)
(* names of an IR program: local references, callees and argument counts.  *)
(* (Its type checks are another matter; see the README.)                   *)
(*                                                                         *)
(* The validator is a recursive walk.  A program p of this module carries  *)
(* the record of that walk: p.visits is the set of pairs <<n, S>> such     *)
(* that validate_expr was called on the expression n with an environment   *)
(* that knows the names S, and p.binds[q] is the set of names that         *)
(* validate_pattern adds for the pattern q.  The rules below say what the  *)
(* walk visits and what it must find at each visit to report nothing.      *)
(***************************************************************************)
EXTENDS VmValue

IsLeaf(n)  == n.kind \in {"LocalRef", "Int", "Bool"}
HasKids(n) == n.kind \in {"Tuple", "List", "Record", "Binary", "Call"}

(***************************************************************************)
(* The types of ir.rs, as far as they matter: kids, arms, fields and       *)
(* parameters are sequences, and a record has a name for each of its kids. *)
(***************************************************************************)
IsSeq(s) == s \in Seq(Range(s))

IrShape(n) ==
  /\ IsLeaf(n) \/ HasKids(n) \/ n.kind \in {"Let", "Match"}
  /\ HasKids(n) => IsSeq(n.kids)
  /\ n.kind = "Binary" => n.op \in {"Add", "Sub", "Mul", "Div"}
  /\ n.kind = "Match" => IsSeq(n.arms)
  /\ n.kind = "Record" => IsSeq(n.names) /\ Len(n.names) = Len(n.kids)

(* validate_pattern: what the patterns of fields bind, the pattern binds.  *)
BindsOk(p, q) ==
  /\ q.kind \in {"Wildcard", "Binding", "Variant"}
  /\ q.kind = "Wildcard" => p.binds[q] = {}
  /\ q.kind = "Binding" => p.binds[q] = {q.name}
  /\ q.kind = "Variant" =>
         /\ IsSeq(q.fields)
         /\ \A i \in DOMAIN q.fields : q.fields[i].pat \in DOMAIN p.binds
         /\ p.binds[q] = UNION {p.binds[q.fields[i].pat] : i \in DOMAIN q.fields}

(* E-IR-VAL-006 and E-IR-VAL-008. *)
CallOk(p, n) ==
  /\ n.callee \in DOMAIN p.functions
  /\ Len(n.kids) = Len(p.functions[n.callee].params)

(* A visit of n that knows the names S: E-IR-VAL-002 and the visits below. *)
VisitOk(p, n, S) ==
  /\ IrShape(n)
  /\ n.kind = "LocalRef" => n.name \in S
  /\ HasKids(n) => \A i \in DOMAIN n.kids : <<n.kids[i], S>> \in p.visits
  /\ n.kind = "Call" => CallOk(p, n)
  /\ n.kind = "Let" => /\ <<n.value, S>> \in p.visits
                       /\ <<n.body, S \cup {n.name}>> \in p.visits
  /\ n.kind = "Match" =>
       /\ <<n.subject, S>> \in p.visits
       /\ \A i \in DOMAIN n.arms :
            /\ n.arms[i].pat \in DOMAIN p.binds
            /\ <<n.arms[i].body, S \cup p.binds[n.arms[i].pat]>> \in p.visits

(***************************************************************************)
(* The program passed validate_program, and its entry points are those     *)
(* from_ir found, with the two parameters check_fn_signature asks for.     *)
(***************************************************************************)
Validated(p) ==
  /\ \A f \in DOMAIN p.functions :
       /\ IsSeq(p.functions[f].params)
       /\ <<p.functions[f].body, Range(p.functions[f].params)>> \in p.visits
  /\ \A v \in p.visits : VisitOk(p, v[1], v[2])
  /\ \A q \in DOMAIN p.binds : BindsOk(p, q)
  /\ \A e \in {"update", "query"} :
       /\ p[e] \in DOMAIN p.functions
       /\ Len(p.functions[p[e]].params) = 2

=============================================================================
