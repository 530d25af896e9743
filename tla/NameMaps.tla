------------------------------- MODULE NameMaps -------------------------------
(***************************************************************************)
(* Maps from names, as the HashMap and BTreeMap tables and environments of *)
(* the checker, the lowering, the validator and the VM use them.           *)
(***************************************************************************)
EXTENDS Integers, Sequences, FiniteSetsExt, SequencesExt, Functions

(***************************************************************************)
(* A map filled by inserting names[i] -> vals[i] in order: a name that     *)
(* occurs twice keeps its last value.                                      *)
(***************************************************************************)
InsertAll(names, vals) ==
  [x \in Range(names) |-> vals[Max({i \in DOMAIN names : names[i] = x})]]

(* Option<&Value> of a map lookup, as a set of at most one value. *)
Lookup(f, x) == IF x \in DOMAIN f THEN {f[x]} ELSE {}

(* BTreeMap::insert and BTreeMap::remove. *)
Bind(f, x, v) == [y \in DOMAIN f \cup {x} |-> IF y = x THEN v ELSE f[y]]
Unbind(f, x)  == [y \in DOMAIN f \ {x} |-> f[y]]

=============================================================================
