------------------------------- MODULE Reactor -------------------------------
(***************************************************************************)
(* What the language promises its user: a program in memory that is given  *)
(* events and queries and keeps its state, as values.  What somebody asks  *)
(* for may be unreadable, and the program may be no program.  Options are  *)
(* sets of at most one value.                                              *)
(***************************************************************************)
CONSTANTS
  Programs, States, Inputs,   \* all options
  Update(_, _, _),            \* program, state, event: {<<next state, output>>} or {}
  Query(_, _, _)              \* program, state, query: {output} or {}

VARIABLES program, state, output

vars == <<program, state, output>>

Init ==
  /\ program \in Programs
  /\ state = {}
  /\ output = {}

(* A state is the last one or one that the user makes up. *)
Dispatch ==
  \E s \in {state} \cup States, e \in Inputs :
    LET made == UNION {Update(p, x, y) : p \in program, x \in s, y \in e}
    IN  /\ output' = {m[2] : m \in made}
        /\ state' = IF made = {} THEN state ELSE {m[1] : m \in made}
        /\ UNCHANGED program

Ask ==
  \E s \in {state} \cup States, q \in Inputs :
    /\ output' = UNION {Query(p, x, y) : p \in program, x \in s, y \in q}
    /\ UNCHANGED <<program, state>>

Replace ==
  /\ program' \in Programs
  /\ UNCHANGED <<state, output>>

(* Something else is asked for, and no value is the answer. *)
Other ==
  /\ output' = {}
  /\ UNCHANGED <<program, state>>

Next == Dispatch \/ Ask \/ Replace \/ Other

Spec == Init /\ [][Next]_vars

=============================================================================
