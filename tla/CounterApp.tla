------------------------------ MODULE CounterApp ------------------------------
(***************************************************************************)
(* The counter sample application, from the text of counter.cino on: it    *)
(* parses, checks, lowers and loads the program and then runs an update    *)
(* and a query for each button that is pressed.  Its callbacks run one     *)
(* after another on the GUI thread, each to its end.                       *)
(***************************************************************************)
EXTENDS Pipeline, Runtime

CONSTANT COUNTER_CINO    \* the text of counter.cino, which is part of the executable

VARIABLES
  vm,      \* the program of the runtime, as a set of at most one
  state,   \* the shared StateHandle
  label,   \* the number on count_label
  clicked, \* the button whose callback has not returned, or "none"
  stage    \* starting, running, or panicked

vars == <<vm, state, label, clicked, stage>>

Init ==
  /\ vm = {}
  /\ state = UnitV
  /\ label = 0
  /\ clicked = "none"
  /\ stage = "starting"

(* load_runtime: the program, or nothing where it panics. *)
LoadIr(lowered) ==
  IF lowered.bad = {} THEN {r.val : r \in {v \in {FromIr(lowered.fns)} : v.ok}} ELSE {}

LoadRuntime ==
  UNION {LoadIr(lowered) : lowered \in
           {LowerResult(p) : p \in {q \in {ProgramOf(COUNTER_CINO)} : q.ok}}}

Main ==
  /\ stage = "starting"
  /\ vm' = LoadRuntime
  /\ state' = IF vm' = {} THEN state ELSE IntV(0)
  /\ stage' = IF vm' = {} THEN "panicked" ELSE "running"
  /\ UNCHANGED <<label, clicked>>

------------------------------------------------------------------------------
UnitVariant(tag) == EnumV(tag, [x \in {} |-> UnitV])

UpdateOf(p, s, tag) == RunVmCall(Call(p, "update", s, UnitVariant(tag)))
QueryOf(p, s)       == RunVmCall(Call(p, "query", s, UnitVariant("GetCount")))

(* The count in the answer, or nothing where get_count panics. *)
CountIn(r) ==
  IF ~r.ok \/ r.val.t # "Enum" THEN {}
  ELSE IF r.val.tag # "Ok" THEN {}
  ELSE {IF v.t = "Int" THEN v.int ELSE 0 : v \in IF "v" \in DOMAIN r.val.fields
                                                  THEN {r.val.fields["v"]} ELSE {UnitV}}

GetCount(p, s) == CountIn(QueryOf(p, s))

(* A panic leaves the new state behind, and the old label. *)
Show(p, s) ==
  \E counts \in {GetCount(p, s)} :
    IF counts = {} THEN stage' = "panicked" /\ UNCHANGED <<label, clicked>>
                   ELSE label' \in counts /\ clicked' = "none" /\ UNCHANGED stage

------------------------------------------------------------------------------
(* The event that the callback of each button dispatches. *)
Buttons == {"+1", "-1", "Reset"}

EventOf(button) ==
  CASE button = "+1"    -> "Increment"
    [] button = "-1"    -> "Decrement"
    [] button = "Reset" -> "Reset"

(* The user clicks while the event loop waits. *)
Click(button) ==
  /\ stage = "running" /\ clicked = "none"
  /\ clicked' = button
  /\ UNCHANGED <<vm, state, label, stage>>

(* Dispatch, keep the state, query, set the label. *)
ForgetState ==
  /\ stage = "running" /\ clicked # "none"
  /\ \E p \in vm : \E r \in {UpdateOf(p, state, EventOf(clicked))} :
       \/ r.ok /\ Show(p, r.val.items[1]) /\ UNCHANGED state
       \/ ~r.ok /\ stage' = "panicked" /\ UNCHANGED <<state, label, clicked>>
  /\ UNCHANGED vm

Callback ==
  /\ stage = "running" /\ clicked # "none"
  /\ \E p \in vm : \E r \in {UpdateOf(p, state, EventOf(clicked))} :
       \/ r.ok /\ state' = r.val.items[1] /\ Show(p, state')
       \/ ~r.ok /\ stage' = "panicked" /\ UNCHANGED <<state, label, clicked>>
  /\ UNCHANGED vm

Next == Main \/ Callback \/ \E button \in Buttons : Click(button)

(* main runs to the event loop; from there on a user clicks or not. *)
Spec == Init /\ [][Next]_vars /\ WF_vars(Main)

------------------------------------------------------------------------------
(***************************************************************************)
(* The application, with all that it is made of (lexical tokens, parser,   *)
(* checker, lowering, validator, evaluator, runtime and callbacks), is a   *)
(* tally: it starts, every click does to the number on the label what      *)
(* stands on its button and nothing else changes that number, and only a   *)
(* number that is no i64 ends it (main).                                   *)
(***************************************************************************)
Mode == CASE stage = "starting" -> "off" [] stage = "running" -> "on" [] OTHER -> "ended"

T == INSTANCE Tally WITH
  Least <- MinInt, Greatest <- MaxInt, shown <- label, pressed <- clicked, mode <- Mode

ImplementsTally == T!Spec

=============================================================================
