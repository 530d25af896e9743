------------------------------ MODULE PureCall -------------------------------
(***************************************************************************)
(* What a call of the VM promises its caller: one answer, that is a        *)
(* function of the program, the entry point, the state, the event or query *)
(* and the limits, and of nothing else ("update and query are treated as   *)
(* independent execution units", docs/specs/runtime-memory-rust.md).       *)
(***************************************************************************)
CONSTANTS Calls, Meaning(_), Pending

VARIABLES call, answer

Init == call \in Calls /\ answer = Pending

Answer ==
  /\ answer = Pending
  /\ answer' # Pending
  /\ answer' = Meaning(call)
  /\ UNCHANGED call

Spec == Init /\ [][Answer]_<<call, answer>>

=============================================================================
