------------------------------- MODULE Runtime -------------------------------
(***************************************************************************)
(* cino-runtime: one call of a VM program, with panics turned into errors; *)
(* and the one program that the C interface can make, the native mock      *)
(* counter of cino-ffi-c.                                                  *)
(***************************************************************************)
EXTENDS VmValue

(* A closure that unwound instead of returning. *)
Unwinding == [ok |-> FALSE, code |-> "unwinding", why |-> "panic"]

(* The codes of the two layers have the same names. *)
MapErrorCode(code) == code

(* Without catch_unwind. *)
PassOn(outcome) ==
  IF outcome.ok THEN outcome ELSE Err(MapErrorCode(outcome.code), outcome.why)

RunVmCall(outcome) ==
  IF outcome = Unwinding THEN Err("Panic", "converted_panic")
  ELSE IF outcome.ok THEN outcome
  ELSE Err(MapErrorCode(outcome.code), outcome.why)

(***************************************************************************)
(* The mock counter adds without checked_add.  Rust's "+" panics where     *)
(* overflow checks are compiled in, and wraps where they are not: how the  *)
(* library was built is part of what a program does.                       *)
(***************************************************************************)
Builds == {"checked", "wrapping"}

(* As saturating_add would have it. *)
Clamped(i) == IF i > MaxInt THEN MaxInt ELSE MinInt

Wrapped(i) == LET n == MaxInt - MinInt + 1 IN MinInt + ((i - MinInt) % n)

AddInt(build, a, b) ==
  IF a + b \in MinInt .. MaxInt THEN Ok(a + b)
  ELSE IF build = "checked" THEN Unwinding
  ELSE Ok(Wrapped(a + b))

MockUpdate(build, state, event) ==
  IF state.t # "Int" \/ event.t # "Int" THEN Err("InvalidInput", "expected_int")
  ELSE LET sum == AddInt(build, state.int, event.int)
       IN  IF ~sum.ok THEN sum
           ELSE Ok([state |-> IntV(sum.val), actions |-> <<event>>])

MockQuery(state, query) ==
  IF query.t # "Bool" THEN Err("InvalidInput", "expected_bool")
  ELSE Ok(IF query.bool THEN state ELSE UnitV)

RuntimeUpdate(build, state, event) == RunVmCall(MockUpdate(build, state, event))
RuntimeQuery(state, query)         == RunVmCall(MockQuery(state, query))

=============================================================================
