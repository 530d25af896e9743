------------------------------ MODULE MockHost ------------------------------
(***************************************************************************)
(* A host that counts with the mock program of cino-ffi-c through the      *)
(* runtime, in either build: it sends numbers, keeps the state of the last *)
(* update that succeeded, and goes on after an error.                      *)
(***************************************************************************)
EXTENDS Runtime, TLAPS

CONSTANTS
  Numbers,     \* the events it sends
  MaxSent      \* bound on the events that count

ASSUME NumbersAssumption == Numbers \subseteq MinInt .. MaxInt

VARIABLES
  build,    \* how the library was built
  state,    \* the state that the host holds
  answer,   \* the last answer
  sum,      \* history: what was sent and accepted, added up without bounds
  sent      \* how many events were accepted

vars == <<build, state, answer, sum, sent>>

NoAnswer == [ok |-> TRUE, val |-> UnitV]

Init ==
  /\ build \in Builds
  /\ state = IntV(0)
  /\ answer = NoAnswer
  /\ sum = 0
  /\ sent = 0

(* The host takes over the state that an update makes. *)
Accept(r, n) ==
  /\ state' = r.val.state
  /\ sum' = sum + n
  /\ sent' = sent + 1

Send ==
  /\ sent < MaxSent
  /\ \E n \in Numbers : \E r \in {RuntimeUpdate(build, state, IntV(n))} :
       /\ answer' = r
       /\ \/ r.ok /\ Accept(r, n)
          \/ ~r.ok /\ UNCHANGED <<state, sum, sent>>
  /\ UNCHANGED build

(* Events and queries that the program does not know. *)
SendOther ==
  /\ answer' = RuntimeUpdate(build, state, UnitV)
  /\ UNCHANGED <<build, state, sum, sent>>

Ask ==
  /\ \E q \in {BoolV(TRUE), BoolV(FALSE), UnitV} : answer' = RuntimeQuery(state, q)
  /\ UNCHANGED <<build, state, sum, sent>>

Next == Send \/ SendOther \/ Ask

Spec == Init /\ [][Next]_vars

------------------------------------------------------------------------------
(***************************************************************************)
(* Properties.                                                             *)
(***************************************************************************)
Width == MaxInt - MinInt + 1

(***************************************************************************)
(* The state is the sum of what was accepted: exactly, where overflow is   *)
(* checked, and up to whole turns of the i64 range, where it wraps.  An    *)
(* update that panicked has left nothing behind (mock_counter_program,     *)
(* run_vm_call).                                                           *)
(***************************************************************************)
StateIsTheSum ==
  /\ state.t = "Int" /\ state.int \in MinInt .. MaxInt
  /\ build = "checked" => state.int = sum
  /\ \E turns \in -sent .. sent : state.int = sum + turns * Width

(***************************************************************************)
(* No panic reaches the host as one: the host sees an error, and sees it   *)
(* only in the build that checks and only where the sum does not fit       *)
(* (docs/specs/runtime-memory-rust.md: "Internal panics are converted to   *)
(* structured errors").                                                    *)
(***************************************************************************)
PanicsAreErrors ==
  [][/\ answer'.ok \/ answer'.code \in {"InvalidInput", "Panic"}
     /\ ~answer'.ok /\ answer'.code = "Panic" =>
          /\ build = "checked" /\ UNCHANGED <<state, sum>>
          /\ \E n \in Numbers : sum + n \notin MinInt .. MaxInt]_vars

------------------------------------------------------------------------------
(***************************************************************************)
(* Proofs.  The mock counter adds up at every width and for every sequence *)
(* of events, in both builds.  Of the number of turns only that it exists  *)
(* matters; the bound that StateIsTheSum gives it, one for each accepted   *)
(* event, comes with the induction.                                        *)
(***************************************************************************)
WellFormed ==
  /\ build \in Builds
  /\ sum \in Int /\ sent \in Nat
  /\ \E i \in MinInt .. MaxInt : state = IntV(i)

SumInv == WellFormed /\ StateIsTheSum

(* Wrapping takes away whole turns: at most one of them after an addition. *)
LEMMA WrappingTurnsOnce ==
  ASSUME NEW a \in MinInt .. MaxInt, NEW b \in MinInt .. MaxInt
  PROVE  /\ a + b \in Int /\ Wrapped(a + b) \in MinInt .. MaxInt
         /\ \E k \in {-1, 0, 1} : Wrapped(a + b) = a + b + k * Width
<1>0. MaxInt \in Nat /\ MinInt = -MaxInt - 1 /\ a \in Int /\ b \in Int
  BY WidthAssumption
<1> DEFINE n == MaxInt - MinInt + 1
           x == a + b - MinInt
           r == x % n
           q == x \div n
<1>1. n \in Nat /\ n > 0 /\ x \in Int /\ x >= -n /\ x < 2 * n /\ n = Width
  BY <1>0 DEF Width
<1>2. r \in 0 .. n - 1 /\ q \in Int /\ x = n * q + r
  <2> HIDE DEF n, x
  <2> QED
    BY <1>1, Z3
<1>3. Wrapped(a + b) = MinInt + r
  BY <1>0, <1>1, Z3 DEF Wrapped
<1>4. MinInt + r \in MinInt .. MaxInt
  BY <1>0, <1>2
<1>5. q \in {-1, 0, 1}
  <2> HIDE DEF n, x, r, q
  <2>1. q >= 2 => n * q >= 2 * n
    BY <1>1, <1>2
  <2>2. q <= -2 => n * q <= -2 * n
    BY <1>1, <1>2
  <2> QED
    BY <1>1, <1>2, <2>1, <2>2
<1>6. -q \in {-1, 0, 1} /\ MinInt + r = a + b + (-q) * Width
  <2>1. (-q) * n = -(n * q)
    BY <1>1, <1>2
  <2> QED
    BY <1>0, <1>1, <1>2, <1>5, <2>1
<1> QED
  BY <1>0, <1>3, <1>4, <1>6

(* What an update of a state and an event that are integers answers. *)
LEMMA UpdateOfInts ==
  ASSUME NEW a \in MinInt .. MaxInt, NEW b \in MinInt .. MaxInt, NEW how \in Builds
  PROVE  LET r == RuntimeUpdate(how, IntV(a), IntV(b))
         IN  \/ /\ a + b \in MinInt .. MaxInt
                /\ r.ok /\ r.val.state = IntV(a + b)
             \/ /\ a + b \notin MinInt .. MaxInt /\ how = "wrapping"
                /\ r.ok /\ r.val.state = IntV(Wrapped(a + b))
             \/ /\ a + b \notin MinInt .. MaxInt /\ how = "checked"
                /\ ~r.ok /\ r.code = "Panic"
<1> DEFINE m == MockUpdate(how, IntV(a), IntV(b))
<1>1. m = IF ~AddInt(how, a, b).ok THEN AddInt(how, a, b)
          ELSE Ok([state |-> IntV(AddInt(how, a, b).val), actions |-> <<IntV(b)>>])
  BY DEF MockUpdate, IntV
<1>2. CASE a + b \in MinInt .. MaxInt
  BY <1>1, <1>2 DEF AddInt, Ok, RuntimeUpdate, RunVmCall, Unwinding
<1>3. CASE a + b \notin MinInt .. MaxInt /\ how = "wrapping"
  BY <1>1, <1>3 DEF AddInt, Ok, RuntimeUpdate, RunVmCall, Unwinding
<1>4. CASE a + b \notin MinInt .. MaxInt /\ how = "checked"
  BY <1>1, <1>4 DEF AddInt, Ok, Err, RuntimeUpdate, RunVmCall, Unwinding
<1> QED
  BY <1>2, <1>3, <1>4 DEF Builds

LEMMA SumInit == ASSUME Init PROVE SumInv
<1>1. 0 \in MinInt .. MaxInt /\ 0 \in -0 .. 0 /\ Width \in Int /\ 0 * Width = 0
  BY WidthAssumption DEF Width
<1> QED
  BY <1>1 DEF Init, SumInv, WellFormed, StateIsTheSum, IntV

LEMMA SumSend ==
  ASSUME SumInv, Send
  PROVE  SumInv'
<1>1. PICK n \in Numbers :
         \/ /\ RuntimeUpdate(build, state, IntV(n)).ok
            /\ Accept(RuntimeUpdate(build, state, IntV(n)), n)
         \/ /\ ~RuntimeUpdate(build, state, IntV(n)).ok
            /\ UNCHANGED <<state, sum, sent>>
  BY DEF Send
<1>2. PICK a \in MinInt .. MaxInt : state = IntV(a)
  BY DEF SumInv, WellFormed
<1>3. n \in MinInt .. MaxInt /\ n \in Int /\ a \in Int /\ Width \in Int
      /\ sum \in Int /\ sent \in Nat /\ build \in Builds /\ build' = build
  BY NumbersAssumption, WidthAssumption DEF SumInv, WellFormed, Send, Width
<1> DEFINE r == RuntimeUpdate(build, IntV(a), IntV(n))
<1>4. CASE ~r.ok
  BY <1>1, <1>2, <1>3, <1>4 DEF SumInv, WellFormed, StateIsTheSum, Accept
<1>5. CASE r.ok
  <2>1. /\ r.ok /\ sum' = sum + n /\ sent' = sent + 1 /\ state' = r.val.state
    BY <1>1, <1>2, <1>5 DEF Accept
  <2>2. PICK b \in MinInt .. MaxInt, k \in {-1, 0, 1} :
          /\ state' = IntV(b)
          /\ b = a + n + k * Width
          /\ build = "checked" => b = a + n
    <3>1. CASE a + n \in MinInt .. MaxInt
      <4>1. state' = IntV(a + n) /\ a + n = a + n + 0 * Width
        BY <1>3, <2>1, <3>1, UpdateOfInts
      <4> QED
        BY <3>1, <4>1
    <3>2. CASE a + n \notin MinInt .. MaxInt
      <4>1. state' = IntV(Wrapped(a + n)) /\ build = "wrapping"
        BY <1>3, <1>5, <2>1, <3>2, UpdateOfInts
      <4>2. PICK k \in {-1, 0, 1} : Wrapped(a + n) = a + n + k * Width
        BY <1>3, WrappingTurnsOnce
      <4>3. Wrapped(a + n) \in MinInt .. MaxInt
        BY <1>3, WrappingTurnsOnce
      <4> QED
        BY <4>1, <4>2, <4>3
    <3> QED
      BY <3>1, <3>2
  <2>3. PICK turns \in -sent .. sent : a = sum + turns * Width
    BY <1>2 DEF SumInv, StateIsTheSum, IntV
  <2>4. build = "checked" => a = sum
    BY <1>2 DEF SumInv, StateIsTheSum, IntV
  <2>5. b \in Int /\ k \in Int /\ turns \in Int
    BY <1>3, WidthAssumption
  <2>6. turns + k \in -sent' .. sent' /\ b = sum' + (turns + k) * Width
    <3>1. (turns + k) * Width = turns * Width + k * Width
      BY <1>3, <2>5
    <3> QED
      BY <1>3, <2>1, <2>2, <2>3, <2>5, <3>1
  <2>7. build' = "checked" => b = sum'
    BY <1>3, <2>1, <2>2, <2>4
  <2>8. Width' = Width
    BY DEF Width
  <2>9. state'.t = "Int" /\ state'.int = b
    BY <2>2 DEF IntV
  <2>10. StateIsTheSum'
    BY <2>2, <2>6, <2>7, <2>8, <2>9 DEF StateIsTheSum
  <2>11. WellFormed'
    BY <1>3, <2>1, <2>2 DEF WellFormed
  <2> QED
    BY <2>10, <2>11 DEF SumInv
<1> QED
  BY <1>4, <1>5

LEMMA SumNext ==
  ASSUME SumInv, [Next]_vars
  PROVE  SumInv'
<1>1. CASE Send
  BY <1>1, SumSend
<1>2. CASE SendOther \/ Ask
  BY <1>2 DEF SendOther, Ask, SumInv, WellFormed, StateIsTheSum
<1>3. CASE UNCHANGED vars
  BY <1>3 DEF vars, SumInv, WellFormed, StateIsTheSum
<1> QED
  BY <1>1, <1>2, <1>3 DEF Next

LEMMA SumAlways == Spec => []SumInv
BY SumInit, SumNext, PTL DEF Spec

(***************************************************************************)
(* At every width, whatever is sent and however often, the state is the    *)
(* sum of what was accepted, or differs from it by whole turns             *)
(* (mock_counter_program).                                                 *)
(***************************************************************************)
THEOREM CountsRight == Spec => []StateIsTheSum
BY SumAlways, PTL DEF SumInv

(***************************************************************************)
(* A panic reaches the host as an error, in the build that checks, where   *)
(* the sum does not fit, and changes nothing (run_vm_call).                *)
(***************************************************************************)
THEOREM PanicsAreConverted == Spec => PanicsAreErrors
<1>1. ASSUME SumInv, [Next]_vars
      PROVE  [/\ answer'.ok \/ answer'.code \in {"InvalidInput", "Panic"}
              /\ ~answer'.ok /\ answer'.code = "Panic" =>
                   /\ build = "checked" /\ UNCHANGED <<state, sum>>
                   /\ \E n \in Numbers : sum + n \notin MinInt .. MaxInt]_vars
  <2>1. PICK a \in MinInt .. MaxInt : state = IntV(a) /\ (build = "checked" => a = sum)
    BY <1>1 DEF SumInv, WellFormed, StateIsTheSum, IntV
  <2>2. CASE Send
    <3>1. PICK n \in Numbers :
            /\ answer' = RuntimeUpdate(build, IntV(a), IntV(n))
            /\ answer'.ok \/ UNCHANGED <<state, sum, sent>>
      BY <2>1, <2>2 DEF Send
    <3>2. n \in MinInt .. MaxInt /\ build \in Builds
      BY <1>1, NumbersAssumption DEF SumInv, WellFormed
    <3> QED
      BY <2>1, <3>1, <3>2, UpdateOfInts
  <2>3. CASE SendOther
    BY <2>1, <2>3
       DEF SendOther, RuntimeUpdate, RunVmCall, MockUpdate, MapErrorCode, Err, Unwinding,
           UnitV, IntV
  <2>4. CASE Ask
    BY <2>1, <2>4
       DEF Ask, RuntimeQuery, RunVmCall, MockQuery, MapErrorCode, Err, Ok, Unwinding,
           BoolV, UnitV
  <2> QED
    BY <1>1, <2>2, <2>3, <2>4 DEF Next
<1> QED
  BY <1>1, SumAlways, PTL DEF Spec, PanicsAreErrors

=============================================================================
