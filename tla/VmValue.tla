------------------------------- MODULE VmValue -------------------------------
(***************************************************************************)
(* The values of the cino VM (cino-vm, enum VmValue), the errors it        *)
(* reports (VmError), and checked i64 arithmetic on them.                  *)
(*                                                                         *)
(* A value is a record whose field "t" is its variant.  An error keeps its *)
(* VmErrorCode and, in "why", a token for the message: the message is what *)
(* tells two traps apart.                                                  *)
(***************************************************************************)
EXTENDS NameMaps

CONSTANTS
  MinInt,    \* i64::MIN
  MaxInt,    \* i64::MAX
  MaxUsize   \* usize::MAX, where saturating_add stops

ASSUME WidthAssumption == MaxInt \in Nat /\ MinInt = -MaxInt - 1
ASSUME UsizeAssumption == MaxUsize \in Nat

(***************************************************************************)
(* Variants of VmValue.                                                    *)
(***************************************************************************)
UnitV           == [t |-> "Unit"]
IntV(i)         == [t |-> "Int", int |-> i]
BoolV(b)        == [t |-> "Bool", bool |-> b]
StringV(s)      == [t |-> "String", string |-> s]
ListV(s)        == [t |-> "List", items |-> s]
TupleV(s)       == [t |-> "Tuple", items |-> s]
MapV(f)         == [t |-> "Map", entries |-> f]
EnumV(tag, f)   == [t |-> "Enum", tag |-> tag, fields |-> f]

Ok(v)           == [ok |-> TRUE, val |-> v]
Err(code, why)  == [ok |-> FALSE, code |-> code, why |-> why]

(***************************************************************************)
(* eval_binary.  checked_* answers None outside the i64 range, which the   *)
(* code turns into a trap; Rust's division truncates towards zero, and     *)
(* i64::MIN / -1 is the one quotient that does not fit.                    *)
(***************************************************************************)
AbsInt(i) == IF i < 0 THEN -i ELSE i

(* Rounded down, as it would be without care for the sign. *)
FloorDiv(a, b) == IF b > 0 THEN a \div b ELSE (-a) \div AbsInt(b)

TruncDiv(a, b) ==
  LET q == AbsInt(a) \div AbsInt(b)
  IN  IF (a < 0) = (b < 0) THEN q ELSE -q

(* Without the last integer. *)
CheckedBelow(i) ==
  IF i \in MinInt .. MaxInt - 1 THEN Ok(IntV(i)) ELSE Err("Trap", "overflow")

Checked(i) ==
  IF i \in MinInt .. MaxInt THEN Ok(IntV(i)) ELSE Err("Trap", "overflow")

EvalBinary(op, lhs, rhs) ==
  IF lhs.t # "Int" \/ rhs.t # "Int" THEN Err("InvalidInput", "operands")
  ELSE CASE op = "Add" -> Checked(lhs.int + rhs.int)
         [] op = "Sub" -> Checked(lhs.int - rhs.int)
         [] op = "Mul" -> Checked(lhs.int * rhs.int)
         [] op = "Div" -> IF rhs.int = 0 THEN Err("Trap", "division_by_zero")
                          ELSE Checked(TruncDiv(lhs.int, rhs.int))

=============================================================================
