------------------------------- MODULE Pipeline -------------------------------
(***************************************************************************)
(* What every host of the language does with a program, as operators:      *)
(* parse_program, lower_program (checker, lowering and validator),         *)
(* IrVmProgram::from_ir, and the calls of what was loaded.                 *)
(***************************************************************************)
EXTENDS Lowering, Validator, ValidatorWalk, BigStep

CONSTANTS
  Limits,                  \* VmLimits
  ProgramOf(_)             \* parse_program of a text: the parse is ok or at fault

ASSUME LimitsAssumption == Limits.max_steps \in Nat

(***************************************************************************)
(* Lowerer::lower: nothing is lowered of a program that has diagnostics,   *)
(* and nothing is handed out that does not validate.                       *)
(***************************************************************************)
Refused(codes) == [fns |-> <<>>, bad |-> codes]

(* The IR, if it validates. *)
OnlyWithout(codes, ir) ==
  IF codes = {} THEN [fns |-> ir, bad |-> {}] ELSE Refused(codes)

IfValid(ir) == OnlyWithout(ValidateProgram(ir), ir)

(* The functions that were lowered, if nothing was reported of any. *)
Assemble(lowered) ==
  IF lowered.bad # {} THEN Refused(lowered.bad) ELSE IfValid(lowered.fns)

LowerAccepted(found, p) ==
  IF found # {} THEN Refused(found) ELSE Assemble(LowerEach(Tables(p), p.fns))

LowerResult(p) == LowerAccepted(Analyze(p), p)

(***************************************************************************)
(* from_ir: one function for each name, one update and one query (or the   *)
(* last of each, as a plain insert would leave it).                        *)
(***************************************************************************)
OfKind(ir, k) == {i \in DOMAIN ir : ir[i].kind = k}

Table(ir, update, query) ==
  WalkOf(ByName(ir), ir[update].name, ir[query].name)

LastOfEach(ir) ==
  IF OfKind(ir, "Update") = {} \/ OfKind(ir, "Query") = {}
    THEN Err("InvalidInput", "entry_points")
    ELSE Ok(Table(ir, Max(OfKind(ir, "Update")), Max(OfKind(ir, "Query"))))

FromIr(ir) ==
  CASE Cardinality(Range(NamesIn(ir))) # Len(ir) -> Err("InvalidInput", "duplicate_function")
    [] /\ Cardinality(Range(NamesIn(ir))) = Len(ir)
       /\ \E k \in {"Update", "Query"} : Cardinality(OfKind(ir, k)) # 1 ->
         Err("InvalidInput", "entry_points")
    [] OTHER -> Ok(Table(ir, Max(OfKind(ir, "Update")), Max(OfKind(ir, "Query"))))

------------------------------------------------------------------------------
(***************************************************************************)
(* A call of a loaded program p.  What it answers is what Evaluator        *)
(* answers: see ImplementsPureCall there.                                  *)
(***************************************************************************)
Machine(p) == [functions |-> p.functions, limits |-> Limits]

(* Unlike Answer of BigStep, an error keeps the token of its message. *)
AsAnswer(entry, r) ==
  IF r.ok /\ ~Answer(entry, r).ok THEN Err("Trap", "update_result") ELSE r

Call(p, entry, s, i) ==
  AsAnswer(entry, RunFunction(Machine(p), p[entry], <<s, i>>).r)

=============================================================================
