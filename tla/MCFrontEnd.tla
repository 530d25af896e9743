------------------------------ MODULE MCFrontEnd ------------------------------
(***************************************************************************)
(* The operators of Pipeline that recur, by their equations, for TLC.      *)
(***************************************************************************)
EXTENDS Pipeline, SourceTree

Reader == INSTANCE Parser

MCProgramOf(words) == Reader!ParseProgram(Tokens(words))

RECURSIVE MCCompatible(_, _), MCInfer(_, _, _), MCCheckPattern(_, _, _, _),
          MCCheckFields(_, _, _, _), MCLower(_, _, _), MCLowerPattern(_, _, _, _),
          MCLowerFields(_, _, _, _), MCLowerEach(_, _),
          MCValidateExpr(_, _, _), MCValidatePattern(_, _, _), MCValidateFields(_, _)

MCCompatible(a, b)           == LET holds == CompatibleStep(a, b) IN holds
MCInfer(c, e, x)             == LET r == InferStep(c, e, x) IN r
MCCheckPattern(c, q, t, e)   == LET r == CheckPatternStep(c, q, t, e) IN r
MCCheckFields(c, fs, p, acc) == LET r == CheckFieldsStep(c, fs, p, acc) IN r
MCLower(c, e, x)             == LET r == LowerStep(c, e, x) IN r
MCLowerPattern(c, q, t, e)   == LET r == LowerPatternStep(c, q, t, e) IN r
MCLowerFields(c, fs, p, e)   == LET r == LowerFieldsStep(c, fs, p, e) IN r
MCLowerEach(c, fds)          == LET r == LowerEachStep(c, fds) IN r
MCValidateExpr(sigs, e, n)   == LET bad == ValidateExprStep(sigs, e, n) IN bad
MCValidatePattern(q, t, acc) == LET r == ValidatePatternStep(q, t, acc) IN r
MCValidateFields(fs, acc)    == LET r == ValidateFieldsStep(fs, acc) IN r

MCBinds(q)       == LET W == INSTANCE ProgramWalk IN W!PatternBinds(q)
MCSubPatterns(q) == LET W == INSTANCE ProgramWalk IN W!PatternsIn(q)
MCVisits(n, S)   == LET W == INSTANCE ProgramWalk IN W!WalkVisits(n, S)

MCBytesOf(v)     == LET W == INSTANCE ProgramWalk IN W!EstimateValueBytes(v)
MCEvalIn(m, n, e, d, left) ==
  LET W == INSTANCE ProgramWalk IN W!TreeValue(m, n, e, d, left)
MCEvalRest(m, ns, vals, e, d, left) ==
  LET W == INSTANCE ProgramWalk IN W!TreeValues(m, ns, vals, e, d, left)
MCChooseArm(m, arms, i, v, e, d, left) ==
  LET W == INSTANCE ProgramWalk IN W!TreeArm(m, arms, i, v, e, d, left)
MCMatchAll(todo, b) ==
  LET W == INSTANCE ProgramWalk IN W!TreeMatch(todo, b)

=============================================================================
