----------------------------- MODULE ProgramWalk -----------------------------
(***************************************************************************)
(* Walks over the trees of the VM: of validate_program over a program that *)
(* NameResolution describes (what it visits, what its patterns bind, how   *)
(* deep it nests), of estimate_value_bytes over a value, of BigStep over   *)
(* an expression, and of Codec over values and documents.                  *)
(***************************************************************************)
EXTENDS NameResolution

RECURSIVE PatternBinds(_), PatternsIn(_), WalkVisits(_, _)

Scopes == INSTANCE ValidatorWalk WITH Binds <- PatternBinds, SubPatterns <- PatternsIn,
                                      Visits <- WalkVisits

PatternBinds(q)  == Scopes!BindsStep(q)
PatternsIn(q)    == Scopes!SubPatternsStep(q)
WalkVisits(n, S) == Scopes!VisitsStep(n, S)

Walked(functions, update, query) == Scopes!WalkOf(functions, update, query)

(* Activations of pattern_matches that can wait while one matches q. *)
RECURSIVE PatternDepth(_)
PatternDepth(q) ==
  IF q.kind # "Variant" THEN 0
  ELSE Max({0} \cup {1 + PatternDepth(q.fields[i].pat) : i \in DOMAIN q.fields})

(* Activations that can wait while one activation of eval_expr works on n. *)
RECURSIVE Height(_)
Height(n) ==
  LET Highest(ns) == Max({0} \cup {Height(m) : m \in ns})
  IN  CASE IsLeaf(n)         -> 0
        [] HasKids(n)        -> 1 + Highest(Range(n.kids))
        [] n.kind = "Let"    -> 1 + Highest({n.value, n.body})
        [] n.kind = "Match"  ->
             1 + Max({Highest({n.subject} \cup {n.arms[i].body : i \in DOMAIN n.arms})}
                       \cup {PatternDepth(n.arms[i].pat) : i \in DOMAIN n.arms})

(* The program p with the depth of every expression and pattern of it. *)
Measured(p) ==
  [functions |-> p.functions, update |-> p.update, query |-> p.query,
   visits |-> p.visits, binds |-> p.binds,
   depths |-> [q \in DOMAIN p.binds |-> PatternDepth(q)],
   heights |-> [n \in {v[1] : v \in p.visits} |-> Height(n)],
   height |-> Max({Height(p.functions[f].body) : f \in DOMAIN p.functions})]

------------------------------------------------------------------------------
(***************************************************************************)
(* estimate_value_bytes: what charge_memory charges for a value.  A name   *)
(* or a string costs its length; saturating_add stops at usize::MAX.       *)
(***************************************************************************)
Base == 16

RECURSIVE EstimateValueBytes(_)
EstimateValueBytes(v) ==
  LET Items(s)   == FoldSeq(LAMBDA x, acc : acc + EstimateValueBytes(x), 0, s)
      Entries(f) == FoldSet(LAMBDA k, acc : acc + Len(k) + EstimateValueBytes(f[k]),
                            0, DOMAIN f)
      bytes ==
        Base + CASE v.t \in {"Unit", "Int", "Bool"} -> 0
                 [] v.t = "String"                  -> Len(v.string)
                 [] v.t \in {"List", "Tuple"}       -> Items(v.items)
                 [] v.t = "Map"                     -> Entries(v.entries)
                 [] v.t = "Enum"                    -> Len(v.tag) + Entries(v.fields)
  IN  IF bytes < MaxUsize THEN bytes ELSE MaxUsize

(* Its activations, one inside the other: a value is inside another. *)
RECURSIVE EstimateDepth(_)
EstimateDepth(v) ==
  LET Inside(f) == Max({0} \cup {EstimateDepth(f[k]) : k \in DOMAIN f})
  IN  1 + CASE v.t \in {"Unit", "Int", "Bool", "String"} -> 0
            [] v.t \in {"List", "Tuple"}                 -> Inside(v.items)
            [] v.t = "Map"                                -> Inside(v.entries)
            [] v.t = "Enum"                               -> Inside(v.fields)

------------------------------------------------------------------------------
(***************************************************************************)
(* The operators of BigStep, by its equations.                             *)
(***************************************************************************)
RECURSIVE TreeValue(_, _, _, _, _), TreeValues(_, _, _, _, _, _),
          TreeArm(_, _, _, _, _, _, _), TreeMatch(_, _)

VM == INSTANCE BigStep WITH BytesOf <- EstimateValueBytes, EvalIn <- TreeValue,
                            EvalRest <- TreeValues, ChooseArm <- TreeArm, MatchAll <- TreeMatch

TreeValue(m, n, e, d, left)         == VM!EvalInStep(m, n, e, d, left)
TreeValues(m, ns, vals, e, d, left) == VM!EvalRestStep(m, ns, vals, e, d, left)
TreeArm(m, arms, i, v, e, d, left)  == VM!ChooseArmStep(m, arms, i, v, e, d, left)
TreeMatch(todo, b)                  == VM!MatchAllStep(todo, b)

------------------------------------------------------------------------------
(***************************************************************************)
(* The conversions of Codec, by its equations.                             *)
(***************************************************************************)
RECURSIVE VmValueFromCbor(_), CborFromVmValue(_), JsonToVmValue(_), VmValueToJson(_)

Docs == INSTANCE Codec WITH FromCbor <- VmValueFromCbor, ToCbor <- CborFromVmValue,
                            FromJson <- JsonToVmValue, ToJson <- VmValueToJson

VmValueFromCbor(d) == Docs!FromCborStep(d)
CborFromVmValue(v) == Docs!ToCborStep(v)
JsonToVmValue(j)   == Docs!FromJsonStep(j)
VmValueToJson(v)   == Docs!ToJsonStep(v)

=============================================================================
