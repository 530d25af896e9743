------------------------------ MODULE FfiProofs ------------------------------
(***************************************************************************)
(* Theorems about the C interface, for any number of handles and host      *)
(* variables, any documents and any codec.                                 *)
(***************************************************************************)
EXTENDS FfiHandles, TLAPS

------------------------------------------------------------------------------
(***************************************************************************)
(* The inductive invariant: the host's variables and the live boxes are in *)
(* one-to-one correspondence, type by type, and what the host has borrowed *)
(* lies in a live box.                                                     *)
(***************************************************************************)
Typed ==
  /\ DOMAIN heap \subseteq Handles
  /\ held \in [Vars -> Handles \cup {Null}]

Sound == Typed /\ HeldHandlesAreOwned /\ NothingLost

Lent == view.of \in Handles \cup {Null} /\ LentBytesStay

FfiInv == Sound /\ Lent

(* Objects for variables of the host that hold nothing. *)
Fits(objs) ==
  /\ DOMAIN objs \subseteq Vars
  /\ \A x \in DOMAIN objs : held[x] = Null /\ objs[x].type = TypeOf[x]

(* What a call may do to the heap and to the variables. *)
HeapGrows ==
  /\ DOMAIN heap \subseteq DOMAIN heap'
  /\ \A h \in DOMAIN heap : heap'[h] = heap[h]

Received(objs) ==
  \A x \in Vars :
    IF x \in DOMAIN objs
      THEN held'[x] # Null /\ held'[x] \in DOMAIN heap' /\ heap'[held'[x]] = objs[x]
      ELSE held'[x] = held[x]

LEMMA BoxFits ==
  ASSUME Sound, NEW objs, NEW before, Fits(objs),
         \A x \in Vars : before[x] = held[x],
         Box(objs, before)
  PROVE  Sound' /\ HeapGrows /\ Received(objs)
<1>1. PICK at \in [DOMAIN objs -> FreeAddress] :
        /\ \A x, y \in DOMAIN objs : at[x] = at[y] => x = y
        /\ heap' = [h \in DOMAIN heap \cup {at[x] : x \in DOMAIN objs} |->
                      IF \E x \in DOMAIN objs : at[x] = h
                        THEN objs[CHOOSE x \in DOMAIN objs : at[x] = h]
                        ELSE heap[h]]
        /\ held' = [x \in Vars |-> IF x \in DOMAIN objs THEN at[x] ELSE before[x]]
  BY DEF Box
<1>2. /\ Null \notin Handles
      /\ \A x \in DOMAIN objs : at[x] \in Handles /\ at[x] \notin DOMAIN heap /\ x \in Vars
  BY <1>1, PointersAssumption DEF FreeAddress, Fits
<1>3. \A x \in DOMAIN objs : at[x] \in DOMAIN heap' /\ heap'[at[x]] = objs[x]
  BY <1>1
<1>4. HeapGrows
  BY <1>1, <1>2 DEF HeapGrows
<1>5. \A x \in Vars : held'[x] = IF x \in DOMAIN objs THEN at[x] ELSE held[x]
  BY <1>1
<1>6. Received(objs)
  BY <1>2, <1>3, <1>5 DEF Received
<1>7. Typed'
  BY <1>1, <1>2, <1>5 DEF Sound, Typed
<1>8. HeldHandlesAreOwned'
  <2>1. ASSUME NEW x \in Vars, held'[x] # Null
        PROVE  held'[x] \in DOMAIN heap' /\ heap'[held'[x]].type = TypeOf[x]
    BY <1>3, <1>4, <1>5, <2>1 DEF Sound, HeldHandlesAreOwned, HeapGrows, Fits
  <2>2. ASSUME NEW x \in Vars, NEW y \in Vars, held'[x] = held'[y], held'[x] # Null
        PROVE  x = y
    BY <1>1, <1>2, <1>5, <2>2 DEF Sound, HeldHandlesAreOwned
  <2> QED
    BY <2>1, <2>2 DEF HeldHandlesAreOwned
<1>9. NothingLost'
  <2>1. ASSUME NEW h \in DOMAIN heap'
        PROVE  \E x \in Vars : held'[x] = h
    <3>1. CASE h \in DOMAIN heap
      <4>1. PICK x \in Vars : held[x] = h
        BY <3>1 DEF Sound, NothingLost
      <4>2. x \notin DOMAIN objs
        BY <1>2, <3>1, <4>1 DEF Fits, Sound, Typed
      <4> QED
        BY <1>5, <4>1, <4>2
    <3>2. CASE h \notin DOMAIN heap
      BY <1>1, <1>2, <1>5, <3>2
    <3> QED
      BY <3>1, <3>2
  <2> QED
    BY <2>1 DEF NothingLost
<1> QED
  BY <1>4, <1>6, <1>7, <1>8, <1>9 DEF Sound

------------------------------------------------------------------------------
(***************************************************************************)
(* run_ffi: a call that fails makes at most an error object, one that      *)
(* succeeds makes its results.                                             *)
(***************************************************************************)
LEMMA ErrFits ==
  ASSUME FfiInv, NEW err \in Out("error"), NEW code
  PROVE  /\ err # Null => Fits([x \in {err} |-> ErrorObj(code)])
         /\ \A x \in Vars : ClearError(err)[x] = held[x]
BY PointersAssumption DEF Out, Fits, ErrorObj, ClearError

LEMMA FailedEffect ==
  ASSUME FfiInv, NEW err \in Out("error"), NEW code, Failed(code, err)
  PROVE  /\ Sound' /\ HeapGrows
         /\ Received([x \in {err} \cap Vars |-> ErrorObj(code)])
         /\ last' = "ERR" /\ UNCHANGED view
<1>1. CASE err = Null /\ UNCHANGED <<heap, held>>
  <2>1. {err} \cap Vars = {}
    BY <1>1, PointersAssumption
  <2> QED
    BY <1>1, <2>1 DEF FfiInv, Sound, Typed, HeldHandlesAreOwned, NothingLost, HeapGrows, Received, Failed
<1>2. CASE err # Null /\ Box([x \in {err} |-> ErrorObj(code)], held)
  <2>1. {err} \cap Vars = {err}
    BY <1>2 DEF Out
  <2>2. Fits([x \in {err} |-> ErrorObj(code)])
    BY <1>2, ErrFits
  <2> QED
    BY <1>2, <2>1, <2>2, BoxFits DEF FfiInv, Failed
<1> QED
  BY <1>1, <1>2 DEF Failed

LEMMA SucceededEffect ==
  ASSUME FfiInv, NEW err \in Out("error"), NEW objs, Fits(objs), Succeeded(objs, err)
  PROVE  /\ Sound' /\ HeapGrows /\ Received(objs)
         /\ last' = "OK" /\ UNCHANGED view
BY BoxFits, ErrFits DEF FfiInv, Succeeded

LEMMA RunFfiEffect ==
  ASSUME FfiInv, NEW err \in Out("error"), NEW pointers, NEW r, NEW objs,
         ~SomeNull(pointers) /\ r.ok => Fits(objs),
         RunFfi(pointers, r, objs, err)
  PROVE  Sound' /\ HeapGrows /\ UNCHANGED view
BY FailedEffect, SucceededEffect DEF RunFfi

LEMMA LentKept ==
  ASSUME FfiInv, HeapGrows, UNCHANGED view
  PROVE  Lent'
BY DEF FfiInv, Lent, LentBytesStay, HeapGrows

------------------------------------------------------------------------------
(***************************************************************************)
(* The operations make objects of the types their results are given as.    *)
(***************************************************************************)
LEMMA MadeTypes ==
  /\ \A b : ProgramObj(b).type = "program"
  /\ \A d : ValueNewFromCbor(d).ok => ValueNewFromCbor(d).val.type = "value"
  /\ \A v : StateNew(v).ok => StateNew(v).val.type = "state"
  /\ \A s : StateToValue(s).ok => StateToValue(s).val.type = "value"
  /\ \A s, q : Query(s, q).ok => Query(s, q).val.type = "value"
<1>1. \A b : ProgramObj(b).type = "program"
  BY DEF ProgramObj
<1>2. ASSUME NEW d, ValueNewFromCbor(d).ok PROVE ValueNewFromCbor(d).val.type = "value"
  BY <1>2 DEF ValueNewFromCbor, Boxed, ValueObj, Ok
<1>3. ASSUME NEW v, StateNew(v).ok PROVE StateNew(v).val.type = "state"
  BY <1>3 DEF StateNew, Boxed, StateObj, Ok
<1>4. ASSUME NEW s, StateToValue(s).ok PROVE StateToValue(s).val.type = "value"
  BY <1>4 DEF StateToValue, Boxed, ValueObj, Ok
<1>5. ASSUME NEW s, NEW q, Query(s, q).ok PROVE Query(s, q).val.type = "value"
  BY <1>5 DEF Query, Boxed, ValueObj, Ok
<1> QED
  BY <1>1, <1>2, <1>3, <1>4, <1>5

LEMMA UpdateTypes ==
  ASSUME NEW p, NEW s, NEW e, Update(p, s, e).ok
  PROVE  /\ Update(p, s, e).val.next_state.type = "state"
         /\ Update(p, s, e).val.actions.type = "actions"
BY DEF Update, StateObj, ActionsObj, Ok

------------------------------------------------------------------------------
(***************************************************************************)
(* Each operation keeps the invariant and every object that stays.         *)
(***************************************************************************)
ObjectsKept == \A h \in DOMAIN heap \cap DOMAIN heap' : heap'[h] = heap[h]

LEMMA NoNulls ==
  /\ \A a : SomeNull(<<a>>) <=> a = Null
  /\ \A a, b : SomeNull(<<a, b>>) <=> a = Null \/ b = Null
  /\ \A a, b, c : SomeNull(<<a, b, c>>) <=> a = Null \/ b = Null \/ c = Null
  /\ \A a, b, c, d : SomeNull(<<a, b, c, d>>) <=> a = Null \/ b = Null \/ c = Null \/ d = Null
  /\ \A a, b, c, d, e :
       SomeNull(<<a, b, c, d, e>>) <=> a = Null \/ b = Null \/ c = Null \/ d = Null \/ e = Null
BY DEF SomeNull

LEMMA LendKeeps ==
  ASSUME FfiInv, NEW type, LendBytes(type)
  PROVE  FfiInv' /\ ObjectsKept
<1>1. PICK a \in Arg(type), out \in {Null, "bytes"}, err \in Out("error") :
        \/ /\ SomeNull(<<a, out>>)
           /\ Failed("ABI_NULL_POINTER", err)
        \/ /\ ~SomeNull(<<a, out>>)
           /\ view' = [of |-> a, bytes |-> heap[a].bytes]
           /\ held' = ClearError(err)
           /\ last' = "OK"
           /\ UNCHANGED heap
  BY DEF LendBytes
<1>2. CASE Failed("ABI_NULL_POINTER", err)
  BY <1>2, FailedEffect, LentKept DEF FfiInv, ObjectsKept, HeapGrows
<1>3. CASE /\ ~SomeNull(<<a, out>>)
           /\ view' = [of |-> a, bytes |-> heap[a].bytes]
           /\ held' = ClearError(err)
           /\ UNCHANGED heap
  <2>1. a # Null
    BY <1>3, NoNulls
  <2>2. a \in DOMAIN heap /\ a \in Handles
    BY <2>1 DEF Arg, FfiInv, Sound, Typed, HeldHandlesAreOwned
  <2>3. held' = held
    <3>1. held \in [Vars -> Handles \cup {Null}]
      BY DEF FfiInv, Sound, Typed
    <3>2. held' = [x \in Vars |-> held[x]]
      BY <1>3, PointersAssumption DEF ClearError, Out
    <3> QED
      BY <3>1, <3>2
  <2>4. Sound'
    BY <1>3, <2>3 DEF FfiInv, Sound, Typed, HeldHandlesAreOwned, NothingLost
  <2>5. Lent'
    BY <1>3, <2>2 DEF Lent, LentBytesStay
  <2> QED
    BY <1>3, <2>4, <2>5 DEF FfiInv, ObjectsKept
<1> QED
  BY <1>1, <1>2, <1>3

LEMMA DestroyKeeps ==
  ASSUME FfiInv, NEW type, Destroy(type)
  PROVE  FfiInv' /\ ObjectsKept
<1>1. PICK x \in Vars :
        /\ held[x] # Null
        /\ heap' = [g \in DOMAIN heap \ {held[x]} |-> heap[g]]
        /\ held' = [held EXCEPT ![x] = Null]
        /\ view' = IF view.of = held[x] THEN NoView ELSE view
  BY DEF Destroy, Freed
<1>2. /\ DOMAIN heap' = DOMAIN heap \ {held[x]}
      /\ \A h \in DOMAIN heap' : heap'[h] = heap[h]
  BY <1>1
<1>3. held \in [Vars -> Handles \cup {Null}]
  BY DEF FfiInv, Sound, Typed
<1>4. \A y \in Vars : held'[y] = IF y = x THEN Null ELSE held[y]
  BY <1>1, <1>3
<1>5. Typed'
  BY <1>1, <1>2, <1>3 DEF FfiInv, Sound, Typed
<1>6. HeldHandlesAreOwned'
  BY <1>2, <1>4 DEF FfiInv, Sound, HeldHandlesAreOwned
<1>7. NothingLost'
  <2>1. ASSUME NEW h \in DOMAIN heap' PROVE \E y \in Vars : held'[y] = h
    <3>1. PICK y \in Vars : held[y] = h
      BY <1>2 DEF FfiInv, Sound, NothingLost
    <3>2. y # x
      BY <1>2, <3>1
    <3> QED
      BY <1>4, <3>1, <3>2
  <2> QED
    BY <2>1 DEF NothingLost
<1>8. Lent'
  BY <1>1, <1>2 DEF FfiInv, Lent, LentBytesStay, NoView
<1> QED
  BY <1>2, <1>5, <1>6, <1>7, <1>8 DEF FfiInv, Sound, ObjectsKept

LEMMA RunKeeps ==
  ASSUME FfiInv, NEW err \in Out("error"), NEW pointers, NEW r, NEW objs,
         ~SomeNull(pointers) /\ r.ok => Fits(objs),
         RunFfi(pointers, r, objs, err)
  PROVE  FfiInv' /\ ObjectsKept
BY RunFfiEffect, LentKept DEF FfiInv, ObjectsKept, HeapGrows

LEMMA FfiNext ==
  ASSUME FfiInv, Next
  PROVE  FfiInv' /\ ObjectsKept
<1>1. CASE NewProgram
  <2>1. PICK out \in Out("program"), err \in Out("error"), build \in Builds :
          RunFfi(<<out>>, Ok(build), [x \in {out} |-> ProgramObj(build)], err)
    BY <1>1 DEF NewProgram
  <2>2. ~SomeNull(<<out>>) => Fits([x \in {out} |-> ProgramObj(build)])
    BY MadeTypes, NoNulls DEF Out, Fits
  <2> QED
    BY <2>1, <2>2, RunKeeps
<1>2. CASE NewValue
  <2>1. PICK d \in Documents \cup {Null}, out \in Out("value"), err \in Out("error") :
          RunFfi(<<d, out>>, ValueNewFromCbor(d), [x \in {out} |-> ValueNewFromCbor(d).val], err)
    BY <1>2 DEF NewValue
  <2>2. ~SomeNull(<<d, out>>) /\ ValueNewFromCbor(d).ok
          => Fits([x \in {out} |-> ValueNewFromCbor(d).val])
    BY MadeTypes, NoNulls DEF Out, Fits
  <2> QED
    BY <2>1, <2>2, RunKeeps
<1>3. CASE NewState
  <2>1. PICK p \in Arg("program"), v \in Arg("value"), out \in Out("state"), err \in Out("error") :
          RunFfi(<<p, v, out>>, StateNew(heap[v]), [x \in {out} |-> StateNew(heap[v]).val], err)
    BY <1>3 DEF NewState
  <2>2. ~SomeNull(<<p, v, out>>) /\ StateNew(heap[v]).ok
          => Fits([x \in {out} |-> StateNew(heap[v]).val])
    BY MadeTypes, NoNulls DEF Out, Fits
  <2> QED
    BY <2>1, <2>2, RunKeeps
<1>4. CASE ReadState
  <2>1. PICK s \in Arg("state"), out \in Out("value"), err \in Out("error") :
          RunFfi(<<s, out>>, StateToValue(heap[s]), [x \in {out} |-> StateToValue(heap[s]).val], err)
    BY <1>4 DEF ReadState
  <2>2. ~SomeNull(<<s, out>>) /\ StateToValue(heap[s]).ok
          => Fits([x \in {out} |-> StateToValue(heap[s]).val])
    BY MadeTypes, NoNulls DEF Out, Fits
  <2> QED
    BY <2>1, <2>2, RunKeeps
<1>5. CASE RunUpdate
  <2>1. PICK p \in Arg("program"), s \in Arg("state"), e \in Arg("value"),
             next \in Out("state"), actions \in Out("actions"), err \in Out("error") :
          RunFfi(<<p, s, e, next, actions>>, Update(heap[p], heap[s], heap[e]),
                 [x \in {next, actions} |->
                    IF x = next THEN Update(heap[p], heap[s], heap[e]).val.next_state
                                ELSE Update(heap[p], heap[s], heap[e]).val.actions], err)
    BY <1>5 DEF RunUpdate
  <2>2. ~SomeNull(<<p, s, e, next, actions>>) /\ Update(heap[p], heap[s], heap[e]).ok
          => Fits([x \in {next, actions} |->
                    IF x = next THEN Update(heap[p], heap[s], heap[e]).val.next_state
                                ELSE Update(heap[p], heap[s], heap[e]).val.actions])
    BY UpdateTypes, NoNulls DEF Out, Fits
  <2> QED
    BY <2>1, <2>2, RunKeeps
<1>6. CASE RunQuery
  <2>1. PICK p \in Arg("program"), s \in Arg("state"), q \in Arg("value"),
             out \in Out("value"), err \in Out("error") :
          RunFfi(<<p, s, q, out>>, Query(heap[s], heap[q]),
                 [x \in {out} |-> Query(heap[s], heap[q]).val], err)
    BY <1>6 DEF RunQuery
  <2>2. ~SomeNull(<<p, s, q, out>>) /\ Query(heap[s], heap[q]).ok
          => Fits([x \in {out} |-> Query(heap[s], heap[q]).val])
    BY MadeTypes, NoNulls DEF Out, Fits
  <2> QED
    BY <2>1, <2>2, RunKeeps
<1>7. CASE ValueBytes \/ ActionsBytes
  BY <1>7, LendKeeps DEF ValueBytes, ActionsBytes
<1>8. CASE DestroyProgram \/ DestroyState \/ DestroyValue \/ DestroyActions \/ DestroyError
  BY <1>8, DestroyKeeps DEF DestroyProgram, DestroyState, DestroyValue, DestroyActions, DestroyError
<1> QED
  BY <1>1, <1>2, <1>3, <1>4, <1>5, <1>6, <1>7, <1>8 DEF Next

LEMMA FfiInit == ASSUME Init PROVE FfiInv
BY PointersAssumption
   DEF Init, FfiInv, Sound, Typed, HeldHandlesAreOwned, NothingLost, Lent, LentBytesStay, NoView

LEMMA FfiStutters == ASSUME FfiInv, UNCHANGED vars PROVE FfiInv'
BY DEF vars, FfiInv, Sound, Typed, HeldHandlesAreOwned, NothingLost, Lent, LentBytesStay

LEMMA FfiAlways == Spec => []FfiInv
<1>1. FfiInv /\ [Next]_vars => FfiInv'
  BY FfiNext, FfiStutters
<1> QED
  BY <1>1, FfiInit, PTL DEF Spec

------------------------------------------------------------------------------
(***************************************************************************)
(* A handle that the host holds is alive, of its type, and held once       *)
(* (every function of cino-ffi-c that makes or destroys one).              *)
(***************************************************************************)
THEOREM HandlesAreOwned == Spec => []HeldHandlesAreOwned
<1>1. FfiInv => HeldHandlesAreOwned
  BY DEF FfiInv, Sound
<1> QED
  BY <1>1, FfiAlways, PTL

(***************************************************************************)
(* No object is lost: what is alive is held (run_ffi, write_error and the  *)
(* calls that make two objects).                                           *)
(***************************************************************************)
THEOREM NothingIsLost == Spec => []NothingLost
<1>1. FfiInv => NothingLost
  BY DEF FfiInv, Sound
<1> QED
  BY <1>1, FfiAlways, PTL

(***************************************************************************)
(* Lent bytes stay as they were until their handle is destroyed            *)
(* (cino_value_bytes, cino_actions_bytes).                                 *)
(***************************************************************************)
THEOREM LentBytesAreStable == Spec => []LentBytesStay
<1>1. FfiInv => LentBytesStay
  BY DEF FfiInv, Lent
<1> QED
  BY <1>1, FfiAlways, PTL

(***************************************************************************)
(* The heap and the host's variables are well typed.                       *)
(***************************************************************************)
THEOREM WellTyped == Spec => []TypeOK
<1>1. FfiInv => TypeOK
  BY PointersAssumption DEF FfiInv, Sound, Typed, Lent, HeldHandlesAreOwned, NothingLost, TypeOK
<1> QED
  BY <1>1, FfiAlways, PTL

(***************************************************************************)
(* No call changes an object that stays alive (all of cino-ffi-c).         *)
(***************************************************************************)
THEOREM ObjectsAreValues == Spec => ObjectsNeverChange
<1>1. FfiInv /\ [Next]_vars => [\A h \in DOMAIN heap \cap DOMAIN heap' : heap'[h] = heap[h]]_vars
  BY FfiNext DEF ObjectsKept
<1> QED
  BY <1>1, FfiAlways, PTL DEF Spec, ObjectsNeverChange

------------------------------------------------------------------------------
(***************************************************************************)
(* The handles of the C interface implement what the host is promised, for *)
(* any number of handles and host variables, any documents and any codec.  *)
(***************************************************************************)
(* What a pointer stands for: the object it points to, if any. *)
Pointee(p) == IF p = Null THEN {} ELSE {heap[p]}

LEMMA SameOperations ==
  /\ Abstract!Builds = Builds
  /\ \A b : Abstract!Ok(b) = Ok(b) /\ Abstract!ProgramObj(b) = ProgramObj(b)
  /\ \A c : Abstract!ErrorObj(c) = ErrorObj(c)
  /\ \A d : Abstract!ValueNewFromCbor(d) = ValueNewFromCbor(d)
  /\ \A v : Abstract!StateNew(v) = StateNew(v)
  /\ \A s : Abstract!StateToValue(s) = StateToValue(s)
<1> USE DEF Ok, Abstract!Ok, Err, Abstract!Err
<1>1. \A v : /\ Abstract!DecodeVmValue(v) = DecodeVmValue(v)
             /\ Abstract!EncodeVmValue(v) = EncodeVmValue(v)
  BY DEF DecodeVmValue, Abstract!DecodeVmValue, EncodeVmValue, Abstract!EncodeVmValue,
         Mapped, Abstract!Mapped, CodecErrorCode, Abstract!CodecErrorCode
<1>2. /\ Abstract!Builds = Builds
      /\ \A b : Abstract!Ok(b) = Ok(b) /\ Abstract!ProgramObj(b) = ProgramObj(b)
      /\ \A c : Abstract!ErrorObj(c) = ErrorObj(c)
  BY DEF Builds, Abstract!Builds, ProgramObj, Abstract!ProgramObj, ErrorObj, Abstract!ErrorObj
<1> USE DEF Boxed, Abstract!Boxed, ValueObj, Abstract!ValueObj, StateObj, Abstract!StateObj
<1>3. \A d : Abstract!ValueNewFromCbor(d) = ValueNewFromCbor(d)
  BY <1>1 DEF ValueNewFromCbor, Abstract!ValueNewFromCbor
<1>4. \A v : Abstract!StateNew(v) = StateNew(v)
  BY <1>1 DEF StateNew, Abstract!StateNew
<1>5. \A s : Abstract!StateToValue(s) = StateToValue(s)
  BY <1>1 DEF StateToValue, Abstract!StateToValue
<1> QED
  BY <1>2, <1>3, <1>4, <1>5

LEMMA SameRuntime ==
  /\ \A b, s, e : Abstract!RuntimeUpdate(b, s, e) = RuntimeUpdate(b, s, e)
  /\ \A s, q : Abstract!RuntimeQuery(s, q) = RuntimeQuery(s, q)
<1> USE DEF Ok, Abstract!Ok, Err, Abstract!Err, IntV, Abstract!IntV, UnitV, Abstract!UnitV,
            Unwinding, Abstract!Unwinding, MapErrorCode, Abstract!MapErrorCode
<1>1. \A b, x, y : Abstract!AddInt(b, x, y) = AddInt(b, x, y)
  BY DEF AddInt, Abstract!AddInt, Wrapped, Abstract!Wrapped
<1>2. \A b, s, e : Abstract!MockUpdate(b, s, e) = MockUpdate(b, s, e)
  BY <1>1 DEF MockUpdate, Abstract!MockUpdate
<1>3. \A s, q : Abstract!MockQuery(s, q) = MockQuery(s, q)
  BY DEF MockQuery, Abstract!MockQuery
<1>4. \A o : Abstract!RunVmCall(o) = RunVmCall(o)
  BY DEF RunVmCall, Abstract!RunVmCall
<1> QED
  BY <1>2, <1>3, <1>4
     DEF RuntimeUpdate, Abstract!RuntimeUpdate, RuntimeQuery, Abstract!RuntimeQuery

LEMMA SameCalls ==
  /\ \A p, s, e : Abstract!Update(p, s, e) = Update(p, s, e)
  /\ \A s, q : Abstract!Query(s, q) = Query(s, q)
<1> USE DEF Ok, Abstract!Ok, Err, Abstract!Err
<1>1. \A v : /\ Abstract!DecodeVmValue(v) = DecodeVmValue(v)
             /\ Abstract!EncodeVmValue(v) = EncodeVmValue(v)
  BY DEF DecodeVmValue, Abstract!DecodeVmValue, EncodeVmValue, Abstract!EncodeVmValue,
         Mapped, Abstract!Mapped, CodecErrorCode, Abstract!CodecErrorCode
<1>2. \A r : Abstract!Mapped(Abstract!RuntimeErrorCode, r) = Mapped(RuntimeErrorCode, r)
  BY DEF Mapped, Abstract!Mapped, RuntimeErrorCode, Abstract!RuntimeErrorCode
<1>3. ASSUME NEW p, NEW s, NEW e PROVE Abstract!Update(p, s, e) = Update(p, s, e)
  <2> DEFINE decoded == DecodeVmValue(e.bytes)
             updated == Mapped(RuntimeErrorCode,
                               RuntimeUpdate(p.build, s.inner, decoded.val))
             encoded == EncodeVmValue(ListV(updated.val.actions))
             made    == [next_state |-> StateObj(updated.val.state),
                         actions    |-> ActionsObj(encoded.val)]
  <2>1. Update(p, s, e) = IF ~decoded.ok THEN decoded
                          ELSE IF ~updated.ok THEN updated
                          ELSE IF ~encoded.ok THEN encoded
                          ELSE Ok(made)
    BY Zenon DEF Update
  <2>2. Abstract!DecodeVmValue(e.bytes) = decoded
    BY <1>1
  <2>3. Abstract!Mapped(Abstract!RuntimeErrorCode,
                        Abstract!RuntimeUpdate(p.build, s.inner, decoded.val)) = updated
    BY <1>2, SameRuntime
  <2>4. Abstract!EncodeVmValue(Abstract!ListV(updated.val.actions)) = encoded
    BY <1>1 DEF ListV, Abstract!ListV
  <2>5. Abstract!Ok([next_state |-> Abstract!StateObj(updated.val.state),
                     actions    |-> Abstract!ActionsObj(encoded.val)]) = Ok(made)
    BY DEF StateObj, Abstract!StateObj, ActionsObj, Abstract!ActionsObj
  <2> HIDE DEF decoded, updated, encoded, made
  <2> QED
    BY <2>1, <2>2, <2>3, <2>4, <2>5, Zenon DEF Abstract!Update
<1>4. ASSUME NEW s, NEW q PROVE Abstract!Query(s, q) = Query(s, q)
  <2> DEFINE decoded == DecodeVmValue(q.bytes)
             result  == Mapped(RuntimeErrorCode, RuntimeQuery(s.inner, decoded.val))
             made    == Boxed(EncodeVmValue(result.val), ValueObj)
  <2>1. Query(s, q) = IF ~decoded.ok THEN decoded ELSE IF ~result.ok THEN result ELSE made
    BY Zenon DEF Query
  <2>2. Abstract!DecodeVmValue(q.bytes) = decoded
    BY <1>1
  <2>3. Abstract!Mapped(Abstract!RuntimeErrorCode,
                        Abstract!RuntimeQuery(s.inner, decoded.val)) = result
    BY <1>2, SameRuntime
  <2>4. Abstract!Boxed(Abstract!EncodeVmValue(result.val), Abstract!ValueObj) = made
    BY <1>1 DEF Boxed, Abstract!Boxed, ValueObj, Abstract!ValueObj
  <2> HIDE DEF decoded, result, made
  <2> QED
    BY <2>1, <2>2, <2>3, <2>4, Zenon DEF Abstract!Query
<1> QED
  BY <1>3, <1>4

LEMMA SameArguments ==
  ASSUME FfiInv, NEW type, NEW p \in Arg(type)
  PROVE  /\ Pointee(p) \in Abstract!Arg(type)
         /\ Pointee(p) = Abstract!Nothing <=> p = Null
         /\ p # Null => Abstract!Object(Pointee(p)) = heap[p]
BY DEF Pointee, Arg, Held, Abstract!Arg, Abstract!Nothing, Abstract!Object

LEMMA SameOuts ==
  ASSUME FfiInv, NEW type, NEW out \in Out(type)
  PROVE  out \in Abstract!Out(type)
BY DEF Out, Abstract!Out, Held, Abstract!Nothing

LEMMA ReceivedView ==
  ASSUME FfiInv, NEW objs, HeapGrows, Received(objs), NEW x \in Vars
  PROVE  Held(x)' = IF x \in DOMAIN objs THEN {objs[x]} ELSE Held(x)
<1>1. held[x] # Null => held[x] \in DOMAIN heap
  BY DEF FfiInv, Sound, HeldHandlesAreOwned
<1> QED
  BY <1>1 DEF HeapGrows, Received, Held

LEMMA FailedView ==
  ASSUME FfiInv, NEW err \in Out("error"), NEW code, Failed(code, err)
  PROVE  Abstract!Failed(code, err)
<1>1. /\ HeapGrows
      /\ Received([x \in {err} \cap Vars |-> ErrorObj(code)])
      /\ last' = "ERR"
  BY FailedEffect
<1>2. \A x \in Vars : Held(x)' = IF x = err THEN {ErrorObj(code)} ELSE Held(x)
  BY <1>1, ReceivedView
<1> QED
  BY <1>1, <1>2, SameOperations DEF Abstract!Failed, Abstract!Just

LEMMA SucceededView ==
  ASSUME FfiInv, NEW err \in Out("error"), NEW objs, Fits(objs), Succeeded(objs, err)
  PROVE  Abstract!Succeeded(objs, err)
<1>1. HeapGrows /\ Received(objs) /\ last' = "OK"
  BY SucceededEffect
<1>2. \A x \in Vars : Held(x)' = IF x \in DOMAIN objs THEN {objs[x]} ELSE Held(x)
  BY <1>1, ReceivedView
<1>3. err \in Vars => Held(err) = {}
  BY PointersAssumption DEF Held, Out
<1> QED
  BY <1>1, <1>2, <1>3 DEF Abstract!Succeeded, Abstract!Just, Abstract!Nothing

LEMMA CallView ==
  ASSUME FfiInv, NEW err \in Out("error"), NEW pointers, NEW r, NEW objs,
         NEW args, NEW outs, NEW s, NEW views,
         SomeNull(pointers) <=> Abstract!Incomplete(args, outs),
         ~SomeNull(pointers) => s = r /\ views = objs,
         ~SomeNull(pointers) /\ r.ok => Fits(objs),
         RunFfi(pointers, r, objs, err)
  PROVE  Abstract!Call(args, outs, s, views, err)
BY FailedView, SucceededView DEF RunFfi, Abstract!Call

------------------------------------------------------------------------------
(***************************************************************************)
(* Each operation is the abstract operation of its name.                   *)
(***************************************************************************)
LEMMA NewStateView ==
  ASSUME FfiInv, NewState
  PROVE  Abstract!NewState
<1>1. PICK p \in Arg("program"), v \in Arg("value"), out \in Out("state"), err \in Out("error") :
        RunFfi(<<p, v, out>>, StateNew(heap[v]), [x \in {out} |-> StateNew(heap[v]).val], err)
  BY DEF NewState
<1>2. ~SomeNull(<<p, v, out>>) /\ StateNew(heap[v]).ok => Fits([x \in {out} |-> StateNew(heap[v]).val])
  BY MadeTypes, NoNulls DEF Out, Fits
<1> DEFINE s == Abstract!StateNew(Abstract!Object(Pointee(v)))
<1>3. SomeNull(<<p, v, out>>) <=> Abstract!Incomplete({Pointee(p), Pointee(v)}, {out})
  BY NoNulls, SameArguments DEF Abstract!Incomplete
<1>4. ~SomeNull(<<p, v, out>>) => s = StateNew(heap[v])
  BY NoNulls, SameArguments, SameOperations
<1>5. Abstract!Call({Pointee(p), Pointee(v)}, {out}, s, [x \in {out} |-> s.val], err)
  <2> HIDE DEF s
  <2> QED
    BY <1>1, <1>2, <1>3, <1>4, CallView
<1> QED
  BY <1>5, SameArguments, SameOuts DEF Abstract!NewState

LEMMA ReadStateView ==
  ASSUME FfiInv, ReadState
  PROVE  Abstract!ReadState
<1>1. PICK a \in Arg("state"), out \in Out("value"), err \in Out("error") :
        RunFfi(<<a, out>>, StateToValue(heap[a]), [x \in {out} |-> StateToValue(heap[a]).val], err)
  BY DEF ReadState
<1>2. ~SomeNull(<<a, out>>) /\ StateToValue(heap[a]).ok => Fits([x \in {out} |-> StateToValue(heap[a]).val])
  BY MadeTypes, NoNulls DEF Out, Fits
<1> DEFINE s == Abstract!StateToValue(Abstract!Object(Pointee(a)))
<1>3. SomeNull(<<a, out>>) <=> Abstract!Incomplete({Pointee(a)}, {out})
  BY NoNulls, SameArguments DEF Abstract!Incomplete
<1>4. ~SomeNull(<<a, out>>) => s = StateToValue(heap[a])
  BY NoNulls, SameArguments, SameOperations
<1>5. Abstract!Call({Pointee(a)}, {out}, s, [x \in {out} |-> s.val], err)
  <2> HIDE DEF s
  <2> QED
    BY <1>1, <1>2, <1>3, <1>4, CallView
<1> QED
  BY <1>5, SameArguments, SameOuts DEF Abstract!ReadState

LEMMA RunUpdateView ==
  ASSUME FfiInv, RunUpdate
  PROVE  Abstract!RunUpdate
<1>1. PICK p \in Arg("program"), a \in Arg("state"), e \in Arg("value"),
           next \in Out("state"), actions \in Out("actions"), err \in Out("error") :
        RunFfi(<<p, a, e, next, actions>>, Update(heap[p], heap[a], heap[e]), [x \in {next, actions} |->
                  IF x = next THEN Update(heap[p], heap[a], heap[e]).val.next_state
                              ELSE Update(heap[p], heap[a], heap[e]).val.actions], err)
  BY DEF RunUpdate
<1>2. ~SomeNull(<<p, a, e, next, actions>>)
        /\ Update(heap[p], heap[a], heap[e]).ok => Fits([x \in {next, actions} |->
                  IF x = next THEN Update(heap[p], heap[a], heap[e]).val.next_state
                              ELSE Update(heap[p], heap[a], heap[e]).val.actions])
  BY UpdateTypes, NoNulls DEF Out, Fits
<1> DEFINE s == Abstract!Update(Abstract!Object(Pointee(p)), Abstract!Object(Pointee(a)),
                            Abstract!Object(Pointee(e)))
<1>3. SomeNull(<<p, a, e, next, actions>>) <=> Abstract!Incomplete({Pointee(p), Pointee(a), Pointee(e)}, {next, actions})
  BY NoNulls, SameArguments DEF Abstract!Incomplete
<1>4. ~SomeNull(<<p, a, e, next, actions>>) => s = Update(heap[p], heap[a], heap[e])
  BY NoNulls, SameArguments, SameCalls
<1>5. Abstract!Call({Pointee(p), Pointee(a), Pointee(e)}, {next, actions}, s, [x \in {next, actions} |->
                  IF x = next THEN s.val.next_state
                              ELSE s.val.actions], err)
  <2> HIDE DEF s
  <2> QED
    BY <1>1, <1>2, <1>3, <1>4, CallView
<1> QED
  BY <1>5, SameArguments, SameOuts DEF Abstract!RunUpdate

LEMMA RunQueryView ==
  ASSUME FfiInv, RunQuery
  PROVE  Abstract!RunQuery
<1>1. PICK p \in Arg("program"), a \in Arg("state"), q \in Arg("value"),
           out \in Out("value"), err \in Out("error") :
        RunFfi(<<p, a, q, out>>, Query(heap[a], heap[q]), [x \in {out} |-> Query(heap[a], heap[q]).val], err)
  BY DEF RunQuery
<1>2. ~SomeNull(<<p, a, q, out>>) /\ Query(heap[a], heap[q]).ok => Fits([x \in {out} |-> Query(heap[a], heap[q]).val])
  BY MadeTypes, NoNulls DEF Out, Fits
<1> DEFINE s == Abstract!Query(Abstract!Object(Pointee(a)), Abstract!Object(Pointee(q)))
<1>3. SomeNull(<<p, a, q, out>>) <=> Abstract!Incomplete({Pointee(p), Pointee(a), Pointee(q)}, {out})
  BY NoNulls, SameArguments DEF Abstract!Incomplete
<1>4. ~SomeNull(<<p, a, q, out>>) => s = Query(heap[a], heap[q])
  BY NoNulls, SameArguments, SameCalls
<1>5. Abstract!Call({Pointee(p), Pointee(a), Pointee(q)}, {out}, s, [x \in {out} |-> s.val], err)
  <2> HIDE DEF s
  <2> QED
    BY <1>1, <1>2, <1>3, <1>4, CallView
<1> QED
  BY <1>5, SameArguments, SameOuts DEF Abstract!RunQuery

LEMMA NewProgramView ==
  ASSUME FfiInv, NewProgram
  PROVE  Abstract!NewProgram
<1>1. PICK out \in Out("program"), err \in Out("error"), build \in Builds :
        RunFfi(<<out>>, Ok(build), [x \in {out} |-> ProgramObj(build)], err)
  BY DEF NewProgram
<1>2. ~SomeNull(<<out>>) => Fits([x \in {out} |-> ProgramObj(build)])
  BY MadeTypes, NoNulls DEF Out, Fits
<1>3. SomeNull(<<out>>) <=> Abstract!Incomplete({}, {out})
  BY NoNulls DEF Abstract!Incomplete
<1>4. Abstract!Call({}, {out}, Ok(build), [x \in {out} |-> ProgramObj(build)], err)
  BY <1>1, <1>2, <1>3, CallView
<1>5. out \in Abstract!Out("program") /\ err \in Abstract!Out("error")
  BY SameOuts
<1>6. build \in Abstract!Builds /\ Abstract!Ok(build) = Ok(build)
      /\ Abstract!ProgramObj(build) = ProgramObj(build)
  BY SameOperations
<1> QED
  BY <1>4, <1>5, <1>6 DEF Abstract!NewProgram

LEMMA NewValueView ==
  ASSUME FfiInv, NewValue
  PROVE  Abstract!NewValue
<1>1. PICK d \in Documents \cup {Null}, out \in Out("value"), err \in Out("error") :
        RunFfi(<<d, out>>, ValueNewFromCbor(d), [x \in {out} |-> ValueNewFromCbor(d).val], err)
  BY DEF NewValue
<1>2. ~SomeNull(<<d, out>>) /\ ValueNewFromCbor(d).ok
        => Fits([x \in {out} |-> ValueNewFromCbor(d).val])
  BY MadeTypes, NoNulls DEF Out, Fits
<1> DEFINE b == IF d = Null THEN Abstract!Nothing ELSE Abstract!Just(d)
           s == Abstract!ValueNewFromCbor(Abstract!Object(b))
<1>3. /\ b \in {Abstract!Just(c) : c \in Documents} \cup {Abstract!Nothing}
      /\ b = Abstract!Nothing <=> d = Null
      /\ d # Null => Abstract!Object(b) = d
  BY DEF Abstract!Just, Abstract!Nothing, Abstract!Object
<1>4. SomeNull(<<d, out>>) <=> Abstract!Incomplete({b}, {out})
  BY <1>3, NoNulls DEF Abstract!Incomplete
<1>5. ~SomeNull(<<d, out>>) => s = ValueNewFromCbor(d)
  BY <1>3, NoNulls, SameOperations
<1>6. Abstract!Call({b}, {out}, s, [x \in {out} |-> s.val], err)
  <2> HIDE DEF s, b
  <2> QED
    BY <1>1, <1>2, <1>4, <1>5, CallView
<1> QED
  BY <1>3, <1>6, SameOuts DEF Abstract!NewValue

LEMMA LendView ==
  ASSUME FfiInv, NEW type \in {"value", "actions"}, LendBytes(type)
  PROVE  Abstract!ReadBytes
<1>1. PICK a \in Arg(type), out \in {Null, "bytes"}, err \in Out("error") :
        \/ /\ SomeNull(<<a, out>>)
           /\ Failed("ABI_NULL_POINTER", err)
        \/ /\ ~SomeNull(<<a, out>>)
           /\ held' = ClearError(err)
           /\ last' = "OK"
           /\ UNCHANGED heap
  BY DEF LendBytes
<1>2. SomeNull(<<a, out>>) <=> Abstract!Incomplete({Pointee(a)}, {out})
  BY NoNulls, SameArguments DEF Abstract!Incomplete
<1>3. Abstract!Call({Pointee(a)}, {out}, Ok(out), [x \in {} |-> Abstract!Nothing], err)
  <2>1. CASE SomeNull(<<a, out>>)
    BY <1>1, <1>2, <2>1, FailedView DEF Abstract!Call
  <2>2. CASE ~SomeNull(<<a, out>>)
    <3>1. \A x \in Vars : held'[x] = held[x] /\ (x = err => held[x] = Null)
      BY <1>1, <2>2, PointersAssumption DEF ClearError, Out
    <3>2. \A x \in Vars : Held(x)' = IF x = err THEN {} ELSE Held(x)
      BY <1>1, <2>2, <3>1 DEF Held
    <3>3. Abstract!Succeeded([x \in {} |-> Abstract!Nothing], err)
      BY <1>1, <2>2, <3>2 DEF Abstract!Succeeded, Abstract!Nothing
    <3> QED
      BY <1>2, <2>2, <3>3 DEF Abstract!Call, Ok
  <2> QED
    BY <2>1, <2>2
<1>4. Pointee(a) \in Abstract!Arg("value") \cup Abstract!Arg("actions")
  BY SameArguments
<1>5. err \in Abstract!Out("error") /\ Abstract!Ok(out) = Ok(out)
  BY SameOuts, SameOperations
<1> QED
  BY <1>3, <1>4, <1>5 DEF Abstract!ReadBytes

LEMMA DestroyView ==
  ASSUME FfiInv, NEW type, Destroy(type)
  PROVE  Abstract!Destroy
<1>1. PICK x \in Vars :
        /\ held[x] # Null
        /\ heap' = [g \in DOMAIN heap \ {held[x]} |-> heap[g]]
        /\ held' = [held EXCEPT ![x] = Null]
        /\ UNCHANGED last
  BY DEF Destroy, Freed
<1>2. \A y \in Vars : held'[y] = IF y = x THEN Null ELSE held[y]
  BY <1>1 DEF FfiInv, Sound, Typed
<1>3. \A y \in Vars : y # x /\ held[y] # Null => held[y] \in DOMAIN heap \ {held[x]}
  BY <1>1 DEF FfiInv, Sound, HeldHandlesAreOwned
<1>4. \A y \in Vars : Held(y)' = IF y = x THEN {} ELSE Held(y)
  BY <1>1, <1>2, <1>3 DEF Held
<1> QED
  BY <1>1, <1>4 DEF Abstract!Destroy, Abstract!Nothing

LEMMA InitView ==
  ASSUME Init
  PROVE  Abstract!Init
BY DEF Init, Abstract!Init, Held, Abstract!Nothing

LEMMA NextView ==
  ASSUME FfiInv, Next
  PROVE  Abstract!Next
<1>1. CASE NewProgram \/ NewValue \/ NewState \/ ReadState \/ RunUpdate \/ RunQuery
  BY <1>1, NewProgramView, NewValueView, NewStateView, ReadStateView, RunUpdateView, RunQueryView
     DEF Abstract!Next
<1>2. CASE ValueBytes \/ ActionsBytes
  BY <1>2, LendView DEF ValueBytes, ActionsBytes, Abstract!Next
<1>3. CASE DestroyProgram \/ DestroyState \/ DestroyValue \/ DestroyActions \/ DestroyError
  BY <1>3, DestroyView
     DEF DestroyProgram, DestroyState, DestroyValue, DestroyActions, DestroyError, Abstract!Next
<1> QED
  BY <1>1, <1>2, <1>3 DEF Next

(***************************************************************************)
(* To the host a variable behaves as the object it points to (all of       *)
(* cino-ffi-c).                                                            *)
(***************************************************************************)
THEOREM HandlesImplementView == Spec => ImplementsHostView
<1>1. FfiInv /\ [Next]_vars => [Abstract!Next]_<<[x \in Vars |-> Held(x)], last>>
  <2>1. ASSUME FfiInv, UNCHANGED vars PROVE UNCHANGED <<[x \in Vars |-> Held(x)], last>>
    BY <2>1 DEF vars, Held
  <2> QED
    BY <2>1, NextView
<1> QED
  BY <1>1, InitView, FfiAlways, PTL DEF Spec, ImplementsHostView, Abstract!Spec

=============================================================================
