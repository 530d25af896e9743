------------------------------ MODULE FfiHandles -----------------------------
(***************************************************************************)
(* The C interface (cino-ffi-c) as what it does to memory: the heap of     *)
(* boxed objects behind opaque handles, and the pointer variables of a     *)
(* host that uses it.                                                      *)
(*                                                                         *)
(* The host keeps the rules of docs/specs/host-abi-ffi.md, 11.4: a handle  *)
(* it passes is null or one it holds, of the right type, and it destroys   *)
(* each handle once.  It receives results in variables that hold nothing,  *)
(* and it may pass null wherever the interface takes a pointer.            *)
(***************************************************************************)
EXTENDS CinoCalls

CONSTANTS
  Handles,   \* addresses of boxes
  Vars,      \* the pointer variables of the host
  TypeOf,    \* their types
  Null       \* the null pointer

Types == {"program", "state", "value", "actions", "error"}

ASSUME PointersAssumption ==
  /\ Null \notin Handles
  /\ Null \notin Vars
  /\ Null \notin Documents
  /\ TypeOf \in [Vars -> Types]

VARIABLES
  heap,   \* the live boxes: from their addresses to the objects in them
  held,   \* what the host's variables point to
  view,   \* the bytes that the host borrowed last, and from which handle
  last    \* the status that was returned last

vars == <<heap, held, view, last>>

NoView == [of |-> Null]

Init ==
  /\ heap = [h \in {} |-> Null]
  /\ held = [x \in Vars |-> Null]
  /\ view = NoView
  /\ last = "OK"

(* Arguments and out parameters: any may be a null pointer. *)
Arg(t) == {held[x] : x \in {y \in Vars : TypeOf[y] = t}} \cup {Null}
Out(t) == {x \in Vars : TypeOf[x] = t /\ held[x] = Null} \cup {Null}

(* require_ptr, require_mut_ptr and require_bytes_ptr on each of them. *)
SomeNull(pointers) == \E i \in DOMAIN pointers : pointers[i] = Null

(***************************************************************************)
(* Box::into_raw(Box::new(..)): a new box for each of some objects, at     *)
(* addresses that are not in use, written to the host's variables.         *)
(* (The allocator aborts the process when there is no memory.)             *)
(***************************************************************************)
AddressOrNull == (Handles \cup {Null}) \ DOMAIN heap
AnyAddress    == Handles
FreeAddress   == Handles \ DOMAIN heap

Box(objs, before) ==
  \E at \in [DOMAIN objs -> FreeAddress] :
    /\ \A x, y \in DOMAIN objs : at[x] = at[y] => x = y
    /\ heap' = [h \in DOMAIN heap \cup {at[x] : x \in DOMAIN objs} |->
                  IF \E x \in DOMAIN objs : at[x] = h
                    THEN objs[CHOOSE x \in DOMAIN objs : at[x] = h]
                    ELSE heap[h]]
    /\ held' = [x \in Vars |-> IF x \in DOMAIN objs THEN at[x] ELSE before[x]]

(***************************************************************************)
(* run_ffi.  write_error makes an error object only where there is a place *)
(* for it; clear_error writes null to that place.                          *)
(***************************************************************************)
ErrorAlwaysBoxed(code, err) ==
  /\ \E h \in FreeAddress :
       /\ heap' = [g \in DOMAIN heap \cup {h} |->
                     IF g = h THEN ErrorObj(code) ELSE heap[g]]
       /\ held' = [x \in Vars |-> IF x = err THEN h ELSE held[x]]
  /\ last' = "ERR"
  /\ UNCHANGED view

Failed(code, err) ==
  /\ \/ err = Null /\ UNCHANGED <<heap, held>>
     \/ err # Null /\ Box([x \in {err} |-> ErrorObj(code)], held)
  /\ last' = "ERR"
  /\ UNCHANGED view

ClearError(err) == [x \in Vars |-> IF x = err THEN Null ELSE held[x]]

Succeeded(results, err) ==
  /\ Box(results, ClearError(err))
  /\ last' = "OK"
  /\ UNCHANGED view

RunFfi(pointers, r, results, err) ==
  \/ SomeNull(pointers) /\ Failed("ABI_NULL_POINTER", err)
  \/ ~SomeNull(pointers) /\ ~r.ok /\ Failed(r.code, err)
  \/ ~SomeNull(pointers) /\ r.ok /\ Succeeded(results, err)

------------------------------------------------------------------------------
(***************************************************************************)
(* The functions that make handles.                                        *)
(***************************************************************************)
NewProgram ==
  \E out \in Out("program"), err \in Out("error"), build \in Builds :
    RunFfi(<<out>>, Ok(build), [x \in {out} |-> ProgramObj(build)], err)

NewValue ==
  \E d \in Documents \cup {Null}, out \in Out("value"), err \in Out("error") :
    LET r == ValueNewFromCbor(d)
    IN  RunFfi(<<d, out>>, r, [x \in {out} |-> r.val], err)

NewState ==
  \E p \in Arg("program"), v \in Arg("value"), out \in Out("state"), err \in Out("error") :
    LET r == StateNew(heap[v])
    IN  RunFfi(<<p, v, out>>, r, [x \in {out} |-> r.val], err)

ReadState ==
  \E s \in Arg("state"), out \in Out("value"), err \in Out("error") :
    LET r == StateToValue(heap[s])
    IN  RunFfi(<<s, out>>, r, [x \in {out} |-> r.val], err)

RunUpdate ==
  \E p \in Arg("program"), s \in Arg("state"), e \in Arg("value"),
     next \in Out("state"), actions \in Out("actions"), err \in Out("error") :
    LET r == Update(heap[p], heap[s], heap[e])
    IN  RunFfi(<<p, s, e, next, actions>>, r,
               [x \in {next, actions} |->
                  IF x = next THEN r.val.next_state ELSE r.val.actions], err)

RunQuery ==
  \E p \in Arg("program"), s \in Arg("state"), q \in Arg("value"),
     out \in Out("value"), err \in Out("error") :
    LET r == Query(heap[s], heap[q])
    IN  RunFfi(<<p, s, q, out>>, r, [x \in {out} |-> r.val], err)

(***************************************************************************)
(* value_bytes and actions_bytes lend the host a pointer into the object.  *)
(***************************************************************************)
LendTemporary(t) ==
  \E a \in Arg(t), err \in Out("error") :
    /\ a # Null
    /\ \E b \in Documents : view' = [of |-> a, bytes |-> b]
    /\ held' = ClearError(err)
    /\ last' = "OK"
    /\ UNCHANGED heap

LendBytes(t) ==
  \E a \in Arg(t), out \in {Null, "bytes"}, err \in Out("error") :
    \/ /\ SomeNull(<<a, out>>)
       /\ Failed("ABI_NULL_POINTER", err)
    \/ /\ ~SomeNull(<<a, out>>)
       /\ view' = [of |-> a, bytes |-> heap[a].bytes]
       /\ held' = ClearError(err)
       /\ last' = "OK"
       /\ UNCHANGED heap

ValueBytes   == LendBytes("value")
ActionsBytes == LendBytes("actions")

(***************************************************************************)
(* The destroy functions free the box; the host forgets the handle, and    *)
(* the bytes that it borrowed from it.  Null is ignored.                   *)
(***************************************************************************)
Kept(h)  == heap
Freed(h) == [g \in DOMAIN heap \ {h} |-> heap[g]]

Destroy(t) ==
  \E x \in Vars :
    /\ TypeOf[x] = t /\ held[x] # Null
    /\ heap' = Freed(held[x])
    /\ held' = [held EXCEPT ![x] = Null]
    /\ view' = IF view.of = held[x] THEN NoView ELSE view
    /\ UNCHANGED last

DestroyProgram == Destroy("program")
DestroyState   == Destroy("state")
DestroyValue   == Destroy("value")
DestroyActions == Destroy("actions")
DestroyError   == Destroy("error")

Next ==
  \/ NewProgram \/ NewValue \/ NewState \/ ReadState \/ RunUpdate \/ RunQuery
  \/ ValueBytes \/ ActionsBytes
  \/ DestroyProgram \/ DestroyState \/ DestroyValue \/ DestroyActions \/ DestroyError

Spec == Init /\ [][Next]_vars

------------------------------------------------------------------------------
(***************************************************************************)
(* Properties.                                                             *)
(***************************************************************************)
TypeOK ==
  /\ DOMAIN heap \subseteq Handles
  /\ \A h \in DOMAIN heap : heap[h].type \in Types
  /\ held \in [Vars -> Handles \cup {Null}]
  /\ view.of \in Handles \cup {Null}

(***************************************************************************)
(* A handle that the host holds is alive, of the type of its variable, and *)
(* held in one variable only: one destroy is enough and the right one.     *)
(***************************************************************************)
HeldHandlesAreOwned ==
  /\ \A x \in Vars : held[x] # Null =>
       held[x] \in DOMAIN heap /\ heap[held[x]].type = TypeOf[x]
  /\ \A x, y \in Vars : held[x] = held[y] /\ held[x] # Null => x = y

(***************************************************************************)
(* The interface loses no object: whatever failed on the way, a host that  *)
(* destroys what it holds has destroyed everything (cino_update makes two  *)
(* objects and can fail before either, write_error makes one).             *)
(***************************************************************************)
NothingLost == \A h \in DOMAIN heap : \E x \in Vars : held[x] = h

(***************************************************************************)
(* Bytes that were lent stay as they were until their handle is destroyed  *)
(* (docs/specs/host-abi-ffi.md, 11.4; cino_value_bytes).                   *)
(***************************************************************************)
LentBytesStay ==
  view.of # Null =>
    view.of \in DOMAIN heap /\ heap[view.of].bytes = view.bytes

(***************************************************************************)
(* No call changes an object that the host already holds: states in        *)
(* particular are values, and an update leaves the old one usable.         *)
(***************************************************************************)
ObjectsNeverChange ==
  [][\A h \in DOMAIN heap \cap DOMAIN heap' : heap'[h] = heap[h]]_vars

(***************************************************************************)
(* The handles implement what the host is promised.                        *)
(***************************************************************************)
Held(x) == IF held[x] = Null THEN {} ELSE {heap[held[x]]}

Abstract == INSTANCE HostView WITH holds <- [x \in Vars |-> Held(x)]

ImplementsHostView == Abstract!Spec

=============================================================================
