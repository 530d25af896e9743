------------------------------- MODULE HostView ------------------------------
(***************************************************************************)
(* What the C interface promises a host (docs/specs/host-abi-ffi.md,       *)
(* sections 4, 5 and 11): a pointer variable of the host behaves as if it  *)
(* held the object itself.  A call reads the variables it is given and     *)
(* writes the results to its out variables; a call that fails writes its   *)
(* error and nothing else; what a variable holds never changes otherwise.  *)
(***************************************************************************)
EXTENDS CinoCalls

CONSTANTS
  Vars,     \* the pointer variables of the host
  TypeOf,   \* their types
  Null      \* the null pointer, as an out parameter

VARIABLES
  holds,    \* the object each variable holds, as a set of at most one
  last      \* the status that was returned last

Nothing   == {}
Just(o)   == {o}
Object(p) == CHOOSE o \in p : TRUE

Init ==
  /\ holds = [x \in Vars |-> Nothing]
  /\ last = "OK"

(* Arguments and out parameters: any may be a null pointer. *)
Arg(t) == {holds[x] : x \in {y \in Vars : TypeOf[y] = t}} \cup {Nothing}
Out(t) == {x \in Vars : TypeOf[x] = t /\ holds[x] = Nothing} \cup {Null}

Failed(code, err) ==
  /\ holds' = [x \in Vars |-> IF x = err THEN Just(ErrorObj(code)) ELSE holds[x]]
  /\ last' = "ERR"

Succeeded(results, err) ==
  /\ holds' = [x \in Vars |-> IF x \in DOMAIN results THEN Just(results[x])
                              ELSE IF x = err THEN Nothing ELSE holds[x]]
  /\ last' = "OK"

(* A call with arguments and out parameters, and what it makes of them. *)
Incomplete(args, outs) == Nothing \in args \/ Null \in outs

Call(args, outs, r, results, err) ==
  \/ Incomplete(args, outs) /\ Failed("ABI_NULL_POINTER", err)
  \/ ~Incomplete(args, outs) /\ ~r.ok /\ Failed(r.code, err)
  \/ ~Incomplete(args, outs) /\ r.ok /\ Succeeded(results, err)

NewProgram ==
  \E out \in Out("program"), err \in Out("error"), build \in Builds :
    Call({}, {out}, Ok(build), [x \in {out} |-> ProgramObj(build)], err)

NewValue ==
  \E d \in {Just(b) : b \in Documents} \cup {Nothing},
     out \in Out("value"), err \in Out("error") :
    LET r == ValueNewFromCbor(Object(d))
    IN  Call({d}, {out}, r, [x \in {out} |-> r.val], err)

NewState ==
  \E p \in Arg("program"), v \in Arg("value"), out \in Out("state"), err \in Out("error") :
    LET r == StateNew(Object(v))
    IN  Call({p, v}, {out}, r, [x \in {out} |-> r.val], err)

ReadState ==
  \E s \in Arg("state"), out \in Out("value"), err \in Out("error") :
    LET r == StateToValue(Object(s))
    IN  Call({s}, {out}, r, [x \in {out} |-> r.val], err)

RunUpdate ==
  \E p \in Arg("program"), s \in Arg("state"), e \in Arg("value"),
     next \in Out("state"), actions \in Out("actions"), err \in Out("error") :
    LET r == Update(Object(p), Object(s), Object(e))
    IN  Call({p, s, e}, {next, actions}, r,
             [x \in {next, actions} |->
                IF x = next THEN r.val.next_state ELSE r.val.actions], err)

RunQuery ==
  \E p \in Arg("program"), s \in Arg("state"), q \in Arg("value"),
     out \in Out("value"), err \in Out("error") :
    LET r == Query(Object(s), Object(q))
    IN  Call({p, s, q}, {out}, r, [x \in {out} |-> r.val], err)

(* value_bytes and actions_bytes: what they show is not a handle. *)
ReadBytes ==
  \E a \in Arg("value") \cup Arg("actions"), out \in {Null, "bytes"}, err \in Out("error") :
    Call({a}, {out}, Ok(out), [x \in {} |-> Nothing], err)

Destroy ==
  \E x \in Vars : holds' = [holds EXCEPT ![x] = Nothing] /\ UNCHANGED last

Next ==
  \/ NewProgram \/ NewValue \/ NewState \/ ReadState \/ RunUpdate \/ RunQuery
  \/ ReadBytes \/ Destroy

Spec == Init /\ [][Next]_<<holds, last>>

=============================================================================
