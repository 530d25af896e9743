------------------------------ MODULE CinoCalls ------------------------------
(***************************************************************************)
(* What the functions of the C interface (cino-ffi-c) compute: from the    *)
(* objects behind the handles they are given, the new objects they make or *)
(* the error they report.  Where these objects live, who holds them and    *)
(* what a failure leaves alone is the business of FfiHandles.              *)
(***************************************************************************)
EXTENDS Runtime

CONSTANTS
  Documents,        \* the byte strings that hosts pass
  Decode(_),   \* cino_codec::decode_value
  Encode(_)    \* cino_codec::encode_value

(* The objects that handles point to, by their C type. *)
ProgramObj(build) == [type |-> "program", build |-> build]
StateObj(v)       == [type |-> "state", inner |-> v]
ValueObj(bytes)   == [type |-> "value", bytes |-> bytes]
ActionsObj(bytes) == [type |-> "actions", bytes |-> bytes]
ErrorObj(code)    == [type |-> "error", code |-> code]

(* map_codec_error and map_runtime_error, on the error inside a result. *)
CodecErrorCode == [Decode        |-> "ABI_INVALID_CBOR",
                   InvalidFormat |-> "ABI_INVALID_CBOR",
                   Encode        |-> "ABI_INTERNAL"]

RuntimeErrorCode ==
  [StepLimitExceeded      |-> "RUNTIME_STEP_LIMIT_EXCEEDED",
   MemoryLimitExceeded    |-> "RUNTIME_MEMORY_LIMIT_EXCEEDED",
   RecursionLimitExceeded |-> "RUNTIME_RECURSION_LIMIT_EXCEEDED",
   InvalidInput           |-> "RUNTIME_INVALID_INPUT",
   Trap                   |-> "RUNTIME_TRAP",
   Panic                  |-> "RUNTIME_PANIC"]

Mapped(codes, r) == IF r.ok THEN r ELSE Err(codes[r.code], r.why)

DecodeVmValue(bytes) == Mapped(CodecErrorCode, Decode(bytes))
EncodeVmValue(v)     == Mapped(CodecErrorCode, Encode(v))

(* The object made of a byte string, if there is one. *)
Boxed(r, Make(_)) == IF r.ok THEN Ok(Make(r.val)) ELSE r

(***************************************************************************)
(* The bodies of the functions, after the checks for null pointers.        *)
(***************************************************************************)
ValueNewFromCbor(bytes) ==
  LET decoded == DecodeVmValue(bytes)
  IN  IF ~decoded.ok THEN decoded
      ELSE Boxed(EncodeVmValue(decoded.val), ValueObj)

StateNew(value) == Boxed(DecodeVmValue(value.bytes), StateObj)

StateToValue(state) == Boxed(EncodeVmValue(state.inner), ValueObj)

Update(program, state, event) ==
  LET decoded == DecodeVmValue(event.bytes)
      updated == Mapped(RuntimeErrorCode,
                        RuntimeUpdate(program.build, state.inner, decoded.val))
      encoded == EncodeVmValue(ListV(updated.val.actions))
  IN  IF ~decoded.ok THEN decoded
      ELSE IF ~updated.ok THEN updated
      ELSE IF ~encoded.ok THEN encoded
      ELSE Ok([next_state |-> StateObj(updated.val.state),
               actions    |-> ActionsObj(encoded.val)])

Query(state, query) ==
  LET decoded == DecodeVmValue(query.bytes)
      result  == Mapped(RuntimeErrorCode, RuntimeQuery(state.inner, decoded.val))
  IN  IF ~decoded.ok THEN decoded
      ELSE IF ~result.ok THEN result
      ELSE Boxed(EncodeVmValue(result.val), ValueObj)

=============================================================================
