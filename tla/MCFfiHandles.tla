---------------------------- MODULE MCFfiHandles -----------------------------
(***************************************************************************)
(* A host with one variable of each type and a second state, and a counter *)
(* on one bit, with the codec in place.                                    *)
(***************************************************************************)
EXTENDS FfiHandles

CONSTANTS h1, h2, h3, h4, h5

MCHandles  == {h1, h2, h3, h4, h5}
Interchangeable == Permutations(MCHandles)

MCVars   == {"program", "state", "next", "value", "actions", "error"}
MCTypeOf == [x \in MCVars |-> IF x = "next" THEN "state" ELSE x]
MCMinInt == -1

Walk == INSTANCE ProgramWalk

MCDocuments == {Walk!Docs!IntC(-1), Walk!Docs!BoolC(TRUE), Walk!Docs!MalformedC}

CborDecode(d) == Walk!Docs!DecodeValue(d)
CborEncode(v) == Walk!Docs!EncodeValue(v)

=============================================================================
