---------------------------- MODULE MCCommandLine ----------------------------
(***************************************************************************)
(* CommandLine on three of the example programs, one that does not type    *)
(* check and one that is cut off, with states and events for all of them,  *)
(* and with documents that are no values.                                  *)
(***************************************************************************)
EXTENDS CommandLine, MCFrontEnd, SamplePrograms

(* The counter under other names, whose query answers with no Result. *)
IllTyped == <<
  "enum", "Action", "=", "|", "NoOp", "event", "Bad", "=", "|", "Reset",
  "query", "Ask", "=", "|", "GetCount",
  "update", "(", "n", ":", "Int", ",", "event", ":", "Bad", ")", "->",
    "(", "Int", ",", "List", "<", "Action", ">", ")", "{", "(", "0", ",", "[", "]", ")", "}",
  "query", "(", "n", ":", "Int", ",", "q", ":", "Ask", ")", "->", "Int", "{", "n", "}", "end">>
CutOff == <<"enum", "Action", "=", "end">>

MCTexts == {Counter, TrafficLight, ShoppingCart, IllTyped, CutOff}

MCFromCbor(d) == LET Walk == INSTANCE ProgramWalk IN Walk!VmValueFromCbor(d)
MCToCbor(v)   == LET Walk == INSTANCE ProgramWalk IN Walk!CborFromVmValue(v)
MCFromJson(j) == LET Walk == INSTANCE ProgramWalk IN Walk!JsonToVmValue(j)
MCToJson(v)   == LET Walk == INSTANCE ProgramWalk IN Walk!VmValueToJson(v)

Tagged(tag, fields) ==
  ObjectJ([k \in {"$tag", "$fields"} |-> IF k = "$tag" THEN StringJ(tag) ELSE ObjectJ(fields)])
Unit_(tag)  == Tagged(tag, [x \in {} |-> NumberJ])
Price(n)    == Tagged("AddItem", [x \in {"price"} |-> IntJ(n)])

MCStateDocs == {IntJ(0), NumberJ, Unit_("Red"), ObjectJ([k \in {"$tag"} |-> StringJ("Red")])}
MCInputDocs == {Unit_(tag) : tag \in {"Increment", "Tick", "PlaceOrder", "GetCount", "CurrentLight"}}
               \cup {Price(3), NumberJ}

RECURSIVE DocsWithin(_), DepthOf(_)
DocsWithin(j) == {j} \cup UNION {DocsWithin(x) : x \in DocParts(j)}
DepthOf(j)    == 1 + Max({0} \cup {DepthOf(x) : x \in DocParts(j)})

MCNesting == [j \in UNION {DocsWithin(d) : d \in MCStateDocs \cup MCInputDocs} |-> DepthOf(j)]

MCMinInt == -4
MCLimits == [max_steps |-> 60, max_memory_bytes |-> 2000, max_recursion_depth |-> 4]

=============================================================================
