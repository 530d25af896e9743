---------------------------- MODULE MCCounterApp ----------------------------
(***************************************************************************)
(* CounterApp with integers of seven bits and no more steps, bytes and     *)
(* levels than the largest count takes: what a press costs does not grow.  *)
(***************************************************************************)
EXTENDS CounterApp, MCFrontEnd, SamplePrograms

MCMinInt == -64
MCLimits == [max_steps |-> 40, max_memory_bytes |-> 2000, max_recursion_depth |-> 1]

=============================================================================
