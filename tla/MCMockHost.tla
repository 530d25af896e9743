----------------------------- MODULE MCMockHost -----------------------------
(***************************************************************************)
(* MockHost with integers of four bits, and events that reach both ends of *)
(* them in one step and in several.                                        *)
(***************************************************************************)
EXTENDS MockHost

MCMinInt  == -8
MCNumbers == {-8, -3, 0, 1, 7}

=============================================================================
