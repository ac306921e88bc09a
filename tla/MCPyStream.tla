------------------------------ MODULE MCPyStream ------------------------------
(***************************************************************************)
(* The graphs and callbacks of MCPyMachine, streamed to a consumer.        *)
(***************************************************************************)
EXTENDS PyStream, MCPyMachine

MCTwoSignals == {<<No, Go>>, <<Go, Go>>}
=============================================================================
