------------------------------ MODULE MCRsStream ------------------------------
(***************************************************************************)
(* The graphs and callbacks of MCRsMachine, streamed to a consumer.        *)
(***************************************************************************)
EXTENDS RsStream, MCRsMachine

MCTwoSignals == {<<No, Go>>, <<Go, Go>>}
=============================================================================
