--------------------------- MODULE MCInboundCall ---------------------------
(* InboundCall for TLC: every way a number can be set up. *)
EXTENDS InboundCall

MCRoutes == [no_answer : {"voicemail", "hangup"}, allowed : BOOLEAN,
             open : BOOLEAN]
=============================================================================
