---------------------------- MODULE MCMcpServer ----------------------------
(***************************************************************************)
(* Instances of McpServer for TLC.                                         *)
(***************************************************************************)
EXTENDS McpServer

CONSTANTS c1, c2, x, none

\* Every request there is.
AllRequests == [lane : {"http", "batch"}, verb : Verbs,
                mode : {"ask", "confirmed", "dryRun"}, want : {x}]

\* The destructive verb that asks.
OneAsk == {[lane |-> "http", verb |-> "replace", mode |-> "ask", want |-> x]}
=============================================================================
