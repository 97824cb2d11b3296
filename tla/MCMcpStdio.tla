----------------------------- MODULE MCMcpStdio -----------------------------
(* Instances of McpStdio: the handshake and requests of two threads. *)
EXTENDS McpStdio, TLC

CONSTANTS hello, c1, c2, c3, main, other

MCThreadOf == [c \in Calls |-> IF c = c3 THEN other ELSE main]
=============================================================================
