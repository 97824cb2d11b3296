---------------------------- MODULE MCFsTransport ----------------------------
(* Instances of FsTransport: processes p, q and r read the inbox of agent A, *)
(* o that of B, whose id differs from A's in a character _safe_dir replaces. *)
EXTENDS FsTransport, TLC

CONSTANTS p, q, r, o, A, B, m1, m2

MCAgentOf == [x \in Procs |-> IF x = o THEN B ELSE A]
OneDir == [x \in Agents |-> "inbox"]
MCTo == [m \in Messages |-> IF m = m1 THEN A ELSE B]
=============================================================================
