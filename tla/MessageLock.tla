----------------------------- MODULE MessageLock -----------------------------
(***************************************************************************)
(* What the claim files of transport/filesystem.py are for: of all the     *)
(* processes that read an inbox, one of its receiver's at a time acts on a *)
(* message, and none once it is finished.                                  *)
(***************************************************************************)
CONSTANTS Procs, Messages,
          Receivers   \* the processes of the agent each message is addressed to

VARIABLES holders,    \* the living processes that act on each message
          finished    \* the messages that have been dealt with

lockVars == <<holders, finished>>

LockInit == holders = [m \in Messages |-> {}] /\ finished = {}

Acquire(p, m) ==
  /\ p \in Receivers[m]
  /\ holders[m] = {}
  /\ m \notin finished
  /\ holders' = [holders EXCEPT ![m] = {p}]
  /\ UNCHANGED finished

(* The holder gives the message back, or dies. *)
Drop(p, m) ==
  /\ p \in holders[m]
  /\ holders' = [holders EXCEPT ![m] = @ \ {p}]
  /\ UNCHANGED finished

Conclude(p, m) ==
  /\ p \in holders[m]
  /\ holders' = [holders EXCEPT ![m] = @ \ {p}]
  /\ finished' = finished \cup {m}

LockNext ==
  \E p \in Procs, m \in Messages : Acquire(p, m) \/ Drop(p, m) \/ Conclude(p, m)

LockSpec == LockInit /\ [][LockNext]_lockVars
=============================================================================
