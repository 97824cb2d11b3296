--------------------------- MODULE DebateDispatch ---------------------------
(***************************************************************************)
(* How NexusCore.debate() waits for the handlers of its pool: one after    *)
(* the other, or all at once in a ThreadPoolExecutor, with or without a    *)
(* timeout.  NexusCore abstracts this to "each handler returns, in some    *)
(* order, or is late"; here handlers take time.                            *)
(*                                                                         *)
(* A handler runs in its own thread and cannot be interrupted.  Time is    *)
(* counted in ticks; what the calling thread does itself takes none, so a  *)
(* tick passes only while that thread waits.                               *)
(***************************************************************************)
EXTENDS Integers

CONSTANTS N,          \* size of the pool
          Timeouts,   \* what `timeout` may be: a number of ticks or None
          Durations,  \* how long a handler may run: a number of ticks or Hung
          Hung,
          Horizon,    \* bound: ticks observed
          None

ASSUME DispatchAssumption ==
  /\ N \in Nat \ {0}
  /\ Timeouts \subseteq Nat \cup {None} /\ None \notin Nat
  /\ Durations \subseteq Nat \cup {Hung} /\ Hung \notin Nat
  /\ Horizon \in Nat

(* A value; TaskFailed or CapabilityUnavailable; a TimeoutError of the      *)
(* handler's own, which is the class future.result() raises (since Python   *)
(* 3.11; before, it is an exception like any other); any other exception.   *)
Outcomes == {"value", "failure", "timeout", "exception"}

Pool == 1..N

VARIABLES parallel, timeout,   \* the arguments of debate()
          duration, outcome,   \* what each handler is going to do
          now,                 \* ticks since debate() was called
          started,             \* when each handler was started
          at,                  \* the candidate the calling thread is at
          since,               \* when it began to wait for it
          phase,               \* what it is doing
          kept                 \* what became of each candidate

vars == <<parallel, timeout, duration, outcome, now, started, at, since, phase, kept>>
world == <<parallel, timeout, duration, outcome>>

Ended(i) == started[i] # None /\ duration[i] # Hung /\ started[i] + duration[i] <= now

(* The handler had ended strictly before time t. *)
EndedBefore(i, t) == Ended(i) /\ started[i] + duration[i] < t

(* Mutant: off by one. *)
Expired_late == timeout # None /\ since + timeout < now

(* Mutant: counted from the beginning of the debate. *)
Expired_from_start == timeout # None /\ timeout <= now

(* The wait for the candidate at hand has lasted the timeout. *)
Expired == timeout # None /\ since + timeout <= now

Init ==
  /\ parallel \in BOOLEAN
  /\ timeout \in Timeouts
  /\ duration \in [Pool -> Durations]
  /\ outcome \in [Pool -> Outcomes]
  /\ now = 0
  /\ started = [i \in Pool |-> None]
  /\ at = 1
  /\ since = 0
  /\ phase = "submitting"
  /\ kept = [i \in Pool |-> "none"]

(* In parallel every handler is submitted before any is waited for, to as  *)
(* many workers as there are candidates.                                   *)
Submit ==
  /\ phase = "submitting"
  /\ started' = IF parallel THEN [i \in Pool |-> now] ELSE started
  /\ phase' = "next"
  /\ UNCHANGED <<world, now, at, since, kept>>

(* The next future to ask, or the next handler to start. *)
Wait ==
  /\ phase = "next"
  /\ at <= N
  /\ started' = IF parallel THEN started ELSE [started EXCEPT ![at] = now]
  /\ since' = now
  /\ phase' = "waiting"
  /\ UNCHANGED <<world, now, at, kept>>

Keep(what) == kept' = [kept EXCEPT ![at] = what]

(* core.py:309 and :324 drop a candidate that raised TimeoutError as they   *)
(* drop one that did not return in time, with or without a timeout.        *)
Fate(o) ==
  CASE o = "value"   -> "accepted"
    [] o = "failure" -> "failed"
    [] o = "timeout" -> "late"
    [] OTHER         -> "raised"

(* handle() returned or raised, and the timeout has not struck. *)
Answer ==
  /\ phase = "waiting"
  /\ Ended(at)
  /\ Keep(Fate(outcome[at]))
  /\ \/ /\ outcome[at] # "exception"
        /\ phase' = "next"
        /\ at' = at + 1
     \/ /\ outcome[at] = "exception"
        /\ phase' = IF parallel THEN "closing" ELSE "over"
        /\ UNCHANGED at
  /\ UNCHANGED <<world, now, started, since>>

(* Mutant: a handler that is late is left running. *)
AfterTimeout_moves_on == phase' = "next" /\ at' = at + 1

(* A thread of its own is joined before its executor is left; the shared   *)
(* executor stays open until every future has been asked.                  *)
AfterTimeout ==
  \/ parallel /\ phase' = "next" /\ at' = at + 1
  \/ ~parallel /\ phase' = "joining" /\ UNCHANGED at

(* future.result(timeout) raises TimeoutError.  An answer at that very     *)
(* moment may come first or not.                                           *)
GiveUp ==
  /\ phase = "waiting"
  /\ Expired
  /\ ~EndedBefore(at, since + timeout)
  /\ Keep("late")
  /\ AfterTimeout
  /\ UNCHANGED <<world, now, started, since>>

(* Mutant: the late handler is called again. *)
Join_retries ==
  /\ phase = "joining"
  /\ Ended(at)
  /\ phase' = "next"
  /\ UNCHANGED <<world, now, started, at, since, kept>>

(* Executor.__exit__ of _call_with_timeout: shutdown(wait=True). *)
Join ==
  /\ phase = "joining"
  /\ Ended(at)
  /\ phase' = "next"
  /\ at' = at + 1
  /\ UNCHANGED <<world, now, started, since, kept>>

(* The loop over the pool is over. *)
LeaveLoop ==
  /\ phase = "next"
  /\ at > N
  /\ phase' = IF parallel THEN "closing" ELSE "over"
  /\ UNCHANGED <<world, now, started, at, since, kept>>

(* Mutant: the executor does not wait. *)
Close_at_once ==
  /\ phase = "closing"
  /\ phase' = "over"
  /\ UNCHANGED <<world, now, started, at, since, kept>>

(* Executor.__exit__ of the parallel dispatch. *)
Close ==
  /\ phase = "closing"
  /\ \A i \in Pool : Ended(i)
  /\ phase' = "over"
  /\ UNCHANGED <<world, now, started, at, since, kept>>

Blocked ==
  \/ phase = "waiting" /\ ~Ended(at) /\ ~Expired
  \/ phase = "joining" /\ ~Ended(at)
  \/ phase = "closing" /\ \E i \in Pool : ~Ended(i)

Tick ==
  /\ Blocked
  /\ now < Horizon
  /\ now' = now + 1
  /\ UNCHANGED <<world, started, at, since, phase, kept>>

Next == Submit \/ Wait \/ Answer \/ GiveUp \/ Join \/ LeaveLoop \/ Close \/ Tick

Spec == Init /\ [][Next]_vars

(* Time passes, and the calling thread is scheduled. *)
FairSpec == Spec /\ WF_vars(Next)
-----------------------------------------------------------------------------
(* Every variable has its type. *)
TypeOK ==
  /\ parallel \in BOOLEAN /\ timeout \in Timeouts
  /\ duration \in [Pool -> Durations] /\ outcome \in [Pool -> Outcomes]
  /\ now \in Nat /\ since \in 0..now /\ at \in 1..N+1
  /\ started \in [Pool -> 0..now \cup {None}]
  /\ phase \in {"submitting", "next", "waiting", "joining", "closing", "over"}
  /\ kept \in [Pool -> {"none", "accepted", "failed", "raised", "late"}]

(* What a timeout of t bounds.  One by one, a handler whose answer counts  *)
(* ran for at most t.  In parallel the waits follow one another, so the    *)
(* i-th has up to i times t.                                               *)
AcceptedBound ==
  timeout # None =>
    \A i \in Pool : kept[i] = "accepted" =>
      duration[i] \in Nat /\ duration[i] <= (IF parallel THEN i ELSE 1) * timeout

(* A candidate dropped as late has itself to blame: its handler raised      *)
(* TimeoutError, or took the whole timeout of a debate that has one.  The   *)
(* answer of a fast handler is never lost to the slowness of the           *)
(* candidates before it, whose waits come first.                           *)
LateHasCause ==
  \A i \in Pool : kept[i] = "late" =>
    \/ outcome[i] = "timeout" /\ Ended(i)
    \/ timeout # None /\ (duration[i] # Hung => duration[i] >= timeout)

(* One by one, two handlers never run at the same time, timeouts or not:   *)
(* the promise parallel=False makes to handlers that share state.          *)
OneAtATime ==
  ~parallel => \A i, j \in Pool :
    started[i] # None /\ started[j] # None /\ ~Ended(i) /\ ~Ended(j) => i = j

(* Nothing a debate started still runs when it has returned or raised. *)
NothingLeftRunning ==
  phase = "over" => \A i \in Pool : started[i] # None => Ended(i)

(* A debate all of whose handlers end is over some day. *)
EveryDebateEnds ==
  (\A i \in Pool : duration[i] # Hung) ~> phase = "over"
=============================================================================
