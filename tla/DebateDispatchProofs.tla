------------------------ MODULE DebateDispatchProofs ------------------------
(***************************************************************************)
(* The safety properties of DebateDispatch, for a pool of any size, any    *)
(* timeout and any durations.                                              *)
(*                                                                         *)
(* None of them is inductive.  Their strengthening says how far the clock  *)
(* can have moved when the calling thread reaches a candidate (Clock),     *)
(* what it knows of the one it waits for (AtWork), which handlers can still *)
(* be running (InOrder), and that it does not come back to a candidate     *)
(* (Passed).                                                               *)
(***************************************************************************)
EXTENDS DebateDispatch, TLAPS

(* In parallel each of the waits before this one took a timeout at most. *)
Clock ==
  timeout # None /\ parallel =>
    /\ phase = "next" => now <= (at - 1) * timeout
    /\ phase = "waiting" => since <= (at - 1) * timeout

AtWork ==
  /\ phase \in {"waiting", "joining"} => at \in Pool /\ started[at] # None
  /\ phase = "waiting" => /\ started[at] <= since
                          /\ ~parallel => started[at] = since
                          /\ timeout # None => now <= since + timeout
  /\ phase = "joining" => ~parallel
  /\ phase = "closing" => parallel
  /\ phase = "submitting" => now = 0 /\ \A i \in Pool : started[i] = None
  /\ parallel /\ phase # "submitting" => \A i \in Pool : started[i] = 0

InOrder ==
  ~parallel => \A i \in Pool :
    started[i] # None => Ended(i) \/ (i = at /\ phase \in {"waiting", "joining"})

(* A candidate is settled when the calling thread leaves it, for good. *)
Passed ==
  /\ phase = "submitting" => at = 1
  /\ \A i \in Pool : kept[i] # "none" =>
       i < at \/ (i = at /\ phase \in {"joining", "closing", "over"})

Inv ==
  /\ TypeOK
  /\ Clock
  /\ AtWork
  /\ InOrder
  /\ Passed
  /\ AcceptedBound
  /\ LateHasCause
  /\ NothingLeftRunning

-----------------------------------------------------------------------------
LEMMA NextType == TypeOK /\ AtWork /\ [Next]_vars => TypeOK'
<1> SUFFICES ASSUME TypeOK, AtWork, [Next]_vars PROVE TypeOK'
  OBVIOUS
<1> USE DispatchAssumption DEF TypeOK, Pool, world
<1>0. phase \in {"waiting", "joining"} => at \in 1..N
  BY DEF AtWork
<1>1. CASE Submit
  BY <1>1 DEF Submit
<1>2. CASE Wait
  BY <1>2 DEF Wait
<1>3. CASE Answer
  <2>1. Fate(outcome[at]) \in {"accepted", "failed", "late", "raised"}
    BY DEF Fate
  <2> QED
    BY <1>0, <1>3, <2>1 DEF Answer, Keep
<1>4. CASE GiveUp
  BY <1>0, <1>4 DEF GiveUp, Keep, AfterTimeout
<1>5. CASE Join
  BY <1>0, <1>5 DEF Join
<1>6. CASE LeaveLoop
  BY <1>6 DEF LeaveLoop
<1>7. CASE Close
  BY <1>7 DEF Close
<1>8. CASE Tick
  BY <1>8 DEF Tick
<1>9. CASE UNCHANGED vars
  BY <1>9 DEF vars
<1> QED
  BY <1>1, <1>2, <1>3, <1>4, <1>5, <1>6, <1>7, <1>8, <1>9 DEF Next

(* No step takes the end of a handler back. *)
LEMMA EndedStays ==
  ASSUME TypeOK, TypeOK', NEW i \in Pool, Ended(i), started'[i] = started[i],
         duration' = duration, now <= now'
  PROVE  Ended(i)'
<1>1. duration[i] \in Nat
  <2>1. duration[i] \in Durations /\ duration[i] # Hung
    BY DEF Ended, TypeOK
  <2> QED
    BY <2>1, DispatchAssumption
<1>2. now \in Nat /\ now' \in Nat
  BY DEF TypeOK
<1>3. started[i] \in Nat
  <2>1. started[i] \in 0..now \cup {None} /\ started[i] # None
    BY DEF Ended, TypeOK
  <2> QED
    BY <1>2, <2>1
<1> QED
  BY <1>1, <1>2, <1>3 DEF Ended

LEMMA NextAtWork == TypeOK /\ AtWork /\ TypeOK' /\ [Next]_vars => AtWork'
<1> SUFFICES ASSUME TypeOK, AtWork, TypeOK', [Next]_vars PROVE AtWork'
  OBVIOUS
<1> USE DispatchAssumption DEF TypeOK, AtWork, Pool, world
<1>1. CASE Submit
  BY <1>1 DEF Submit
<1>2. CASE Wait
  BY <1>2 DEF Wait
<1>3. CASE Answer
  BY <1>3 DEF Answer
<1>4. CASE GiveUp
  BY <1>4 DEF GiveUp, AfterTimeout
<1>5. CASE Join
  BY <1>5 DEF Join
<1>6. CASE LeaveLoop
  BY <1>6 DEF LeaveLoop
<1>7. CASE Close
  BY <1>7 DEF Close
<1>8. CASE Tick
  BY <1>8 DEF Tick, Blocked, Expired
<1>9. CASE UNCHANGED vars
  BY <1>9 DEF vars
<1> QED
  BY <1>1, <1>2, <1>3, <1>4, <1>5, <1>6, <1>7, <1>8, <1>9 DEF Next

(* The k-th wait ends within k timeouts. *)
LEMMA OneMoreTimeout ==
  ASSUME NEW k \in Nat \ {0}, NEW t \in Nat
  PROVE  (k - 1) * t + t = k * t /\ (k + 1 - 1) * t = k * t
OBVIOUS

LEMMA NextClock == Inv /\ TypeOK' /\ [Next]_vars => Clock'
<1> SUFFICES ASSUME Inv, TypeOK', [Next]_vars, timeout # None, parallel
             PROVE  /\ phase' = "next" => now' <= (at' - 1) * timeout
                    /\ phase' = "waiting" => since' <= (at' - 1) * timeout
  BY DEF Clock, Next, vars, world, Submit, Wait, Answer, GiveUp, Join, LeaveLoop, Close, Tick
<1> USE DispatchAssumption DEF Pool, world
<1>0. /\ timeout \in Nat /\ now \in Nat /\ since \in Nat /\ at \in Nat \ {0}
      /\ phase = "next" => now <= (at - 1) * timeout
      /\ phase = "waiting" => since <= (at - 1) * timeout /\ now <= since + timeout
      /\ phase = "submitting" => now = 0
      /\ phase # "joining"
  BY DEF Inv, TypeOK, Clock, AtWork
<1>a. (at - 1) * timeout \in Nat /\ (at - 1) * timeout + timeout = (at + 1 - 1) * timeout
  BY <1>0, OneMoreTimeout
<1>b. phase = "waiting" => now <= (at + 1 - 1) * timeout
  BY <1>0, <1>a
<1>1. CASE Submit
  BY <1>0, <1>1, <1>a DEF Submit
<1>2. CASE Wait
  BY <1>0, <1>2 DEF Wait
<1>3. CASE Answer
  BY <1>0, <1>b, <1>3 DEF Answer
<1>4. CASE GiveUp
  BY <1>0, <1>b, <1>4 DEF GiveUp, AfterTimeout
<1>5. CASE Join
  BY <1>0, <1>5 DEF Join
<1>6. CASE LeaveLoop
  BY <1>6 DEF LeaveLoop
<1>7. CASE Close
  BY <1>7 DEF Close
<1>8. CASE Tick
  BY <1>0, <1>8 DEF Tick, Blocked
<1>9. CASE UNCHANGED vars
  BY <1>0, <1>9 DEF vars
<1> QED
  BY <1>1, <1>2, <1>3, <1>4, <1>5, <1>6, <1>7, <1>8, <1>9 DEF Next

(* Whatever a step does, the clock does not go back, and a handler that was *)
(* started and is not restarted stays so.                                  *)
LEMMA NextInOrder == Inv /\ TypeOK' /\ [Next]_vars => InOrder'
<1> SUFFICES ASSUME Inv, TypeOK', [Next]_vars, ~parallel', NEW i \in Pool, started'[i] # None
             PROVE  Ended(i)' \/ (i = at' /\ phase' \in {"waiting", "joining"})
  BY DEF InOrder
<1> USE DEF world
<1>1. /\ TypeOK /\ AtWork /\ ~parallel
      /\ started[i] # None => Ended(i) \/ (i = at /\ phase \in {"waiting", "joining"})
  BY DEF Inv, InOrder, Next, vars, Submit, Wait, Answer, GiveUp, Join, LeaveLoop, Close, Tick
<1>2. duration' = duration /\ now <= now'
  BY <1>1 DEF TypeOK, Next, vars, Submit, Wait, Answer, GiveUp, Join, LeaveLoop, Close, Tick
<1>3. ASSUME Ended(i), started' = started PROVE Ended(i)'
  BY <1>1, <1>2, <1>3, EndedStays
<1>4. CASE Submit
  BY <1>1, <1>4 DEF Submit, AtWork
<1>5. CASE Wait
  <2>1. CASE i = at
    BY <1>5, <2>1 DEF Wait
  <2>2. CASE i # at
    <3>1. started'[i] = started[i]
      BY <1>1, <1>5, <2>2 DEF Wait, TypeOK
    <3> QED
      BY <1>1, <1>2, <1>5, <3>1, EndedStays DEF Wait
  <2> QED
    BY <2>1, <2>2
<1>6. CASE Answer
  BY <1>1, <1>3, <1>6 DEF Answer
<1>7. CASE GiveUp
  BY <1>1, <1>3, <1>7 DEF GiveUp, AfterTimeout
<1>8. CASE Join
  BY <1>1, <1>3, <1>8 DEF Join
<1>9. CASE LeaveLoop \/ Close \/ Tick \/ UNCHANGED vars
  BY <1>1, <1>3, <1>9 DEF LeaveLoop, Close, Tick, vars
<1> QED
  BY <1>4, <1>5, <1>6, <1>7, <1>8, <1>9 DEF Next

LEMMA NextNothingLeft == Inv /\ TypeOK' /\ [Next]_vars => NothingLeftRunning'
<1> SUFFICES ASSUME Inv, TypeOK', [Next]_vars, phase' = "over", NEW i \in Pool, started'[i] # None
             PROVE  Ended(i)'
  BY DEF NothingLeftRunning
<1> USE DEF world
<1>1. InOrder' /\ AtWork'
  BY NextInOrder, NextAtWork DEF Inv
<1>2. CASE ~parallel'
  BY <1>1, <1>2 DEF InOrder
<1>3. CASE parallel'
  <2>1. \/ Close
        \/ phase = "over" /\ UNCHANGED <<started, duration, now>>
    BY <1>3 DEF Next, vars, Submit, Wait, Answer, GiveUp, AfterTimeout, Join, LeaveLoop, Tick, Blocked
  <2>2. Ended(i) /\ UNCHANGED <<started, duration, now>>
    BY <2>1 DEF Close, Inv, NothingLeftRunning
  <2> QED
    BY <2>2 DEF Ended
<1> QED
  BY <1>2, <1>3

LEMMA NextAccepted == Inv /\ TypeOK' /\ [Next]_vars => AcceptedBound'
<1> SUFFICES ASSUME Inv, TypeOK', [Next]_vars, timeout' # None, NEW i \in Pool, kept'[i] = "accepted"
             PROVE  duration'[i] \in Nat /\ duration'[i] <= (IF parallel' THEN i ELSE 1) * timeout'
  BY DEF AcceptedBound
<1> USE DEF world
<1>1. UNCHANGED world
  BY DEF Next, vars, Submit, Wait, Answer, GiveUp, Join, LeaveLoop, Close, Tick
<1>2. CASE kept[i] = "accepted"
  BY <1>1, <1>2 DEF Inv, AcceptedBound
<1>3. CASE kept[i] # "accepted"
  <2>1. Answer /\ i = at
    BY <1>3 DEF Next, vars, Submit, Wait, Answer, GiveUp, Keep, Join, LeaveLoop, Close, Tick, Inv, TypeOK
  <2>2. /\ timeout \in Nat /\ now \in Nat /\ since \in Nat /\ at \in Nat \ {0}
        /\ started[at] # None /\ duration[at] # Hung
        /\ started[at] + duration[at] <= now /\ now <= since + timeout
        /\ ~parallel => started[at] = since
        /\ parallel => started[at] = 0 /\ since <= (at - 1) * timeout
    BY <1>1, <2>1, DispatchAssumption DEF Answer, Ended, Inv, TypeOK, AtWork, Clock, Pool
  <2>3. duration[at] \in Nat
    BY <2>1, <2>2, DispatchAssumption DEF Inv, TypeOK
  <2>4. CASE ~parallel
    <3>1. duration[at] <= timeout /\ 1 * timeout = timeout
      BY <2>2, <2>3, <2>4
    <3> QED
      BY <1>1, <2>1, <2>3, <2>4, <3>1
  <2>5. CASE parallel
    <3>1. (at - 1) * timeout \in Nat /\ (at - 1) * timeout + timeout = at * timeout
      BY <2>2, OneMoreTimeout
    <3>2. duration[at] <= at * timeout
      BY <2>2, <2>3, <2>5, <3>1
    <3> QED
      BY <1>1, <2>1, <2>3, <2>5, <3>2
  <2> QED
    BY <2>4, <2>5
<1> QED
  BY <1>2, <1>3

LEMMA NextPassed == Inv /\ TypeOK' /\ [Next]_vars => Passed'
<1> SUFFICES ASSUME Inv, TypeOK', [Next]_vars PROVE Passed'
  OBVIOUS
<1> USE DEF Pool, world
<1>0. TypeOK /\ Passed
  BY DEF Inv
<1>1. ASSUME NEW i \in Pool, kept'[i] # "none"
      PROVE  i < at' \/ (i = at' /\ phase' \in {"joining", "closing", "over"})
  <2>1. i \in Nat /\ at \in Nat /\ at' \in Nat
    BY <1>0 DEF TypeOK
  <2>2. CASE Submit \/ Wait \/ Join \/ LeaveLoop \/ Close \/ Tick \/ UNCHANGED vars
    BY <1>0, <1>1, <2>1, <2>2 DEF Passed, Submit, Wait, Join, LeaveLoop, Close, Tick, vars
  <2>3. CASE Answer
    <3>1. kept[i] # "none" \/ i = at
      BY <1>0, <1>1, <2>3 DEF Answer, Keep, TypeOK
    <3> QED
      BY <1>0, <2>1, <2>3, <3>1 DEF Answer, Passed
  <2>4. CASE GiveUp
    <3>1. kept[i] # "none" \/ i = at
      BY <1>0, <1>1, <2>4 DEF GiveUp, Keep, TypeOK
    <3> QED
      BY <1>0, <2>1, <2>4, <3>1 DEF GiveUp, AfterTimeout, Passed
  <2> QED
    BY <2>2, <2>3, <2>4 DEF Next
<1>2. phase' = "submitting" => at' = 1
  BY <1>0 DEF Passed, Next, vars, Submit, Wait, Answer, GiveUp, AfterTimeout, Join, LeaveLoop, Close, Tick
<1> QED
  BY <1>1, <1>2 DEF Passed

(* The handler of a settled candidate is not started again. *)
LEMMA StartedOnce ==
  ASSUME Inv, [Next]_vars, NEW i \in Pool, kept[i] # "none"
  PROVE  started'[i] = started[i]
<1>1. i \in Nat /\ at \in Nat /\ started \in [Pool -> 0..now \cup {None}]
  BY DEF Inv, TypeOK, Pool
<1>2. ~Submit /\ (Wait => i # at)
  BY <1>1 DEF Inv, Passed, Submit, Wait, Pool
<1> QED
  BY <1>1, <1>2 DEF Next, vars, Wait, Answer, GiveUp, Join, LeaveLoop, Close, Tick

LEMMA NextLate == Inv /\ TypeOK' /\ [Next]_vars => LateHasCause'
<1> SUFFICES ASSUME Inv, TypeOK', [Next]_vars, NEW i \in Pool, kept'[i] = "late"
             PROVE  \/ outcome'[i] = "timeout" /\ Ended(i)'
                    \/ timeout' # None /\ (duration'[i] # Hung => duration'[i] >= timeout')
  BY DEF LateHasCause
<1> USE DEF world
<1>1. UNCHANGED world
  BY DEF Next, vars, Submit, Wait, Answer, GiveUp, Join, LeaveLoop, Close, Tick
<1>2. CASE kept[i] = "late"
  <2>1. CASE timeout # None /\ (duration[i] # Hung => duration[i] >= timeout)
    BY <1>1, <2>1
  <2>2. CASE outcome[i] = "timeout" /\ Ended(i)
    <3>1. started'[i] = started[i]
      BY <1>2, <2>2, StartedOnce
    <3>2. now <= now'
      BY DEF Inv, TypeOK, Next, vars, Submit, Wait, Answer, GiveUp, Join, LeaveLoop, Close, Tick
    <3>3. Ended(i)'
      BY <1>1, <2>2, <3>1, <3>2, EndedStays DEF Inv
    <3> QED
      BY <1>1, <2>2, <3>3
  <2> QED
    BY <1>2, <2>1, <2>2 DEF Inv, LateHasCause
<1>3. CASE kept[i] # "late"
  <2>1. i = at /\ (GiveUp \/ Answer)
    BY <1>3 DEF Next, vars, Submit, Wait, Answer, GiveUp, Keep, Join, LeaveLoop, Close, Tick, Inv, TypeOK
  <2>2. CASE Answer
    <3>1. Fate(outcome[i]) = "late"
      BY <2>1, <2>2 DEF Answer, Keep, Inv, TypeOK
    <3>2. outcome[i] = "timeout"
      BY <3>1 DEF Fate
    <3>3. Ended(i) /\ UNCHANGED <<started, duration, now>>
      BY <2>1, <2>2 DEF Answer
    <3>4. Ended(i)'
      BY <3>3 DEF Ended
    <3> QED
      BY <1>1, <3>2, <3>4
  <2>3. CASE GiveUp
    <3>1. /\ timeout \in Nat /\ now \in Nat /\ since \in Nat
          /\ started[at] # None /\ started[at] \in Nat /\ started[at] <= since
          /\ since + timeout <= now /\ ~EndedBefore(at, since + timeout)
      BY <2>3, DispatchAssumption DEF GiveUp, Expired, Inv, TypeOK, AtWork, Pool
    <3>2. ASSUME duration[at] # Hung PROVE duration[at] >= timeout
      <4>1. duration[at] \in Nat
        BY <2>1, <3>2, DispatchAssumption DEF Inv, TypeOK
      <4> QED
        BY <3>1, <3>2, <4>1 DEF EndedBefore, Ended
    <3> QED
      BY <1>1, <2>1, <2>3, <3>2 DEF GiveUp, Expired
  <2> QED
    BY <2>1, <2>2, <2>3
<1> QED
  BY <1>2, <1>3

LEMMA InitInv == Init => Inv
BY DispatchAssumption
DEF Init, Inv, TypeOK, Pool, Clock, AtWork, InOrder, Passed, AcceptedBound, LateHasCause, NothingLeftRunning

LEMMA NextInv == Inv /\ [Next]_vars => Inv'
<1> SUFFICES ASSUME Inv, [Next]_vars PROVE Inv'
  OBVIOUS
<1>1. TypeOK'
  BY NextType DEF Inv
<1> QED
  BY <1>1, NextAtWork, NextClock, NextInOrder, NextPassed, NextNothingLeft, NextAccepted, NextLate DEF Inv

LEMMA InvHolds == Spec => []Inv
BY InitInv, NextInv, PTL DEF Spec

(* What a timeout bounds, for any pool: one by one an accepted handler ran *)
(* for at most the timeout, in parallel the i-th for at most i timeouts.   *)
THEOREM AcceptedBoundHolds == Spec => []AcceptedBound
<1>1. Inv => AcceptedBound
  BY DEF Inv
<1> QED
  BY <1>1, InvHolds, PTL

(* Nobody is dropped as late who neither took the timeout nor raised       *)
(* TimeoutError.                                                           *)
THEOREM LateHasCauseHolds == Spec => []LateHasCause
<1>1. Inv => LateHasCause
  BY DEF Inv
<1> QED
  BY <1>1, InvHolds, PTL

(* debate() leaves no handler behind, in either mode, late ones included. *)
THEOREM NothingLeftRunningHolds == Spec => []NothingLeftRunning
<1>1. Inv => NothingLeftRunning
  BY DEF Inv
<1> QED
  BY <1>1, InvHolds, PTL

(* parallel=False never runs two handlers at the same time. *)
THEOREM OneAtATimeHolds == Spec => []OneAtATime
<1>1. Inv => OneAtATime
  BY DEF Inv, InOrder, OneAtATime
<1> QED
  BY <1>1, InvHolds, PTL
=============================================================================
