------------------------------ MODULE AuditLog ------------------------------
(***************************************************************************)
(* nexus.audit.AuditLog, a list of events each of which carries the hash   *)
(* of the one before it, as NexusCore._record fills it: the payload of an  *)
(* event is the envelope itself, the dict that is in the trace and that    *)
(* the caller was handed, not a copy of it.                                *)
(*                                                                         *)
(* A hash is taken to be the tuple of what it is computed from, so that    *)
(* two are equal when the inputs are: SHA-256 does not collide here.       *)
(***************************************************************************)
EXTENDS Integers, SequencesExt

CONSTANTS Payloads,    \* what an envelope may say
          MaxEvents,   \* bound: calls of append
          MaxDamage    \* bound: changes made behind the log's back

ASSUME AuditAssumption == MaxEvents \in Nat /\ MaxDamage \in Nat

VARIABLES envelopes,   \* the dicts append() was called with, one for each call, as they are now
          events,      \* _events; event_id and payload are the position of the call in envelopes
          appended,    \* history: for each call, what the dict said and the event it came after
          kept,        \* history: hashes append() returned, and what each commits to
          damage,      \* history: changes made behind the log's back
          rewritten    \* history: whether one of them recomputed hashes

vars == <<envelopes, events, appended, kept, damage, rewritten>>

(* Not the hash of anything. *)
GENESIS_HASH == <<>>

Init ==
  /\ envelopes = <<>>
  /\ events = <<>>
  /\ appended = <<>>
  /\ kept = {[head |-> GENESIS_HASH, contents |-> <<>>]}
  /\ damage = 0
  /\ rewritten = FALSE

(* Mutant: the hash of an event does not commit to the event before it. *)
compute_hash_unchained(id, payload, previous_hash) == <<id, payload>>

compute_hash(id, payload, previous_hash) == <<id, payload, previous_hash>>

HeadOf(es) == IF es = <<>> THEN GENESIS_HASH ELSE Last(es).event_hash

(* Mutant: the links are compared, the fields are not hashed again. *)
verify_links(es) ==
  \A k \in DOMAIN es : es[k].previous_hash = IF k = 1 THEN GENESIS_HASH ELSE es[k - 1].event_hash

verify(es) ==
  \A k \in DOMAIN es :
    /\ es[k].previous_hash = IF k = 1 THEN GENESIS_HASH ELSE es[k - 1].event_hash
    /\ es[k].event_hash = compute_hash(es[k].event_id, envelopes[es[k].event_id], es[k].previous_hash)

Before(es, k) == IF k = 1 THEN 0 ELSE es[k - 1].event_id

(* What a log says. *)
Said(es) == [k \in DOMAIN es |-> <<es[k].event_id, envelopes[es[k].event_id]>>]

(* What the last hash commits to: what was noted with it, whatever the log  *)
(* says now; or what the log says, if it verifies, rewritten or not.  Of    *)
(* the hash of a log that was damaged and then rewritten in part, which     *)
(* never verifies, nothing is noted.                                       *)
HeadSays ==
  {log.contents : log \in {k \in kept : k.head = HeadOf(events)}}
    \cup (IF verify(events) THEN {Said(events)} ELSE {})

append(payload) ==
  LET id == Len(envelopes) + 1
      event == [event_id      |-> id,
                previous_hash |-> HeadOf(events),
                event_hash    |-> compute_hash(id, payload, HeadOf(events))]
  IN  /\ Len(envelopes) < MaxEvents
      /\ envelopes' = Append(envelopes, payload)
      /\ events' = Append(events, event)
      /\ appended' = Append(appended, [payload |-> payload, after |-> Before(events', Len(events'))])
      /\ kept' = kept \cup
                   {[head |-> event.event_hash, contents |-> Append(said, <<id, payload>>)] :
                      said \in HeadSays}
      /\ UNCHANGED <<damage, rewritten>>
-----------------------------------------------------------------------------
(* What may happen to a list of dicts in memory, or to a copy of it.       *)

BehindItsBack ==
  /\ damage < MaxDamage
  /\ damage' = damage + 1
  /\ UNCHANGED <<appended, kept>>

(* Somebody who holds an envelope changes it. *)
Edit(k, payload) ==
  /\ BehindItsBack
  /\ envelopes' = [envelopes EXCEPT ![k] = payload]
  /\ UNCHANGED <<events, rewritten>>

Delete(k) ==
  /\ BehindItsBack
  /\ events' = RemoveAt(events, k)
  /\ UNCHANGED <<envelopes, rewritten>>

Swap(j, k) ==
  /\ BehindItsBack
  /\ events' = [events EXCEPT ![j] = events[k], ![k] = events[j]]
  /\ UNCHANGED <<envelopes, rewritten>>

(* The events from position k on, with hashes that fit what they say now. *)
Rehashed(es, k) ==
  LET hash[j \in 0..Len(es)] ==
        CASE j = 0 -> GENESIS_HASH
          [] 0 < j /\ j < k -> es[j].event_hash
          [] OTHER -> compute_hash(es[j].event_id, envelopes[es[j].event_id], hash[j - 1])
  IN  [j \in DOMAIN es |->
         IF j < k THEN es[j]
         ELSE [event_id |-> es[j].event_id, previous_hash |-> hash[j - 1], event_hash |-> hash[j]]]

Rewrite(k) ==
  /\ BehindItsBack
  /\ events' = Rehashed(events, k)
  /\ rewritten' = TRUE
  /\ UNCHANGED envelopes

Next ==
  \/ \E payload \in Payloads : append(payload)
  \/ \E k \in DOMAIN envelopes, payload \in Payloads : Edit(k, payload)
  \/ \E k \in DOMAIN events : Delete(k) \/ Rewrite(k)
  \/ \E j, k \in DOMAIN events : j < k /\ Swap(j, k)

Spec == Init /\ [][Next]_vars
-----------------------------------------------------------------------------
(* audit.py:7, what verify() proves: unless somebody recomputed hashes,   *)
(* every event of a log that verifies says what it said when it was        *)
(* appended and follows the event it was appended after.  Changes, moves   *)
(* and deletions never pass, also when appends go on after them; all that  *)
(* passes is the loss of a tail.                                           *)
VerifiedWasWritten ==
  verify(events) /\ ~rewritten =>
    \A k \in DOMAIN events :
      LET id == events[k].event_id
      IN  /\ envelopes[id] = appended[id].payload
          /\ Before(events, k) = appended[id].after

(* audit.py:13, a copy taken earlier: whoever noted the event_hash append() *)
(* returned finds that a log which verifies and ends in that hash says what *)
(* the log said then, even if all of it was hashed again, before or since.  *)
HeadPinsLog ==
  verify(events) => \A log \in kept : log.head = HeadOf(events) => log.contents = Said(events)
=============================================================================
