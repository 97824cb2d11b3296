--------------------------- MODULE AuditLogProofs ---------------------------
(***************************************************************************)
(* Proofs about AuditLog: what a chain of hashes shows of the events in it,*)
(* for logs of any length and any number of changes.                       *)
(***************************************************************************)
EXTENDS AuditLog, SequenceTheorems, WellFoundedInduction, TLAPS

(* The dicts, and what was said of them when they were appended. *)
HistoryType ==
  /\ envelopes \in Seq(Payloads)
  /\ appended \in Seq([payload : Payloads, after : Nat])
  /\ Len(appended) = Len(envelopes)

EventsType ==
  /\ events \in Seq(Range(events))
  /\ \A k \in DOMAIN events : events[k].event_id \in DOMAIN appended

(* An event whose hash append() computed: it commits to what was appended   *)
(* and to the event that came before it then, or to there being none.      *)
Genuine(e) ==
  /\ e.event_hash = compute_hash(e.event_id, appended[e.event_id].payload, e.previous_hash)
  /\ appended[e.event_id].after = 0 => e.previous_hash = GENESIS_HASH
  /\ appended[e.event_id].after # 0 =>
       /\ e.previous_hash # GENESIS_HASH
       /\ e.previous_hash[1] = appended[e.event_id].after

AllGenuine == ~rewritten => \A k \in DOMAIN events : Genuine(events[k])

WrittenInv == HistoryType /\ EventsType /\ AllGenuine

(* The hash at each position commits to what is said there and to the hash *)
(* before it.                                                              *)
Chain(hash, said) ==
  /\ hash[0] = GENESIS_HASH
  /\ \A i \in 1..Len(said) : hash[i] = compute_hash(said[i][1], said[i][2], hash[i - 1])

Commits(head, said) ==
  /\ said \in Seq(Nat \X Payloads)
  /\ \E hash : Chain(hash, said) /\ head = hash[Len(said)]

KeptInv == \A log \in kept : Commits(log.head, log.contents)
-----------------------------------------------------------------------------
LEMMA LeastNat ==
  ASSUME NEW T, T \subseteq Nat, T # {}
  PROVE  \E n \in T : \A m \in T : n <= m
<1>1. PICK n \in T : \A m \in T : ~ (<<m, n>> \in OpToRel(<, Nat))
  BY NatLessThanWellFounded, WFMin
<1>2. \A m \in T : ~ (m < n)
  BY <1>1 DEF OpToRel
<1> QED
  BY <1>2

LEMMA RemoveAtEvents ==
  ASSUME NEW S, NEW es \in Seq(S), NEW k \in DOMAIN es
  PROVE  RemoveAt(es, k) \in Seq(S)
<1>1. k \in 1..Len(es) /\ Len(es) \in Nat
  OBVIOUS
<1>2. SubSeq(es, 1, k - 1) \in Seq(S) /\ SubSeq(es, k + 1, Len(es)) \in Seq(S)
  BY <1>1
<1> QED
  BY <1>2 DEF RemoveAt

LEMMA InitWritten == Init => WrittenInv
BY DEF Init, WrittenInv, HistoryType, EventsType, AllGenuine

(* The event append() writes is genuine if the last one was. *)
LEMMA AppendWrites ==
  ASSUME WrittenInv, NEW payload \in Payloads, append(payload) PROVE WrittenInv'
<1> DEFINE id == Len(envelopes) + 1
           event == [event_id      |-> id,
                     previous_hash |-> HeadOf(events),
                     event_hash    |-> compute_hash(id, payload, HeadOf(events))]
           entry == [payload |-> payload, after |-> Before(events', Len(events'))]
<1>1. /\ envelopes' = Append(envelopes, payload) /\ events' = Append(events, event)
      /\ appended' = Append(appended, entry) /\ UNCHANGED rewritten
  BY DEF append
<1>2. /\ events \in Seq(Range(events)) /\ Len(events) \in Nat /\ id \in Nat \ {0}
      /\ Len(appended) + 1 = id /\ DOMAIN events = 1..Len(events)
      /\ envelopes \in Seq(Payloads) /\ appended \in Seq([payload : Payloads, after : Nat])
  BY DEF WrittenInv, HistoryType, EventsType
<1>3. /\ DOMAIN appended = 1..Len(appended) /\ Len(appended) \in Nat
      /\ \A k \in DOMAIN events : events[k].event_id \in 1..Len(appended)
      /\ ~rewritten => \A k \in DOMAIN events : Genuine(events[k])
  BY DEF WrittenInv, HistoryType, EventsType, AllGenuine
<1> HIDE DEF event
<1>4. /\ events' \in Seq(Range(events) \cup {event}) /\ Len(events') = Len(events) + 1
      /\ DOMAIN events' = 1..Len(events) + 1
      /\ \A k \in DOMAIN events : events'[k] = events[k]
      /\ events'[Len(events) + 1] = event
  BY <1>1, <1>2
<1>5. entry.payload = payload
      /\ entry.after = IF Len(events) = 0 THEN 0 ELSE events[Len(events)].event_id
  <2>1. Len(events') - 1 = Len(events) /\ (Len(events') = 1 <=> Len(events) = 0)
    BY <1>2, <1>4
  <2>2. Len(events) # 0 => events'[Len(events)] = events[Len(events)]
    BY <1>2, <1>4
  <2> QED
    BY <2>1, <2>2 DEF Before
<1>6. entry \in [payload : Payloads, after : Nat]
  <2>1. Len(events) # 0 => Len(events) \in DOMAIN events
    BY <1>2
  <2>2. entry.after \in Nat
    BY <1>3, <1>5, <2>1
  <2> QED
    BY <2>2
<1> HIDE DEF entry
<1>7. /\ appended' \in Seq([payload : Payloads, after : Nat]) /\ Len(appended') = id
      /\ DOMAIN appended' = 1..id
      /\ \A i \in DOMAIN appended : appended'[i] = appended[i]
      /\ appended'[id] = entry
  BY <1>1, <1>2, <1>3, <1>6
<1>8. envelopes' \in Seq(Payloads) /\ Len(envelopes') = id
  BY <1>1, <1>2
<1>9. HistoryType'
  BY <1>7, <1>8 DEF HistoryType
<1>10. event.event_id = id
  BY DEF event
<1>11. EventsType'
  <2>1. events' \in Seq(Range(events'))
    BY <1>4, SeqOfRange
  <2>2. \A k \in DOMAIN events' : events'[k].event_id \in DOMAIN appended'
    <3>1. \A k \in DOMAIN events : events'[k].event_id \in 1..id
      BY <1>2, <1>3, <1>4
    <3>2. events'[Len(events) + 1].event_id = id /\ id \in 1..id
      BY <1>2, <1>4, <1>10
    <3>3. \A k \in DOMAIN events' : k \in DOMAIN events \/ k = Len(events) + 1
      BY <1>2, <1>4
    <3> QED
      BY <1>7, <3>1, <3>2, <3>3
  <2> QED
    BY <2>1, <2>2 DEF EventsType
<1>12. ASSUME ~rewritten, NEW e, e = event PROVE Genuine(e)'
  <2>1. /\ e.event_hash = compute_hash(id, payload, e.previous_hash)
        /\ e.previous_hash = HeadOf(events) /\ e.event_id = id
    BY <1>12 DEF event
  <2>2. appended'[id].payload = payload /\ appended'[id].after = entry.after
    BY <1>5, <1>7
  <2>3. CASE Len(events) = 0
    <3>1. e.previous_hash = GENESIS_HASH /\ entry.after = 0
      BY <1>2, <1>5, <2>1, <2>3 DEF HeadOf
    <3> QED
      BY <2>1, <2>2, <3>1 DEF Genuine, compute_hash
  <2>4. CASE Len(events) # 0
    <3> DEFINE last == events[Len(events)]
    <3>1. Len(events) \in DOMAIN events /\ events # <<>>
      BY <1>2, <2>4
    <3>2. Genuine(last) /\ entry.after = last.event_id /\ entry.after \in 1..Len(appended)
      BY <1>3, <1>5, <1>12, <2>4, <3>1
    <3>3. e.previous_hash = compute_hash(last.event_id, appended[last.event_id].payload, last.previous_hash)
      BY <2>1, <3>1, <3>2 DEF HeadOf, Last, Genuine
    <3>4. e.previous_hash # GENESIS_HASH /\ e.previous_hash[1] = entry.after
      BY <3>2, <3>3 DEF compute_hash, GENESIS_HASH
    <3>5. entry.after # 0
      BY <1>3, <3>2
    <3> QED
      BY <2>1, <2>2, <3>4, <3>5 DEF Genuine, compute_hash
  <2> QED
    BY <2>3, <2>4
<1>13. AllGenuine'
  <2> SUFFICES ASSUME ~rewritten, NEW k \in DOMAIN events' PROVE Genuine(events[k])'
    BY <1>1 DEF AllGenuine
  <2>1. CASE k \in DOMAIN events
    <3>1. Genuine(events[k]) /\ events'[k] = events[k]
      BY <1>3, <1>4, <2>1
    <3>2. appended'[events[k].event_id] = appended[events[k].event_id]
      BY <1>3, <1>7, <2>1
    <3> QED
      BY <3>1, <3>2 DEF Genuine
  <2>2. CASE k = Len(events) + 1
    <3>1. events'[k] = event
      BY <1>4, <2>2
    <3> QED
      BY <1>12, <3>1 DEF Genuine
  <2> QED
    BY <1>2, <1>4, <2>1, <2>2
<1> QED
  BY <1>9, <1>11, <1>13 DEF WrittenInv

(* Taking events out, or putting them elsewhere, adds none. *)
LEMMA FewerEvents ==
  ASSUME WrittenInv, UNCHANGED <<envelopes, appended, rewritten>>,
         events' \in Seq(Range(events))
  PROVE  WrittenInv'
<1>1. \A k \in DOMAIN events' : \E j \in DOMAIN events : events'[k] = events[j]
  BY DEF Range
<1>2. HistoryType'
  BY DEF WrittenInv, HistoryType
<1>3. EventsType'
  <2>1. events' \in Seq(Range(events'))
    BY SeqOfRange
  <2> QED
    BY <1>1, <2>1 DEF WrittenInv, EventsType
<1>4. AllGenuine'
  BY <1>1 DEF WrittenInv, AllGenuine, Genuine
<1> QED
  BY <1>2, <1>3, <1>4 DEF WrittenInv

LEMMA RewriteKeeps ==
  ASSUME WrittenInv, NEW k \in DOMAIN events, Rewrite(k) PROVE WrittenInv'
<1> DEFINE new == Rehashed(events, k)
<1>1. /\ events' = new /\ rewritten' = TRUE /\ UNCHANGED <<envelopes, appended>>
  BY DEF Rewrite, BehindItsBack
<1>2. /\ DOMAIN new = DOMAIN events /\ new \in [DOMAIN events -> Range(new)]
      /\ \A j \in DOMAIN events : new[j].event_id = events[j].event_id
  BY DEF Rehashed, Range
<1> HIDE DEF new
<1>3. DOMAIN events = 1..Len(events) /\ Len(events) \in Nat
  BY DEF WrittenInv, EventsType
<1>4. new \in Seq(Range(new))
  BY <1>2, <1>3, SeqDef
<1> QED
  BY <1>1, <1>2, <1>4 DEF WrittenInv, HistoryType, EventsType, AllGenuine

LEMMA NextWritten == WrittenInv /\ [Next]_vars => WrittenInv'
<1> SUFFICES ASSUME WrittenInv, [Next]_vars PROVE WrittenInv'
  OBVIOUS
<1>1. events \in Seq(Range(events)) /\ DOMAIN events = 1..Len(events) /\ Len(events) \in Nat
  BY DEF WrittenInv, EventsType
<1>2. ASSUME NEW payload \in Payloads, append(payload) PROVE WrittenInv'
  BY <1>2, AppendWrites
<1>3. ASSUME NEW k \in DOMAIN envelopes, NEW payload \in Payloads, Edit(k, payload) PROVE WrittenInv'
  <2>1. /\ envelopes' \in Seq(Payloads) /\ Len(envelopes') = Len(envelopes)
        /\ UNCHANGED <<events, appended, rewritten>>
    <3>1. envelopes \in Seq(Payloads) /\ k \in 1..Len(envelopes)
      BY DEF WrittenInv, HistoryType
    <3> QED
      BY <1>3, <3>1, ExceptSeq DEF Edit, BehindItsBack
  <2> QED
    BY <2>1 DEF WrittenInv, HistoryType, EventsType, AllGenuine, Genuine
<1>4. ASSUME NEW k \in DOMAIN events, Delete(k) PROVE WrittenInv'
  <2>1. RemoveAt(events, k) \in Seq(Range(events))
    BY <1>1, RemoveAtEvents
  <2> QED
    BY <1>4, <2>1, FewerEvents DEF Delete, BehindItsBack
<1>5. ASSUME NEW j \in DOMAIN events, NEW k \in DOMAIN events, Swap(j, k) PROVE WrittenInv'
  <2>1. events[j] \in Range(events) /\ events[k] \in Range(events)
    BY DEF Range
  <2>2. [events EXCEPT ![j] = events[k], ![k] = events[j]] \in Seq(Range(events))
    BY <1>1, <2>1
  <2> QED
    BY <1>5, <2>2, FewerEvents DEF Swap, BehindItsBack
<1>6. CASE UNCHANGED vars
  <2>1. UNCHANGED <<envelopes, events, appended, rewritten>>
    BY <1>6 DEF vars
  <2> QED
    BY <1>1, <2>1, FewerEvents
<1> QED
  BY <1>2, <1>3, <1>4, <1>5, <1>6, RewriteKeeps DEF Next

LEMMA WrittenHolds == Spec => []WrittenInv
BY InitWritten, NextWritten, PTL DEF Spec

(* audit.py:7, for logs of any length and any changes, moves and deletions: *)
(* unless hashes were recomputed, what verifies was appended like that.    *)
THEOREM VerifiedWasWrittenHolds == Spec => []VerifiedWasWritten
<1>1. ASSUME WrittenInv, verify(events), ~rewritten, NEW k \in DOMAIN events
      PROVE  /\ envelopes[events[k].event_id] = appended[events[k].event_id].payload
             /\ Before(events, k) = appended[events[k].event_id].after
  <2> DEFINE e == events[k]
             entry == appended[e.event_id]
  <2>1. Genuine(e)
    BY <1>1 DEF WrittenInv, AllGenuine
  <2>2. /\ e.previous_hash = IF k = 1 THEN GENESIS_HASH ELSE events[k - 1].event_hash
        /\ e.event_hash = compute_hash(e.event_id, envelopes[e.event_id], e.previous_hash)
    BY <1>1 DEF verify
  <2>3. envelopes[e.event_id] = entry.payload
    BY <2>1, <2>2 DEF Genuine, compute_hash
  <2>4. CASE k = 1
    BY <2>1, <2>2, <2>3, <2>4 DEF Genuine, Before
  <2>5. CASE k # 1
    <3>1. k - 1 \in DOMAIN events
      <4>1. k \in 1..Len(events) /\ Len(events) \in Nat /\ DOMAIN events = 1..Len(events)
        BY <1>1 DEF WrittenInv, EventsType
      <4> QED
        BY <2>5, <4>1
    <3>2. Genuine(events[k - 1])
      BY <1>1, <3>1 DEF WrittenInv, AllGenuine
    <3>3. e.previous_hash # GENESIS_HASH /\ e.previous_hash[1] = events[k - 1].event_id
      BY <2>2, <2>5, <3>2 DEF Genuine, compute_hash, GENESIS_HASH
    <3> QED
      BY <2>1, <2>3, <2>5, <3>3 DEF Genuine, Before
  <2> QED
    BY <2>3, <2>4, <2>5
<1>2. WrittenInv => VerifiedWasWritten
  BY <1>1 DEF VerifiedWasWritten
<1> QED
  BY <1>2, WrittenHolds, PTL
-----------------------------------------------------------------------------
(***************************************************************************)
(* What a kept hash pins down: it commits to what was noted with it, the    *)
(* head of a log that verifies commits to what the log says, and no hash    *)
(* commits to two things.                                                  *)
(***************************************************************************)
KeptAll == WrittenInv /\ KeptInv

(* One more event is said, and its hash is the head. *)
LEMMA CommitsExtend ==
  ASSUME NEW head, NEW said, Commits(head, said), NEW id \in Nat, NEW payload \in Payloads
  PROVE  Commits(compute_hash(id, payload, head), Append(said, <<id, payload>>))
<1> DEFINE n == Len(said)
           more == Append(said, <<id, payload>>)
           next == compute_hash(id, payload, head)
<1>1. PICK hash : Chain(hash, said) /\ head = hash[n]
  BY DEF Commits
<1>2. n \in Nat /\ <<id, payload>> \in Nat \X Payloads /\ said \in Seq(Nat \X Payloads)
  BY DEF Commits
<1>3. /\ more \in Seq(Nat \X Payloads) /\ Len(more) = n + 1
      /\ \A i \in 1..n : more[i] = said[i]
      /\ more[n + 1] = <<id, payload>>
  BY <1>2, AppendProperties
<1> DEFINE longer == [i \in 0..n + 1 |-> IF i = n + 1 THEN next ELSE hash[i]]
<1> HIDE DEF more, next, n
<1>4. longer[0] = GENESIS_HASH /\ longer[n + 1] = next
  BY <1>1, <1>2 DEF Chain
<1>5. ASSUME NEW i \in 1..n + 1
      PROVE  longer[i] = compute_hash(more[i][1], more[i][2], longer[i - 1])
  <2>1. CASE i \in 1..n
    <3>1. longer[i] = hash[i] /\ longer[i - 1] = hash[i - 1]
      BY <1>2, <2>1
    <3>2. hash[i] = compute_hash(said[i][1], said[i][2], hash[i - 1])
      BY <1>1, <2>1 DEF Chain, n
    <3> QED
      BY <1>3, <2>1, <3>1, <3>2
  <2>2. CASE i = n + 1
    <3>1. longer[i] = next /\ longer[i - 1] = head
      BY <1>1, <1>2, <2>2
    <3>2. more[i][1] = id /\ more[i][2] = payload
      BY <1>3, <2>2
    <3> QED
      BY <3>1, <3>2 DEF next
  <2> QED
    BY <1>2, <2>1, <2>2
<1> HIDE DEF longer
<1>6. Chain(longer, more)
  BY <1>3, <1>4, <1>5 DEF Chain
<1>7. Commits(next, more)
  BY <1>3, <1>4, <1>6 DEF Commits
<1> QED
  BY <1>7 DEF next, more

HashAt(n) == IF n = 0 THEN GENESIS_HASH ELSE events[n].event_hash

(* The head of a log that verifies commits to what the log says. *)
LEMMA HeadCommits ==
  ASSUME WrittenInv, verify(events)
  PROVE  Commits(HeadOf(events), Said(events))
<1> DEFINE n == Len(events)
           said == Said(events)
           hash == [i \in 0..n |-> HashAt(i)]
<1>1. DOMAIN events = 1..n /\ n \in Nat /\ (events = <<>> <=> n = 0)
  BY DEF WrittenInv, EventsType
<1>2. \A i \in 1..n : events[i].event_id \in Nat /\ envelopes[events[i].event_id] \in Payloads
  <2>1. /\ envelopes \in Seq(Payloads) /\ DOMAIN appended = 1..Len(appended)
        /\ Len(appended) = Len(envelopes) /\ Len(envelopes) \in Nat
        /\ \A i \in DOMAIN events : events[i].event_id \in DOMAIN appended
    BY DEF WrittenInv, EventsType, HistoryType
  <2> QED
    BY <1>1, <2>1
<1>3. \A i \in 1..n : said[i] = <<events[i].event_id, envelopes[events[i].event_id]>>
  BY <1>1 DEF Said
<1>4. said \in Seq(Nat \X Payloads) /\ Len(said) = n
  BY <1>1, <1>2 DEF Said
<1>5. HeadOf(events) = hash[n]
  BY <1>1 DEF HeadOf, HashAt, Last
<1>6. ASSUME NEW i \in 1..n PROVE hash[i] = compute_hash(said[i][1], said[i][2], hash[i - 1])
  <2>1. i \in DOMAIN events /\ i - 1 \in 0..n
    BY <1>1
  <2>2. /\ events[i].event_hash =
              compute_hash(events[i].event_id, envelopes[events[i].event_id], events[i].previous_hash)
        /\ events[i].previous_hash = HashAt(i - 1)
    BY <2>1 DEF verify, HashAt
  <2>3. hash[i] = events[i].event_hash /\ hash[i - 1] = HashAt(i - 1)
    BY <1>1, <2>1 DEF HashAt
  <2> QED
    BY <1>3, <2>2, <2>3
<1>7. hash[0] = GENESIS_HASH
  BY <1>1 DEF HashAt
<1> HIDE DEF hash, said, n
<1>8. Chain(hash, said)
  BY <1>4, <1>6, <1>7 DEF Chain
<1> QED
  BY <1>4, <1>5, <1>8 DEF Commits, said

LEMMA NotGenesis == ASSUME NEW i, NEW p, NEW h PROVE compute_hash(i, p, h) # GENESIS_HASH
BY DEF compute_hash, GENESIS_HASH

LEMMA HashIsOfOne ==
  ASSUME NEW i, NEW p, NEW h, NEW j, NEW q, NEW g, compute_hash(i, p, h) = compute_hash(j, q, g)
  PROVE  i = j /\ p = q /\ h = g
BY DEF compute_hash

(* Back from a common head two chains agree for as long as one of them     *)
(* lasts, so that the other lasts as long.  Induction over the distance     *)
(* from the head as a least counterexample.                                *)
LEMMA ChainsMeet ==
  ASSUME NEW f, NEW g, NEW a, NEW b, Chain(f, a), Chain(g, b),
         Len(a) \in Nat, Len(b) \in Nat, f[Len(a)] = g[Len(b)]
  PROVE  \A j \in 0..Len(a) : j <= Len(b) /\ f[Len(a) - j] = g[Len(b) - j]
<1> DEFINE n == Len(a)
           m == Len(b)
           T == {j \in 0..n : ~(j <= m /\ f[n - j] = g[m - j])}
<1> SUFFICES ASSUME T # {} PROVE FALSE
  OBVIOUS
<1>1. PICK j \in T : \A k \in T : j <= k
  <2>1. T \subseteq Nat
    OBVIOUS
  <2> HIDE DEF T
  <2> QED
    BY <2>1, LeastNat
<1>2. n - 0 = n /\ m - 0 = m
  OBVIOUS
<1>3. j # 0
  BY <1>2
<1>4. j \in 1..n /\ j - 1 \in 0..n /\ j - 1 \notin T
  BY <1>1, <1>3
<1> DEFINE i == n - j + 1
           l == m - j + 1
<1>5. i \in 1..n /\ i - 1 = n - j /\ n - (j - 1) = i /\ m - (j - 1) = l /\ l - 1 = m - j
  BY <1>4
<1>6. j - 1 <= m /\ f[i] = g[l]
  BY <1>4, <1>5
<1>7. f[i] = compute_hash(a[i][1], a[i][2], f[n - j])
  BY <1>5 DEF Chain
<1>8. l # 0
  <2>1. g[0] = GENESIS_HASH
    BY DEF Chain
  <2> HIDE DEF i, l, n
  <2> QED
    BY <1>6, <1>7, <2>1, NotGenesis
<1>9. l \in 1..m /\ j <= m
  BY <1>4, <1>6, <1>8
<1>10. g[l] = compute_hash(b[l][1], b[l][2], g[m - j])
  BY <1>5, <1>9 DEF Chain
<1>11. f[n - j] = g[m - j]
  <2> HIDE DEF i, l, n, m
  <2>1. compute_hash(a[i][1], a[i][2], f[n - j]) = compute_hash(b[l][1], b[l][2], g[m - j])
    BY <1>6, <1>7, <1>10
  <2> QED
    BY <2>1, HashIsOfOne
<1> QED
  BY <1>9, <1>11

(* No hash commits to two things. *)
LEMMA CommitsToOne ==
  ASSUME NEW head, NEW a, NEW b, Commits(head, a), Commits(head, b)
  PROVE  a = b
<1> DEFINE n == Len(a)
<1>1. PICK f : Chain(f, a) /\ head = f[Len(a)]
  BY DEF Commits
<1>2. PICK g : Chain(g, b) /\ head = g[Len(b)]
  BY DEF Commits
<1>3. a \in Seq(Nat \X Payloads) /\ b \in Seq(Nat \X Payloads) /\ Len(a) \in Nat /\ Len(b) \in Nat
  BY DEF Commits
<1>4. Chain(f, a) /\ Chain(g, b) /\ f[Len(a)] = g[Len(b)]
  BY <1>1, <1>2
<1>5. \A j \in 0..Len(a) : j <= Len(b) /\ f[Len(a) - j] = g[Len(b) - j]
  <2> TAKE j \in 0..Len(a)
  <2> QED
    BY <1>3, <1>4, ChainsMeet
<1>6. \A j \in 0..Len(b) : j <= Len(a) /\ g[Len(b) - j] = f[Len(a) - j]
  <2> TAKE j \in 0..Len(b)
  <2> QED
    BY <1>3, <1>4, ChainsMeet
<1>7. Len(b) = n
  <2>1. Len(a) \in 0..Len(a) /\ Len(b) \in 0..Len(b)
    BY <1>3
  <2>2. Len(a) <= Len(b) /\ Len(b) <= Len(a)
    BY <1>5, <1>6, <2>1
  <2> QED
    BY <1>3, <2>2
<1>8. \A i \in 0..n : f[i] = g[i]
  <2> TAKE i \in 0..n
  <2>1. n - i \in 0..n /\ n - (n - i) = i
    BY <1>3
  <2> QED
    BY <1>5, <1>7, <2>1
<1>9. ASSUME NEW i \in 1..n PROVE a[i] = b[i]
  <2>1. f[i] = compute_hash(a[i][1], a[i][2], f[i - 1])
    BY <1>1 DEF Chain
  <2>2. g[i] = compute_hash(b[i][1], b[i][2], g[i - 1])
    BY <1>2, <1>7 DEF Chain
  <2>3. f[i] = g[i]
    BY <1>3, <1>8
  <2>4. a[i][1] = b[i][1] /\ a[i][2] = b[i][2]
    <3>1. compute_hash(a[i][1], a[i][2], f[i - 1]) = compute_hash(b[i][1], b[i][2], g[i - 1])
      BY <2>1, <2>2, <2>3
    <3> QED
      BY <3>1, HashIsOfOne
  <2>5. a[i] \in Nat \X Payloads /\ b[i] \in Nat \X Payloads
    BY <1>3, <1>7, ElementOfSeq
  <2> QED
    BY <2>4, <2>5
<1> QED
  BY <1>3, <1>7, <1>9, SeqEqual

LEMMA NextKept == KeptAll /\ [Next]_vars => KeptAll'
<1> SUFFICES ASSUME KeptAll, [Next]_vars PROVE KeptInv'
  BY NextWritten DEF KeptAll
<1>1. CASE UNCHANGED kept
  BY <1>1 DEF KeptAll, KeptInv, Commits, Chain, compute_hash, GENESIS_HASH
<1>2. ASSUME NEW payload \in Payloads, append(payload) PROVE KeptInv'
  <2> DEFINE id == Len(envelopes) + 1
             head == compute_hash(id, payload, HeadOf(events))
             noted == {[head |-> head, contents |-> Append(said, <<id, payload>>)] : said \in HeadSays}
  <2>1. kept' = kept \cup noted /\ id \in Nat
    BY <1>2 DEF append, KeptAll, WrittenInv, HistoryType
  <2>2. ASSUME NEW said \in HeadSays PROVE Commits(HeadOf(events), said)
    BY <2>2, HeadCommits DEF HeadSays, KeptAll, KeptInv
  <2>3. ASSUME NEW log \in noted PROVE Commits(log.head, log.contents)
    <3>1. PICK said \in HeadSays : log.head = head /\ log.contents = Append(said, <<id, payload>>)
      OBVIOUS
    <3>2. Commits(HeadOf(events), said)
      BY <2>2
    <3> HIDE DEF id
    <3>3. Commits(head, Append(said, <<id, payload>>))
      BY <2>1, <3>2, CommitsExtend
    <3> QED
      BY <3>1, <3>3
  <2> HIDE DEF noted
  <2>4. \A log \in kept' : Commits(log.head, log.contents)
    BY <2>1, <2>3 DEF KeptAll, KeptInv
  <2> QED
    BY <2>4 DEF KeptInv, Commits, Chain, compute_hash, GENESIS_HASH
<1>3. CASE \/ \E k \in DOMAIN envelopes, payload \in Payloads : Edit(k, payload)
           \/ \E k \in DOMAIN events : Delete(k) \/ Rewrite(k)
           \/ \E j, k \in DOMAIN events : j < k /\ Swap(j, k)
  BY <1>1, <1>3 DEF Edit, Delete, Rewrite, Swap, BehindItsBack
<1> QED
  BY <1>1, <1>2, <1>3 DEF Next, vars

LEMMA KeptHolds == Spec => []KeptAll
<1>1. Init => KeptAll
  <2> SUFFICES ASSUME Init PROVE KeptInv
    BY InitWritten DEF KeptAll
  <2>1. kept = {[head |-> GENESIS_HASH, contents |-> <<>>]}
    BY DEF Init
  <2> DEFINE hash == [i \in {0} |-> GENESIS_HASH]
  <2>2. Chain(hash, <<>>) /\ hash[Len(<<>>)] = GENESIS_HASH
    BY DEF Chain
  <2>3. Commits(GENESIS_HASH, <<>>)
    <3> HIDE DEF hash
    <3> QED
      BY <2>2 DEF Commits
  <2> QED
    BY <2>1, <2>3 DEF KeptInv
<1> QED
  BY <1>1, NextKept, PTL DEF Spec

(* audit.py:13, for logs of any length and any changes, rewritings of the   *)
(* hashes among them: a log that verifies and ends in a hash that append()  *)
(* returned says what the log said then.                                   *)
THEOREM HeadPinsLogHolds == Spec => []HeadPinsLog
<1>1. KeptAll => HeadPinsLog
  BY HeadCommits, CommitsToOne DEF KeptAll, KeptInv, HeadPinsLog
<1> QED
  BY <1>1, KeptHolds, PTL
=============================================================================
