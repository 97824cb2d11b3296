------------------------- MODULE FsTransportProofs -------------------------
(***************************************************************************)
(* Proofs about FsTransport, for any number of processes, agents and        *)
(* messages, whoever dies and whichever writes fail, as long as at most one *)
(* process recovers abandoned claims: the claim files implement MessageLock *)
(* and no claim is left without an owner.                                  *)
(*                                                                         *)
(* The lock says who acts; the claim file is taken before that and given up *)
(* after it.  The invariant says to whom the file belongs at every step in  *)
(* between, and that a claim under recovery is that of a dead process,      *)
(* which is what two recoverers would break.                               *)
(***************************************************************************)
EXTENDS FsTransport, TLAPS

OneRecoverer == \A r, s \in Recoverers : r = s

Stamping == {"stamping", "unstamping"}
Owning == {"rechecking", "withdrawing", "acting", "completing", "recording", "unrecording",
           "unlinking"}
Releasing == {"releasing?", "releasing"}
PLACES == {"idle", "reading", "creating", "dead"} \cup Stamping \cup Owning \cup Releasing

TypeOK ==
  /\ DOMAIN inbox = Messages
  /\ claimed \in [Messages -> Procs \cup {Blank, None}]
  /\ done \in [Messages -> BOOLEAN]
  /\ pc \in [Procs -> PLACES]
  /\ DOMAIN msg = Procs
  /\ \A p \in Procs : pc[p] \notin {"idle", "dead"} => msg[p] \in Messages
  /\ seen \in [Procs -> SUBSET Messages]

(* Whose the claim file is, and that it is the receiver's. *)
OwnsClaim(p) ==
  /\ pc[p] = "stamping" => claimed[msg[p]] = Blank
  /\ pc[p] = "unstamping" => claimed[msg[p]] \in {Blank, p}
  /\ pc[p] \in Stamping =>
       \A q \in Procs : pc[q] \in Stamping /\ msg[q] = msg[p] => q = p
  /\ pc[p] \in {"creating"} \cup Stamping \cup Owning => AgentOf[p] = To[msg[p]]
  /\ pc[p] \in Owning => claimed[msg[p]] = p
  /\ pc[p] \in Releasing =>
       claimed[msg[p]] = p \/ (p \in Recoverers /\ Abandoned(msg[p]))
  /\ pc[p] \in Recording => done[msg[p]]

(* Where the owner of a claim file is. *)
HasOwner(m) ==
  /\ claimed[m] = Blank => \E p \in Procs : msg[p] = m /\ pc[p] \in Stamping \cup {"dead"}
  /\ claimed[m] \in Procs /\ ~done[m] =>
       /\ msg[claimed[m]] = m
       /\ pc[claimed[m]] \notin {"idle", "reading", "creating"}

IInv ==
  /\ TypeOK
  /\ \A p \in Procs : OwnsClaim(p)
  /\ \A m \in Messages : HasOwner(m)
-----------------------------------------------------------------------------
USE DEF Stamping, Owning, Releasing, Recording, PLACES, Goto, files, bounds

LEMMA SendCreateOK == ASSUME IInv, NEW m \in Messages, SendCreate(m) PROVE IInv'
<1>1. TypeOK'
  BY DEF IInv, TypeOK, SendCreate
<1>2. ASSUME NEW q \in Procs PROVE OwnsClaim(q)'
  BY <1>2, TransportAssumption DEF IInv, TypeOK, OwnsClaim, Abandoned, SendCreate
<1>3. ASSUME NEW k \in Messages PROVE HasOwner(k)'
  BY <1>3, TransportAssumption DEF IInv, TypeOK, OwnsClaim, Abandoned, HasOwner, SendCreate
<1> QED
  BY <1>1, <1>2, <1>3 DEF IInv

LEMMA SendWriteOK == ASSUME IInv, NEW m \in Messages, SendWrite(m) PROVE IInv'
<1>1. TypeOK'
  BY DEF IInv, TypeOK, SendWrite
<1>2. ASSUME NEW q \in Procs PROVE OwnsClaim(q)'
  BY <1>2, TransportAssumption DEF IInv, TypeOK, OwnsClaim, Abandoned, SendWrite
<1>3. ASSUME NEW k \in Messages PROVE HasOwner(k)'
  BY <1>3, TransportAssumption DEF IInv, TypeOK, OwnsClaim, Abandoned, HasOwner, SendWrite
<1> QED
  BY <1>1, <1>2, <1>3 DEF IInv

LEMMA SendFailsOK == ASSUME IInv, NEW m \in Messages, SendFails(m) PROVE IInv'
<1>1. TypeOK'
  BY DEF IInv, TypeOK, SendFails
<1>2. ASSUME NEW q \in Procs PROVE OwnsClaim(q)'
  BY <1>2, TransportAssumption DEF IInv, TypeOK, OwnsClaim, Abandoned, SendFails
<1>3. ASSUME NEW k \in Messages PROVE HasOwner(k)'
  BY <1>3, TransportAssumption DEF IInv, TypeOK, OwnsClaim, Abandoned, HasOwner, SendFails
<1> QED
  BY <1>1, <1>2, <1>3 DEF IInv

LEMMA SendUnlinkOK == ASSUME IInv, NEW m \in Messages, SendUnlink(m) PROVE IInv'
<1>1. TypeOK'
  BY DEF IInv, TypeOK, SendUnlink
<1>2. ASSUME NEW q \in Procs PROVE OwnsClaim(q)'
  BY <1>2, TransportAssumption DEF IInv, TypeOK, OwnsClaim, Abandoned, SendUnlink
<1>3. ASSUME NEW k \in Messages PROVE HasOwner(k)'
  BY <1>3, TransportAssumption DEF IInv, TypeOK, OwnsClaim, Abandoned, HasOwner, SendUnlink
<1> QED
  BY <1>1, <1>2, <1>3 DEF IInv

LEMMA SenderDiesOK == ASSUME IInv, NEW m \in Messages, SenderDies(m) PROVE IInv'
<1>1. TypeOK'
  BY DEF IInv, TypeOK, SenderDies
<1>2. ASSUME NEW q \in Procs PROVE OwnsClaim(q)'
  BY <1>2, TransportAssumption DEF IInv, TypeOK, OwnsClaim, Abandoned, SenderDies
<1>3. ASSUME NEW k \in Messages PROVE HasOwner(k)'
  BY <1>3, TransportAssumption DEF IInv, TypeOK, OwnsClaim, Abandoned, HasOwner, SenderDies
<1> QED
  BY <1>1, <1>2, <1>3 DEF IInv

LEMMA PollOK == ASSUME IInv, NEW p \in Procs, Poll(p) PROVE IInv'
<1>1. TypeOK'
  <2>1. Listed(p) \in SUBSET Messages
    BY DEF Listed
  <2> QED
    BY <2>1 DEF IInv, TypeOK, Poll
<1>2. ASSUME NEW q \in Procs PROVE OwnsClaim(q)'
  BY <1>2, TransportAssumption DEF IInv, TypeOK, OwnsClaim, Abandoned, Poll
<1>3. ASSUME NEW k \in Messages PROVE HasOwner(k)'
  BY <1>3, TransportAssumption DEF IInv, TypeOK, OwnsClaim, Abandoned, HasOwner, Poll
<1> QED
  BY <1>1, <1>2, <1>3 DEF IInv

LEMMA ClaimCheckOK == ASSUME IInv, NEW p \in Procs, NEW m \in Messages, ClaimCheck(p, m) PROVE IInv'
<1>1. TypeOK'
  BY DEF IInv, TypeOK, ClaimCheck
<1>2. ASSUME NEW q \in Procs PROVE OwnsClaim(q)'
  BY <1>2, TransportAssumption DEF IInv, TypeOK, OwnsClaim, Abandoned, ClaimCheck
<1>3. ASSUME NEW k \in Messages PROVE HasOwner(k)'
  BY <1>3, TransportAssumption DEF IInv, TypeOK, OwnsClaim, Abandoned, HasOwner, ClaimCheck
<1> QED
  BY <1>1, <1>2, <1>3 DEF IInv

LEMMA ClaimReadOK == ASSUME IInv, NEW p \in Procs, ClaimRead(p) PROVE IInv'
<1>1. TypeOK'
  BY DEF IInv, TypeOK, ClaimRead
<1>2. ASSUME NEW q \in Procs PROVE OwnsClaim(q)'
  BY <1>2, TransportAssumption DEF IInv, TypeOK, OwnsClaim, Abandoned, ClaimRead
<1>3. ASSUME NEW k \in Messages PROVE HasOwner(k)'
  BY <1>3, TransportAssumption DEF IInv, TypeOK, OwnsClaim, Abandoned, HasOwner, ClaimRead
<1> QED
  BY <1>1, <1>2, <1>3 DEF IInv

LEMMA ClaimCreateOK == ASSUME IInv, NEW p \in Procs, ClaimCreate(p) PROVE IInv'
<1>1. TypeOK'
  BY DEF IInv, TypeOK, ClaimCreate
<1>2. ASSUME NEW q \in Procs PROVE OwnsClaim(q)'
  BY <1>2, TransportAssumption DEF IInv, TypeOK, OwnsClaim, Abandoned, ClaimCreate
<1>3. ASSUME NEW k \in Messages PROVE HasOwner(k)'
  BY <1>3, TransportAssumption DEF IInv, TypeOK, OwnsClaim, Abandoned, HasOwner, ClaimCreate
<1> QED
  BY <1>1, <1>2, <1>3 DEF IInv

LEMMA ClaimWriteOK == ASSUME IInv, NEW p \in Procs, ClaimWrite(p) PROVE IInv'
<1>1. TypeOK'
  BY DEF IInv, TypeOK, ClaimWrite
<1>2. ASSUME NEW q \in Procs PROVE OwnsClaim(q)'
  BY <1>2, TransportAssumption DEF IInv, TypeOK, OwnsClaim, Abandoned, ClaimWrite
<1>3. ASSUME NEW k \in Messages PROVE HasOwner(k)'
  BY <1>3, TransportAssumption DEF IInv, TypeOK, OwnsClaim, Abandoned, HasOwner, ClaimWrite
<1> QED
  BY <1>1, <1>2, <1>3 DEF IInv

LEMMA ClaimRecheckOK == ASSUME IInv, NEW p \in Procs, ClaimRecheck(p) PROVE IInv'
<1>1. TypeOK'
  BY DEF IInv, TypeOK, ClaimRecheck
<1>2. ASSUME NEW q \in Procs PROVE OwnsClaim(q)'
  BY <1>2, TransportAssumption DEF IInv, TypeOK, OwnsClaim, Abandoned, ClaimRecheck
<1>3. ASSUME NEW k \in Messages PROVE HasOwner(k)'
  BY <1>3, TransportAssumption DEF IInv, TypeOK, OwnsClaim, Abandoned, HasOwner, ClaimRecheck
<1> QED
  BY <1>1, <1>2, <1>3 DEF IInv

LEMMA CompleteCheckOK == ASSUME IInv, NEW p \in Procs, CompleteCheck(p) PROVE IInv'
<1>1. TypeOK'
  BY DEF IInv, TypeOK, CompleteCheck
<1>2. ASSUME NEW q \in Procs PROVE OwnsClaim(q)'
  BY <1>2, TransportAssumption DEF IInv, TypeOK, OwnsClaim, Abandoned, CompleteCheck
<1>3. ASSUME NEW k \in Messages PROVE HasOwner(k)'
  BY <1>3, TransportAssumption DEF IInv, TypeOK, OwnsClaim, Abandoned, HasOwner, CompleteCheck
<1> QED
  BY <1>1, <1>2, <1>3 DEF IInv

LEMMA CompleteCreateOK == ASSUME IInv, NEW p \in Procs, CompleteCreate(p) PROVE IInv'
<1>1. TypeOK'
  BY DEF IInv, TypeOK, CompleteCreate
<1>2. ASSUME NEW q \in Procs PROVE OwnsClaim(q)'
  BY <1>2, TransportAssumption DEF IInv, TypeOK, OwnsClaim, Abandoned, CompleteCreate
<1>3. ASSUME NEW k \in Messages PROVE HasOwner(k)'
  BY <1>3, TransportAssumption DEF IInv, TypeOK, OwnsClaim, Abandoned, HasOwner, CompleteCreate
<1> QED
  BY <1>1, <1>2, <1>3 DEF IInv

LEMMA CompleteWriteOK == ASSUME IInv, NEW p \in Procs, CompleteWrite(p) PROVE IInv'
<1>1. TypeOK'
  BY DEF IInv, TypeOK, CompleteWrite
<1>2. ASSUME NEW q \in Procs PROVE OwnsClaim(q)'
  BY <1>2, TransportAssumption DEF IInv, TypeOK, OwnsClaim, Abandoned, CompleteWrite
<1>3. ASSUME NEW k \in Messages PROVE HasOwner(k)'
  BY <1>3, TransportAssumption DEF IInv, TypeOK, OwnsClaim, Abandoned, HasOwner, CompleteWrite
<1> QED
  BY <1>1, <1>2, <1>3 DEF IInv

LEMMA CompleteUnlinkOK == ASSUME IInv, NEW p \in Procs, CompleteUnlink(p) PROVE IInv'
<1>1. TypeOK'
  BY DEF IInv, TypeOK, CompleteUnlink
<1>2. ASSUME NEW q \in Procs PROVE OwnsClaim(q)'
  BY <1>2, TransportAssumption DEF IInv, TypeOK, OwnsClaim, Abandoned, CompleteUnlink
<1>3. ASSUME NEW k \in Messages PROVE HasOwner(k)'
  BY <1>3, TransportAssumption DEF IInv, TypeOK, OwnsClaim, Abandoned, HasOwner, CompleteUnlink
<1> QED
  BY <1>1, <1>2, <1>3 DEF IInv

LEMMA UnlinkOK == ASSUME IInv, NEW p \in Procs, OneRecoverer, Unlink(p) PROVE IInv'
<1>1. TypeOK'
  BY DEF IInv, TypeOK, Unlink, Unlinking
<1>2. ASSUME NEW q \in Procs PROVE OwnsClaim(q)'
  <2>2. CASE q = p
    BY <2>2 DEF IInv, TypeOK, OwnsClaim, Unlink, Unlinking
  <2>3. CASE q # p /\ msg[q] # msg[p]
    BY <1>2, <2>3, TransportAssumption DEF IInv, TypeOK, OwnsClaim, Abandoned, Unlink, Unlinking
  <2>4. CASE q # p /\ msg[q] = msg[p]
    <3>1. /\ \/ claimed[msg[p]] = p
             \/ claimed[msg[p]] = Blank /\ pc[p] \in Stamping
             \/ p \in Recoverers /\ Abandoned(msg[p])
          /\ pc[p] # "dead" /\ p \in Procs
      BY DEF IInv, OwnsClaim, Unlink, Unlinking
    <3>2. pc[q] \notin Stamping \cup Owning \cup Releasing
      BY <1>2, <2>4, <3>1, TransportAssumption DEF IInv, OwnsClaim, Abandoned, OneRecoverer
    <3> QED
      BY <1>2, <2>4, <3>2 DEF IInv, TypeOK, OwnsClaim, Unlink, Unlinking
  <2> QED
    BY <2>2, <2>3, <2>4
<1>3. ASSUME NEW k \in Messages PROVE HasOwner(k)'
  BY <1>3, TransportAssumption DEF IInv, TypeOK, OwnsClaim, Abandoned, HasOwner, Unlink, Unlinking
<1> QED
  BY <1>1, <1>2, <1>3 DEF IInv

LEMMA ReleaseOK == ASSUME IInv, NEW p \in Procs, Release(p) PROVE IInv'
<1>1. TypeOK'
  BY DEF IInv, TypeOK, Release
<1>2. ASSUME NEW q \in Procs PROVE OwnsClaim(q)'
  BY <1>2, TransportAssumption DEF IInv, TypeOK, OwnsClaim, Abandoned, Release
<1>3. ASSUME NEW k \in Messages PROVE HasOwner(k)'
  BY <1>3, TransportAssumption DEF IInv, TypeOK, OwnsClaim, Abandoned, HasOwner, Release
<1> QED
  BY <1>1, <1>2, <1>3 DEF IInv

LEMMA RecoverOK == ASSUME IInv, NEW p \in Recoverers, NEW m \in Messages, Recover(p, m) PROVE IInv'
<1>1. TypeOK'
  BY DEF IInv, TypeOK, Recover
<1>2. ASSUME NEW q \in Procs PROVE OwnsClaim(q)'
  BY <1>2, TransportAssumption DEF IInv, TypeOK, OwnsClaim, Abandoned, Recover
<1>3. ASSUME NEW k \in Messages PROVE HasOwner(k)'
  BY <1>3, TransportAssumption DEF IInv, TypeOK, OwnsClaim, Abandoned, HasOwner, Recover
<1> QED
  BY <1>1, <1>2, <1>3 DEF IInv

LEMMA ReleaseCheckOK == ASSUME IInv, NEW p \in Procs, ReleaseCheck(p) PROVE IInv'
<1>1. TypeOK'
  BY DEF IInv, TypeOK, ReleaseCheck
<1>2. ASSUME NEW q \in Procs PROVE OwnsClaim(q)'
  BY <1>2, TransportAssumption DEF IInv, TypeOK, OwnsClaim, Abandoned, ReleaseCheck
<1>3. ASSUME NEW k \in Messages PROVE HasOwner(k)'
  BY <1>3, TransportAssumption DEF IInv, TypeOK, OwnsClaim, Abandoned, HasOwner, ReleaseCheck
<1> QED
  BY <1>1, <1>2, <1>3 DEF IInv

LEMMA DieOK == ASSUME IInv, NEW p \in Procs, Die(p) PROVE IInv'
<1>1. TypeOK'
  BY DEF IInv, TypeOK, Die
<1>2. ASSUME NEW q \in Procs PROVE OwnsClaim(q)'
  BY <1>2, TransportAssumption DEF IInv, TypeOK, OwnsClaim, Abandoned, Die
<1>3. ASSUME NEW k \in Messages PROVE HasOwner(k)'
  BY <1>3, TransportAssumption DEF IInv, TypeOK, OwnsClaim, Abandoned, HasOwner, Die
<1> QED
  BY <1>1, <1>2, <1>3 DEF IInv

LEMMA InitOK == ASSUME Init PROVE IInv
BY TransportAssumption DEF Init, IInv, TypeOK, OwnsClaim, HasOwner

LEMMA StutterOK == ASSUME IInv, UNCHANGED vars PROVE IInv'
BY DEF vars, IInv, TypeOK, OwnsClaim, HasOwner, Abandoned

LEMMA NextOK == ASSUME OneRecoverer, IInv, [Next]_vars PROVE IInv'
<1>1. ASSUME NEW m \in Messages, SendCreate(m) \/ SendWrite(m) \/ SendFails(m) \/ SendUnlink(m) \/ SenderDies(m)
      PROVE  IInv'
  BY <1>1, SendCreateOK, SendWriteOK, SendFailsOK, SendUnlinkOK, SenderDiesOK
<1>2. ASSUME NEW p \in Procs, Step(p) \/ Release(p) \/ Die(p) PROVE IInv'
  BY <1>2, PollOK, ClaimCheckOK, ClaimReadOK, ClaimCreateOK, ClaimWriteOK, ClaimRecheckOK,
     CompleteCheckOK, CompleteCreateOK, CompleteWriteOK, CompleteUnlinkOK, UnlinkOK, ReleaseOK,
     ReleaseCheckOK, DieOK DEF Step
<1>3. ASSUME NEW r \in Recoverers, NEW m \in Messages, Recover(r, m) PROVE IInv'
  BY <1>3, RecoverOK
<1> QED
  BY <1>1, <1>2, <1>3, StutterOK DEF Next

(* With at most one process that recovers abandoned claims, a claim file    *)
(* belongs to who is between taking and giving up the message, or is dead.  *)
THEOREM InvariantHolds == ASSUME OneRecoverer PROVE Spec => []IInv
<1>1. Init => IInv
  BY InitOK
<1>2. IInv /\ [Next]_vars => IInv'
  BY NextOK
<1> QED
  BY <1>1, <1>2, PTL DEF Spec

(* The claim of an unfinished message is never left behind by a process     *)
(* that went on: whoever may act on the message has not forgotten it.       *)
THEOREM ClaimHasOwnerHolds == ASSUME OneRecoverer PROVE Spec => []ClaimHasOwner
<1>1. IInv => ClaimHasOwner
  BY TransportAssumption DEF IInv, TypeOK, HasOwner, ClaimHasOwner
<1> QED
  BY <1>1, InvariantHolds, PTL
-----------------------------------------------------------------------------
(* The refinement.  Only p moves in a step of p. *)

Heldby == [m \in Messages |-> Holders(m)]

OnlyMoves(p) == \A q \in Procs \ {p} : pc'[q] = pc[q] /\ msg'[q] = msg[q]

LEMMA HoldersMove ==
  ASSUME NEW p \in Procs, OnlyMoves(p), NEW m
  PROVE  Holders(m)' = (Holders(m) \ {p}) \cup (IF msg'[p] = m /\ pc'[p] \in Acting THEN {p} ELSE {})
BY DEF Holders, OnlyMoves

(* The holder of m, and nobody else, drops out. *)
LEMMA HoldersDrop ==
  ASSUME IInv, NEW p \in Procs, OnlyMoves(p), pc[p] \in Acting, pc'[p] \notin Acting
  PROVE  /\ msg[p] \in Messages
         /\ p \in Heldby[msg[p]]
         /\ Heldby' = [Heldby EXCEPT ![msg[p]] = @ \ {p}]
<1>1. msg[p] \in Messages
  BY DEF IInv, TypeOK, Acting
<1>2. p \in Heldby[msg[p]]
  BY <1>1 DEF Heldby, Holders
<1>3. ASSUME NEW m \in Messages
      PROVE  Holders(m)' = IF m = msg[p] THEN Holders(m) \ {p} ELSE Holders(m)
  BY HoldersMove DEF Holders
<1>4. Heldby' = [m \in Messages |-> IF m = msg[p] THEN Holders(m) \ {p} ELSE Holders(m)]
  BY <1>3 DEF Heldby
<1> QED
  BY <1>1, <1>2, <1>4 DEF Heldby

LEMMA HoldersStay ==
  ASSUME NEW p \in Procs, OnlyMoves(p),
         pc[p] \in Acting <=> pc'[p] \in Acting, pc[p] \in Acting => msg'[p] = msg[p]
  PROVE  UNCHANGED Heldby
<1>1. ASSUME NEW m \in Messages PROVE Holders(m)' = Holders(m)
  BY HoldersMove DEF Holders
<1> QED
  BY <1>1 DEF Heldby

LEMMA FinishedStays ==
  ASSUME NEW p \in Procs, OnlyMoves(p), UNCHANGED done,
         pc[p] \in Recording <=> pc'[p] \in Recording, pc[p] \in Recording => msg'[p] = msg[p]
  PROVE  UNCHANGED Finished
BY DEF Finished, OnlyMoves

(* What a process is recording is nobody else's. *)
LEMMA RecordsAlone ==
  ASSUME IInv, NEW p \in Procs, NEW q \in Procs, pc[p] \in Owning, pc[q] \in Owning, msg[p] = msg[q]
  PROVE  p = q
BY DEF IInv, OwnsClaim

Lockstep == [Lock!LockNext]_<<Heldby, Finished>>

LEMMA SilentOK ==
  ASSUME NEW p \in Procs, OnlyMoves(p), UNCHANGED done,
         pc[p] \notin Acting, pc'[p] \notin Acting
  PROVE  UNCHANGED <<Heldby, Finished>>
<1>1. UNCHANGED Heldby
  BY HoldersStay
<1>2. UNCHANGED Finished
  BY FinishedStays DEF Acting
<1> QED
  BY <1>1, <1>2

LEMMA ClaimRecheckLocks == ASSUME IInv, NEW p \in Procs, ClaimRecheck(p) PROVE Lockstep
<1>1. OnlyMoves(p) /\ UNCHANGED done /\ msg'[p] = msg[p] /\ msg[p] \in Messages
      /\ pc[p] = "rechecking" /\ pc'[p] = IF done[msg[p]] THEN "withdrawing" ELSE "acting"
  BY DEF ClaimRecheck, IInv, TypeOK, OnlyMoves
<1>2. CASE pc'[p] = "withdrawing"
  BY <1>1, <1>2, SilentOK DEF Lockstep, Acting
<1>3. CASE pc'[p] = "acting"
  <2>1. ~done[msg[p]] /\ AgentOf[p] = To[msg[p]]
    BY <1>1, <1>3 DEF IInv, OwnsClaim
  <2>2. msg[p] \notin Finished
    BY <2>1 DEF Finished
  <2>3. Holders(msg[p]) = {}
    BY <1>1, RecordsAlone DEF Holders, Acting
  <2>4. UNCHANGED Finished
    BY <1>1, <1>3, FinishedStays
  <2>5. ASSUME NEW m \in Messages
        PROVE  Holders(m)' = IF m = msg[p] THEN {p} ELSE Holders(m)
    <3>1. p \notin Holders(m)
      BY <1>1 DEF Holders, Acting
    <3>2. Holders(m)' = (Holders(m) \ {p}) \cup (IF msg'[p] = m /\ pc'[p] \in Acting THEN {p} ELSE {})
      BY <1>1, HoldersMove
    <3> QED
      BY <1>1, <1>3, <2>3, <3>1, <3>2 DEF Acting
  <2>6. Heldby' = [m \in Messages |-> IF m = msg[p] THEN {p} ELSE Holders(m)]
    BY <2>5 DEF Heldby
  <2>7. Heldby' = [Heldby EXCEPT ![msg[p]] = {p}] /\ Heldby[msg[p]] = {}
    BY <1>1, <2>3, <2>6 DEF Heldby
  <2>8. Lock!Acquire(p, msg[p])
    BY <1>1, <2>1, <2>2, <2>4, <2>7 DEF Lock!Acquire, Heldby
  <2> QED
    BY <1>1, <2>8 DEF Lockstep, Lock!LockNext
<1> QED
  BY <1>1, <1>2, <1>3

(* A holder that stops acting without a done file of its own. *)
LEMMA DropLocks ==
  ASSUME IInv, NEW p \in Procs, OnlyMoves(p), pc[p] \in {"acting", "completing"},
         pc'[p] \notin Acting, UNCHANGED done
  PROVE  Lockstep
<1>1. msg[p] \in Messages /\ p \in Heldby[msg[p]]
      /\ Heldby' = [Heldby EXCEPT ![msg[p]] = @ \ {p}]
  BY HoldersDrop DEF Acting
<1>2. UNCHANGED Finished
  BY FinishedStays DEF Acting
<1>3. Lock!Drop(p, msg[p])
  BY <1>1, <1>2 DEF Lock!Drop, Heldby
<1> QED
  BY <1>1, <1>3 DEF Lockstep, Lock!LockNext

(* A holder that stops acting with its done file in place. *)
LEMMA ConcludeLocks ==
  ASSUME IInv, NEW p \in Procs, OnlyMoves(p), pc[p] \in Recording, pc'[p] \notin Acting,
         UNCHANGED done
  PROVE  Lockstep
<1>1. msg[p] \in Messages /\ p \in Heldby[msg[p]]
      /\ Heldby' = [Heldby EXCEPT ![msg[p]] = @ \ {p}]
  BY HoldersDrop DEF Acting
<1>2. Finished' = Finished \cup {msg[p]}
  <2>1. done[msg[p]]
    BY DEF IInv, OwnsClaim
  <2>2. ASSUME NEW m \in Messages PROVE m \in Finished' <=> m \in Finished \/ m = msg[p]
    <3>1. CASE m = msg[p]
      <4>1. \A q \in Procs : ~(msg'[q] = m /\ pc'[q] \in Recording)
        BY <3>1, RecordsAlone DEF OnlyMoves, Acting
      <4> QED
        BY <2>1, <3>1, <4>1 DEF Finished
    <3>2. CASE m # msg[p]
      <4>1. pc'[p] \notin Recording
        BY DEF Acting
      <4> QED
        BY <3>2, <4>1 DEF Finished, OnlyMoves
    <3> QED
      BY <3>1, <3>2
  <2>3. Finished' \subseteq Messages /\ Finished \subseteq Messages
    BY DEF Finished
  <2> QED
    BY <1>1, <2>2, <2>3
<1>3. Lock!Conclude(p, msg[p])
  BY <1>1, <1>2 DEF Lock!Conclude, Heldby
<1> QED
  BY <1>1, <1>3 DEF Lockstep, Lock!LockNext

LEMMA CompleteCreateLocks == ASSUME IInv, NEW p \in Procs, CompleteCreate(p) PROVE Lockstep
<1>1. OnlyMoves(p) /\ msg'[p] = msg[p] /\ msg[p] \in Messages
      /\ pc[p] = "completing" /\ done' = [done EXCEPT ![msg[p]] = TRUE]
      /\ pc'[p] = IF done[msg[p]] THEN "idle" ELSE "recording"
  BY DEF CompleteCreate, IInv, TypeOK, OnlyMoves
<1>2. CASE done[msg[p]]
  <2>1. done' = done
    BY <1>1, <1>2 DEF IInv, TypeOK
  <2> QED
    BY <1>1, <1>2, <2>1, DropLocks DEF Acting
<1>3. CASE ~done[msg[p]]
  <2>1. UNCHANGED Heldby
    BY <1>1, <1>3, HoldersStay DEF Acting
  <2>2. ASSUME NEW m \in Messages PROVE m \in Finished' <=> m \in Finished
    <3>1. CASE m = msg[p]
      BY <1>1, <1>3, <3>1 DEF Finished
    <3>2. CASE m # msg[p]
      <4>1. done'[m] = done[m]
        BY <1>1, <3>2 DEF IInv, TypeOK
      <4> QED
        BY <1>1, <3>2, <4>1 DEF Finished, OnlyMoves
    <3> QED
      BY <3>1, <3>2
  <2>3. Finished' = Finished
    BY <2>2 DEF Finished
  <2> QED
    BY <2>1, <2>3 DEF Lockstep
<1> QED
  BY <1>2, <1>3

LEMMA CompleteWriteLocks == ASSUME IInv, NEW p \in Procs, CompleteWrite(p) PROVE Lockstep
<1>1. OnlyMoves(p) /\ msg'[p] = msg[p] /\ UNCHANGED done /\ pc[p] = "recording"
      /\ pc'[p] \in {"unlinking", "unrecording"}
  BY DEF CompleteWrite, IInv, TypeOK, OnlyMoves
<1>2. CASE pc'[p] = "unlinking"
  BY <1>1, <1>2, ConcludeLocks DEF Acting
<1>3. CASE pc'[p] = "unrecording"
  <2>1. UNCHANGED Heldby
    BY <1>1, <1>3, HoldersStay DEF Acting
  <2>2. UNCHANGED Finished
    BY <1>1, <1>3, FinishedStays
  <2> QED
    BY <2>1, <2>2 DEF Lockstep
<1> QED
  BY <1>1, <1>2, <1>3

(* What is taken back had never counted. *)
LEMMA CompleteUnlinkLocks == ASSUME IInv, NEW p \in Procs, CompleteUnlink(p) PROVE Lockstep
<1>1. OnlyMoves(p) /\ msg'[p] = msg[p] /\ msg[p] \in Messages /\ pc[p] = "unrecording"
      /\ pc'[p] = "acting" /\ done' = [done EXCEPT ![msg[p]] = FALSE]
  BY DEF CompleteUnlink, IInv, TypeOK, OnlyMoves
<1>2. UNCHANGED Heldby
  BY <1>1, HoldersStay DEF Acting
<1>3. ASSUME NEW m \in Messages PROVE m \in Finished' <=> m \in Finished
  <2>1. CASE m = msg[p]
    <3>1. ~done'[m]
      BY <1>1, <2>1 DEF IInv, TypeOK
    <3> QED
      BY <1>1, <2>1, <3>1 DEF Finished
  <2>2. CASE m # msg[p]
    <3>1. done'[m] = done[m]
      BY <1>1, <2>2 DEF IInv, TypeOK
    <3> QED
      BY <1>1, <2>2, <3>1 DEF Finished, OnlyMoves
  <2> QED
    BY <2>1, <2>2
<1>4. Finished' = Finished
  BY <1>3 DEF Finished
<1> QED
  BY <1>2, <1>4 DEF Lockstep

LEMMA CompleteCheckLocks == ASSUME IInv, NEW p \in Procs, CompleteCheck(p) PROVE Lockstep
<1>1. OnlyMoves(p) /\ msg'[p] = msg[p] /\ UNCHANGED done /\ pc[p] = "acting"
      /\ pc'[p] \in {"completing", "idle"}
  BY DEF CompleteCheck, IInv, TypeOK, OnlyMoves
<1>2. CASE pc'[p] = "completing"
  <2>1. UNCHANGED Heldby
    BY <1>1, <1>2, HoldersStay DEF Acting
  <2>2. UNCHANGED Finished
    BY <1>1, <1>2, FinishedStays
  <2> QED
    BY <2>1, <2>2 DEF Lockstep
<1>3. CASE pc'[p] = "idle"
  BY <1>1, <1>3, DropLocks DEF Acting
<1> QED
  BY <1>1, <1>2, <1>3

LEMMA ReleaseLocks == ASSUME IInv, NEW p \in Procs, Release(p) PROVE Lockstep
<1>1. OnlyMoves(p) /\ UNCHANGED done /\ pc[p] = "acting" /\ pc'[p] = "releasing?"
  BY DEF Release, IInv, TypeOK, OnlyMoves
<1> QED
  BY <1>1, DropLocks DEF Acting

LEMMA DieLocks == ASSUME IInv, NEW p \in Procs, Die(p) PROVE Lockstep
<1>1. OnlyMoves(p) /\ UNCHANGED done /\ pc'[p] = "dead"
  BY DEF Die, IInv, TypeOK, OnlyMoves
<1>2. CASE pc[p] \in {"acting", "completing"}
  BY <1>1, <1>2, DropLocks DEF Acting
<1>3. CASE pc[p] \in Recording
  BY <1>1, <1>3, ConcludeLocks DEF Acting
<1>4. CASE pc[p] \notin Acting
  BY <1>1, <1>4, SilentOK DEF Acting, Lockstep
<1> QED
  BY <1>2, <1>3, <1>4 DEF Acting

(* The other steps of a process are made before it acts or after. *)
LEMMA OtherLocks ==
  ASSUME IInv, NEW p \in Procs,
         \/ Poll(p) \/ \E m \in Messages : ClaimCheck(p, m)
         \/ ClaimRead(p) \/ ClaimCreate(p) \/ ClaimWrite(p) \/ Unlink(p) \/ ReleaseCheck(p)
         \/ \E m \in Messages : Recover(p, m)
  PROVE  Lockstep
<1>1. OnlyMoves(p)
  BY DEF IInv, TypeOK, OnlyMoves, Poll, ClaimCheck, ClaimRead, ClaimCreate, ClaimWrite, Unlink,
         ReleaseCheck, Recover
<1>2. UNCHANGED done
  BY DEF Poll, ClaimCheck, ClaimRead, ClaimCreate, ClaimWrite, Unlink, ReleaseCheck, Recover
<1>3. pc[p] \notin Acting /\ pc'[p] \notin Acting
  BY DEF IInv, TypeOK, Acting, Poll, ClaimCheck, ClaimRead, ClaimCreate, ClaimWrite, Unlink,
         Unlinking, ReleaseCheck, Recover
<1> QED
  BY <1>1, <1>2, <1>3, SilentOK DEF Lockstep

LEMMA UntouchedLocks == ASSUME UNCHANGED <<done, pc, msg>> PROVE Lockstep
<1>1. ASSUME NEW m \in Messages PROVE Holders(m)' = Holders(m)
  BY DEF Holders
<1>2. UNCHANGED Heldby
  BY <1>1 DEF Heldby
<1>3. UNCHANGED Finished
  BY DEF Finished
<1> QED
  BY <1>2, <1>3 DEF Lockstep

LEMMA NextLocks == ASSUME IInv, [Next]_vars PROVE Lockstep
<1>1. ASSUME NEW m \in Messages, SendCreate(m) \/ SendWrite(m) \/ SendFails(m) \/ SendUnlink(m) \/ SenderDies(m)
      PROVE  Lockstep
  <2>1. UNCHANGED <<done, pc, msg>>
    BY <1>1 DEF SendCreate, SendWrite, SendFails, SendUnlink, SenderDies
  <2> QED
    BY <2>1, UntouchedLocks
<1>2. ASSUME NEW p \in Procs, Step(p) \/ Release(p) \/ Die(p) PROVE Lockstep
  BY <1>2, ClaimRecheckLocks, CompleteCheckLocks, CompleteCreateLocks, CompleteWriteLocks,
     CompleteUnlinkLocks, OtherLocks, ReleaseLocks, DieLocks DEF Step
<1>3. ASSUME NEW r \in Recoverers, NEW m \in Messages, Recover(r, m) PROVE Lockstep
  <2>1. r \in Procs
    BY TransportAssumption
  <2> QED
    BY <1>3, <2>1, OtherLocks
<1>4. CASE UNCHANGED vars
  BY <1>4, UntouchedLocks DEF vars
<1> QED
  BY <1>1, <1>2, <1>3, <1>4 DEF Next

(* The claim and done files are a lock: of any number of processes, dying   *)
(* between any two system calls and with any write failing, one at a time   *)
(* acts on a message and none on a finished one.                           *)
THEOREM ImplementsLockHolds == ASSUME OneRecoverer PROVE Spec => ImplementsLock
<1>1. Init => Lock!LockInit
  BY DEF Init, Lock!LockInit, Holders, Acting, Finished
<1>2. IInv /\ [Next]_vars => [Lock!LockNext]_Lock!lockVars
  BY NextLocks DEF Lockstep, Heldby, Lock!lockVars
<1> QED
  BY <1>1, <1>2, InvariantHolds, PTL DEF Spec, ImplementsLock, Lock!LockSpec
=============================================================================
