---------------------------- MODULE FsTransport ----------------------------
(***************************************************************************)
(* nexus.transport.filesystem: inbox, claim and done files of messages, on *)
(* a file system several processes share.  Every system call is a step, so *)
(* processes interleave between the test and the use of a file; a process  *)
(* may die between any two steps, and a write may fail.                    *)
(*                                                                         *)
(* The transport is a library: who calls it is not in the repository.  A   *)
(* process here polls pending(), claims what it saw one by one, acts, then *)
(* completes or releases, and polls again.  A claim whose process died     *)
(* stays; a Recoverer, having found the pid in the claim file dead,        *)
(* releases it.                                                            *)
(***************************************************************************)
EXTENDS Integers, FiniteSets

CONSTANTS Procs,        \* processes that read inboxes
          Recoverers,   \*   those of them that release the claims of dead ones
          Mortals,      \*   those of them that may die
          Agents,       \* agent ids
          AgentOf,      \* the agent a process runs for
          DirOf,        \* _safe_dir: ids that differ in odd characters share a directory
          Messages,     \* message ids, never reused
          To,           \* the receiver a message is sent to
          MaxReleases,  \* bound: claims given back unfinished
          MaxFailures,  \* bound: writes that fail
          Blank, None

ASSUME TransportAssumption ==
  /\ Recoverers \subseteq Procs /\ Mortals \subseteq Procs
  /\ AgentOf \in [Procs -> Agents] /\ To \in [Messages -> Agents]
  /\ DOMAIN DirOf = Agents
  /\ MaxReleases \in Nat /\ MaxFailures \in Nat
  /\ {Blank, None} \cap Procs = {} /\ Blank # None

VARIABLES inbox,     \* file inbox/<dir>/<message>.json: absent, partial, whole; unwritten when the
                     \* write has failed, withdrawn when it is unlinked; torn when the sender died
          claimed,   \* the pid in the claim file: None when there is no file, Blank when nothing
                     \* is written in it yet
          done,      \* whether the done file exists
          pc,        \* what a process is about to do
          msg,       \* the message it does it to
          seen,      \* what its last pending() returned
          releases, failures

vars == <<inbox, claimed, done, pc, msg, seen, releases, failures>>
files == <<inbox, claimed, done>>
bounds == <<releases, failures>>

Init ==
  /\ inbox = [m \in Messages |-> "absent"]
  /\ claimed = [m \in Messages |-> None]
  /\ done = [m \in Messages |-> FALSE]
  /\ pc = [p \in Procs |-> "idle"]
  /\ msg = [p \in Procs |-> None]
  /\ seen = [p \in Procs |-> {}]
  /\ releases = 0
  /\ failures = 0

Goto(p, place) == pc' = [pc EXCEPT ![p] = place]
-----------------------------------------------------------------------------
(* send(): _exclusive_write opens the file, then fills it. *)

SendCreate(m) ==
  /\ inbox[m] = "absent"
  /\ inbox' = [inbox EXCEPT ![m] = "partial"]
  /\ UNCHANGED <<claimed, done, pc, msg, seen, bounds>>

SendWrite(m) ==
  /\ inbox[m] = "partial"
  /\ inbox' = [inbox EXCEPT ![m] = "whole"]
  /\ UNCHANGED <<claimed, done, pc, msg, seen, bounds>>

SendFails(m) ==
  /\ inbox[m] = "partial"
  /\ failures < MaxFailures
  /\ failures' = failures + 1
  /\ inbox' = [inbox EXCEPT ![m] = "unwritten"]
  /\ UNCHANGED <<claimed, done, pc, msg, seen, releases>>

SendUnlink(m) ==
  /\ inbox[m] = "unwritten"
  /\ inbox' = [inbox EXCEPT ![m] = "withdrawn"]
  /\ UNCHANGED <<claimed, done, pc, msg, seen, bounds>>

SenderDies(m) ==
  /\ inbox[m] \in {"partial", "unwritten"}
  /\ inbox' = [inbox EXCEPT ![m] = "torn"]
  /\ UNCHANGED <<claimed, done, pc, msg, seen, bounds>>
-----------------------------------------------------------------------------
(* pending(): the unfinished messages of the directory.  Reading one that  *)
(* is not whole raises, and nothing is returned.  Inbox files stay, and    *)
(* claim() checks again, so that the files are not read at one moment      *)
(* makes no difference.                                                    *)

Listed(p) ==
  {m \in Messages : /\ inbox[m] \in {"partial", "unwritten", "torn", "whole"}
                    /\ DirOf[To[m]] = DirOf[AgentOf[p]]
                    /\ ~done[m]}

Poll(p) ==
  /\ pc[p] = "idle"
  /\ seen[p] = {}
  /\ seen' = [seen EXCEPT ![p] = IF \E m \in Listed(p) : inbox[m] # "whole" THEN {} ELSE Listed(p)]
  /\ UNCHANGED <<files, pc, msg, bounds>>
-----------------------------------------------------------------------------
(* claim(). *)

(* Done already: TransportError. *)
ClaimCheck(p, m) ==
  /\ pc[p] = "idle"
  /\ m \in seen[p]
  /\ msg' = [msg EXCEPT ![p] = m]
  /\ \/ done[m] /\ UNCHANGED pc
     \/ ~done[m] /\ Goto(p, "reading")
  /\ seen' = [seen EXCEPT ![p] = @ \ {m}]
  /\ UNCHANGED <<files, bounds>>

(* Mutant: whoever finds a message in the inbox may claim it. *)
ClaimRead_of_anyone(p) ==
  /\ pc[p] = "reading"
  /\ Goto(p, "creating")
  /\ UNCHANGED <<files, msg, seen, bounds>>

(* An inbox shared by two ids also lists what is addressed to the other. *)
ClaimRead(p) ==
  /\ pc[p] = "reading"
  /\ Goto(p, IF To[msg[p]] = AgentOf[p] THEN "creating" ELSE "idle")
  /\ UNCHANGED <<files, msg, seen, bounds>>

(* os.open(O_CREAT | O_EXCL) *)
ClaimCreate(p) ==
  /\ pc[p] = "creating"
  /\ \/ /\ claimed[msg[p]] = None
        /\ claimed' = [claimed EXCEPT ![msg[p]] = Blank]
        /\ Goto(p, "stamping")
     \/ /\ claimed[msg[p]] # None
        /\ Goto(p, "idle")
        /\ UNCHANGED claimed
  /\ UNCHANGED <<inbox, done, msg, seen, bounds>>

(* Mutant: a failed write leaves its file. *)
ClaimWrite_keeps_file(p) ==
  /\ pc[p] = "stamping"
  /\ \/ /\ Goto(p, "rechecking")
        /\ claimed' = [claimed EXCEPT ![msg[p]] = p]
        /\ UNCHANGED failures
     \/ /\ failures < MaxFailures
        /\ failures' = failures + 1
        /\ Goto(p, "idle")
        /\ UNCHANGED claimed
  /\ UNCHANGED <<inbox, done, msg, seen, releases>>

(* The pid is written; or the write fails, with the text in the file or not. *)
ClaimWrite(p) ==
  /\ pc[p] = "stamping"
  /\ \/ /\ Goto(p, "rechecking")
        /\ claimed' = [claimed EXCEPT ![msg[p]] = p]
        /\ UNCHANGED failures
     \/ /\ failures < MaxFailures
        /\ failures' = failures + 1
        /\ \E text \in {Blank, p} : claimed' = [claimed EXCEPT ![msg[p]] = text]
        /\ Goto(p, "unstamping")
  /\ UNCHANGED <<inbox, done, msg, seen, releases>>

(* Mutant: no second look at the done file. *)
ClaimRecheck_skipped(p) ==
  /\ pc[p] = "rechecking"
  /\ Goto(p, "acting")
  /\ UNCHANGED <<files, msg, seen, bounds>>

(* Somebody may have completed the message since ClaimCheck. *)
ClaimRecheck(p) ==
  /\ pc[p] = "rechecking"
  /\ Goto(p, IF done[msg[p]] THEN "withdrawing" ELSE "acting")
  /\ UNCHANGED <<files, msg, seen, bounds>>
-----------------------------------------------------------------------------
(* complete(). *)

CompleteCheck(p) ==
  /\ pc[p] = "acting"
  /\ Goto(p, IF claimed[msg[p]] # None THEN "completing" ELSE "idle")
  /\ UNCHANGED <<files, msg, seen, bounds>>

(* FileExistsError leaves complete() with the claim in place. *)
CompleteCreate(p) ==
  /\ pc[p] = "completing"
  /\ Goto(p, IF done[msg[p]] THEN "idle" ELSE "recording")
  /\ done' = [done EXCEPT ![msg[p]] = TRUE]
  /\ UNCHANGED <<inbox, claimed, msg, seen, bounds>>

CompleteWrite(p) ==
  /\ pc[p] = "recording"
  /\ \/ Goto(p, "unlinking") /\ UNCHANGED failures
     \/ /\ failures < MaxFailures
        /\ failures' = failures + 1
        /\ Goto(p, "unrecording")
  /\ UNCHANGED <<files, msg, seen, releases>>

(* The done file is unlinked, and the process is where it was: it may       *)
(* complete again, or release.                                             *)
CompleteUnlink(p) ==
  /\ pc[p] = "unrecording"
  /\ done' = [done EXCEPT ![msg[p]] = FALSE]
  /\ Goto(p, "acting")
  /\ UNCHANGED <<inbox, claimed, msg, seen, bounds>>

Unlinking == {"unstamping", "withdrawing", "unlinking", "releasing"}

(* Mutant: the claim file of an unfinished message is left. *)
Unlink_when_done(p) ==
  /\ pc[p] \in Unlinking
  /\ claimed' = [claimed EXCEPT ![msg[p]] = IF done[msg[p]] THEN None ELSE @]
  /\ Goto(p, "idle")
  /\ UNCHANGED <<inbox, done, msg, seen, bounds>>

(* claim_path.unlink(), of claim() after a failed write or a second look,   *)
(* of complete() and of release(): with no file any more it changes nothing *)
(* (and raises in the latter two).                                         *)
Unlink(p) ==
  /\ pc[p] \in Unlinking
  /\ claimed' = [claimed EXCEPT ![msg[p]] = None]
  /\ Goto(p, "idle")
  /\ UNCHANGED <<inbox, done, msg, seen, bounds>>
-----------------------------------------------------------------------------
(* release(), by the process that holds the claim, or by one that recovers *)
(* it: nothing in the claim file is compared with the caller.              *)

Release(p) ==
  /\ pc[p] = "acting"
  /\ releases < MaxReleases
  /\ releases' = releases + 1
  /\ Goto(p, "releasing?")
  /\ UNCHANGED <<files, msg, seen, failures>>

(* What a recoverer can find out: the pid in the claim file is of no process. *)
Abandoned(m) == claimed[m] \in Procs /\ pc[claimed[m]] = "dead"

Recover(r, m) ==
  /\ pc[r] = "idle"
  /\ Abandoned(m)
  /\ DirOf[AgentOf[r]] = DirOf[To[m]]
  /\ msg' = [msg EXCEPT ![r] = m]
  /\ Goto(r, "releasing?")
  /\ UNCHANGED <<files, seen, bounds>>

ReleaseCheck(p) ==
  /\ pc[p] = "releasing?"
  /\ Goto(p, IF claimed[msg[p]] # None THEN "releasing" ELSE "idle")
  /\ UNCHANGED <<files, msg, seen, bounds>>
-----------------------------------------------------------------------------
(* kill -9 between two system calls. *)
Die(p) ==
  /\ p \in Mortals
  /\ pc[p] \notin {"idle", "dead"}
  /\ Goto(p, "dead")
  /\ UNCHANGED <<files, msg, seen, bounds>>

Step(p) ==
  \/ Poll(p)
  \/ \E m \in Messages : ClaimCheck(p, m)
  \/ ClaimRead(p) \/ ClaimCreate(p) \/ ClaimWrite(p) \/ ClaimRecheck(p)
  \/ CompleteCheck(p) \/ CompleteCreate(p) \/ CompleteWrite(p) \/ CompleteUnlink(p)
  \/ Unlink(p) \/ ReleaseCheck(p)

Next ==
  \/ \E m \in Messages : \/ SendCreate(m) \/ SendWrite(m) \/ SendFails(m)
                         \/ SendUnlink(m) \/ SenderDies(m)
  \/ \E p \in Procs : Step(p) \/ Release(p) \/ Die(p)
  \/ \E r \in Recoverers, m \in Messages : Recover(r, m)

Spec == Init /\ [][Next]_vars

(* A process that lives goes on with what it has begun and polls when it is *)
(* through, a sender too, and a recoverer that keeps finding an abandoned  *)
(* claim recovers it.                                                      *)
FairSpec ==
  /\ Spec
  /\ \A m \in Messages : WF_vars(SendWrite(m)) /\ WF_vars(SendUnlink(m))
  /\ \A p \in Procs : WF_vars(Step(p))
  /\ \A r \in Recoverers, m \in Messages : SF_vars(Recover(r, m))
-----------------------------------------------------------------------------
Recording == {"recording", "unrecording"}
Acting == {"acting", "completing"} \cup Recording

(* Living processes that act on m. *)
Holders(m) == {p \in Procs : msg[p] = m /\ pc[p] \in Acting}

(* A done file counts once its writer can no longer take it back. *)
Finished ==
  {m \in Messages : done[m] /\ \A p \in Procs : ~(msg[p] = m /\ pc[p] \in Recording)}

Lock == INSTANCE MessageLock WITH
  Receivers <- [m \in Messages |-> {p \in Procs : AgentOf[p] = To[m]}],
  holders <- [m \in Messages |-> Holders(m)], finished <- Finished

(* filesystem.py:20: the files implement the lock.  Two processes never    *)
(* both act on a message, none acts on a finished one and none on another  *)
(* agent's, whoever dies where and whichever writes fail.                  *)
ImplementsLock == Lock!LockSpec

(* The same for runs of one agent, as the module's documentation says it. *)
NeverBothAct == \A m \in Messages : Cardinality(Holders(m)) <= 1

(* The claim of an unfinished message belongs to a process that is dealing *)
(* with it or is dead: it is never left behind by one that went on.        *)
ClaimHasOwner ==
  \A m \in Messages :
    claimed[m] # None /\ ~done[m] =>
      \E p \in Procs : /\ claimed[m] \in {Blank, p}
                       /\ msg[p] = m
                       /\ pc[p] \notin {"idle", "reading", "creating"}

Torn(m) == \E k \in Messages : DirOf[To[k]] = DirOf[To[m]] /\ inbox[k] = "torn"

(* The claimer died between creating the file and writing its pid, or      *)
(* unlinking it when the write had failed.                                 *)
Stranded(m) ==
  claimed[m] = Blank /\ \A p \in Procs : msg[p] = m => pc[p] \notin {"stamping", "unstamping"}

(* A message to an agent with a process that does not die, in a directory  *)
(* with a recoverer that does not either, is finished some day.  Two        *)
(* accidents stand in its way for good: a torn file in its inbox, which    *)
(* makes every pending() of it raise, and a claim file without a pid.      *)
EveryMessageIsDone ==
  \A m \in {k \in Messages :
             /\ \E p \in Procs \ Mortals : AgentOf[p] = To[k]
             /\ \E r \in Recoverers \ Mortals : DirOf[AgentOf[r]] = DirOf[To[k]]} :
    inbox[m] = "whole" ~> done[m] \/ Torn(m) \/ Stranded(m)
=============================================================================
