----------------------------- MODULE FileStores -----------------------------
(***************************************************************************)
(* Four directories of small files that are replaced in place: lessons      *)
(* (adapters/lessons.py), agent cards (discovery.FileRegistry), key pairs   *)
(* (identity_crypto.load_or_create_keypair) and evidence notes              *)
(* (adapters/obsidian.py).  All of them write with Path.write_text, which   *)
(* truncates the file when it opens it and fills it when it closes it, and  *)
(* none of them locks: the steps of several processes interleave between   *)
(* the look at a file, its truncation and its text.                        *)
(*                                                                         *)
(* A document is a record; its text matters by its length only: a shorter  *)
(* text written over a longer one leaves the tail of the longer one behind. *)
(***************************************************************************)
EXTENDS Integers, Sequences, FiniteSets, Functions

CONSTANTS Procs,        \* processes or threads
          Mortals,      \*   those of them that may die
          Scripts,      \* what they may call: functions from Procs to sequences of calls
          Files,        \* file names
          Dir,          \* the directory of a file: "lessons", "cards", "keys" or "notes"
          FileOf,       \* the file of a symptom, agent id, path or note name, which _slug
                        \* and _safe_stem do not keep apart
          Agents,       \* agent ids
          TrustedKeys,  \* FileRegistry's map from agent ids to public keys, or None
          Size(_),      \* length of a document's text
          Torn,         \* a text json.loads refuses
          Raised,       \* the outcome of a call that raises
          None

ASSUME StoreAssumption ==
  /\ Mortals \subseteq Procs
  /\ IsFiniteSet(Files)
  /\ Dir \in [Files -> {"lessons", "cards", "keys", "notes"}]
  /\ \A n \in DOMAIN FileOf : FileOf[n] \in Files
  /\ Torn # None

(* Every operation works on the files of its own directory. *)
DirectoryOf ==
  [op \in {"record", "publish", "unpublish", "get", "keypair", "note"} |->
     CASE op = "record" -> "lessons"
       [] op \in {"publish", "unpublish", "get"} -> "cards"
       [] op = "keypair" -> "keys"
       [] op = "note" -> "notes"]

AllCalls == UNION {Range(s[p]) : s \in Scripts, p \in Procs}

ASSUME ScriptAssumption ==
  /\ Scripts \subseteq [Procs -> Seq(AllCalls)]
  /\ \A call \in AllCalls :
       /\ call.op \in DOMAIN DirectoryOf \cup {"recurrences", "digest", "find"}
       /\ call.op \in DOMAIN DirectoryOf =>
            call.name \in DOMAIN FileOf /\ Dir[FileOf[call.name]] = DirectoryOf[call.op]
       /\ call.op = "record" => call.agent_id \in Agents

LAYERS == {"Guides", "Sensors", "Tools", "Constraints", "Memory"}

VARIABLES files,     \* the text of each file and its length
          script,    \* the calls a process has yet to make, the current one first
          pc,        \* where it is in that call
          text,      \* the document it is about to write
          linked,    \* whether the file it has open still has its name
          listing,   \* the files it has yet to read
          read,      \* the documents it has read
          answer,    \* what its last call returned
          \* What happened to a file, kept for the properties only:
          saved,     \* the document written last
          recorded,  \* how many record() calls wrote it
          creators,  \* the agents of the record() calls that found no file
          raced      \* two calls that write it overlapped, or one died in it

local == <<script, pc, text, linked, listing, read, answer>>
history == <<saved, recorded, creators, raced>>
vars == <<files, local, history>>

Absent == [doc |-> None, len |-> 0]
Truncated == [doc |-> Torn, len |-> 0]
Readable(f) == files[f].doc \notin {None, Torn}

(* What closing the file makes of what is in it by then. *)
Written(content, doc) ==
  IF content.len = 0 \/ content.len <= Size(doc) THEN [doc |-> doc, len |-> Size(doc)]
                                                 ELSE [doc |-> Torn, len |-> content.len]

Init ==
  /\ files = [f \in Files |-> Absent]
  /\ script \in Scripts
  /\ pc = [p \in Procs |-> "idle"]
  /\ text = [p \in Procs |-> None]
  /\ linked = [p \in Procs |-> FALSE]
  /\ listing = [p \in Procs |-> {}]
  /\ read = [p \in Procs |-> {}]
  /\ answer = [p \in Procs |-> None]
  /\ saved = [f \in Files |-> None]
  /\ recorded = [f \in Files |-> 0]
  /\ creators = [f \in Files |-> {}]
  /\ raced = {}
-----------------------------------------------------------------------------
(* Lessons. *)

(* A correction is the set of what its words are found to be: advice, the  *)
(* name of a mechanism, both or neither.                                   *)
Rejected(correction) == "advice" \in correction \/ "mechanism" \notin correction

(* Mutant: a lesson counts its first occurrence as a repetition. *)
Lesson_counts_one(call) ==
  [symptom |-> call.name, agent_id |-> call.agent_id, recurrences |-> 1, layer |-> "Guides"]

(* Mutant: a layer the digest does not know is stored as it is. *)
Lesson_any_layer(call) ==
  [symptom |-> call.name, agent_id |-> call.agent_id, recurrences |-> 0, layer |-> call.layer]

Lesson(call) ==
  [symptom |-> call.name, agent_id |-> call.agent_id, recurrences |-> 0,
   layer |-> IF call.layer \in LAYERS THEN call.layer ELSE "Guides"]

(* Mutant: a repetition moves the lesson to whoever made the mistake again. *)
Repeated_reattributed(lesson, call) ==
  [lesson EXCEPT !.recurrences = @ + 1, !.agent_id = call.agent_id]

Repeated(lesson, call) == [lesson EXCEPT !.recurrences = @ + 1]

recurrences_for(lessons, id) ==
  SumFunction([l \in {m \in lessons : m.agent_id = id} |-> l.recurrences])

(* The digest goes through the layers it knows. *)
compile_digest(lessons) == UNION {{l \in lessons : l.layer = layer} : layer \in LAYERS}

LESSON == [symptom : DOMAIN FileOf, agent_id : Agents, recurrences : Nat, layer : LAYERS]

(* Cards: the signature is the key it was made with.  The key asked for is *)
(* that of the id in the card.                                             *)
IsTrusted(card) ==
  TrustedKeys # None => card.id \in DOMAIN TrustedKeys /\ card.signature = TrustedKeys[card.id]

(* A key pair nobody else has. *)
GeneratedBy(p) == [key |-> p]

(* What is written is a document. *)
ASSUME DocumentAssumption ==
  \A mark \in {None, Torn} :
    /\ mark \notin LESSON
    /\ \A call \in AllCalls : call.op \in {"publish", "note"} => call.doc # mark
    /\ \A p \in Procs : GeneratedBy(p) # mark
-----------------------------------------------------------------------------
Call(p) == Head(script[p])
File(p) == FileOf[Call(p).name]
Calls(p, ops) == script[p] # <<>> /\ Call(p).op \in ops

(* Those whose call is under way and may yet write f. *)
Writers(f) ==
  {p \in Procs : /\ Calls(p, {"record", "publish", "keypair", "note"}) /\ File(p) = f
                 /\ \/ pc[p] \in {"open", "write"}
                    \/ pc[p] = "load" /\ Call(p).op = "record"}

Goto(p, place) == pc' = [pc EXCEPT ![p] = place]

Return(p, value) ==
  /\ answer' = [answer EXCEPT ![p] = [call |-> Call(p), value |-> value]]
  /\ script' = [script EXCEPT ![p] = Tail(@)]
  /\ Goto(p, "idle")

(* A call that may write f begins: the history notes whom it runs into. *)
Meet(f) == raced' = IF Writers(f) # {} THEN raced \cup {f} ELSE raced

Reject(p) ==
  /\ pc[p] = "idle" /\ Calls(p, {"record"})
  /\ Rejected(Call(p).correction)
  /\ Return(p, Raised)
  /\ UNCHANGED <<files, text, linked, listing, read, history>>
-----------------------------------------------------------------------------
(* file.exists(), and what is made when there is none. *)
Look(p) ==
  /\ pc[p] = "idle" /\ Calls(p, {"record", "keypair", "get"})
  /\ Call(p).op = "record" => ~Rejected(Call(p).correction)
  /\ IF files[File(p)] # Absent THEN Goto(p, "load") /\ UNCHANGED <<script, text, answer>>
     ELSE CASE Call(p).op = "record" ->
                 /\ text' = [text EXCEPT ![p] = Lesson(Call(p))]
                 /\ Goto(p, "open") /\ UNCHANGED <<script, answer>>
            [] Call(p).op = "keypair" ->
                 /\ text' = [text EXCEPT ![p] = GeneratedBy(p)]
                 /\ Goto(p, "open") /\ UNCHANGED <<script, answer>>
            [] Call(p).op = "get" -> Return(p, None) /\ UNCHANGED text
  /\ creators' = IF Call(p).op = "record" /\ files[File(p)] = Absent
                 THEN [creators EXCEPT ![File(p)] = @ \cup {Call(p).agent_id}] ELSE creators
  /\ IF Call(p).op = "get" THEN UNCHANGED raced ELSE Meet(File(p))
  /\ UNCHANGED <<files, linked, listing, read, saved, recorded>>

(* Mutant: a lesson that cannot be read is recorded afresh. *)
LoadFails_starts_over(p) ==
  /\ pc[p] = "load"
  /\ ~Readable(File(p))
  /\ IF Call(p).op = "record"
     THEN /\ text' = [text EXCEPT ![p] = Lesson(Call(p))]
          /\ Goto(p, "open") /\ UNCHANGED <<script, answer>>
     ELSE Return(p, Raised) /\ UNCHANGED text
  /\ UNCHANGED <<files, linked, listing, read, history>>

(* read_text and json.loads: a file that is gone or torn raises. *)
LoadFails(p) ==
  /\ pc[p] = "load"
  /\ ~Readable(File(p))
  /\ Return(p, Raised)
  /\ UNCHANGED <<files, text, linked, listing, read, history>>

Load(p) ==
  /\ pc[p] = "load"
  /\ Readable(File(p))
  /\ LET doc == files[File(p)].doc
     IN  CASE Call(p).op = "record" ->
                /\ text' = [text EXCEPT ![p] = Repeated(doc, Call(p))]
                /\ Goto(p, "open") /\ UNCHANGED <<script, answer>>
           [] Call(p).op = "keypair" -> Return(p, doc) /\ UNCHANGED text
           [] Call(p).op = "get" ->
                Return(p, IF IsTrusted(doc) THEN doc ELSE None) /\ UNCHANGED text
  /\ UNCHANGED <<files, linked, listing, read, history>>

(* publish() and write_evidence_note() write what they are given. *)
Replace(p) ==
  /\ pc[p] = "idle" /\ Calls(p, {"publish", "note"})
  /\ text' = [text EXCEPT ![p] = Call(p).doc]
  /\ Goto(p, "open")
  /\ raced' = IF Writers(File(p)) # {} THEN raced \cup {File(p)} ELSE raced \ {File(p)}
  /\ UNCHANGED <<files, script, linked, listing, read, answer, saved, recorded, creators>>

(* Mutant: the file is opened for update and keeps its text. *)
Open_untruncated(p) ==
  /\ pc[p] = "open"
  /\ files' = [files EXCEPT ![File(p)] = IF @ = Absent THEN Truncated ELSE @]
  /\ linked' = [linked EXCEPT ![p] = TRUE]
  /\ Goto(p, "write")
  /\ UNCHANGED <<script, text, listing, read, answer, history>>

(* write_text: open() truncates, close() writes. *)
Open(p) ==
  /\ pc[p] = "open"
  /\ files' = [files EXCEPT ![File(p)] = Truncated]
  /\ linked' = [linked EXCEPT ![p] = TRUE]
  /\ Goto(p, "write")
  /\ UNCHANGED <<script, text, listing, read, answer, history>>

Write(p) ==
  /\ pc[p] = "write"
  /\ files' = IF linked[p] THEN [files EXCEPT ![File(p)] = Written(@, text[p])] ELSE files
  /\ saved' = [saved EXCEPT ![File(p)] = text[p]]
  /\ recorded' = IF Call(p).op = "record" THEN [recorded EXCEPT ![File(p)] = @ + 1] ELSE recorded
  /\ Return(p, text[p])
  /\ UNCHANGED <<text, linked, listing, read, creators, raced>>

(* unpublish(): whoever has the file open goes on writing to no name. *)
Unlink(p) ==
  /\ pc[p] = "idle" /\ Calls(p, {"unpublish"})
  /\ files' = [files EXCEPT ![File(p)] = Absent]
  /\ linked' = [q \in Procs |-> linked[q] /\ q \notin Writers(File(p))]
  /\ saved' = [saved EXCEPT ![File(p)] = None]
  /\ Meet(File(p))
  /\ Return(p, None)
  /\ UNCHANGED <<text, listing, read, recorded, creators>>
-----------------------------------------------------------------------------
(* all(): every file of the directory, read one after the other. *)

ReadersDir(call) == IF call.op = "find" THEN "cards" ELSE "lessons"

List(p) ==
  /\ pc[p] = "idle" /\ Calls(p, {"recurrences", "digest", "find"})
  /\ listing' = [listing EXCEPT ![p] =
       {f \in Files : Dir[f] = ReadersDir(Call(p)) /\ files[f] # Absent}]
  /\ read' = [read EXCEPT ![p] = {}]
  /\ Goto(p, "read")
  /\ UNCHANGED <<files, script, text, linked, answer, history>>

ReadNext(p) ==
  /\ pc[p] = "read"
  /\ \E f \in listing[p] :
       /\ listing' = [listing EXCEPT ![p] = @ \ {f}]
       /\ IF Readable(f)
          THEN /\ read' = [read EXCEPT ![p] = @ \cup {files[f].doc}]
               /\ UNCHANGED <<script, pc, answer>>
          ELSE Return(p, Raised) /\ UNCHANGED read
  /\ UNCHANGED <<files, text, linked, history>>

ReadEnds(p) ==
  /\ pc[p] = "read"
  /\ listing[p] = {}
  /\ Return(p, CASE Call(p).op = "recurrences" -> recurrences_for(read[p], Call(p).name)
                 [] Call(p).op = "digest" -> compile_digest(read[p])
                 [] Call(p).op = "find" -> {c \in read[p] : IsTrusted(c) /\ Call(p).name \in c.skills})
  /\ UNCHANGED <<files, text, linked, listing, read, history>>

(* A crash: what is open stays as it is. *)
Die(p) ==
  /\ p \in Mortals
  /\ pc[p] \notin {"idle", "dead"}
  /\ Goto(p, "dead")
  /\ raced' = raced \cup {f \in Files : p \in Writers(f)}
  /\ UNCHANGED <<files, script, text, linked, listing, read, answer, saved, recorded, creators>>

Step(p) ==
  \/ Reject(p) \/ Look(p) \/ LoadFails(p) \/ Load(p) \/ Replace(p) \/ Open(p) \/ Write(p)
  \/ Unlink(p) \/ List(p) \/ ReadNext(p) \/ ReadEnds(p)

Next == \E p \in Procs : Step(p) \/ Die(p)

Spec == Init /\ [][Next]_vars
-----------------------------------------------------------------------------
(* Torn, and nobody is about to write it. *)
IsLost(f) ==
  files[f].doc = Torn /\ \A p \in Writers(f) : pc[p] = "load"

(* discovery.py:110 with its reservation: writers of a file that keep out  *)
(* of each other's way, and live, leave the text written last whole in it, *)
(* however its length compares with the one before; a lesson then counts    *)
(* every repetition, and all who asked for a key pair were given that one. *)
SerialWritesHold ==
  \A f \in Files : f \notin raced /\ Writers(f) = {} =>
    /\ files[f] = IF saved[f] = None THEN Absent ELSE [doc |-> saved[f], len |-> Size(saved[f])]
    /\ Dir[f] = "lessons" /\ saved[f] # None => saved[f].recurrences + 1 = recorded[f]
    /\ \A p \in Procs :
         answer[p] # None /\ answer[p].call.op = "keypair" /\ FileOf[answer[p].call.name] = f =>
           answer[p].value = files[f].doc

(* lessons.py:21: recorders that run into each other may lose a repetition *)
(* but never invent one, so no agent is trusted less than it deserves.     *)
NeverOverCounted ==
  \A f \in Files : Dir[f] = "lessons" /\ Readable(f) => files[f].doc.recurrences + 1 <= recorded[f]

(* lessons.py:26: a lesson stays with the agent that made the mistake first *)
(* or, when several found no lesson on file at once, with one of those; a   *)
(* repetition never moves it.                                              *)
AuthorFoundNoFile ==
  \A f \in Files : Dir[f] = "lessons" /\ Readable(f) => files[f].doc.agent_id \in creators[f]

(* What is handed to a reader: an agent is charged with no more repetitions *)
(* than were recorded in the whole store (core.py:231 lowers its trust by   *)
(* them), the digest lists every lesson it read, and a card found carries   *)
(* the signature of the key known for the id in it.                        *)
Answered(p, op) == answer[p] # None /\ answer[p].value # Raised /\ answer[p].call.op = op

ChargedAsRecorded ==
  \A p \in Procs : Answered(p, "recurrences") =>
    answer[p].value <= SumFunction(recorded)

DigestIsWhole ==
  \A p \in Procs : Answered(p, "digest") /\ pc[p] \notin {"read", "dead"} =>
    answer[p].value = read[p]

CardsAreTrusted ==
  \A p \in Procs : Answered(p, "find") /\ TrustedKeys # None =>
    \A c \in answer[p].value : c.signature = TrustedKeys[c.id]

AnswersAreSound == ChargedAsRecorded /\ DigestIsWhole /\ CardsAreTrusted

(* lessons.py:153: a torn lesson is never mended.  record() reads before it *)
(* writes, so once nobody has the file open the store raises for ever, and  *)
(* with it every route() that asks it for recurrences.                     *)
TornLessonStays ==
  [][\A f \in Files : Dir[f] = "lessons" /\ IsLost(f) => IsLost(f)']_vars
=============================================================================
