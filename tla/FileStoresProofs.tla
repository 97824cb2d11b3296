-------------------------- MODULE FileStoresProofs --------------------------
(***************************************************************************)
(* Proofs about FileStores, for any number of processes, scripts and files: *)
(* a lesson never counts a repetition that was not recorded, it stays with  *)
(* an agent that found no lesson on file, a torn lesson nobody is writing   *)
(* stays torn, writers that do not overlap leave what they wrote, and what  *)
(* readers are answered is sound.                                          *)
(*                                                                         *)
(* A lesson on file says nothing about the one a process holds between its  *)
(* read and its write, so the invariants are not inductive: IInv says of    *)
(* the pending text what NeverOverCounted and AuthorFoundNoFile say of the  *)
(* file, with room for the one record() that will write it.                *)
(***************************************************************************)
EXTENDS FileStores, FiniteSetTheorems, TLAPS

PLACES == {"idle", "load", "open", "write", "read", "dead"}

LessonFiles == {f \in Files : Dir[f] = "lessons"}

(* The calls in each place are those that may get there. *)
ControlOK ==
  /\ script \in [Procs -> Seq(AllCalls)]
  /\ pc \in [Procs -> PLACES]
  /\ \A p \in Procs :
       /\ pc[p] \in {"load", "open", "write", "read"} => script[p] # <<>>
       /\ pc[p] \in {"load", "open", "write"} => Call(p).op \in DOMAIN DirectoryOf
       /\ pc[p] = "load" => Call(p).op \in {"record", "keypair", "get"}
       /\ pc[p] = "read" => Call(p).op \in {"recurrences", "digest", "find"}
       /\ pc[p] \in {"open", "write"} => Call(p).op \in {"record", "publish", "keypair", "note"}

DataOK ==
  /\ DOMAIN files = Files
  /\ DOMAIN text = Procs
  /\ recorded \in [Files -> Nat]
  /\ creators \in [Files -> SUBSET Agents]

(* What is on file. *)
FiledOK ==
  \A f \in LessonFiles : Readable(f) =>
    /\ files[f].doc \in LESSON
    /\ files[f].doc.recurrences + 1 <= recorded[f]
    /\ files[f].doc.agent_id \in creators[f]

(* What record() is about to write. *)
PendingOK ==
  \A p \in Procs : pc[p] \in {"open", "write"} /\ Call(p).op = "record" =>
    /\ text[p] \in LESSON
    /\ text[p].recurrences <= recorded[File(p)]
    /\ text[p].agent_id \in creators[File(p)]

IInv == ControlOK /\ DataOK /\ FiledOK /\ PendingOK
-----------------------------------------------------------------------------
LEMMA Directories ==
  /\ DOMAIN DirectoryOf = {"record", "publish", "unpublish", "get", "keypair", "note"}
  /\ DirectoryOf["record"] = "lessons"
  /\ \A op \in DOMAIN DirectoryOf \ {"record"} : DirectoryOf[op] # "lessons"
BY DEF DirectoryOf

(* A call of a script is one of the scripts' calls, on a file of its kind. *)
LEMMA CallOK ==
  ASSUME ControlOK, NEW p \in Procs, script[p] # <<>>
  PROVE  /\ Call(p) \in AllCalls
         /\ Tail(script[p]) \in Seq(AllCalls)
         /\ Call(p).op \in DOMAIN DirectoryOf =>
              File(p) \in Files /\ Dir[File(p)] = DirectoryOf[Call(p).op]
         /\ Call(p).op = "record" => Call(p).name \in DOMAIN FileOf /\ Call(p).agent_id \in Agents
<1>1. script[p] \in Seq(AllCalls)
  BY DEF ControlOK
<1>2. Call(p) \in AllCalls /\ Tail(script[p]) \in Seq(AllCalls)
  BY <1>1 DEF Call
<1>3. Call(p).op \in DOMAIN DirectoryOf =>
        Call(p).name \in DOMAIN FileOf /\ Dir[FileOf[Call(p).name]] = DirectoryOf[Call(p).op]
  BY <1>2, ScriptAssumption
<1>4. Call(p).op = "record" => Call(p).agent_id \in Agents
  BY <1>2, ScriptAssumption
<1>5. Call(p).op = "record" => Call(p).op \in DOMAIN DirectoryOf
  BY Directories
<1> QED
  BY <1>2, <1>3, <1>4, <1>5, StoreAssumption DEF File

(* Only record() works on a lesson. *)
LEMMA OnlyRecord ==
  ASSUME ControlOK, NEW p \in Procs, script[p] # <<>>, Call(p).op \in DOMAIN DirectoryOf
  PROVE  File(p) \in LessonFiles <=> Call(p).op = "record"
BY CallOK, Directories DEF LessonFiles

LEMMA LessonMade ==
  ASSUME NEW call, call.name \in DOMAIN FileOf, call.agent_id \in Agents
  PROVE  /\ Lesson(call) \in LESSON
         /\ Lesson(call).recurrences = 0
         /\ Lesson(call).agent_id = call.agent_id
BY DEF Lesson, LESSON, LAYERS

LEMMA LessonRepeated ==
  ASSUME NEW call, NEW lesson \in LESSON
  PROVE  /\ Repeated(lesson, call) \in LESSON
         /\ Repeated(lesson, call).recurrences = lesson.recurrences + 1
         /\ Repeated(lesson, call).agent_id = lesson.agent_id
BY DEF Repeated, LESSON

LEMMA InitOK == ASSUME Init PROVE IInv
<1>1. ControlOK
  BY ScriptAssumption DEF Init, ControlOK, PLACES
<1>2. DataOK
  BY DEF Init, DataOK
<1>3. FiledOK
  BY DEF Init, FiledOK, Readable, Absent, LessonFiles
<1>4. PendingOK
  BY DEF Init, PendingOK
<1> QED
  BY <1>1, <1>2, <1>3, <1>4 DEF IInv

(* A step by which p returns from its call leaves its script in order. *)
LEMMA ReturnControl ==
  ASSUME ControlOK, NEW p \in Procs, NEW value, script[p] # <<>>, Return(p, value)
  PROVE  ControlOK'
BY CallOK DEF ControlOK, Return, Goto, Call, PLACES

(* Nothing is pending for a process that has returned. *)
LEMMA ReturnPending ==
  ASSUME ControlOK, PendingOK, NEW p \in Procs, NEW value, Return(p, value),
         UNCHANGED <<text, recorded, creators>>
  PROVE  PendingOK'
BY DEF ControlOK, PendingOK, Return, Goto, Call, File, PLACES

LEMMA FiledUnchanged ==
  ASSUME FiledOK, UNCHANGED <<files, recorded, creators>> PROVE FiledOK'
BY DEF FiledOK, Readable, LessonFiles

LEMMA DataUnchanged ==
  ASSUME DataOK, UNCHANGED <<files, text, recorded, creators>> PROVE DataOK'
BY DEF DataOK
-----------------------------------------------------------------------------
LEMMA RejectOK == ASSUME IInv, NEW p \in Procs, Reject(p) PROVE IInv'
<1>1. script[p] # <<>> /\ Return(p, Raised)
  BY DEF Reject, Calls
<1>2. UNCHANGED <<files, text, recorded, creators>>
  BY DEF Reject, history
<1> QED
  BY <1>1, <1>2, ReturnControl, ReturnPending, FiledUnchanged, DataUnchanged DEF IInv

LEMMA LookOK == ASSUME IInv, NEW p \in Procs, Look(p) PROVE IInv'
<1> DEFINE op == Call(p).op
<1>1. /\ script[p] # <<>> /\ op \in {"record", "keypair", "get"} /\ pc[p] = "idle"
      /\ UNCHANGED <<files, recorded>>
  BY DEF Look, Calls
<1>2. op \in DOMAIN DirectoryOf /\ File(p) \in Files
  BY <1>1, Directories, CallOK DEF IInv
<1>3. creators' \in [Files -> SUBSET Agents] /\ \A f \in Files : creators[f] \subseteq creators'[f]
  BY <1>1, <1>2, CallOK DEF Look, IInv, DataOK
<1>4. FiledOK'
  BY <1>1, <1>3 DEF FiledOK, Readable, LessonFiles, IInv, DataOK
<1>5. CASE pc' = [pc EXCEPT ![p] = "load"] /\ UNCHANGED <<script, text>>
  <2>1. ControlOK'
    BY <1>1, <1>2, <1>5 DEF ControlOK, IInv, Call, PLACES
  <2>2. DataOK'
    BY <1>1, <1>3, <1>5 DEF DataOK, IInv
  <2>3. PendingOK'
    <3> SUFFICES ASSUME NEW q \in Procs, pc'[q] \in {"open", "write"}, Call(q)'.op = "record"
                 PROVE  /\ text'[q] \in LESSON
                        /\ text'[q].recurrences <= recorded'[File(q)']
                        /\ text'[q].agent_id \in creators'[File(q)']
      BY DEF PendingOK
    <3>1. q # p /\ pc[q] \in {"open", "write"} /\ Call(q).op = "record" /\ script[q] # <<>>
      BY <1>5 DEF IInv, ControlOK, Call
    <3>2. File(q) \in Files
      BY <3>1, CallOK, Directories DEF IInv
    <3> QED
      BY <1>1, <1>3, <1>5, <3>1, <3>2 DEF IInv, PendingOK, File, Call
  <2> QED
    BY <1>4, <2>1, <2>2, <2>3 DEF IInv
<1>6. CASE /\ op \in {"record", "keypair"} /\ UNCHANGED script
           /\ pc' = [pc EXCEPT ![p] = "open"]
           /\ text' = [text EXCEPT ![p] = IF op = "record" THEN Lesson(Call(p)) ELSE GeneratedBy(p)]
           /\ op = "record" => Call(p).agent_id \in creators'[File(p)]
  <2>1. ControlOK'
    BY <1>1, <1>2, <1>6 DEF ControlOK, IInv, Call, PLACES
  <2>2. DataOK'
    BY <1>1, <1>3, <1>6 DEF DataOK, IInv
  <2>3. PendingOK'
    <3> SUFFICES ASSUME NEW q \in Procs, pc'[q] \in {"open", "write"}, Call(q)'.op = "record"
                 PROVE  /\ text'[q] \in LESSON
                        /\ text'[q].recurrences <= recorded'[File(q)']
                        /\ text'[q].agent_id \in creators'[File(q)']
      BY DEF PendingOK
    <3>1. CASE q = p
      <4>1. op = "record" /\ text'[p] = Lesson(Call(p)) /\ File(p)' = File(p)
        BY <1>6, <3>1 DEF IInv, DataOK, Call, File
      <4>2. recorded[File(p)] \in Nat
        BY <1>2 DEF IInv, DataOK
      <4>3. Call(p).name \in DOMAIN FileOf /\ Call(p).agent_id \in Agents
        BY <1>1, <4>1, CallOK DEF IInv
      <4> QED
        BY <1>1, <1>6, <3>1, <4>1, <4>2, <4>3, LessonMade
    <3>2. CASE q # p
      <4>1. pc[q] \in {"open", "write"} /\ Call(q).op = "record" /\ script[q] # <<>>
        BY <1>6, <3>2 DEF IInv, ControlOK, Call
      <4>2. File(q) \in Files
        BY <4>1, CallOK, Directories DEF IInv
      <4> QED
        BY <1>1, <1>3, <1>6, <3>2, <4>1, <4>2 DEF IInv, PendingOK, File, Call
    <3> QED
      BY <3>1, <3>2
  <2> QED
    BY <1>4, <2>1, <2>2, <2>3 DEF IInv
<1>7. CASE op = "get" /\ Return(p, None) /\ UNCHANGED text
  <2>1. UNCHANGED creators
    BY <1>7 DEF Look
  <2> QED
    BY <1>1, <1>4, <1>7, <2>1, ReturnControl, ReturnPending, DataUnchanged DEF IInv
<1>8. op = "record" /\ files[File(p)] = Absent => Call(p).agent_id \in creators'[File(p)]
  BY <1>2 DEF Look, IInv, DataOK
<1> QED
  BY <1>1, <1>5, <1>6, <1>7, <1>8 DEF Look, Goto

LEMMA LoadFailsOK == ASSUME IInv, NEW p \in Procs, LoadFails(p) PROVE IInv'
<1>1. script[p] # <<>> /\ Return(p, Raised)
  BY DEF LoadFails, IInv, ControlOK
<1>2. UNCHANGED <<files, text, recorded, creators>>
  BY DEF LoadFails, history
<1> QED
  BY <1>1, <1>2, ReturnControl, ReturnPending, FiledUnchanged, DataUnchanged DEF IInv

(* One process goes on to open its file, with what it is to write. *)
LEMMA PendingOthers ==
  ASSUME IInv, NEW p \in Procs, NEW q \in Procs, q # p,
         NEW place, pc' = [pc EXCEPT ![p] = place], UNCHANGED <<script, recorded, creators>>,
         text'[q] = text[q], pc'[q] \in {"open", "write"}, Call(q)'.op = "record"
  PROVE  /\ text'[q] \in LESSON
         /\ text'[q].recurrences <= recorded'[File(q)']
         /\ text'[q].agent_id \in creators'[File(q)']
BY DEF IInv, ControlOK, PendingOK, File, Call

LEMMA LoadOK == ASSUME IInv, NEW p \in Procs, Load(p) PROVE IInv'
<1> DEFINE op == Call(p).op
           doc == files[File(p)].doc
<1>1. /\ script[p] # <<>> /\ op \in {"record", "keypair", "get"} /\ pc[p] = "load"
      /\ op \in DOMAIN DirectoryOf
      /\ UNCHANGED <<files, recorded, creators>>
  BY DEF Load, history, IInv, ControlOK
<1>2. FiledOK'
  BY <1>1, FiledUnchanged DEF IInv
<1>3. CASE op \in {"keypair", "get"}
  <2>1. UNCHANGED text /\ \E value : Return(p, value)
    BY <1>3 DEF Load
  <2> QED
    BY <1>1, <1>2, <2>1, ReturnControl, ReturnPending, DataUnchanged DEF IInv
<1>4. CASE op = "record"
  <2>1. /\ text' = [text EXCEPT ![p] = Repeated(doc, Call(p))]
        /\ pc' = [pc EXCEPT ![p] = "open"] /\ UNCHANGED script
    BY <1>4 DEF Load, Goto
  <2>2. ControlOK'
    BY <1>1, <1>4, <2>1 DEF ControlOK, IInv, Call, PLACES
  <2>3. DataOK'
    BY <1>1, <2>1 DEF DataOK, IInv
  <2>4. PendingOK'
    <3> SUFFICES ASSUME NEW q \in Procs, pc'[q] \in {"open", "write"}, Call(q)'.op = "record"
                 PROVE  /\ text'[q] \in LESSON
                        /\ text'[q].recurrences <= recorded'[File(q)']
                        /\ text'[q].agent_id \in creators'[File(q)']
      BY DEF PendingOK
    <3>1. CASE q = p
      <4>1. File(p) \in LessonFiles /\ Readable(File(p))
        BY <1>1, <1>4, OnlyRecord DEF Load, IInv
      <4>2. doc \in LESSON /\ doc.recurrences + 1 <= recorded[File(p)]
            /\ doc.agent_id \in creators[File(p)]
        BY <4>1 DEF IInv, FiledOK
      <4>3. text'[p] = Repeated(doc, Call(p)) /\ File(p)' = File(p)
        BY <2>1 DEF IInv, DataOK, Call, File
      <4> QED
        BY <1>1, <3>1, <4>2, <4>3, LessonRepeated
    <3>2. CASE q # p
      <4>1. text'[q] = text[q]
        BY <2>1, <3>2 DEF IInv, DataOK
      <4>2. UNCHANGED <<script, recorded, creators>>
        BY <1>1, <2>1
      <4> QED
        BY <2>1, <3>2, <4>1, <4>2, PendingOthers
    <3> QED
      BY <3>1, <3>2
  <2> QED
    BY <1>2, <2>2, <2>3, <2>4 DEF IInv
<1> QED
  BY <1>1, <1>3, <1>4

LEMMA ReplaceOK == ASSUME IInv, NEW p \in Procs, Replace(p) PROVE IInv'
<1>1. /\ script[p] # <<>> /\ Call(p).op \in {"publish", "note"} /\ pc[p] = "idle"
      /\ text' = [text EXCEPT ![p] = Call(p).doc]
      /\ pc' = [pc EXCEPT ![p] = "open"]
      /\ UNCHANGED <<script, files, recorded, creators>>
  BY DEF Replace, Calls, Goto
<1>2. ControlOK'
  BY <1>1, Directories DEF ControlOK, IInv, Call, PLACES
<1>3. DataOK'
  BY <1>1 DEF DataOK, IInv
<1>4. FiledOK'
  BY <1>1, FiledUnchanged DEF IInv
<1>5. PendingOK'
  <2> SUFFICES ASSUME NEW q \in Procs, pc'[q] \in {"open", "write"}, Call(q)'.op = "record"
               PROVE  /\ text'[q] \in LESSON
                      /\ text'[q].recurrences <= recorded'[File(q)']
                      /\ text'[q].agent_id \in creators'[File(q)']
    BY DEF PendingOK
  <2>1. q # p
    BY <1>1 DEF Call
  <2>2. text'[q] = text[q]
    BY <1>1, <2>1 DEF IInv, DataOK
  <2>3. UNCHANGED <<script, recorded, creators>>
    BY <1>1
  <2> QED
    BY <1>1, <2>1, <2>2, <2>3, PendingOthers
<1> QED
  BY <1>2, <1>3, <1>4, <1>5 DEF IInv

LEMMA OpenOK == ASSUME IInv, NEW p \in Procs, Open(p) PROVE IInv'
<1>1. /\ files' = [files EXCEPT ![File(p)] = Truncated] /\ pc[p] = "open"
      /\ pc' = [pc EXCEPT ![p] = "write"]
      /\ UNCHANGED <<script, text, recorded, creators>>
  BY DEF Open, Goto, history
<1>2. ControlOK'
  BY <1>1 DEF ControlOK, IInv, Call, PLACES
<1>3. DataOK'
  BY <1>1 DEF DataOK, IInv
<1>4. FiledOK'
  BY <1>1 DEF IInv, DataOK, FiledOK, LessonFiles, Readable, Truncated
<1>5. PendingOK'
  BY <1>1 DEF IInv, ControlOK, PendingOK, File, Call
<1> QED
  BY <1>2, <1>3, <1>4, <1>5 DEF IInv

LEMMA WriteOK == ASSUME IInv, NEW p \in Procs, Write(p) PROVE IInv'
<1>1. /\ pc[p] = "write" /\ script[p] # <<>> /\ Call(p).op \in DOMAIN DirectoryOf
      /\ Return(p, text[p]) /\ UNCHANGED <<text, creators>>
  BY DEF Write, IInv, ControlOK
<1>2. File(p) \in Files
  BY <1>1, CallOK DEF IInv
<1>3. ControlOK'
  BY <1>1, ReturnControl DEF IInv
<1>4. /\ recorded' \in [Files -> Nat]
      /\ \A f \in Files : recorded[f] <= recorded'[f]
      /\ Call(p).op = "record" => recorded'[File(p)] = recorded[File(p)] + 1
  BY <1>2 DEF Write, IInv, DataOK
<1>5. DataOK'
  BY <1>1, <1>4 DEF DataOK, IInv, Write
<1>6. FiledOK'
  <2> SUFFICES ASSUME NEW f \in LessonFiles, Readable(f)'
               PROVE  /\ files'[f].doc \in LESSON
                      /\ files'[f].doc.recurrences + 1 <= recorded'[f]
                      /\ files'[f].doc.agent_id \in creators'[f]
    BY DEF FiledOK, LessonFiles
  <2>1. CASE files'[f] = files[f]
    <3>1. Readable(f) /\ f \in Files
      BY <2>1 DEF Readable, LessonFiles
    <3>2. /\ files[f].doc \in LESSON /\ files[f].doc.recurrences + 1 <= recorded[f]
          /\ files[f].doc.agent_id \in creators[f]
      BY <3>1 DEF IInv, FiledOK
    <3>3. files[f].doc.recurrences \in Nat /\ recorded[f] \in Nat /\ recorded'[f] \in Nat
      BY <1>4, <3>1, <3>2 DEF LESSON, IInv, DataOK
    <3> QED
      BY <1>1, <1>4, <2>1, <3>1, <3>2, <3>3
  <2>2. CASE files'[f] # files[f]
    <3>1. f = File(p) /\ files'[f] = Written(files[f], text[p])
      BY <2>2 DEF Write, LessonFiles, IInv, DataOK
    <3>2. Call(p).op = "record"
      BY <1>1, <3>1, OnlyRecord DEF IInv
    <3>3. files'[f].doc = text[p]
      BY <3>1 DEF Written, Readable
    <3>4. /\ text[p] \in LESSON /\ text[p].recurrences <= recorded[f]
          /\ text[p].agent_id \in creators[f]
      BY <1>1, <3>1, <3>2 DEF IInv, PendingOK
    <3>5. text[p].recurrences \in Nat /\ recorded[f] \in Nat
      BY <1>2, <3>1, <3>4 DEF LESSON, IInv, DataOK
    <3> QED
      BY <1>1, <1>4, <3>1, <3>2, <3>3, <3>4, <3>5
  <2> QED
    BY <2>1, <2>2
<1>7. PendingOK'
  <2> SUFFICES ASSUME NEW q \in Procs, pc'[q] \in {"open", "write"}, Call(q)'.op = "record"
               PROVE  /\ text'[q] \in LESSON
                      /\ text'[q].recurrences <= recorded'[File(q)']
                      /\ text'[q].agent_id \in creators'[File(q)']
    BY DEF PendingOK
  <2>1. q # p /\ pc[q] \in {"open", "write"} /\ script'[q] = script[q]
    BY <1>1 DEF Return, Goto, IInv, ControlOK
  <2>2. Call(q)' = Call(q) /\ File(q)' = File(q) /\ script[q] # <<>>
    BY <2>1 DEF Call, File, IInv, ControlOK
  <2>3. File(q) \in Files
    BY <2>1, <2>2, CallOK DEF IInv, ControlOK
  <2>4. /\ text[q] \in LESSON /\ text[q].recurrences <= recorded[File(q)]
        /\ text[q].agent_id \in creators[File(q)]
    BY <2>1, <2>2 DEF IInv, PendingOK
  <2>5. text[q].recurrences \in Nat /\ recorded[File(q)] \in Nat /\ recorded'[File(q)] \in Nat
    BY <1>4, <2>3, <2>4 DEF LESSON, IInv, DataOK
  <2> QED
    BY <1>1, <1>4, <2>2, <2>3, <2>4, <2>5
<1> QED
  BY <1>3, <1>5, <1>6, <1>7 DEF IInv

LEMMA UnlinkOK == ASSUME IInv, NEW p \in Procs, Unlink(p) PROVE IInv'
<1>1. /\ script[p] # <<>> /\ Call(p).op = "unpublish" /\ Return(p, None)
      /\ files' = [files EXCEPT ![File(p)] = Absent]
      /\ UNCHANGED <<text, recorded, creators>>
  BY DEF Unlink, Calls
<1>2. ControlOK'
  BY <1>1, ReturnControl DEF IInv
<1>3. DataOK'
  BY <1>1 DEF DataOK, IInv
<1>4. FiledOK'
  BY <1>1 DEF IInv, DataOK, FiledOK, LessonFiles, Readable, Absent
<1>5. PendingOK'
  BY <1>1, ReturnPending DEF IInv
<1> QED
  BY <1>2, <1>3, <1>4, <1>5 DEF IInv

LEMMA ListOK == ASSUME IInv, NEW p \in Procs, List(p) PROVE IInv'
<1>1. /\ script[p] # <<>> /\ pc' = [pc EXCEPT ![p] = "read"]
      /\ Call(p).op \in {"recurrences", "digest", "find"}
      /\ UNCHANGED <<script, files, text, recorded, creators>>
  BY DEF List, Goto, Calls, history
<1>2. ControlOK'
  BY <1>1 DEF ControlOK, IInv, Call, PLACES
<1>3. PendingOK'
  BY <1>1 DEF IInv, ControlOK, PendingOK, File, Call
<1> QED
  BY <1>1, <1>2, <1>3, FiledUnchanged, DataUnchanged DEF IInv

LEMMA ReadNextOK == ASSUME IInv, NEW p \in Procs, ReadNext(p) PROVE IInv'
<1>1. script[p] # <<>>
  BY DEF ReadNext, IInv, ControlOK
<1>2. UNCHANGED <<files, text, recorded, creators>>
  BY DEF ReadNext, history
<1>3. CASE UNCHANGED <<script, pc>>
  <2>1. ControlOK'
    BY <1>3 DEF IInv, ControlOK, Call
  <2>2. PendingOK'
    BY <1>2, <1>3 DEF IInv, PendingOK, Call, File
  <2> QED
    BY <1>2, <2>1, <2>2, FiledUnchanged, DataUnchanged DEF IInv
<1>4. CASE Return(p, Raised)
  BY <1>1, <1>2, <1>4, ReturnControl, ReturnPending, FiledUnchanged, DataUnchanged DEF IInv
<1> QED
  BY <1>3, <1>4 DEF ReadNext

LEMMA ReadEndsOK == ASSUME IInv, NEW p \in Procs, ReadEnds(p) PROVE IInv'
<1>1. script[p] # <<>> /\ \E value : Return(p, value)
  BY DEF ReadEnds, IInv, ControlOK
<1>2. UNCHANGED <<files, text, recorded, creators>>
  BY DEF ReadEnds, history
<1> QED
  BY <1>1, <1>2, ReturnControl, ReturnPending, FiledUnchanged, DataUnchanged DEF IInv

LEMMA DieOK == ASSUME IInv, NEW p \in Procs, Die(p) PROVE IInv'
<1>1. /\ pc' = [pc EXCEPT ![p] = "dead"]
      /\ UNCHANGED <<script, files, text, recorded, creators>>
  BY DEF Die, Goto
<1>2. ControlOK'
  BY <1>1 DEF ControlOK, IInv, Call, PLACES
<1>3. PendingOK'
  BY <1>1 DEF IInv, ControlOK, PendingOK, File, Call
<1> QED
  BY <1>1, <1>2, <1>3, FiledUnchanged, DataUnchanged DEF IInv

LEMMA StutterOK == ASSUME IInv, UNCHANGED vars PROVE IInv'
<1>1. UNCHANGED <<script, pc, files, text, recorded, creators>>
  BY DEF vars, local, history
<1>2. ControlOK'
  BY <1>1 DEF IInv, ControlOK, Call
<1>3. PendingOK'
  BY <1>1 DEF IInv, PendingOK, Call, File
<1> QED
  BY <1>1, <1>2, <1>3, FiledUnchanged, DataUnchanged DEF IInv

LEMMA NextOK == ASSUME IInv, [Next]_vars PROVE IInv'
<1>1. ASSUME NEW p \in Procs, Step(p) \/ Die(p) PROVE IInv'
  BY <1>1, RejectOK, LookOK, LoadFailsOK, LoadOK, ReplaceOK, OpenOK, WriteOK, UnlinkOK, ListOK,
     ReadNextOK, ReadEndsOK, DieOK DEF Step
<1> QED
  BY <1>1, StutterOK DEF Next

(* In every state the lessons on file, and those about to be written, are  *)
(* lessons that the calls of record() account for.                         *)
THEOREM InvariantHolds == Spec => []IInv
<1>1. Init => IInv
  BY InitOK
<1>2. IInv /\ [Next]_vars => IInv'
  BY NextOK
<1> QED
  BY <1>1, <1>2, PTL DEF Spec

(* No interleaving of record() calls, and no crash, makes a lesson count    *)
(* more repetitions than there were: an agent is never distrusted too much. *)
THEOREM NeverOverCountedHolds == Spec => []NeverOverCounted
<1>1. IInv => NeverOverCounted
  BY DEF IInv, FiledOK, LessonFiles, NeverOverCounted
<1> QED
  BY <1>1, InvariantHolds, PTL

(* A lesson belongs to an agent that found none on file, whoever else       *)
(* repeats the mistake or writes at the same time.                         *)
THEOREM AuthorFoundNoFileHolds == Spec => []AuthorFoundNoFile
<1>1. IInv => AuthorFoundNoFile
  BY DEF IInv, FiledOK, LessonFiles, AuthorFoundNoFile
<1> QED
  BY <1>1, InvariantHolds, PTL
-----------------------------------------------------------------------------
(* A process that does not reach "open" or "write" in a lesson leaves a torn *)
(* one as it is.                                                           *)
LEMMA StaysLost ==
  ASSUME IInv, IInv', NEW f \in LessonFiles, IsLost(f), NEW p \in Procs,
         files'[f] = files[f],
         \A q \in Procs \ {p} : script'[q] = script[q] /\ pc'[q] = pc[q],
         pc'[p] \in {"open", "write"} => File(p)' # f
  PROVE  IsLost(f)'
<1>1. files'[f].doc = Torn
  BY DEF IsLost
<1>2. ASSUME NEW q \in Writers(f)' PROVE pc'[q] = "load"
  <2>1. q \in Procs /\ script'[q] # <<>> /\ FileOf[Call(q)'.name] = f
    BY <1>2 DEF Writers, Calls, File
  <2>2. CASE q = p
    <3>1. File(p)' = f
      BY <2>1, <2>2 DEF File, Call
    <3>2. pc'[p] \notin {"open", "write"}
      BY <3>1
    <3> QED
      BY <1>2, <2>2, <3>2 DEF Writers
  <2>3. CASE q # p
    <3>1. q \in Writers(f)
      BY <1>2, <2>3 DEF Writers, Calls, Call, File
    <3> QED
      BY <2>1, <2>3, <3>1 DEF IsLost
  <2> QED
    BY <2>2, <2>3
<1> QED
  BY <1>1, <1>2 DEF IsLost

(* Nobody writes a lost lesson: its writers are still to read it. *)
LEMMA LostStepOK ==
  ASSUME IInv, IInv', NEW f \in LessonFiles, IsLost(f), NEW p \in Procs, Step(p) \/ Die(p)
  PROVE  IsLost(f)'
<1>1. f \in Files /\ DOMAIN files = Files /\ files[f].doc = Torn
  BY DEF IInv, DataOK, LessonFiles, IsLost
<1>2. files[f] # Absent /\ ~Readable(f)
  BY <1>1, StoreAssumption DEF Absent, Readable
<1>3. ASSUME pc[p] \in {"open", "write"} PROVE File(p) # f
  BY <1>3 DEF IInv, ControlOK, IsLost, Writers, Calls
<1>4. CASE Reject(p) \/ LoadFails(p) \/ List(p) \/ ReadNext(p) \/ ReadEnds(p) \/ Die(p)
  <2>1. UNCHANGED files
    BY <1>4 DEF Reject, LoadFails, List, ReadNext, ReadEnds, Die, history
  <2>2. \/ \E value : Return(p, value)
        \/ UNCHANGED script /\ \E place \in {"read", "dead"} : Goto(p, place)
        \/ UNCHANGED <<script, pc>> /\ pc[p] = "read"
    BY <1>4 DEF Reject, LoadFails, List, ReadNext, ReadEnds, Die
  <2>3. /\ \A q \in Procs \ {p} : script'[q] = script[q] /\ pc'[q] = pc[q]
        /\ pc'[p] \notin {"open", "write"}
    BY <2>2 DEF Return, Goto, IInv, ControlOK
  <2> QED
    BY <2>1, <2>3, StaysLost
<1>5. CASE Look(p)
  <2>1. UNCHANGED files
    BY <1>5 DEF Look
  <2>2. \/ Return(p, None)
        \/ UNCHANGED script /\ Goto(p, "load")
        \/ UNCHANGED script /\ Goto(p, "open") /\ files[File(p)] = Absent
    BY <1>5 DEF Look, Calls
  <2>3. /\ \A q \in Procs \ {p} : script'[q] = script[q] /\ pc'[q] = pc[q]
        /\ pc'[p] \in {"open", "write"} => UNCHANGED script /\ files[File(p)] = Absent
    BY <2>2 DEF Return, Goto, IInv, ControlOK
  <2>4. pc'[p] \in {"open", "write"} => File(p)' # f
    BY <1>2, <2>3 DEF File, Call
  <2> QED
    BY <2>1, <2>3, <2>4, StaysLost
<1>6. CASE Load(p)
  <2>1. /\ UNCHANGED files
        /\ \A q \in Procs \ {p} : script'[q] = script[q] /\ pc'[q] = pc[q]
    BY <1>6 DEF Load, Return, Goto, IInv, ControlOK
  <2>2. ASSUME pc'[p] \in {"open", "write"} PROVE File(p)' # f
    <3>1. Readable(File(p)) /\ UNCHANGED script
      BY <1>6, <2>2 DEF Load, Return, Goto, IInv, ControlOK
    <3> QED
      BY <1>2, <3>1 DEF File, Call
  <2> QED
    BY <2>1, <2>2, StaysLost
<1>7. CASE Replace(p)
  <2>1. /\ UNCHANGED <<files, script>> /\ script[p] # <<>> /\ Call(p).op \in {"publish", "note"}
        /\ \A q \in Procs \ {p} : pc'[q] = pc[q]
    BY <1>7 DEF Replace, Goto, Calls, IInv, ControlOK
  <2>2. File(p) # f
    BY <2>1, OnlyRecord, Directories DEF IInv
  <2>3. File(p)' # f
    BY <2>1, <2>2 DEF File, Call
  <2> QED
    BY <2>1, <2>3, StaysLost
<1>8. CASE Open(p) \/ Write(p)
  <2>1. pc[p] \in {"open", "write"}
    BY <1>8 DEF Open, Write
  <2>2. /\ files'[f] = files[f]
        /\ \A q \in Procs \ {p} : script'[q] = script[q] /\ pc'[q] = pc[q]
    BY <1>1, <1>3, <1>8, <2>1 DEF Open, Write, Return, Goto, IInv, ControlOK
  <2>3. ASSUME pc'[p] \in {"open", "write"} PROVE File(p)' # f
    <3>1. UNCHANGED script
      BY <1>8, <2>3 DEF Open, Write, Return, Goto, IInv, ControlOK
    <3> QED
      BY <1>3, <2>1, <3>1 DEF File, Call
  <2> QED
    BY <2>2, <2>3, StaysLost
<1>9. CASE Unlink(p)
  <2>1. script[p] # <<>> /\ Call(p).op = "unpublish"
    BY <1>9 DEF Unlink, Calls
  <2>2. File(p) # f
    BY <2>1, OnlyRecord, Directories DEF IInv
  <2>3. /\ files'[f] = files[f]
        /\ \A q \in Procs \ {p} : script'[q] = script[q] /\ pc'[q] = pc[q]
        /\ pc'[p] \notin {"open", "write"}
    BY <1>1, <1>9, <2>2 DEF Unlink, Return, Goto, IInv, ControlOK
  <2> QED
    BY <2>3, StaysLost
<1> QED
  BY <1>4, <1>5, <1>6, <1>7, <1>8, <1>9 DEF Step

(* A lesson that a crash or a clash has torn, and that nobody is writing,   *)
(* is never mended, whatever is recorded afterwards.                       *)
THEOREM TornLessonStaysHolds == Spec => TornLessonStays
<1>1. ASSUME IInv, [Next]_vars
      PROVE  [\A f \in Files : Dir[f] = "lessons" /\ IsLost(f) => IsLost(f)']_vars
  <2>1. CASE UNCHANGED vars
    BY <2>1
  <2>2. CASE Next
    <3>1. IInv'
      BY <1>1, NextOK
    <3>2. PICK p \in Procs : Step(p) \/ Die(p)
      BY <2>2 DEF Next
    <3> QED
      BY <1>1, <3>1, <3>2, LostStepOK DEF LessonFiles
  <2> QED
    BY <1>1, <2>1, <2>2
<1> QED
  BY <1>1, InvariantHolds, PTL DEF Spec, TornLessonStays
-----------------------------------------------------------------------------
(* Writers that keep out of each other's way.  An invariant says what each  *)
(* stage of the one writer of a file leaves in it.                         *)

SerialTypes ==
  /\ linked \in [Procs -> BOOLEAN]
  /\ DOMAIN saved = Files /\ DOMAIN answer = Procs
  /\ raced \subseteq Files

(* What was written last is whole, and a lesson counts what was recorded. *)
Settled(f) ==
  /\ files[f] = IF saved[f] = None THEN Absent ELSE [doc |-> saved[f], len |-> Size(saved[f])]
  /\ saved[f] # Torn
  /\ Dir[f] = "lessons" =>
       recorded[f] = IF saved[f] = None THEN 0 ELSE saved[f].recurrences + 1

(* What a writer is about to write is a document: the lesson with the      *)
(* repetition that is recorded now, or the first key pair.                 *)
Ready(p) ==
  /\ text[p] \notin {None, Torn}
  /\ Call(p).op = "record" => text[p].recurrences = recorded[File(p)]
  /\ Call(p).op = "keypair" => saved[File(p)] = None

AskedForKeys(p, f) ==
  answer[p] # None /\ answer[p].call.op = "keypair" /\ FileOf[answer[p].call.name] = f

LoadsKeys(p, f) ==
  pc[p] = "load" /\ Call(p).op = "keypair" /\ File(p) = f

StageOK(p) ==
  /\ pc[p] = "load" => saved[File(p)] # None
  /\ pc[p] = "open" => Ready(p)
  /\ pc[p] = "write" => Ready(p) /\ linked[p] /\ files[File(p)] = Truncated

SerialFile(f) ==
  /\ \A p, q \in Writers(f) : p = q
  /\ \A p \in Writers(f) : StageOK(p)
  /\ (\A p \in Writers(f) : pc[p] = "load") => Settled(f)
  /\ \A p \in Procs : AskedForKeys(p, f) => saved[f] # None /\ answer[p].value = saved[f]
  /\ \A p \in Procs : LoadsKeys(p, f) => saved[f] # None

SerialInv ==
  /\ SerialTypes
  /\ \A p \in Procs, f \in Files : AskedForKeys(p, f) => Dir[f] = "keys"
  /\ \A f \in Files \ raced : SerialFile(f)

SerialHyp == IInv /\ SerialInv

LEMMA InitSerial == ASSUME Init PROVE SerialInv
<1>1. SerialTypes /\ \A p \in Procs, f \in Files : ~AskedForKeys(p, f)
  BY DEF Init, SerialTypes, AskedForKeys
<1>2. ASSUME NEW f \in Files PROVE SerialFile(f)
  <2>1. Writers(f) = {} /\ \A p \in Procs : ~LoadsKeys(p, f)
    BY DEF Init, Writers, LoadsKeys
  <2>2. Settled(f)
    BY StoreAssumption DEF Init, Settled
  <2> QED BY <1>1, <2>1, <2>2 DEF SerialFile
<1> QED BY <1>1, <1>2 DEF SerialInv

(* A writer is a process at its call, on the file of that call. *)
LEMMA WriterCall ==
  ASSUME IInv, NEW f \in Files, NEW p \in Writers(f)
  PROVE  /\ p \in Procs /\ script[p] # <<>> /\ File(p) = f
         /\ Call(p).op \in {"record", "publish", "keypair", "note"}
         /\ pc[p] \in {"load", "open", "write"}
         /\ pc[p] = "load" => Call(p).op = "record"
BY DEF Writers, Calls

(* A process that keeps its call and place is a writer if it was one. *)
LEMMA WriterSame ==
  ASSUME NEW f \in Files, NEW p \in Procs, script'[p] = script[p], pc'[p] = pc[p]
  PROVE  /\ p \in Writers(f)' <=> p \in Writers(f)
         /\ Call(p)' = Call(p) /\ File(p)' = File(p)
BY DEF Writers, Calls, Call, File

(* A process at its call has a file of the call's directory. *)
LEMMA CallsFile ==
  ASSUME IInv, NEW p \in Procs, script[p] # <<>>, Call(p).op \in DOMAIN DirectoryOf
  PROVE  File(p) \in Files /\ Dir[File(p)] = DirectoryOf[Call(p).op]
BY CallOK DEF IInv

(* What stage the writers of f are in does not change by a step of p that   *)
(* neither is nor becomes one of them, nor touches f.                      *)
LEMMA SerialStands ==
  ASSUME SerialHyp, NEW p \in Procs, NEW f \in Files, SerialFile(f),
         files'[f] = files[f], saved'[f] = saved[f], recorded'[f] = recorded[f],
         \A q \in Procs \ {p} : /\ script'[q] = script[q] /\ pc'[q] = pc[q]
                                /\ text'[q] = text[q] /\ answer'[q] = answer[q],
         \A q \in Writers(f) \ {p} : linked'[q] = linked[q],
         p \in Writers(f) => pc[p] = "load",
         p \notin Writers(f)',
         AskedForKeys(p, f)' => saved[f] # None /\ answer'[p].value = saved[f],
         LoadsKeys(p, f)' => saved[f] # None
  PROVE  SerialFile(f)'
<1>1. \A q \in Procs \ {p} :
        /\ q \in Writers(f)' <=> q \in Writers(f)
        /\ Call(q)' = Call(q) /\ File(q)' = File(q)
  BY WriterSame
<1>2. Writers(f)' = Writers(f) \ {p}
  BY <1>1 DEF Writers
<1>3. ASSUME NEW q \in Writers(f)' PROVE StageOK(q)'
  <2>1. q \in Writers(f) /\ q # p /\ q \in Procs /\ File(q) = f
    BY <1>2, WriterCall DEF SerialHyp
  <2>2. StageOK(q)
    BY <2>1 DEF SerialFile
  <2>3. /\ pc'[q] = pc[q] /\ text'[q] = text[q] /\ linked'[q] = linked[q]
        /\ Call(q)' = Call(q) /\ File(q)' = f
    BY <1>1, <2>1
  <2> QED BY <2>1, <2>2, <2>3 DEF StageOK, Ready, Truncated
<1>4. ASSUME \A q \in Writers(f)' : pc'[q] = "load" PROVE Settled(f)'
  <2>1. \A q \in Writers(f) : pc[q] = "load"
    BY <1>2, <1>4, WriterCall DEF SerialHyp
  <2>2. Settled(f)
    BY <2>1 DEF SerialFile
  <2> QED BY <2>2 DEF Settled, Absent
<1>5. ASSUME NEW q \in Procs, AskedForKeys(q, f)'
      PROVE  saved'[f] # None /\ answer'[q].value = saved'[f]
  BY <1>5 DEF SerialFile, AskedForKeys
<1>6. ASSUME NEW q \in Procs, LoadsKeys(q, f)' PROVE saved'[f] # None
  BY <1>1, <1>6 DEF SerialFile, LoadsKeys
<1>7. \A q, r \in Writers(f)' : q = r
  BY <1>2 DEF SerialFile
<1> QED BY <1>3, <1>4, <1>5, <1>6, <1>7 DEF SerialFile

(* p begins to write f, or goes on: it is the only writer of f. *)
LEMMA SerialWriter ==
  ASSUME SerialHyp, NEW p \in Procs, NEW f \in Files, SerialFile(f),
         saved'[f] = saved[f], UNCHANGED answer,
         \A q \in Procs \ {p} : script'[q] = script[q] /\ pc'[q] = pc[q],
         Writers(f) \subseteq {p}, StageOK(p)',
         \/ pc'[p] # "load"
         \/ files'[f] = files[f] /\ recorded'[f] = recorded[f] /\ Settled(f),
         p \in Writers(f)', ~LoadsKeys(p, f)'
  PROVE  SerialFile(f)'
<1>1. \A q \in Procs \ {p} :
        /\ q \in Writers(f)' <=> q \in Writers(f)
        /\ Call(q)' = Call(q) /\ File(q)' = File(q)
  BY WriterSame
<1>2. Writers(f)' = {p}
  BY <1>1 DEF Writers
<1>3. (\A q \in Writers(f)' : pc'[q] = "load") => Settled(f)'
  BY <1>2 DEF Settled, Absent
<1>4. \A q \in Procs : AskedForKeys(q, f)' => saved'[f] # None /\ answer'[q].value = saved'[f]
  BY DEF SerialFile, AskedForKeys
<1>5. \A q \in Procs : LoadsKeys(q, f)' => saved'[f] # None
  BY <1>1 DEF SerialFile, LoadsKeys
<1> QED BY <1>2, <1>3, <1>4, <1>5 DEF SerialFile

LEMMA AnswersDir ==
  ASSUME SerialHyp, NEW p \in Procs,
         \/ answer' = answer
         \/ /\ script[p] # <<>>
            /\ \E value : answer' = [answer EXCEPT ![p] = [call |-> Call(p), value |-> value]]
  PROVE  /\ DOMAIN answer' = Procs
         /\ \A q \in Procs, f \in Files : AskedForKeys(q, f)' => Dir[f] = "keys"
<1>1. DOMAIN answer = Procs /\ \A q \in Procs, f \in Files : AskedForKeys(q, f) => Dir[f] = "keys"
  BY DEF SerialHyp, SerialInv, SerialTypes
<1>2. CASE answer' = answer
  BY <1>1, <1>2 DEF AskedForKeys
<1>3. ASSUME script[p] # <<>>, NEW value,
             answer' = [answer EXCEPT ![p] = [call |-> Call(p), value |-> value]]
      PROVE  /\ DOMAIN answer' = Procs
             /\ \A q \in Procs, f \in Files : AskedForKeys(q, f)' => Dir[f] = "keys"
  <2>1. DOMAIN answer' = Procs
    BY <1>1, <1>3
  <2> SUFFICES ASSUME NEW q \in Procs, NEW f \in Files, AskedForKeys(q, f)'
               PROVE  Dir[f] = "keys"
    BY <2>1
  <2>2. CASE q = p
    <3>1. answer'[q].call = Call(p)
      BY <1>1, <1>3, <2>2
    <3>2. Call(p).op = "keypair" /\ File(p) = f
      BY <3>1 DEF AskedForKeys, File
    <3>3. Call(p).op \in DOMAIN DirectoryOf /\ DirectoryOf["keypair"] = "keys"
      BY <3>2 DEF DirectoryOf
    <3> QED BY <1>3, <3>2, <3>3, CallsFile DEF SerialHyp
  <2>3. CASE q # p
    BY <1>1, <1>3, <2>3 DEF AskedForKeys
  <2> QED BY <2>2, <2>3
<1> QED BY <1>2, <1>3

(* What a step that returns does to the other processes. *)
LEMMA ReturnOthers ==
  ASSUME SerialHyp, NEW p \in Procs, NEW value, Return(p, value)
  PROVE  /\ \A q \in Procs \ {p} :
              script'[q] = script[q] /\ pc'[q] = pc[q] /\ answer'[q] = answer[q]
         /\ pc'[p] = "idle"
         /\ answer'[p] = [call |-> Call(p), value |-> value]
         /\ \A f \in Files : p \notin Writers(f)' /\ ~LoadsKeys(p, f)'
         /\ \A f \in Files : AskedForKeys(p, f)' => Call(p).op = "keypair" /\ File(p) = f
BY DEF Return, Goto, SerialHyp, IInv, ControlOK, SerialInv, SerialTypes, Writers, LoadsKeys,
       AskedForKeys, File

(* A call that returns and has written nothing: a key pair it returns is    *)
(* the one on file.                                                        *)
LEMMA ReturnSerial ==
  ASSUME SerialHyp, NEW p \in Procs, NEW value, script[p] # <<>>, Return(p, value),
         UNCHANGED <<files, text, linked, saved, recorded, raced>>,
         \A f \in Files : p \in Writers(f) => pc[p] = "load",
         \A f \in Files \ raced :
           Call(p).op = "keypair" /\ File(p) = f => saved[f] # None /\ value = saved[f]
  PROVE  SerialInv'
<1>1. /\ DOMAIN answer' = Procs
      /\ \A q \in Procs, f \in Files : AskedForKeys(q, f)' => Dir[f] = "keys"
  BY AnswersDir DEF Return
<1>2. SerialTypes'
  BY <1>1 DEF SerialHyp, SerialInv, SerialTypes
<1>3. ASSUME NEW f \in Files \ raced' PROVE SerialFile(f)'
  <2>1. SerialFile(f) /\ f \in Files
    BY <1>3 DEF SerialHyp, SerialInv
  <2>2. AskedForKeys(p, f)' => saved[f] # None /\ answer'[p].value = saved[f]
    <3>1. answer'[p].value = value
      <4>1. answer'[p] = [call |-> Call(p), value |-> value]
        BY ReturnOthers
      <4> QED BY <4>1
    <3>2. AskedForKeys(p, f)' => Call(p).op = "keypair" /\ File(p) = f
      BY <2>1, ReturnOthers
    <3>3. f \in Files \ raced
      BY <1>3
    <3> QED BY <3>1, <3>2, <3>3
  <2>3. /\ \A q \in Procs \ {p} :
             script'[q] = script[q] /\ pc'[q] = pc[q] /\ answer'[q] = answer[q]
        /\ p \notin Writers(f)' /\ ~LoadsKeys(p, f)'
    BY <2>1, ReturnOthers
  <2> QED BY <2>1, <2>2, <2>3, SerialStands
<1> QED BY <1>1, <1>2, <1>3 DEF SerialInv

LEMMA RejectSerial == ASSUME SerialHyp, NEW p \in Procs, Reject(p) PROVE SerialInv'
<1>1. /\ script[p] # <<>> /\ Call(p).op = "record" /\ pc[p] = "idle" /\ Return(p, Raised)
      /\ UNCHANGED <<files, text, linked, saved, recorded, raced>>
  BY DEF Reject, Calls, history
<1>2. \A f \in Files : p \notin Writers(f)
  BY <1>1 DEF Writers
<1> QED BY <1>1, <1>2, ReturnSerial

(* Whoever loads a key pair finds it whole: nobody writes one that is there. *)
LEMMA KeysWhole ==
  ASSUME SerialHyp, NEW p \in Procs, NEW f \in Files \ raced, LoadsKeys(p, f)
  PROVE  Settled(f) /\ saved[f] # None
<1>1. SerialFile(f) /\ IInv /\ saved[f] # None
  BY DEF SerialHyp, SerialInv, SerialFile
<1>2. script[p] # <<>> /\ Call(p).op = "keypair" /\ File(p) = f
  BY <1>1 DEF LoadsKeys, IInv, ControlOK
<1>3. Dir[f] = "keys"
  BY <1>1, <1>2, CallsFile DEF DirectoryOf
<1>4. ASSUME NEW q \in Writers(f) PROVE FALSE
  <2>1. /\ q \in Procs /\ script[q] # <<>> /\ File(q) = f
        /\ Call(q).op \in {"record", "publish", "keypair", "note"}
    BY <1>1, WriterCall
  <2>2. Call(q).op \in DOMAIN DirectoryOf /\ Dir[f] = DirectoryOf[Call(q).op]
    BY <1>1, <2>1, CallsFile, Directories
  <2>3. Call(q).op = "keypair"
    BY <1>3, <2>1, <2>2 DEF DirectoryOf
  <2>4. pc[q] \in {"open", "write"}
    BY <1>1, <2>3, WriterCall
  <2>5. saved[f] = None
    BY <1>1, <2>1, <2>3, <2>4 DEF SerialFile, StageOK, Ready
  <2> QED BY <1>1, <2>5
<1>5. Settled(f)
  BY <1>1, <1>4 DEF SerialFile
<1> QED BY <1>1, <1>5

LEMMA SettledReadable ==
  ASSUME NEW f \in Files, Settled(f), saved[f] # None
  PROVE  Readable(f) /\ files[f].doc = saved[f]
BY DEF Settled, Readable

LEMMA LoadFailsSerial == ASSUME SerialHyp, NEW p \in Procs, LoadFails(p) PROVE SerialInv'
<1>1. /\ script[p] # <<>> /\ pc[p] = "load" /\ Return(p, Raised) /\ ~Readable(File(p))
      /\ UNCHANGED <<files, text, linked, saved, recorded, raced>>
  BY DEF LoadFails, history, SerialHyp, IInv, ControlOK
<1>2. ASSUME NEW f \in Files \ raced PROVE ~(Call(p).op = "keypair" /\ File(p) = f)
  BY <1>1, <1>2, KeysWhole, SettledReadable DEF LoadsKeys
<1> QED BY <1>1, <1>2, ReturnSerial

LEMMA ReadNextSerial == ASSUME SerialHyp, NEW p \in Procs, ReadNext(p) PROVE SerialInv'
<1>1. /\ script[p] # <<>> /\ pc[p] = "read"
      /\ UNCHANGED <<files, text, linked, saved, recorded, raced>>
  BY DEF ReadNext, history, SerialHyp, IInv, ControlOK
<1>2. \A f \in Files : p \notin Writers(f)
  BY <1>1 DEF Writers
<1>3. CASE Return(p, Raised)
  <2>1. Call(p).op # "keypair"
    BY <1>1 DEF SerialHyp, IInv, ControlOK
  <2> QED BY <1>1, <1>2, <1>3, <2>1, ReturnSerial
<1>4. CASE UNCHANGED <<script, pc, answer>>
  <2>1. SerialTypes' /\ \A q \in Procs, f \in Files : AskedForKeys(q, f)' => Dir[f] = "keys"
    BY <1>1, <1>4 DEF SerialHyp, SerialInv, SerialTypes, AskedForKeys
  <2>2. ASSUME NEW f \in Files \ raced' PROVE SerialFile(f)'
    <3>1. SerialFile(f) /\ f \in Files
      BY <1>1, <2>2 DEF SerialHyp, SerialInv
    <3>2. p \notin Writers(f)' /\ ~LoadsKeys(p, f)'
      BY <1>1, <1>4 DEF Writers, LoadsKeys
    <3>3. AskedForKeys(p, f)' => saved[f] # None /\ answer'[p].value = saved[f]
      BY <1>4, <3>1 DEF SerialFile, AskedForKeys
    <3> QED BY <1>1, <1>2, <1>4, <3>1, <3>2, <3>3, SerialStands
  <2> QED BY <2>1, <2>2 DEF SerialInv
<1> QED BY <1>3, <1>4 DEF ReadNext

LEMMA ReadEndsSerial == ASSUME SerialHyp, NEW p \in Procs, ReadEnds(p) PROVE SerialInv'
<1>1. /\ script[p] # <<>> /\ pc[p] = "read" /\ Call(p).op # "keypair"
      /\ UNCHANGED <<files, text, linked, saved, recorded, raced>>
      /\ \E value : Return(p, value)
  BY DEF ReadEnds, history, SerialHyp, IInv, ControlOK
<1>2. \A f \in Files : p \notin Writers(f)
  BY <1>1 DEF Writers
<1> QED BY <1>1, <1>2, ReturnSerial

LEMMA ListSerial == ASSUME SerialHyp, NEW p \in Procs, List(p) PROVE SerialInv'
<1>1. /\ pc[p] = "idle" /\ pc' = [pc EXCEPT ![p] = "read"]
      /\ UNCHANGED <<files, script, text, linked, answer, saved, recorded, raced>>
  BY DEF List, Goto, history
<1>2. SerialTypes' /\ \A q \in Procs, f \in Files : AskedForKeys(q, f)' => Dir[f] = "keys"
  BY <1>1 DEF SerialHyp, SerialInv, SerialTypes, AskedForKeys
<1>3. /\ pc'[p] = "read" /\ \A q \in Procs \ {p} : pc'[q] = pc[q]
  BY <1>1 DEF SerialHyp, IInv, ControlOK
<1>4. ASSUME NEW f \in Files \ raced' PROVE SerialFile(f)'
  <2>1. SerialFile(f) /\ f \in Files
    BY <1>1, <1>4 DEF SerialHyp, SerialInv
  <2>2. p \notin Writers(f) /\ p \notin Writers(f)' /\ ~LoadsKeys(p, f)'
    BY <1>1, <1>3 DEF Writers, LoadsKeys
  <2>3. AskedForKeys(p, f)' => saved[f] # None /\ answer'[p].value = saved[f]
    BY <1>1, <2>1 DEF SerialFile, AskedForKeys
  <2> QED BY <1>1, <1>3, <2>1, <2>2, <2>3, SerialStands
<1> QED BY <1>2, <1>4 DEF SerialInv

(* Who dies while it writes leaves its file to those who race. *)
LEMMA DieSerial == ASSUME SerialHyp, NEW p \in Procs, Die(p) PROVE SerialInv'
<1>1. /\ pc' = [pc EXCEPT ![p] = "dead"]
      /\ UNCHANGED <<files, script, text, linked, answer, saved, recorded>>
      /\ raced' = raced \cup {f \in Files : p \in Writers(f)}
  BY DEF Die, Goto
<1>2. SerialTypes' /\ \A q \in Procs, f \in Files : AskedForKeys(q, f)' => Dir[f] = "keys"
  BY <1>1 DEF SerialHyp, SerialInv, SerialTypes, AskedForKeys
<1>3. /\ pc'[p] = "dead" /\ \A q \in Procs \ {p} : pc'[q] = pc[q]
  BY <1>1 DEF SerialHyp, IInv, ControlOK
<1>4. ASSUME NEW f \in Files \ raced' PROVE SerialFile(f)'
  <2>1. SerialFile(f) /\ f \in Files /\ p \notin Writers(f)
    BY <1>1, <1>4 DEF SerialHyp, SerialInv
  <2>2. p \notin Writers(f)' /\ ~LoadsKeys(p, f)'
    BY <1>3 DEF Writers, LoadsKeys
  <2>3. AskedForKeys(p, f)' => saved[f] # None /\ answer'[p].value = saved[f]
    BY <1>1, <2>1 DEF SerialFile, AskedForKeys
  <2> QED BY <1>1, <1>3, <2>1, <2>2, <2>3, SerialStands
<1> QED BY <1>2, <1>4 DEF SerialInv

(* What p goes on to write concerns no file but that of its call. *)
LEMMA OtherFile ==
  ASSUME SerialHyp, NEW p \in Procs, script'[p] = script[p], script[p] # <<>>, UNCHANGED answer,
         NEW f \in Files, SerialFile(f), File(p) # f,
         files'[f] = files[f], saved'[f] = saved[f], recorded'[f] = recorded[f],
         \A q \in Procs \ {p} : script'[q] = script[q] /\ pc'[q] = pc[q] /\ text'[q] = text[q],
         \A q \in Procs \ {p} : linked'[q] = linked[q]
  PROVE  SerialFile(f)'
<1>1. File(p)' = File(p)
  BY DEF File, Call
<1>2. p \notin Writers(f) /\ p \notin Writers(f)' /\ ~LoadsKeys(p, f)'
  BY <1>1 DEF Writers, LoadsKeys
<1>3. AskedForKeys(p, f)' => saved[f] # None /\ answer'[p].value = saved[f]
  BY DEF SerialFile, AskedForKeys
<1>4. \A q \in Writers(f) \ {p} : q \in Procs
  BY DEF Writers
<1> QED BY <1>2, <1>3, <1>4, SerialStands

(* A file two writers meet on is given up. *)
LEMMA MeetsNobody ==
  ASSUME NEW f \in Files, Meet(f), f \notin raced'
  PROVE  f \notin raced /\ Writers(f) = {} /\ raced' = raced
BY DEF Meet

LEMMA LookSerial == ASSUME SerialHyp, NEW p \in Procs, Look(p) PROVE SerialInv'
<1> DEFINE op == Call(p).op
           g == File(p)
<1>1. /\ script[p] # <<>> /\ op \in {"record", "keypair", "get"} /\ pc[p] = "idle"
      /\ UNCHANGED <<files, linked, saved, recorded>>
  BY DEF Look, Calls
<1>2. op \in DOMAIN DirectoryOf /\ g \in Files /\ Dir[g] = DirectoryOf[op]
  BY <1>1, Directories, CallsFile DEF SerialHyp
<1>3. \A f \in Files : p \notin Writers(f)
  BY <1>1 DEF Writers
<1>4. CASE op = "get" /\ Return(p, None)
  <2>1. UNCHANGED <<text, raced>>
    BY <1>4 DEF Look
  <2> QED BY <1>1, <1>3, <1>4, <2>1, ReturnSerial
<1>5. CASE ~(op = "get" /\ Return(p, None))
  <2>1. /\ UNCHANGED <<script, answer>>
        /\ \/ pc' = [pc EXCEPT ![p] = "load"] /\ UNCHANGED text /\ files[g] # Absent
           \/ /\ pc' = [pc EXCEPT ![p] = "open"] /\ files[g] = Absent /\ op # "get"
              /\ text' = [text EXCEPT ![p] = IF op = "record" THEN Lesson(Call(p))
                                                              ELSE GeneratedBy(p)]
    BY <1>1, <1>5 DEF Look, Goto
  <2>2. /\ \A q \in Procs \ {p} : pc'[q] = pc[q] /\ text'[q] = text[q]
        /\ pc'[p] \in {"load", "open"} /\ (pc'[p] = "load" <=> files[g] # Absent)
    BY <2>1 DEF SerialHyp, IInv, ControlOK, DataOK
  <2>3. op # "get" => Meet(g)
    BY DEF Look
  <2>4. raced' \subseteq Files /\ raced \subseteq raced'
    BY <1>2 DEF Look, Meet, SerialHyp, SerialInv, SerialTypes
  <2>5. SerialTypes' /\ \A q \in Procs, f \in Files : AskedForKeys(q, f)' => Dir[f] = "keys"
    BY <1>1, <2>1, <2>4 DEF SerialHyp, SerialInv, SerialTypes, AskedForKeys
  <2>6. ASSUME NEW f \in Files \ raced' PROVE SerialFile(f)'
    <3>1. SerialFile(f) /\ f \in Files
      BY <2>4, <2>6 DEF SerialHyp, SerialInv
    <3>2. CASE f # g
      BY <1>1, <2>1, <2>2, <3>1, <3>2, OtherFile
    <3>3. CASE f = g /\ op = "get"
      <4>1. p \notin Writers(f)' /\ ~LoadsKeys(p, f)'
        BY <2>1, <3>3 DEF Writers, LoadsKeys, Calls, Call
      <4>2. AskedForKeys(p, f)' => saved[f] # None /\ answer'[p].value = saved[f]
        BY <2>1, <3>1 DEF SerialFile, AskedForKeys
      <4> QED BY <1>1, <1>3, <2>1, <2>2, <3>1, <4>1, <4>2, SerialStands
    <3>4. CASE f = g /\ op # "get"
      <4>1. Writers(f) = {}
        BY <1>2, <2>3, <2>6, <3>4, MeetsNobody
      <4>2. Settled(f)
        BY <3>1, <4>1 DEF SerialFile
      <4>3. saved[f] = None <=> files[f] = Absent
        BY <4>2 DEF Settled, Absent
      <4>4. Call(p)' = Call(p) /\ File(p)' = File(p) /\ script'[p] # <<>>
        BY <1>1, <2>1 DEF Call, File
      <4>5. CASE files[g] # Absent /\ op = "keypair"
        <5>1. p \notin Writers(f)'
          BY <2>2, <4>4, <4>5 DEF Writers
        <5>2. AskedForKeys(p, f)' => saved[f] # None /\ answer'[p].value = saved[f]
          BY <2>1, <3>1 DEF SerialFile, AskedForKeys
        <5> QED BY <1>1, <1>3, <2>1, <2>2, <3>1, <3>4, <4>3, <4>5, <5>1, <5>2, SerialStands
      <4>6. CASE files[g] = Absent \/ op = "record"
        <5>1. p \in Writers(f)' /\ ~LoadsKeys(p, f)'
          BY <1>1, <2>2, <3>4, <4>4, <4>6 DEF Writers, Calls, LoadsKeys
        <5>2. StageOK(p)'
          <6>1. CASE files[g] # Absent
            BY <1>1, <2>2, <3>4, <4>3, <4>4, <6>1 DEF StageOK
          <6>2. CASE files[g] = Absent
            <7>1. /\ pc'[p] = "open"
                  /\ text'[p] = IF op = "record" THEN Lesson(Call(p)) ELSE GeneratedBy(p)
              BY <2>1, <2>2, <6>2 DEF SerialHyp, IInv, DataOK
            <7>2. saved[f] = None
              BY <3>4, <4>3, <6>2
            <7>3. op = "record" => recorded[f] = 0
              BY <1>2, <3>4, <4>2, <7>2, Directories DEF Settled
            <7>4. op = "record" => Lesson(Call(p)) \in LESSON /\ Lesson(Call(p)).recurrences = 0
              BY <1>1, CallOK, LessonMade DEF SerialHyp, IInv
            <7>5. text'[p] \notin {None, Torn}
              BY <7>1, <7>4, DocumentAssumption
            <7>6. Ready(p)'
              BY <1>1, <3>4, <4>4, <7>1, <7>2, <7>3, <7>4, <7>5 DEF Ready
            <7> QED BY <7>1, <7>6 DEF StageOK
          <6> QED BY <6>1, <6>2
        <5> QED BY <1>1, <2>1, <2>2, <3>1, <4>1, <4>2, <5>1, <5>2, SerialWriter
      <4> QED BY <1>1, <3>4, <4>5, <4>6
    <3> QED BY <3>2, <3>3, <3>4
  <2> QED BY <2>5, <2>6 DEF SerialInv
<1> QED BY <1>4, <1>5

LEMMA LoadSerial == ASSUME SerialHyp, NEW p \in Procs, Load(p) PROVE SerialInv'
<1> DEFINE op == Call(p).op
           g == File(p)
           doc == files[g].doc
<1>1. /\ script[p] # <<>> /\ pc[p] = "load" /\ op \in {"record", "keypair", "get"}
      /\ UNCHANGED <<files, linked, saved, recorded, raced>>
  BY DEF Load, history, SerialHyp, IInv, ControlOK
<1>2. g \in Files /\ Dir[g] = DirectoryOf[op] /\ Readable(g)
  BY <1>1, Directories, CallsFile DEF SerialHyp, Load
<1>3. CASE op \in {"keypair", "get"}
  <2>1. UNCHANGED text
    BY <1>3 DEF Load
  <2>2. PICK value : Return(p, value) /\ (op = "keypair" => value = doc)
    BY <1>3 DEF Load
  <2>3. ASSUME NEW f \in Files \ raced, op = "keypair", g = f
        PROVE  saved[f] # None /\ value = saved[f]
    <3>1. LoadsKeys(p, f)
      BY <1>1, <2>3 DEF LoadsKeys
    <3> QED BY <2>2, <2>3, <3>1, KeysWhole, SettledReadable
  <2>4. \A f \in Files : p \in Writers(f) => pc[p] = "load"
    BY <1>1
  <2> QED BY <1>1, <2>1, <2>2, <2>3, <2>4, ReturnSerial
<1>4. CASE op = "record"
  <2>1. /\ text' = [text EXCEPT ![p] = Repeated(doc, Call(p))]
        /\ pc' = [pc EXCEPT ![p] = "open"] /\ UNCHANGED <<script, answer>>
    BY <1>4 DEF Load, Goto
  <2>2. /\ \A q \in Procs \ {p} : pc'[q] = pc[q] /\ text'[q] = text[q]
        /\ pc'[p] = "open" /\ text'[p] = Repeated(doc, Call(p))
    BY <2>1 DEF SerialHyp, IInv, ControlOK, DataOK
  <2>3. SerialTypes' /\ \A q \in Procs, f \in Files : AskedForKeys(q, f)' => Dir[f] = "keys"
    BY <1>1, <2>1 DEF SerialHyp, SerialInv, SerialTypes, AskedForKeys
  <2>4. ASSUME NEW f \in Files \ raced' PROVE SerialFile(f)'
    <3>1. SerialFile(f) /\ f \in Files
      BY <1>1, <2>4 DEF SerialHyp, SerialInv
    <3>2. CASE f # g
      BY <1>1, <2>1, <2>2, <3>1, <3>2, OtherFile
    <3>3. CASE f = g
      <4>1. p \in Writers(f)
        BY <1>1, <1>4, <3>3 DEF Writers, Calls
      <4>2. Writers(f) \subseteq {p} /\ StageOK(p)
        BY <3>1, <4>1 DEF SerialFile
      <4>3. Settled(f) /\ saved[f] # None
        BY <1>1, <3>1, <3>3, <4>2 DEF SerialFile, StageOK
      <4>4. doc = saved[f] /\ doc \in LESSON
        BY <1>2, <1>4, <3>3, <4>3, SettledReadable, Directories
           DEF SerialHyp, IInv, FiledOK, LessonFiles
      <4>5. text'[p] \in LESSON /\ text'[p].recurrences = doc.recurrences + 1
        BY <2>2, <4>4, LessonRepeated
      <4>6. recorded[f] = doc.recurrences + 1
        BY <1>2, <1>4, <3>3, <4>3, <4>4, Directories DEF Settled
      <4>7. Call(p)' = Call(p) /\ File(p)' = File(p) /\ script'[p] # <<>>
        BY <1>1, <2>1 DEF Call, File
      <4>8. StageOK(p)'
        BY <1>1, <1>4, <2>2, <3>3, <4>5, <4>6, <4>7, DocumentAssumption DEF StageOK, Ready
      <4>9. p \in Writers(f)' /\ ~LoadsKeys(p, f)'
        BY <1>4, <2>2, <3>3, <4>7 DEF Writers, Calls, LoadsKeys
      <4> QED BY <1>1, <2>1, <2>2, <3>1, <4>2, <4>8, <4>9, SerialWriter
    <3> QED BY <3>2, <3>3
  <2> QED BY <2>3, <2>4 DEF SerialInv
<1> QED BY <1>1, <1>3, <1>4

(* publish() and write_evidence_note() replace whatever is there: nobody    *)
(* reads it first, so a file they had to themselves is settled by them.    *)
LEMMA ReplaceSerial == ASSUME SerialHyp, NEW p \in Procs, Replace(p) PROVE SerialInv'
<1> DEFINE op == Call(p).op
           g == File(p)
<1>1. /\ script[p] # <<>> /\ pc[p] = "idle" /\ op \in {"publish", "note"}
      /\ text' = [text EXCEPT ![p] = Call(p).doc] /\ pc' = [pc EXCEPT ![p] = "open"]
      /\ raced' = IF Writers(g) # {} THEN raced \cup {g} ELSE raced \ {g}
      /\ UNCHANGED <<files, script, linked, answer, saved, recorded>>
  BY DEF Replace, Calls, Goto
<1>2. g \in Files /\ Dir[g] = DirectoryOf[op] /\ Call(p) \in AllCalls
  BY <1>1, Directories, CallsFile, CallOK DEF SerialHyp, IInv
<1>3. /\ \A q \in Procs \ {p} : pc'[q] = pc[q] /\ text'[q] = text[q]
      /\ pc'[p] = "open" /\ text'[p] = Call(p).doc
  BY <1>1 DEF SerialHyp, IInv, ControlOK, DataOK
<1>4. SerialTypes' /\ \A q \in Procs, f \in Files : AskedForKeys(q, f)' => Dir[f] = "keys"
  BY <1>1, <1>2 DEF SerialHyp, SerialInv, SerialTypes, AskedForKeys
<1>5. ASSUME NEW f \in Files \ raced' PROVE SerialFile(f)'
  <2>1. CASE f # g
    <3>1. SerialFile(f) /\ f \in Files
      BY <1>1, <1>5, <2>1 DEF SerialHyp, SerialInv
    <3> QED BY <1>1, <1>3, <2>1, <3>1, OtherFile
  <2>2. CASE f = g
    <3>1. Writers(f) = {}
      BY <1>1, <1>2, <1>5, <2>2
    <3>2. Dir[f] # "keys"
      BY <1>1, <1>2, <2>2 DEF DirectoryOf
    <3>3. \A q \in Procs : ~AskedForKeys(q, f)'
      BY <1>4, <1>5, <3>2
    <3>4. /\ \A q \in Procs \ {p} : /\ q \in Writers(f)' <=> q \in Writers(f)
                                    /\ Call(q)' = Call(q) /\ File(q)' = File(q)
          /\ Call(p)' = Call(p) /\ File(p)' = File(p) /\ script'[p] # <<>>
      BY <1>1, <1>3, <1>5, WriterSame DEF Call, File
    <3>5. Writers(f)' = {p}
      <4>1. p \in Writers(f)'
        BY <1>1, <1>3, <2>2, <3>4 DEF Writers, Calls
      <4> QED BY <3>1, <3>4, <4>1 DEF Writers
    <3>6. ASSUME NEW q \in Procs, LoadsKeys(q, f)' PROVE FALSE
      <4>1. q # p /\ LoadsKeys(q, f)
        BY <1>3, <3>4, <3>6 DEF LoadsKeys
      <4>2. script[q] # <<>> /\ Call(q).op = "keypair" /\ File(q) = f
        BY <4>1 DEF LoadsKeys, SerialHyp, IInv, ControlOK
      <4> QED BY <3>2, <4>2, CallsFile DEF SerialHyp, DirectoryOf
    <3>7. Call(p).doc \notin {None, Torn}
      BY <1>1, <1>2, DocumentAssumption
    <3>8. StageOK(p)'
      BY <1>1, <1>3, <3>4, <3>7 DEF StageOK, Ready
    <3> QED BY <1>3, <3>3, <3>5, <3>6, <3>8 DEF SerialFile
  <2> QED BY <2>1, <2>2
<1> QED BY <1>4, <1>5 DEF SerialInv

LEMMA OpenSerial == ASSUME SerialHyp, NEW p \in Procs, Open(p) PROVE SerialInv'
<1> DEFINE g == File(p)
<1>1. /\ pc[p] = "open" /\ pc' = [pc EXCEPT ![p] = "write"]
      /\ files' = [files EXCEPT ![g] = Truncated] /\ linked' = [linked EXCEPT ![p] = TRUE]
      /\ UNCHANGED <<script, text, answer, saved, recorded, raced>>
  BY DEF Open, Goto, history
<1>2. /\ script[p] # <<>> /\ Call(p).op \in {"record", "publish", "keypair", "note"}
      /\ g \in Files
  BY <1>1, Directories, CallsFile DEF SerialHyp, IInv, ControlOK
<1>3. /\ \A q \in Procs \ {p} : pc'[q] = pc[q] /\ linked'[q] = linked[q]
      /\ pc'[p] = "write" /\ linked'[p] = TRUE
      /\ files'[g] = Truncated /\ \A f \in Files \ {g} : files'[f] = files[f]
  BY <1>1, <1>2 DEF SerialHyp, IInv, ControlOK, DataOK, SerialInv, SerialTypes
<1>4. SerialTypes' /\ \A q \in Procs, f \in Files : AskedForKeys(q, f)' => Dir[f] = "keys"
  BY <1>1 DEF SerialHyp, SerialInv, SerialTypes, AskedForKeys
<1>5. ASSUME NEW f \in Files \ raced' PROVE SerialFile(f)'
  <2>1. SerialFile(f) /\ f \in Files
    BY <1>1, <1>5 DEF SerialHyp, SerialInv
  <2>2. CASE f # g
    BY <1>1, <1>2, <1>3, <2>1, <2>2, OtherFile
  <2>3. CASE f = g
    <3>1. p \in Writers(f)
      BY <1>1, <1>2, <2>3 DEF Writers, Calls
    <3>2. Writers(f) \subseteq {p} /\ StageOK(p)
      BY <2>1, <3>1 DEF SerialFile
    <3>3. Call(p)' = Call(p) /\ File(p)' = File(p) /\ script'[p] # <<>>
      BY <1>1, <1>2 DEF Call, File
    <3>4. StageOK(p)'
      BY <1>1, <1>3, <3>2, <3>3 DEF StageOK, Ready, Truncated
    <3>5. p \in Writers(f)' /\ ~LoadsKeys(p, f)'
      BY <1>2, <1>3, <2>3, <3>3 DEF Writers, Calls, LoadsKeys
    <3> QED BY <1>1, <1>3, <2>1, <3>2, <3>4, <3>5, SerialWriter
  <2> QED BY <2>2, <2>3
<1> QED BY <1>4, <1>5 DEF SerialInv

(* A call that returns has written or removed g: what is left of SerialInv  *)
(* is what it says of g.                                                   *)
LEMMA ReturnElsewhere ==
  ASSUME SerialHyp, NEW p \in Procs, NEW value, Return(p, value), NEW f \in Files, SerialFile(f),
         script[p] # <<>>, File(p) # f,
         files'[f] = files[f], saved'[f] = saved[f], recorded'[f] = recorded[f],
         UNCHANGED text, \A q \in Writers(f) \ {p} : linked'[q] = linked[q]
  PROVE  SerialFile(f)'
<1>1. p \notin Writers(f)
  BY DEF Writers
<1>2. ~AskedForKeys(p, f)'
  BY ReturnOthers
<1>3. /\ \A q \in Procs \ {p} :
           script'[q] = script[q] /\ pc'[q] = pc[q] /\ answer'[q] = answer[q]
      /\ p \notin Writers(f)' /\ ~LoadsKeys(p, f)'
  BY ReturnOthers
<1> QED BY <1>1, <1>2, <1>3, SerialStands

LEMMA WriteSerial == ASSUME SerialHyp, NEW p \in Procs, Write(p) PROVE SerialInv'
<1> DEFINE g == File(p)
           op == Call(p).op
<1>1. /\ pc[p] = "write" /\ Return(p, text[p])
      /\ files' = IF linked[p] THEN [files EXCEPT ![g] = Written(@, text[p])] ELSE files
      /\ saved' = [saved EXCEPT ![g] = text[p]]
      /\ recorded' = IF op = "record" THEN [recorded EXCEPT ![g] = @ + 1] ELSE recorded
      /\ UNCHANGED <<text, linked, raced>>
  BY DEF Write
<1>2. /\ script[p] # <<>> /\ op \in {"record", "publish", "keypair", "note"}
      /\ g \in Files /\ Dir[g] = DirectoryOf[op]
  BY <1>1, Directories, CallsFile DEF SerialHyp, IInv, ControlOK
<1>3. /\ \A f \in Files \ {g} :
           files'[f] = files[f] /\ saved'[f] = saved[f] /\ recorded'[f] = recorded[f]
      /\ saved'[g] = text[p] /\ DOMAIN saved' = Files
      /\ linked[p] => files'[g] = Written(files[g], text[p])
      /\ recorded'[g] = IF op = "record" THEN recorded[g] + 1 ELSE recorded[g]
  BY <1>1, <1>2 DEF SerialHyp, IInv, DataOK, SerialInv, SerialTypes
<1>4. /\ DOMAIN answer' = Procs
      /\ \A q \in Procs, f \in Files : AskedForKeys(q, f)' => Dir[f] = "keys"
  BY <1>1, <1>2, AnswersDir DEF Return
<1>5. SerialTypes'
  BY <1>1, <1>3, <1>4 DEF SerialHyp, SerialInv, SerialTypes
<1>6. ASSUME NEW f \in Files \ raced' PROVE SerialFile(f)'
  <2>1. SerialFile(f) /\ f \in Files
    BY <1>1, <1>6 DEF SerialHyp, SerialInv
  <2>2. CASE f # g
    BY <1>1, <1>2, <1>3, <2>1, <2>2, ReturnElsewhere
  <2>3. CASE f = g
    <3>1. p \in Writers(f)
      BY <1>1, <1>2, <2>3 DEF Writers, Calls
    <3>2. Writers(f) \subseteq {p} /\ StageOK(p)
      BY <2>1, <3>1 DEF SerialFile
    <3>3. Ready(p) /\ linked[p] /\ files[f] = Truncated
      BY <1>1, <2>3, <3>2 DEF StageOK
    <3>4. Writers(f)' = {}
      <4>1. p \notin Writers(f)' /\ \A q \in Procs \ {p} : q \in Writers(f)' <=> q \in Writers(f)
        BY <1>1, <2>1, ReturnOthers, WriterSame
      <4> QED BY <3>2, <4>1 DEF Writers
    <3>5. files'[f] = [doc |-> text[p], len |-> Size(text[p])]
      BY <1>3, <2>3, <3>3 DEF Written, Truncated
    <3>6. Dir[f] = "lessons" => recorded'[f] = text[p].recurrences + 1
      <4>1. Dir[f] = "lessons" => op = "record"
        BY <1>2, <2>3, Directories
      <4>2. op = "record" => text[p].recurrences = recorded[g] /\ recorded'[g] = recorded[g] + 1
        BY <1>3, <3>3 DEF Ready
      <4> QED BY <2>3, <4>1, <4>2
    <3>7. Settled(f)'
      BY <1>3, <2>3, <3>3, <3>5, <3>6 DEF Settled, Ready
    <3>8. ASSUME NEW q \in Procs, AskedForKeys(q, f)'
          PROVE  saved'[f] # None /\ answer'[q].value = saved'[f]
      <4>1. saved'[f] = text[p] /\ text[p] # None
        BY <1>3, <2>3, <3>3 DEF Ready
      <4>2. CASE q = p
        <5>1. answer'[p] = [call |-> Call(p), value |-> text[p]]
          BY <1>1, ReturnOthers
        <5> QED BY <4>1, <4>2, <5>1
      <4>3. CASE q # p
        <5>1. answer'[q] = answer[q]
          BY <1>1, <4>3, ReturnOthers
        <5>2. AskedForKeys(q, f)
          BY <3>8, <5>1 DEF AskedForKeys
        <5>3. saved[f] # None
          BY <2>1, <5>2 DEF SerialFile
        <5>4. Dir[f] = "keys"
          BY <2>1, <5>2 DEF SerialHyp, SerialInv
        <5>5. op = "keypair"
          BY <1>2, <2>3, <5>4 DEF DirectoryOf
        <5> QED BY <2>3, <3>3, <5>3, <5>5 DEF Ready
      <4> QED BY <4>2, <4>3
    <3>9. saved'[f] # None
      BY <1>3, <2>3, <3>3 DEF Ready
    <3> QED BY <3>4, <3>7, <3>8, <3>9 DEF SerialFile
  <2> QED BY <2>2, <2>3
<1> QED BY <1>4, <1>5, <1>6 DEF SerialInv

(* unpublish() leaves nothing, unless somebody has the file open. *)
LEMMA UnlinkSerial == ASSUME SerialHyp, NEW p \in Procs, Unlink(p) PROVE SerialInv'
<1> DEFINE g == File(p)
<1>1. /\ pc[p] = "idle" /\ script[p] # <<>> /\ Call(p).op = "unpublish" /\ Return(p, None)
      /\ files' = [files EXCEPT ![g] = Absent] /\ saved' = [saved EXCEPT ![g] = None]
      /\ linked' = [q \in Procs |-> linked[q] /\ q \notin Writers(g)]
      /\ Meet(g) /\ UNCHANGED <<text, recorded>>
  BY DEF Unlink, Calls
<1>2. g \in Files /\ Dir[g] = "cards"
  BY <1>1, CallsFile DEF SerialHyp, DirectoryOf
<1>3. /\ \A f \in Files \ {g} : files'[f] = files[f] /\ saved'[f] = saved[f]
      /\ files'[g] = Absent /\ saved'[g] = None /\ DOMAIN saved' = Files
  BY <1>1, <1>2 DEF SerialHyp, IInv, DataOK, SerialInv, SerialTypes
<1>4. /\ DOMAIN answer' = Procs
      /\ \A q \in Procs, f \in Files : AskedForKeys(q, f)' => Dir[f] = "keys"
  BY <1>1, AnswersDir DEF Return
<1>5. linked' \in [Procs -> BOOLEAN]
  BY <1>1
<1>6. raced' \subseteq Files /\ raced \subseteq raced'
  BY <1>1, <1>2 DEF Meet, SerialHyp, SerialInv, SerialTypes
<1>7. ASSUME NEW f \in Files \ raced' PROVE SerialFile(f)'
  <2>1. SerialFile(f) /\ f \in Files
    BY <1>6, <1>7 DEF SerialHyp, SerialInv
  <2>2. CASE f # g
    <3>1. ASSUME NEW q \in Writers(f) \ {p} PROVE linked'[q] = linked[q]
      <4>1. q \in Procs /\ q \notin Writers(g) /\ linked[q] \in BOOLEAN
        BY <2>2, <3>1 DEF Writers, SerialHyp, SerialInv, SerialTypes
      <4> QED BY <1>1, <4>1
    <3>2. recorded'[f] = recorded[f] /\ files'[f] = files[f] /\ saved'[f] = saved[f]
      BY <1>1, <1>3, <2>1, <2>2
    <3> QED BY <1>1, <2>1, <2>2, <3>1, <3>2, ReturnElsewhere
  <2>3. CASE f = g
    <3>1. Writers(f) = {}
      BY <1>1, <1>7, <2>1, <2>3, MeetsNobody
    <3>2. Writers(f)' = {}
      <4>1. p \notin Writers(f)' /\ \A q \in Procs \ {p} : q \in Writers(f)' <=> q \in Writers(f)
        BY <1>1, <2>1, ReturnOthers, WriterSame
      <4> QED BY <3>1, <4>1 DEF Writers
    <3>3. Settled(f)'
      BY <1>2, <1>3, <2>3, StoreAssumption DEF Settled
    <3>4. \A q \in Procs : ~AskedForKeys(q, f)'
      BY <1>2, <1>4, <2>1, <2>3
    <3>5. ASSUME NEW q \in Procs, LoadsKeys(q, f)' PROVE FALSE
      <4>1. q # p
        BY <1>1, <2>1, <3>5, ReturnOthers
      <4>2. script'[q] = script[q] /\ pc'[q] = pc[q]
        BY <1>1, <4>1, ReturnOthers
      <4>3. LoadsKeys(q, f)
        BY <2>1, <3>5, <4>2, WriterSame DEF LoadsKeys
      <4>4. script[q] # <<>> /\ Call(q).op = "keypair" /\ File(q) = f
        BY <4>3 DEF LoadsKeys, SerialHyp, IInv, ControlOK
      <4> QED BY <1>2, <2>3, <4>4, CallsFile DEF SerialHyp, DirectoryOf
    <3> QED BY <3>2, <3>3, <3>4, <3>5 DEF SerialFile
  <2> QED BY <2>2, <2>3
<1> QED BY <1>3, <1>4, <1>5, <1>6, <1>7 DEF SerialInv, SerialTypes

LEMMA StutterSerial == ASSUME SerialHyp, UNCHANGED vars PROVE SerialInv'
<1>1. UNCHANGED <<files, script, pc, text, linked, answer, saved, recorded, raced>>
  BY DEF vars, local, history
<1>2. \A f \in Files : Writers(f)' = Writers(f)
  BY <1>1 DEF Writers, Calls, Call, File
<1>3. \A p \in Procs : StageOK(p)' = StageOK(p)
  BY <1>1 DEF StageOK, Ready, Truncated, File, Call
<1>4. /\ \A p \in Procs, f \in Files : AskedForKeys(p, f)' = AskedForKeys(p, f)
      /\ \A p \in Procs, f \in Files : LoadsKeys(p, f)' = LoadsKeys(p, f)
  BY <1>1 DEF AskedForKeys, LoadsKeys, File, Call
<1>5. \A f \in Files : Settled(f)' = Settled(f)
  BY <1>1 DEF Settled, Absent
<1>6. ASSUME NEW f \in Files \ raced' PROVE SerialFile(f)'
  <2>1. SerialFile(f) /\ f \in Files
    BY <1>1, <1>6 DEF SerialHyp, SerialInv
  <2>2. \A p \in Writers(f) : p \in Procs
    BY DEF Writers
  <2> QED BY <1>1, <1>2, <1>3, <1>4, <1>5, <2>1, <2>2 DEF SerialFile
<1> QED BY <1>1, <1>4, <1>6 DEF SerialHyp, SerialInv, SerialTypes

LEMMA NextSerial == ASSUME SerialHyp, [Next]_vars PROVE SerialInv'
<1>1. ASSUME NEW p \in Procs, Step(p) \/ Die(p) PROVE SerialInv'
  BY <1>1, RejectSerial, LookSerial, LoadFailsSerial, LoadSerial, ReplaceSerial, OpenSerial,
     WriteSerial, UnlinkSerial, ListSerial, ReadNextSerial, ReadEndsSerial, DieSerial DEF Step
<1> QED BY <1>1, StutterSerial DEF Next

(* While the writers of a file keep out of each other's way and live, each  *)
(* finds the file as the one before left it.                               *)
THEOREM SerialInvariantHolds == Spec => []SerialInv
<1>1. Init => SerialInv
  BY InitSerial
<1>2. IInv /\ SerialInv /\ [Next]_vars => SerialInv'
  BY NextSerial DEF SerialHyp
<1> QED BY <1>1, <1>2, InvariantHolds, PTL DEF Spec

(* Writers of a lesson, a card, a key pair or a note that do not overlap    *)
(* leave the text written last whole, whatever its length; a lesson counts  *)
(* every repetition, and all who asked for a key pair were given that one.  *)
THEOREM SerialWritesHoldHolds == Spec => []SerialWritesHold
<1>1. IInv /\ SerialInv => SerialWritesHold
  <2> SUFFICES ASSUME SerialInv, IInv, NEW f \in Files, f \notin raced, Writers(f) = {}
               PROVE  /\ files[f] = IF saved[f] = None THEN Absent
                                    ELSE [doc |-> saved[f], len |-> Size(saved[f])]
                      /\ Dir[f] = "lessons" /\ saved[f] # None =>
                           saved[f].recurrences + 1 = recorded[f]
                      /\ \A p \in Procs : AskedForKeys(p, f) => answer[p].value = files[f].doc
    BY DEF SerialWritesHold, AskedForKeys
  <2>1. SerialFile(f)
    BY DEF SerialInv
  <2>2. Settled(f)
    BY <2>1 DEF SerialFile
  <2>3. ASSUME NEW p \in Procs, AskedForKeys(p, f) PROVE answer[p].value = files[f].doc
    BY <2>1, <2>2, <2>3, SettledReadable DEF SerialFile
  <2> QED BY <2>2, <2>3 DEF Settled
<1> QED BY <1>1, InvariantHolds, SerialInvariantHolds, PTL
-----------------------------------------------------------------------------
(* What all() has read so far, and will read, for the digest. *)
ReadersOK ==
  /\ DOMAIN answer = Procs /\ DOMAIN read = Procs /\ DOMAIN listing = Procs
  /\ \A p \in Procs : pc[p] = "read" /\ Call(p).op = "digest" =>
       listing[p] \subseteq LessonFiles /\ read[p] \subseteq LESSON
  /\ DigestIsWhole /\ CardsAreTrusted

LEMMA DigestOfLessons ==
  ASSUME NEW lessons, lessons \subseteq LESSON PROVE compile_digest(lessons) = lessons
BY DEF compile_digest, LESSON

LEMMA InitReaders == ASSUME Init PROVE ReadersOK
BY DEF Init, ReadersOK, DigestIsWhole, CardsAreTrusted, Answered

(* A step in which p reads nothing, and returns nothing all() has read. *)
LEMMA ReadersStand ==
  ASSUME IInv, ReadersOK, NEW p \in Procs,
         UNCHANGED <<read, listing>>,
         \A q \in Procs \ {p} : script'[q] = script[q] /\ pc'[q] = pc[q],
         pc'[p] # "read",
         \/ UNCHANGED answer /\ (pc[p] \in {"read", "dead"} => pc'[p] = "dead")
         \/ \E value : /\ answer' = [answer EXCEPT ![p] = [call |-> Call(p), value |-> value]]
                       /\ Call(p).op \notin {"digest", "find"} \/ value = Raised
  PROVE  ReadersOK'
<1>1. DOMAIN answer' = Procs /\ \A q \in Procs \ {p} : answer'[q] = answer[q]
  BY DEF ReadersOK
<1>2. ASSUME NEW q \in Procs, pc'[q] = "read", Call(q)'.op = "digest"
      PROVE  listing'[q] \subseteq LessonFiles /\ read'[q] \subseteq LESSON
  <2>1. q # p /\ pc[q] = "read" /\ Call(q).op = "digest"
    BY <1>2 DEF Call
  <2> QED BY <2>1 DEF ReadersOK
<1>3. CASE UNCHANGED answer /\ (pc[p] \in {"read", "dead"} => pc'[p] = "dead")
  <2>1. DigestIsWhole'
    BY <1>3 DEF ReadersOK, DigestIsWhole, Answered
  <2>2. CardsAreTrusted'
    BY <1>3 DEF ReadersOK, CardsAreTrusted, Answered
  <2> QED BY <1>1, <1>2, <2>1, <2>2 DEF ReadersOK, LessonFiles
<1>4. CASE ~(UNCHANGED answer /\ (pc[p] \in {"read", "dead"} => pc'[p] = "dead"))
  <2>1. PICK value : /\ answer' = [answer EXCEPT ![p] = [call |-> Call(p), value |-> value]]
                     /\ Call(p).op \notin {"digest", "find"} \/ value = Raised
    BY <1>4
  <2>2. answer'[p] = [call |-> Call(p), value |-> value]
    BY <2>1 DEF ReadersOK
  <2>3. ~Answered(p, "digest")' /\ ~Answered(p, "find")'
    BY <2>1, <2>2 DEF Answered
  <2>4. DigestIsWhole'
    BY <1>1, <2>3 DEF ReadersOK, DigestIsWhole, Answered
  <2>5. CardsAreTrusted'
    BY <1>1, <2>3 DEF ReadersOK, CardsAreTrusted, Answered
  <2> QED BY <1>1, <1>2, <2>4, <2>5 DEF ReadersOK, LessonFiles
<1> QED BY <1>3, <1>4

LEMMA ListReaders == ASSUME IInv, ReadersOK, NEW p \in Procs, List(p) PROVE ReadersOK'
<1>1. /\ pc' = [pc EXCEPT ![p] = "read"] /\ read' = [read EXCEPT ![p] = {}]
      /\ listing' = [listing EXCEPT ![p] =
           {f \in Files : Dir[f] = ReadersDir(Call(p)) /\ files[f] # Absent}]
      /\ UNCHANGED <<script, answer>>
  BY DEF List, Goto
<1>2. /\ \A q \in Procs \ {p} : pc'[q] = pc[q] /\ read'[q] = read[q] /\ listing'[q] = listing[q]
      /\ pc'[p] = "read" /\ read'[p] = {}
      /\ listing'[p] \subseteq {f \in Files : Dir[f] = ReadersDir(Call(p))}
  BY <1>1 DEF IInv, ControlOK, ReadersOK
<1>3. ASSUME NEW q \in Procs, pc'[q] = "read", Call(q)'.op = "digest"
      PROVE  listing'[q] \subseteq LessonFiles /\ read'[q] \subseteq LESSON
  BY <1>1, <1>2, <1>3 DEF Call, ReadersOK, ReadersDir, LessonFiles
<1>4. DigestIsWhole' /\ CardsAreTrusted'
  BY <1>1, <1>2 DEF ReadersOK, DigestIsWhole, CardsAreTrusted, Answered
<1>5. DOMAIN read' = Procs /\ DOMAIN listing' = Procs
  BY <1>1 DEF ReadersOK
<1> QED BY <1>1, <1>3, <1>4, <1>5 DEF ReadersOK, LessonFiles

LEMMA ReadNextReaders == ASSUME IInv, ReadersOK, NEW p \in Procs, ReadNext(p) PROVE ReadersOK'
<1>1. pc[p] = "read" /\ UNCHANGED files
  BY DEF ReadNext
<1>2. PICK f \in listing[p] :
        /\ listing' = [listing EXCEPT ![p] = @ \ {f}]
        /\ IF Readable(f)
           THEN /\ read' = [read EXCEPT ![p] = @ \cup {files[f].doc}]
                /\ UNCHANGED <<script, pc, answer>>
           ELSE Return(p, Raised) /\ UNCHANGED read
  BY DEF ReadNext
<1>3. /\ \A q \in Procs \ {p} : listing'[q] = listing[q]
      /\ listing'[p] \subseteq listing[p] /\ DOMAIN listing' = Procs
  BY <1>2 DEF ReadersOK
<1>4. CASE Readable(f)
  <2>1. /\ read' = [read EXCEPT ![p] = @ \cup {files[f].doc}]
        /\ UNCHANGED <<script, pc, answer>>
    BY <1>2, <1>4
  <2>2. /\ \A q \in Procs \ {p} : read'[q] = read[q]
        /\ read'[p] = read[p] \cup {files[f].doc} /\ DOMAIN read' = Procs
    BY <2>1 DEF ReadersOK
  <2>3. ASSUME NEW q \in Procs, pc'[q] = "read", Call(q)'.op = "digest"
        PROVE  listing'[q] \subseteq LessonFiles /\ read'[q] \subseteq LESSON
    <3>1. listing[q] \subseteq LessonFiles /\ read[q] \subseteq LESSON
      BY <2>1, <2>3 DEF ReadersOK, Call
    <3>2. CASE q = p
      <4>1. f \in LessonFiles
        BY <1>2, <3>1, <3>2
      <4>2. files[f].doc \in LESSON
        BY <1>4, <4>1 DEF IInv, FiledOK
      <4> QED BY <1>3, <2>2, <3>1, <3>2, <4>2
    <3>3. CASE q # p
      BY <1>3, <2>2, <3>1, <3>3
    <3> QED BY <3>2, <3>3
  <2>4. DigestIsWhole' /\ CardsAreTrusted'
    BY <1>1, <2>1, <2>2 DEF ReadersOK, DigestIsWhole, CardsAreTrusted, Answered
  <2> QED BY <1>3, <2>1, <2>2, <2>3, <2>4 DEF ReadersOK, LessonFiles
<1>5. CASE ~Readable(f)
  <2>1. Return(p, Raised) /\ UNCHANGED read
    BY <1>2, <1>5
  <2>2. /\ answer' = [answer EXCEPT ![p] = [call |-> Call(p), value |-> Raised]]
        /\ \A q \in Procs \ {p} : script'[q] = script[q] /\ pc'[q] = pc[q]
        /\ pc'[p] = "idle"
    BY <2>1 DEF Return, Goto, IInv, ControlOK
  <2>3. /\ \A q \in Procs \ {p} : answer'[q] = answer[q]
        /\ answer'[p] = [call |-> Call(p), value |-> Raised] /\ DOMAIN answer' = Procs
    BY <2>2 DEF ReadersOK
  <2>4. ~Answered(p, "digest")' /\ ~Answered(p, "find")'
    BY <2>3 DEF Answered
  <2>5. DigestIsWhole' /\ CardsAreTrusted'
    BY <2>1, <2>2, <2>3, <2>4 DEF ReadersOK, DigestIsWhole, CardsAreTrusted, Answered
  <2>6. ASSUME NEW q \in Procs, pc'[q] = "read", Call(q)'.op = "digest"
        PROVE  listing'[q] \subseteq LessonFiles /\ read'[q] \subseteq LESSON
    <3>1. q # p /\ pc[q] = "read" /\ Call(q).op = "digest"
      BY <2>2, <2>6 DEF Call
    <3> QED BY <1>3, <2>1, <3>1 DEF ReadersOK
  <2> QED BY <1>3, <2>1, <2>3, <2>5, <2>6 DEF ReadersOK, LessonFiles
<1> QED BY <1>4, <1>5

LEMMA ReadEndsReaders == ASSUME IInv, ReadersOK, NEW p \in Procs, ReadEnds(p) PROVE ReadersOK'
<1> DEFINE op == Call(p).op
<1>1. /\ pc[p] = "read" /\ op \in {"recurrences", "digest", "find"}
      /\ UNCHANGED <<read, listing>>
  BY DEF ReadEnds, IInv, ControlOK
<1>2. PICK value :
        /\ Return(p, value)
        /\ op = "digest" => value = compile_digest(read[p])
        /\ op = "find" => value = {c \in read[p] : IsTrusted(c) /\ Call(p).name \in c.skills}
  BY DEF ReadEnds
<1>3. /\ answer' = [answer EXCEPT ![p] = [call |-> Call(p), value |-> value]]
      /\ \A q \in Procs \ {p} : script'[q] = script[q] /\ pc'[q] = pc[q]
      /\ pc'[p] = "idle"
  BY <1>2 DEF Return, Goto, IInv, ControlOK
<1>4. /\ \A q \in Procs \ {p} : answer'[q] = answer[q]
      /\ answer'[p] = [call |-> Call(p), value |-> value] /\ DOMAIN answer' = Procs
  BY <1>3 DEF ReadersOK
<1>5. answer'[p].value = value /\ answer'[p].call = Call(p)
  BY <1>4
<1>6. op = "digest" => value = read[p]
  BY <1>1, <1>2, DigestOfLessons DEF ReadersOK
<1>7. op = "find" /\ TrustedKeys # None => \A c \in value : c.signature = TrustedKeys[c.id]
  BY <1>2 DEF IsTrusted
<1>8. DigestIsWhole'
  BY <1>1, <1>3, <1>4, <1>5, <1>6 DEF ReadersOK, DigestIsWhole, Answered
<1>9. CardsAreTrusted'
  BY <1>1, <1>3, <1>4, <1>5, <1>7 DEF ReadersOK, CardsAreTrusted, Answered
<1>10. ASSUME NEW q \in Procs, pc'[q] = "read", Call(q)'.op = "digest"
       PROVE  listing'[q] \subseteq LessonFiles /\ read'[q] \subseteq LESSON
  <2>1. q # p /\ pc[q] = "read" /\ Call(q).op = "digest"
    BY <1>3, <1>10 DEF Call
  <2> QED BY <1>1, <2>1 DEF ReadersOK
<1> QED BY <1>1, <1>4, <1>8, <1>9, <1>10 DEF ReadersOK, LessonFiles

LEMMA NextReaders == ASSUME IInv, ReadersOK, [Next]_vars PROVE ReadersOK'
<1>1. ASSUME NEW p \in Procs, Step(p) \/ Die(p) PROVE ReadersOK'
  <2>1. CASE List(p) \/ ReadNext(p) \/ ReadEnds(p)
    BY <2>1, ListReaders, ReadNextReaders, ReadEndsReaders
  <2>2. CASE \/ Reject(p) \/ Look(p) \/ LoadFails(p) \/ Load(p) \/ Replace(p)
             \/ Open(p) \/ Write(p) \/ Unlink(p)
    <3>1. UNCHANGED <<read, listing>> /\ pc[p] \in {"idle", "load", "open", "write"}
      BY <2>2 DEF Reject, Look, LoadFails, Load, Replace, Open, Write, Unlink
    <3>2. script[p] # <<>> /\ Call(p).op \in DOMAIN DirectoryOf
      BY <2>2, Directories
         DEF Reject, Look, LoadFails, Load, Replace, Open, Write, Unlink, Calls, IInv, ControlOK
    <3>3. \/ UNCHANGED <<script, answer>> /\ \E place \in {"load", "open", "write"} : Goto(p, place)
          \/ \E value : Return(p, value)
      BY <2>2 DEF Reject, Look, LoadFails, Load, Replace, Open, Write, Unlink, Calls, IInv, ControlOK
    <3>4. CASE UNCHANGED <<script, answer>> /\ \E place \in {"load", "open", "write"} : Goto(p, place)
      <4>1. pc'[p] # "read" /\ \A q \in Procs \ {p} : pc'[q] = pc[q]
        BY <3>4 DEF Goto, IInv, ControlOK
      <4> QED BY <3>1, <3>4, <4>1, ReadersStand
    <3>5. ASSUME NEW value, Return(p, value) PROVE ReadersOK'
      <4>1. /\ pc'[p] = "idle" /\ \A q \in Procs \ {p} : script'[q] = script[q] /\ pc'[q] = pc[q]
            /\ answer' = [answer EXCEPT ![p] = [call |-> Call(p), value |-> value]]
        BY <3>5 DEF Return, Goto, IInv, ControlOK
      <4>2. Call(p).op \notin {"digest", "find"}
        BY <3>2, Directories
      <4> QED BY <3>1, <4>1, <4>2, ReadersStand
    <3> QED BY <3>3, <3>4, <3>5
  <2>3. CASE Die(p)
    <3>1. /\ UNCHANGED <<script, read, listing, answer>> /\ pc'[p] = "dead"
          /\ \A q \in Procs \ {p} : pc'[q] = pc[q]
      BY <2>3 DEF Die, Goto, IInv, ControlOK
    <3> QED BY <3>1, ReadersStand
  <2> QED BY <1>1, <2>1, <2>2, <2>3 DEF Step
<1>2. CASE UNCHANGED vars
  <2>1. UNCHANGED <<script, pc, read, listing, answer>>
    BY <1>2 DEF vars, local
  <2>2. DigestIsWhole' /\ CardsAreTrusted'
    BY <2>1 DEF ReadersOK, DigestIsWhole, CardsAreTrusted, Answered
  <2> QED BY <2>1, <2>2 DEF ReadersOK, LessonFiles, Call
<1> QED BY <1>1, <1>2 DEF Next

(* Whatever is written while all() reads, the digest lists every lesson it  *)
(* read, none in a layer it does not know, and every card find() returns is *)
(* signed with the key known for the id in it.                             *)
THEOREM ReadersAnswersHold == Spec => [](DigestIsWhole /\ CardsAreTrusted)
<1>1. Init => ReadersOK
  BY InitReaders
<1>2. IInv /\ ReadersOK /\ [Next]_vars => ReadersOK'
  BY NextReaders
<1>3. ReadersOK => DigestIsWhole /\ CardsAreTrusted
  BY DEF ReadersOK
<1> QED BY <1>1, <1>2, <1>3, InvariantHolds, PTL DEF Spec
-----------------------------------------------------------------------------
(***************************************************************************)
(* Sums over finite sets.  SumFunctionOnSet folds the set in an order that  *)
(* CHOOSE fixes; a table of the sums over all subsets satisfies the same    *)
(* equation, and two tables agree where both are defined.                  *)
(***************************************************************************)
LEMMA LeastNat ==
  ASSUME NEW T, T \subseteq Nat, T # {}
  PROVE  \E n \in T : \A m \in T : n <= m
<1>1. PICK n \in T : \A m \in T : ~ (<<m, n>> \in OpToRel(<, Nat))
  BY NatLessThanWellFounded, WFMin
<1>2. \A m \in T : ~ (m < n)
  BY <1>1 DEF OpToRel
<1> QED
  BY <1>2

(* The least set, by its size, of a family of finite sets. *)
LEMMA SmallestSet ==
  ASSUME NEW Family, Family # {}, \A s \in Family : IsFiniteSet(s)
  PROVE  \E s \in Family : \A t \in Family : Cardinality(s) <= Cardinality(t)
<1> DEFINE sizes == {Cardinality(s) : s \in Family}
<1>1. sizes \subseteq Nat /\ sizes # {}
  BY FS_CardinalityType
<1>2. PICK n \in sizes : \A m \in sizes : n <= m
  BY <1>1, LeastNat
<1> QED BY <1>2

Some(s) == CHOOSE x \in s : TRUE

(* A table of the sums of f over the subsets of S. *)
Adds(f, S, table) ==
  table = [s \in SUBSET S |-> IF s = {} THEN 0 ELSE f[Some(s)] + table[s \ {Some(s)}]]

LEMMA SumIsTable ==
  ASSUME NEW f, NEW S
  PROVE  SumFunctionOnSet(f, S) = (CHOOSE table : Adds(f, S, table))[S]
BY DEF SumFunctionOnSet, FoldFunctionOnSet, MapThenFoldSet, Adds, Some

LEMMA TableExists ==
  ASSUME NEW f, NEW S, IsFiniteSet(S)
  PROVE  \E table : Adds(f, S, table)
<1> DEFINE Upto(n) == {s \in SUBSET S : Cardinality(s) <= n}
           Partial(n, t) == t = [s \in Upto(n) |-> IF s = {} THEN 0 ELSE f[Some(s)] + t[s \ {Some(s)}]]
           Missing == {n \in Nat : ~\E t : Partial(n, t)}
<1>1. \A s \in SUBSET S : /\ IsFiniteSet(s) /\ Cardinality(s) \in Nat
                          /\ Cardinality(s) <= Cardinality(S)
                          /\ Cardinality(s) = 0 <=> s = {}
  BY FS_Subset, FS_CardinalityType, FS_EmptySet
<1>2. \A s \in SUBSET S : s # {} => /\ s \ {Some(s)} \in SUBSET S
                                    /\ Cardinality(s \ {Some(s)}) = Cardinality(s) - 1
  BY <1>1, FS_RemoveElement DEF Some
<1>3. \E t : Partial(0, t)
  <2> DEFINE t == [s \in Upto(0) |-> 0]
  <2>1. \A s \in Upto(0) : s = {}
    BY <1>1
  <2>2. Partial(0, t)
    BY <2>1
  <2> QED BY <2>2
<1>4. ASSUME NEW n \in Nat, NEW t, Partial(n, t) PROVE \E u : Partial(n + 1, u)
  <2> DEFINE u == [s \in Upto(n + 1) |-> IF s = {} THEN 0 ELSE f[Some(s)] + t[s \ {Some(s)}]]
  <2>1. \A s \in Upto(n) : s \in Upto(n + 1) /\ u[s] = t[s]
    <3>1. \A s \in Upto(n) : s \in Upto(n + 1)
      BY <1>1
    <3>2. \A s \in Upto(n) : t[s] = IF s = {} THEN 0 ELSE f[Some(s)] + t[s \ {Some(s)}]
      <4> HIDE DEF Upto
      <4> QED BY <1>4
    <3>3. \A s \in Upto(n + 1) : u[s] = IF s = {} THEN 0 ELSE f[Some(s)] + t[s \ {Some(s)}]
      <4> HIDE DEF Upto
      <4> QED OBVIOUS
    <3> HIDE DEF u, Upto
    <3> QED BY <3>1, <3>2, <3>3
  <2>2. ASSUME NEW s \in Upto(n + 1), s # {} PROVE u[s \ {Some(s)}] = t[s \ {Some(s)}]
    <3>1. s \ {Some(s)} \in Upto(n)
      BY <1>1, <1>2, <2>2
    <3> QED BY <2>1, <3>1
  <2>3. Partial(n + 1, u)
    BY <2>2
  <2> QED BY <2>3
<1>5. Missing = {}
  <2> HIDE DEF Partial
  <2>1. ASSUME Missing # {} PROVE FALSE
    <3>1. PICK n \in Missing : \A m \in Missing : n <= m
      BY <2>1, LeastNat
    <3>2. n # 0 /\ n - 1 \in Nat
      BY <1>3, <3>1
    <3>3. n - 1 \notin Missing
      BY <3>1, <3>2
    <3>4. PICK t : Partial(n - 1, t)
      BY <3>2, <3>3
    <3>5. \E u : Partial(n - 1 + 1, u)
      BY <1>4, <3>2, <3>4
    <3> QED BY <3>1, <3>2, <3>5
  <2> QED BY <2>1
<1>6. Cardinality(S) \in Nat /\ Upto(Cardinality(S)) = SUBSET S
  BY <1>1
<1>7. PICK t : Partial(Cardinality(S), t)
  <2> HIDE DEF Partial
  <2> QED BY <1>5, <1>6
<1>8. Adds(f, S, t)
  <2> HIDE DEF Upto
  <2> QED BY <1>6, <1>7 DEF Adds
<1> QED BY <1>8

LEMMA TablesAgree ==
  ASSUME NEW f, NEW S, IsFiniteSet(S), NEW T \in SUBSET S, NEW t, NEW u, Adds(f, S, t), Adds(f, T, u)
  PROVE  \A s \in SUBSET T : t[s] = u[s]
<1> DEFINE Bad == {s \in SUBSET T : t[s] # u[s]}
<1>1. ASSUME Bad # {} PROVE FALSE
  <2>1. \A s \in Bad : IsFiniteSet(s)
    BY FS_Subset
  <2>2. PICK s \in Bad : \A r \in Bad : Cardinality(s) <= Cardinality(r)
    BY <1>1, <2>1, SmallestSet
  <2>3. s # {}
    BY <2>2 DEF Adds
  <2>4. s \ {Some(s)} \in SUBSET T /\ Cardinality(s \ {Some(s)}) = Cardinality(s) - 1
        /\ Cardinality(s) \in Nat
    BY <2>1, <2>3, FS_RemoveElement, FS_CardinalityType DEF Some
  <2>5. t[s \ {Some(s)}] = u[s \ {Some(s)}]
    BY <2>2, <2>4
  <2> QED BY <2>2, <2>3, <2>5 DEF Adds
<1> QED BY <1>1

LEMMA SumEmpty ==
  ASSUME NEW f PROVE SumFunctionOnSet(f, {}) = 0
<1>1. PICK t : Adds(f, {}, t)
  BY TableExists, FS_EmptySet
<1>2. Adds(f, {}, CHOOSE table : Adds(f, {}, table))
  BY <1>1
<1> QED BY <1>2, SumIsTable DEF Adds

LEMMA SumSome ==
  ASSUME NEW f, NEW S, IsFiniteSet(S), S # {}
  PROVE  SumFunctionOnSet(f, S) = f[Some(S)] + SumFunctionOnSet(f, S \ {Some(S)})
<1>1. PICK R : R = S \ {Some(S)}
  OBVIOUS
<1> DEFINE sums(T) == CHOOSE table : Adds(f, T, table)
<1>2. IsFiniteSet(R) /\ R \in SUBSET S
  BY <1>1, FS_Subset
<1>3. /\ \E table : Adds(f, S, table)
      /\ \E table : Adds(f, R, table)
  BY <1>2, TableExists
<1>4. PICK t : t = sums(S)
  OBVIOUS
<1>5. PICK u : u = sums(R)
  OBVIOUS
<1>6. Adds(f, S, t) /\ Adds(f, R, u)
  BY <1>3, <1>4, <1>5
<1>7. t[R] = u[R]
  BY <1>2, <1>6, TablesAgree
<1>8. t[S] = f[Some(S)] + t[R]
  BY <1>1, <1>6 DEF Adds
<1>9. SumFunctionOnSet(f, S) = t[S] /\ SumFunctionOnSet(f, R) = u[R]
  BY <1>4, <1>5, SumIsTable
<1> QED BY <1>1, <1>7, <1>8, <1>9

LEMMA SumType ==
  ASSUME NEW S, IsFiniteSet(S), NEW f, \A x \in S : f[x] \in Int
  PROVE  SumFunctionOnSet(f, S) \in Int
<1> DEFINE Bad == {s \in SUBSET S : SumFunctionOnSet(f, s) \notin Int}
<1>1. ASSUME Bad # {} PROVE FALSE
  <2>1. \A s \in Bad : IsFiniteSet(s)
    BY FS_Subset
  <2>2. PICK s \in Bad : \A r \in Bad : Cardinality(s) <= Cardinality(r)
    BY <1>1, <2>1, SmallestSet
  <2>3. s # {}
    BY <2>2, SumEmpty
  <2>4. /\ s \ {Some(s)} \in SUBSET S /\ Cardinality(s \ {Some(s)}) = Cardinality(s) - 1
        /\ Cardinality(s) \in Nat /\ Some(s) \in S
    BY <2>1, <2>3, FS_RemoveElement, FS_CardinalityType DEF Some
  <2>5. SumFunctionOnSet(f, s \ {Some(s)}) \in Int
    BY <2>2, <2>4
  <2>6. SumFunctionOnSet(f, s) = f[Some(s)] + SumFunctionOnSet(f, s \ {Some(s)})
    BY <2>1, <2>2, <2>3, SumSome
  <2> QED BY <2>2, <2>4, <2>5, <2>6
<1> QED BY <1>1

(* Any element may be taken first. *)
LEMMA SumTakes ==
  ASSUME NEW S, IsFiniteSet(S), NEW f, \A x \in S : f[x] \in Int, NEW x \in S
  PROVE  SumFunctionOnSet(f, S) = f[x] + SumFunctionOnSet(f, S \ {x})
<1> DEFINE Bad == {s \in SUBSET S : \E y \in s :
                     SumFunctionOnSet(f, s) # f[y] + SumFunctionOnSet(f, s \ {y})}
<1>1. ASSUME Bad # {} PROVE FALSE
  <2>1. \A s \in Bad : IsFiniteSet(s)
    BY FS_Subset
  <2>2. PICK s \in Bad : \A r \in Bad : Cardinality(s) <= Cardinality(r)
    BY <1>1, <2>1, SmallestSet
  <2>3. PICK y \in s : SumFunctionOnSet(f, s) # f[y] + SumFunctionOnSet(f, s \ {y})
    BY <2>2
  <2> DEFINE c == Some(s)
  <2>4. c \in s /\ IsFiniteSet(s) /\ s \in SUBSET S
    BY <2>1, <2>2, <2>3 DEF Some
  <2> HIDE DEF c
  <2>5. /\ Cardinality(s) \in Nat
        /\ Cardinality(s \ {c}) = Cardinality(s) - 1 /\ Cardinality(s \ {y}) = Cardinality(s) - 1
        /\ IsFiniteSet(s \ {c}) /\ IsFiniteSet(s \ {y}) /\ IsFiniteSet((s \ {c}) \ {y})
    BY <2>4, FS_RemoveElement, FS_CardinalityType
  <2>6. SumFunctionOnSet(f, s) = f[c] + SumFunctionOnSet(f, s \ {c})
    BY <2>3, <2>4, SumSome DEF c
  <2>7. y # c
    BY <2>3, <2>6
  <2>8. s \ {c} \notin Bad /\ s \ {y} \notin Bad
    <3> HIDE DEF Bad
    <3> QED BY <2>2, <2>5
  <2>9. SumFunctionOnSet(f, s \ {c}) = f[y] + SumFunctionOnSet(f, (s \ {c}) \ {y})
    BY <2>4, <2>7, <2>8
  <2>10. SumFunctionOnSet(f, s \ {y}) = f[c] + SumFunctionOnSet(f, (s \ {y}) \ {c})
    BY <2>4, <2>7, <2>8
  <2>11. (s \ {c}) \ {y} = (s \ {y}) \ {c}
    OBVIOUS
  <2>12. SumFunctionOnSet(f, (s \ {c}) \ {y}) \in Int
    BY <2>4, <2>5, SumType
  <2>13. f[c] \in Int /\ f[y] \in Int
    BY <2>3, <2>4
  <2> DEFINE rest == SumFunctionOnSet(f, (s \ {c}) \ {y})
  <2>14. SumFunctionOnSet(f, s) = f[c] + (f[y] + rest)
    BY <2>6, <2>9
  <2>15. f[y] + SumFunctionOnSet(f, s \ {y}) = f[y] + (f[c] + rest)
    BY <2>10, <2>11
  <2>16. f[c] + (f[y] + rest) = f[y] + (f[c] + rest)
    <3> HIDE DEF rest
    <3> QED BY <2>12, <2>13 DEF rest
  <2> QED BY <2>3, <2>14, <2>15, <2>16
<1>2. S \notin Bad
  BY <1>1
<1> QED BY <1>2

(* Summands that can be matched with larger ones of their own sum to less. *)
LEMMA SumMatched ==
  ASSUME NEW F, IsFiniteSet(F), NEW g \in [F -> Nat],
         NEW D, NEW h \in [D -> Nat], NEW match \in [D -> F],
         \A d \in D : h[d] <= g[match[d]],
         \A d, e \in D : d # e => match[d] # match[e]
  PROVE  SumFunctionOnSet(h, D) <= SumFunctionOnSet(g, F)
<1>1. IsFiniteSet(D)
  BY FS_Injection DEF Injection, IsInjective
<1> DEFINE Images(s) == {match[d] : d \in s}
           Bad == {s \in SUBSET D : ~(SumFunctionOnSet(h, s) <= SumFunctionOnSet(g, Images(s)))}
<1>2. \A s \in SUBSET F : SumFunctionOnSet(g, s) \in Int
  <2>1. ASSUME NEW s \in SUBSET F PROVE SumFunctionOnSet(g, s) \in Int
    <3>1. IsFiniteSet(s) /\ \A x \in s : g[x] \in Int
      BY FS_Subset
    <3> QED BY <3>1, SumType
  <2> QED BY <2>1
<1>3. \A s \in SUBSET D : SumFunctionOnSet(h, s) \in Int
  <2>1. ASSUME NEW s \in SUBSET D PROVE SumFunctionOnSet(h, s) \in Int
    <3>1. IsFiniteSet(s) /\ \A d \in s : h[d] \in Int
      BY <1>1, FS_Subset
    <3> QED BY <3>1, SumType
  <2> QED BY <2>1
<1>4. ASSUME Bad # {} PROVE FALSE
  <2>1. \A s \in Bad : IsFiniteSet(s)
    BY <1>1, FS_Subset
  <2>2. PICK s \in Bad : \A r \in Bad : Cardinality(s) <= Cardinality(r)
    BY <1>4, <2>1, SmallestSet
  <2>3. s # {}
    BY <2>2, SumEmpty
  <2>4. PICK d \in s : TRUE
    BY <2>3
  <2>5. /\ s \ {d} \in SUBSET D /\ Cardinality(s \ {d}) = Cardinality(s) - 1
        /\ Cardinality(s) \in Nat /\ d \in D /\ s \in SUBSET D
    BY <2>1, <2>2, <2>4, FS_RemoveElement, FS_CardinalityType
  <2>6. s \ {d} \notin Bad
    BY <2>2, <2>5
  <2>7. SumFunctionOnSet(h, s \ {d}) <= SumFunctionOnSet(g, Images(s \ {d}))
    BY <2>5, <2>6
  <2>8. Images(s) \ {match[d]} = Images(s \ {d}) /\ match[d] \in Images(s)
    BY <2>4, <2>5
  <2>9. Images(s) \in SUBSET F /\ Images(s \ {d}) \in SUBSET F
    BY <2>5
  <2>10. IsFiniteSet(Images(s))
    BY <2>9, FS_Subset
  <2>11. SumFunctionOnSet(h, s) = h[d] + SumFunctionOnSet(h, s \ {d})
    <3>1. IsFiniteSet(s) /\ \A e \in s : h[e] \in Int
      BY <2>1, <2>2
    <3> QED BY <2>4, <3>1, SumTakes
  <2>12. SumFunctionOnSet(g, Images(s)) = g[match[d]] + SumFunctionOnSet(g, Images(s) \ {match[d]})
    <3>1. \A x \in Images(s) : g[x] \in Int
      BY <2>9
    <3> HIDE DEF Images
    <3> QED BY <2>8, <2>10, <3>1, SumTakes
  <2>13. ~(SumFunctionOnSet(h, s) <= SumFunctionOnSet(g, Images(s)))
    BY <2>2
  <2>14. h[d] \in Nat /\ g[match[d]] \in Nat /\ h[d] <= g[match[d]]
    BY <2>5
  <2> DEFINE a == SumFunctionOnSet(h, s \ {d})
             b == SumFunctionOnSet(g, Images(s \ {d}))
  <2>15. a \in Int /\ b \in Int /\ a <= b
    BY <1>2, <1>3, <2>5, <2>7, <2>9
  <2>16. SumFunctionOnSet(h, s) = h[d] + a /\ SumFunctionOnSet(g, Images(s)) = g[match[d]] + b
    BY <2>8, <2>11, <2>12
  <2> HIDE DEF a, b, Images
  <2>17. h[d] + a <= g[match[d]] + b
    BY <2>14, <2>15
  <2> QED BY <2>13, <2>16, <2>17
<1>5. SumFunctionOnSet(h, D) <= SumFunctionOnSet(g, Images(D))
  BY <1>4
<1>6. Images(D) \in SUBSET F
  OBVIOUS
<1> HIDE DEF Images
<1>7. \A s \in SUBSET F : SumFunctionOnSet(g, s) <= SumFunctionOnSet(g, F)
  <2> DEFINE Off == {s \in SUBSET F : \E r \in SUBSET s :
                       ~(SumFunctionOnSet(g, r) <= SumFunctionOnSet(g, s))}
  <2>1. ASSUME Off # {} PROVE FALSE
    <3>1. \A s \in Off : IsFiniteSet(s)
      BY FS_Subset
    <3>2. PICK s \in Off : \A r \in Off : Cardinality(s) <= Cardinality(r)
      BY <2>1, <3>1, SmallestSet
    <3>3. PICK r \in SUBSET s : ~(SumFunctionOnSet(g, r) <= SumFunctionOnSet(g, s))
      BY <3>2
    <3>4. s \in SUBSET F /\ r \in SUBSET F /\ IsFiniteSet(s)
      BY <3>1, <3>2
    <3>5. r # s
      BY <1>2, <3>3, <3>4
    <3>6. PICK x \in s : x \notin r
      BY <3>5
    <3>7. /\ s \ {x} \in SUBSET F /\ Cardinality(s \ {x}) = Cardinality(s) - 1
          /\ Cardinality(s) \in Nat
      BY <3>4, <3>6, FS_RemoveElement, FS_CardinalityType
    <3>8. s \ {x} \notin Off
      BY <3>2, <3>7
    <3>9. r \in SUBSET (s \ {x})
      BY <3>6
    <3>10. SumFunctionOnSet(g, r) <= SumFunctionOnSet(g, s \ {x})
      BY <3>7, <3>8, <3>9
    <3>11. SumFunctionOnSet(g, s) = g[x] + SumFunctionOnSet(g, s \ {x})
      <4>1. \A y \in s : g[y] \in Int
        BY <3>4
      <4> QED BY <3>4, <3>6, <4>1, SumTakes
    <3>12. g[x] \in Nat
      BY <3>4, <3>6
    <3> QED BY <1>2, <3>3, <3>4, <3>7, <3>10, <3>11, <3>12
  <2>2. F \notin Off
    BY <2>1
  <2> QED BY <2>2
<1> QED BY <1>2, <1>3, <1>5, <1>6, <1>7
-----------------------------------------------------------------------------
(* Each lesson read comes from a file of its own, which counts as many      *)
(* repetitions and will not be read again.                                 *)
FromFiles(docs, unread, counts, from) ==
  /\ from \in [docs -> LessonFiles \ unread]
  /\ \A l \in docs : l.recurrences <= counts[from[l]]
  /\ \A l, m \in docs : l # m => from[l] # from[m]

(* What all() has read so far for recurrences_for. *)
ChargeInv ==
  /\ \A p \in Procs : pc[p] = "read" /\ Call(p).op = "recurrences" =>
       /\ listing[p] \subseteq LessonFiles /\ read[p] \subseteq LESSON
       /\ \E from \in [read[p] -> LessonFiles \ listing[p]] :
            FromFiles(read[p], listing[p], recorded, from)
  /\ \A p \in Procs : Answered(p, "recurrences") => answer[p].value \in Int
  /\ ChargedAsRecorded

LEMMA InitCharge == ASSUME Init PROVE ChargeInv
BY DEF Init, ChargeInv, ChargedAsRecorded, Answered

LEMMA TotalType ==
  ASSUME NEW counts \in [Files -> Nat] PROVE SumFunction(counts) \in Int
<1>1. IsFiniteSet(Files) /\ DOMAIN counts = Files /\ \A f \in Files : counts[f] \in Int
  BY StoreAssumption
<1> QED BY <1>1, SumType DEF SumFunction

(* Larger counts, larger total. *)
LEMMA TotalGrows ==
  ASSUME NEW counts \in [Files -> Nat], NEW more \in [Files -> Nat],
         \A f \in Files : counts[f] <= more[f]
  PROVE  SumFunction(counts) <= SumFunction(more)
<1> DEFINE same == [f \in Files |-> f]
<1>1. /\ IsFiniteSet(Files) /\ DOMAIN counts = Files /\ DOMAIN more = Files
      /\ same \in [Files -> Files] /\ \A f \in Files : same[f] = f
  BY StoreAssumption
<1> HIDE DEF same
<1>2. /\ \A f \in Files : counts[f] <= more[same[f]]
      /\ \A f, g \in Files : f # g => same[f] # same[g]
  BY <1>1
<1>3. SumFunctionOnSet(counts, Files) <= SumFunctionOnSet(more, Files)
  BY <1>1, <1>2, SumMatched
<1> QED BY <1>1, <1>3 DEF SumFunction

LEMMA ChargeBounded ==
  ASSUME NEW counts \in [Files -> Nat], NEW docs, docs \subseteq LESSON, NEW unread, NEW from,
         FromFiles(docs, unread, counts, from), NEW id
  PROVE  recurrences_for(docs, id) \in Int /\ recurrences_for(docs, id) <= SumFunction(counts)
<1> DEFINE own == {m \in docs : m.agent_id = id}
           charge == [l \in own |-> l.recurrences]
           match == [l \in own |-> from[l]]
<1>1. own \subseteq docs /\ LessonFiles \subseteq Files
  BY DEF LessonFiles
<1>2. /\ charge \in [own -> Nat] /\ DOMAIN charge = own
      /\ \A l \in own : charge[l] = l.recurrences
  BY <1>1 DEF LESSON
<1>3. match \in [own -> Files] /\ \A l \in own : match[l] = from[l]
  BY <1>1 DEF FromFiles
<1>4. IsFiniteSet(Files) /\ DOMAIN counts = Files
  BY StoreAssumption
<1>5. recurrences_for(docs, id) = SumFunctionOnSet(charge, own)
  BY <1>2 DEF recurrences_for, SumFunction
<1> HIDE DEF charge, match, own
<1>6. /\ \A l \in own : charge[l] <= counts[match[l]]
      /\ \A l, m \in own : l # m => match[l] # match[m]
  BY <1>1, <1>2, <1>3 DEF FromFiles
<1>7. SumFunctionOnSet(charge, own) <= SumFunctionOnSet(counts, Files)
  BY <1>2, <1>3, <1>4, <1>6, SumMatched
<1>8. IsFiniteSet(own)
  <2>1. match \in Injection(own, Files)
    BY <1>3, <1>6 DEF Injection, IsInjective
  <2> QED BY <1>4, <2>1, FS_Injection
<1>9. SumFunctionOnSet(charge, own) \in Int
  <2>1. \A l \in own : charge[l] \in Int
    BY <1>2
  <2> QED BY <1>8, <2>1, SumType
<1> QED BY <1>4, <1>5, <1>7, <1>9 DEF SumFunction

LEMMA RecordedGrows ==
  ASSUME IInv, [Next]_vars PROVE \A f \in Files : recorded[f] <= recorded'[f]
<1>1. recorded \in [Files -> Nat]
  BY DEF IInv, DataOK
<1>2. CASE UNCHANGED recorded
  BY <1>1, <1>2
<1>3. CASE \E f : recorded' = [recorded EXCEPT ![f] = @ + 1]
  BY <1>1, <1>3
<1>4. UNCHANGED recorded \/ \E f : recorded' = [recorded EXCEPT ![f] = @ + 1]
  <2>1. CASE UNCHANGED vars
    BY <2>1 DEF vars, history
  <2>2. ASSUME NEW p \in Procs, Step(p) \/ Die(p)
        PROVE  UNCHANGED recorded \/ \E f : recorded' = [recorded EXCEPT ![f] = @ + 1]
    BY <2>2 DEF Step, Die, Reject, Look, LoadFails, Load, Replace, Open, Write, Unlink, List,
                ReadNext, ReadEnds, history
  <2> QED BY <2>1, <2>2 DEF Next
<1> QED BY <1>2, <1>3, <1>4

(* It is enough that every lesson being read stays so, and that whoever is  *)
(* newly answered is answered from lessons it has read.                    *)
LEMMA ChargeStands ==
  ASSUME IInv, IInv', ChargeInv, \A f \in Files : recorded[f] <= recorded'[f],
         \A q \in Procs : pc'[q] = "read" /\ Call(q)'.op = "recurrences" =>
           \/ /\ pc[q] = "read" /\ Call(q).op = "recurrences"
              /\ read'[q] = read[q] /\ listing'[q] = listing[q]
           \/ /\ listing'[q] \subseteq LessonFiles /\ read'[q] \subseteq LESSON
              /\ \E from \in [read'[q] -> LessonFiles \ listing'[q]] :
                   FromFiles(read'[q], listing'[q], recorded, from),
         \A q \in Procs : Answered(q, "recurrences")' =>
           \/ answer'[q] = answer[q]
           \/ answer'[q].value <= SumFunction(recorded)
              /\ answer'[q].value \in Int
  PROVE  ChargeInv'
<1>1. recorded \in [Files -> Nat] /\ recorded' \in [Files -> Nat] /\ LessonFiles \subseteq Files
  BY DEF IInv, DataOK, LessonFiles
<1>2. ASSUME NEW q \in Procs, pc'[q] = "read", Call(q)'.op = "recurrences"
      PROVE  /\ listing'[q] \subseteq LessonFiles /\ read'[q] \subseteq LESSON
             /\ \E from \in [read'[q] -> LessonFiles \ listing'[q]] :
                  FromFiles(read'[q], listing'[q], recorded', from)
  <2>1. /\ listing'[q] \subseteq LessonFiles /\ read'[q] \subseteq LESSON
        /\ \E from \in [read'[q] -> LessonFiles \ listing'[q]] :
             FromFiles(read'[q], listing'[q], recorded, from)
    BY <1>2 DEF ChargeInv
  <2>2. PICK from \in [read'[q] -> LessonFiles \ listing'[q]] :
          FromFiles(read'[q], listing'[q], recorded, from)
    BY <2>1
  <2>3. ASSUME NEW l \in read'[q] PROVE l.recurrences <= recorded'[from[l]]
    <3>1. from[l] \in Files /\ l.recurrences \in Nat /\ l.recurrences <= recorded[from[l]]
      BY <1>1, <2>1, <2>2 DEF FromFiles, LESSON
    <3>2. recorded[from[l]] \in Nat /\ recorded'[from[l]] \in Nat /\ recorded[from[l]] <= recorded'[from[l]]
      BY <1>1, <3>1
    <3> QED BY <3>1, <3>2
  <2>4. FromFiles(read'[q], listing'[q], recorded', from)
    BY <2>2, <2>3 DEF FromFiles
  <2> QED BY <2>1, <2>2, <2>4
<1>3. /\ SumFunction(recorded) <= SumFunction(recorded')
      /\ SumFunction(recorded) \in Int /\ SumFunction(recorded') \in Int
  BY <1>1, TotalGrows, TotalType
<1>4. ASSUME NEW q \in Procs, Answered(q, "recurrences")'
      PROVE  answer'[q].value \in Int /\ answer'[q].value <= SumFunction(recorded')
  <2>1. answer'[q].value \in Int /\ answer'[q].value <= SumFunction(recorded)
    <3>1. CASE answer'[q] = answer[q]
      <4>1. Answered(q, "recurrences")
        BY <1>4, <3>1 DEF Answered
      <4> QED BY <3>1, <4>1 DEF ChargeInv, ChargedAsRecorded
    <3> QED BY <1>4, <3>1
  <2> QED BY <1>3, <2>1
<1> QED BY <1>2, <1>4 DEF ChargeInv, ChargedAsRecorded

LEMMA ListCharge ==
  ASSUME IInv, IInv', ReadersOK, ChargeInv, NEW p \in Procs, List(p),
         \A f \in Files : recorded[f] <= recorded'[f]
  PROVE  ChargeInv'
<1>1. /\ pc' = [pc EXCEPT ![p] = "read"] /\ read' = [read EXCEPT ![p] = {}]
      /\ listing' = [listing EXCEPT ![p] =
           {f \in Files : Dir[f] = ReadersDir(Call(p)) /\ files[f] # Absent}]
      /\ UNCHANGED <<script, answer>>
  BY DEF List, Goto
<1>2. /\ \A q \in Procs \ {p} : pc'[q] = pc[q] /\ read'[q] = read[q] /\ listing'[q] = listing[q]
      /\ read'[p] = {}
      /\ listing'[p] \subseteq {f \in Files : Dir[f] = ReadersDir(Call(p))}
  BY <1>1 DEF IInv, ControlOK, ReadersOK
<1>3. ASSUME NEW q \in Procs, pc'[q] = "read", Call(q)'.op = "recurrences"
      PROVE  \/ /\ pc[q] = "read" /\ Call(q).op = "recurrences"
                /\ read'[q] = read[q] /\ listing'[q] = listing[q]
             \/ /\ listing'[q] \subseteq LessonFiles /\ read'[q] \subseteq LESSON
                /\ \E from \in [read'[q] -> LessonFiles \ listing'[q]] :
                     FromFiles(read'[q], listing'[q], recorded, from)
  <2>1. Call(q)' = Call(q)
    BY <1>1 DEF Call
  <2>2. CASE q # p
    BY <1>2, <1>3, <2>1, <2>2
  <2>3. CASE q = p
    <3>1. listing'[q] \subseteq LessonFiles
      BY <1>2, <1>3, <2>1, <2>3 DEF ReadersDir, LessonFiles
    <3> DEFINE none == [l \in {} |-> {}]
    <3>2. none \in [read'[q] -> LessonFiles \ listing'[q]]
      BY <1>2, <2>3
    <3>3. FromFiles(read'[q], listing'[q], recorded, none)
      BY <1>2, <2>3, <3>2 DEF FromFiles
    <3> QED BY <1>2, <2>3, <3>1, <3>2, <3>3
  <2> QED BY <2>2, <2>3
<1> QED BY <1>1, <1>3, ChargeStands

LEMMA ReadNextCharge ==
  ASSUME IInv, IInv', ReadersOK, ChargeInv, NEW p \in Procs, ReadNext(p),
         \A f \in Files : recorded[f] <= recorded'[f]
  PROVE  ChargeInv'
<1>1. PICK f \in listing[p] :
        /\ listing' = [listing EXCEPT ![p] = @ \ {f}]
        /\ IF Readable(f)
           THEN /\ read' = [read EXCEPT ![p] = @ \cup {files[f].doc}]
                /\ UNCHANGED <<script, pc, answer>>
           ELSE Return(p, Raised) /\ UNCHANGED read
  BY DEF ReadNext
<1>2. /\ \A q \in Procs \ {p} : listing'[q] = listing[q]
      /\ listing'[p] = listing[p] \ {f}
  BY <1>1 DEF ReadersOK
<1>3. CASE Readable(f)
  <2>1. /\ \A q \in Procs \ {p} : read'[q] = read[q]
        /\ read'[p] = read[p] \cup {files[f].doc}
        /\ UNCHANGED <<script, pc, answer>>
    BY <1>1, <1>3 DEF ReadersOK
  <2>2. ASSUME pc[p] = "read", Call(p).op = "recurrences"
        PROVE  /\ listing'[p] \subseteq LessonFiles /\ read'[p] \subseteq LESSON
               /\ \E from \in [read'[p] -> LessonFiles \ listing'[p]] :
                    FromFiles(read'[p], listing'[p], recorded, from)
    <3>1. listing[p] \subseteq LessonFiles /\ read[p] \subseteq LESSON
      BY <2>2 DEF ChargeInv
    <3>2. PICK from \in [read[p] -> LessonFiles \ listing[p]] :
            FromFiles(read[p], listing[p], recorded, from)
      BY <2>2 DEF ChargeInv
    <3> DEFINE doc == files[f].doc
               wider == [l \in read[p] \cup {doc} |-> IF l \in read[p] THEN from[l] ELSE f]
    <3>3. f \in LessonFiles /\ doc \in LESSON /\ doc.recurrences + 1 <= recorded[f]
      BY <1>1, <1>3, <3>1 DEF IInv, FiledOK
    <3>4. doc.recurrences <= recorded[f]
      <4>1. recorded[f] \in Nat /\ doc.recurrences \in Nat
        BY <3>3 DEF IInv, DataOK, LessonFiles, LESSON
      <4> HIDE DEF doc
      <4> QED BY <3>3, <4>1
    <3> HIDE DEF doc
    <3>5. \A l \in read[p] : wider[l] = from[l] /\ from[l] \in LessonFiles \ listing[p]
      OBVIOUS
    <3>6. doc \notin read[p] => wider[doc] = f
      OBVIOUS
    <3>7. wider \in [read[p] \cup {doc} -> LessonFiles \ (listing[p] \ {f})]
      BY <1>1, <3>3
    <3> HIDE DEF wider
    <3>8. \A l \in read[p] \cup {doc} : wider[l] \in LessonFiles /\ l.recurrences <= recorded[wider[l]]
      BY <3>2, <3>3, <3>4, <3>5, <3>6 DEF FromFiles
    <3>9. \A l, m \in read[p] \cup {doc} : l # m => wider[l] # wider[m]
      BY <1>1, <3>2, <3>5, <3>6 DEF FromFiles
    <3>10. FromFiles(read[p] \cup {doc}, listing[p] \ {f}, recorded, wider)
      BY <3>7, <3>8, <3>9 DEF FromFiles
    <3>11. read'[p] = read[p] \cup {doc}
      BY <2>1 DEF doc
    <3> QED BY <1>2, <3>1, <3>3, <3>7, <3>10, <3>11
  <2>3. \A q \in Procs : Call(q)' = Call(q)
    BY <2>1 DEF Call
  <2>4. ASSUME NEW q \in Procs, pc'[q] = "read", Call(q)'.op = "recurrences"
        PROVE  \/ /\ pc[q] = "read" /\ Call(q).op = "recurrences"
                  /\ read'[q] = read[q] /\ listing'[q] = listing[q]
               \/ /\ listing'[q] \subseteq LessonFiles /\ read'[q] \subseteq LESSON
                  /\ \E from \in [read'[q] -> LessonFiles \ listing'[q]] :
                       FromFiles(read'[q], listing'[q], recorded, from)
    BY <1>2, <2>1, <2>2, <2>3, <2>4
  <2> QED BY <2>1, <2>4, ChargeStands
<1>4. CASE ~Readable(f)
  <2>1. /\ answer' = [answer EXCEPT ![p] = [call |-> Call(p), value |-> Raised]]
        /\ \A q \in Procs \ {p} : script'[q] = script[q] /\ pc'[q] = pc[q]
        /\ pc'[p] = "idle" /\ UNCHANGED read
    BY <1>1, <1>4 DEF Return, Goto, IInv, ControlOK
  <2>2. /\ \A q \in Procs \ {p} : answer'[q] = answer[q]
        /\ ~Answered(p, "recurrences")'
    BY <2>1 DEF ReadersOK, Answered
  <2>3. ASSUME NEW q \in Procs, pc'[q] = "read", Call(q)'.op = "recurrences"
        PROVE  /\ pc[q] = "read" /\ Call(q).op = "recurrences"
               /\ read'[q] = read[q] /\ listing'[q] = listing[q]
    <3>1. q # p
      BY <2>1, <2>3
    <3> QED BY <1>2, <2>1, <2>3, <3>1 DEF Call
  <2> QED BY <2>2, <2>3, ChargeStands
<1> QED BY <1>3, <1>4

LEMMA ReadEndsCharge ==
  ASSUME IInv, IInv', ReadersOK, ChargeInv, NEW p \in Procs, ReadEnds(p),
         \A f \in Files : recorded[f] <= recorded'[f]
  PROVE  ChargeInv'
<1>1. pc[p] = "read" /\ UNCHANGED <<read, listing>>
  BY DEF ReadEnds
<1>2. PICK value :
        /\ Return(p, value)
        /\ Call(p).op = "recurrences" => value = recurrences_for(read[p], Call(p).name)
  BY DEF ReadEnds
<1>3. /\ answer' = [answer EXCEPT ![p] = [call |-> Call(p), value |-> value]]
      /\ \A q \in Procs \ {p} : script'[q] = script[q] /\ pc'[q] = pc[q]
      /\ pc'[p] = "idle"
  BY <1>2 DEF Return, Goto, IInv, ControlOK
<1>4. /\ \A q \in Procs \ {p} : answer'[q] = answer[q]
      /\ answer'[p].call = Call(p) /\ answer'[p].value = value
  BY <1>3 DEF ReadersOK
<1>5. Call(p).op = "recurrences" => value \in Int /\ value <= SumFunction(recorded)
  <2>1. recorded \in [Files -> Nat]
    BY DEF IInv, DataOK
  <2>2. ASSUME Call(p).op = "recurrences" PROVE value \in Int /\ value <= SumFunction(recorded)
    <3>1. read[p] \subseteq LESSON
      BY <1>1, <2>2 DEF ChargeInv
    <3>2. PICK from \in [read[p] -> LessonFiles \ listing[p]] :
            FromFiles(read[p], listing[p], recorded, from)
      BY <1>1, <2>2 DEF ChargeInv
    <3>3. value = recurrences_for(read[p], Call(p).name)
      BY <1>2, <2>2
    <3> QED BY <2>1, <3>1, <3>2, <3>3, ChargeBounded
  <2> QED BY <2>2
<1>6. ASSUME NEW q \in Procs, pc'[q] = "read", Call(q)'.op = "recurrences"
      PROVE  /\ pc[q] = "read" /\ Call(q).op = "recurrences"
             /\ read'[q] = read[q] /\ listing'[q] = listing[q]
  <2>1. q # p
    BY <1>3, <1>6
  <2> QED BY <1>1, <1>3, <1>6, <2>1 DEF Call
<1>7. ASSUME NEW q \in Procs, Answered(q, "recurrences")'
      PROVE  \/ answer'[q] = answer[q]
             \/ answer'[q].value <= SumFunction(recorded) /\ answer'[q].value \in Int
  BY <1>4, <1>5, <1>7 DEF Answered
<1> QED BY <1>6, <1>7, ChargeStands

LEMMA NextCharge == ASSUME IInv, IInv', ReadersOK, ChargeInv, [Next]_vars PROVE ChargeInv'
<1>1. \A f \in Files : recorded[f] <= recorded'[f]
  BY RecordedGrows
<1>2. ASSUME NEW p \in Procs, Step(p) \/ Die(p) PROVE ChargeInv'
  <2>1. CASE List(p) \/ ReadNext(p) \/ ReadEnds(p)
    BY <1>1, <2>1, ListCharge, ReadNextCharge, ReadEndsCharge
  <2>2. CASE \/ Reject(p) \/ Look(p) \/ LoadFails(p) \/ Load(p) \/ Replace(p)
             \/ Open(p) \/ Write(p) \/ Unlink(p) \/ Die(p)
    <3>1. UNCHANGED <<read, listing>>
      BY <2>2 DEF Reject, Look, LoadFails, Load, Replace, Open, Write, Unlink, Die
    <3>2. \/ /\ UNCHANGED <<script, answer>>
             /\ \E place \in {"load", "open", "write", "dead"} : Goto(p, place)
          \/ \E value : Return(p, value) /\ Call(p).op \in DOMAIN DirectoryOf
      BY <2>2, Directories
         DEF Reject, Look, LoadFails, Load, Replace, Open, Write, Unlink, Die, Calls, IInv, ControlOK
    <3>3. /\ pc'[p] # "read"
          /\ \A q \in Procs \ {p} : pc'[q] = pc[q] /\ script'[q] = script[q]
      BY <3>2 DEF Goto, Return, IInv, ControlOK
    <3>4. ASSUME NEW q \in Procs, Answered(q, "recurrences")' PROVE answer'[q] = answer[q]
      <4>1. CASE UNCHANGED answer
        BY <4>1
      <4>2. ASSUME NEW value, Return(p, value), Call(p).op \in DOMAIN DirectoryOf
            PROVE  answer'[q] = answer[q]
        <5>1. answer' = [answer EXCEPT ![p] = [call |-> Call(p), value |-> value]]
          BY <4>2 DEF Return
        <5>2. answer'[p].call = Call(p) /\ Call(p).op # "recurrences"
          BY <4>2, <5>1, Directories DEF ReadersOK
        <5>3. q # p
          BY <3>4, <5>2 DEF Answered
        <5> QED BY <5>1, <5>3 DEF ReadersOK
      <4> QED BY <3>2, <4>1, <4>2
    <3>5. ASSUME NEW q \in Procs, pc'[q] = "read", Call(q)'.op = "recurrences"
          PROVE  /\ pc[q] = "read" /\ Call(q).op = "recurrences"
                 /\ read'[q] = read[q] /\ listing'[q] = listing[q]
      <4>1. q # p
        BY <3>3, <3>5
      <4> QED BY <3>1, <3>3, <3>5, <4>1 DEF Call
    <3> QED BY <1>1, <3>4, <3>5, ChargeStands
  <2> QED BY <1>2, <2>1, <2>2 DEF Step
<1>3. CASE UNCHANGED vars
  <2>1. UNCHANGED <<script, pc, read, listing, answer>>
    BY <1>3 DEF vars, local
  <2>2. \A q \in Procs : Call(q)' = Call(q)
    BY <2>1 DEF Call
  <2> QED BY <1>1, <2>1, <2>2, ChargeStands
<1> QED BY <1>2, <1>3 DEF Next

(* What a reader is answered: an agent is charged with no more repetitions *)
(* than were recorded, the digest is whole and the cards are trusted.      *)
THEOREM AnswersAreSoundHolds == Spec => []AnswersAreSound
<1>1. Init => ReadersOK /\ ChargeInv
  BY InitReaders, InitCharge
<1>2. IInv /\ IInv' /\ ReadersOK /\ ChargeInv /\ [Next]_vars => ReadersOK' /\ ChargeInv'
  BY NextReaders, NextCharge
<1>3. ReadersOK /\ ChargeInv => AnswersAreSound
  BY DEF ReadersOK, ChargeInv, AnswersAreSound
<1> QED BY <1>1, <1>2, <1>3, InvariantHolds, PTL DEF Spec
=============================================================================
