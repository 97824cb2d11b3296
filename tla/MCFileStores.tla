---------------------------- MODULE MCFileStores ----------------------------
(***************************************************************************)
(* Instances of FileStores: three processes p, q and r, of which q may die. *)
(* A script puts two writers of one file against each other and against a   *)
(* reader or a third writer.                                               *)
(***************************************************************************)
EXTENDS FileStores, TLC

CONSTANTS p, q, r,
          symptom, likeSymptom,  \* two symptoms with one slug
          other,                 \* and one with another
          id, likeId,            \* two agent ids with one file name
          path, note,
          lesson1, lesson2, card, key, page,  \* the files
          A, B, strangersKey

MCDir == (lesson1 :> "lessons") @@ (lesson2 :> "lessons") @@ (card :> "cards")
           @@ (key :> "keys") @@ (page :> "notes")
MCFileOf == (symptom :> lesson1) @@ (likeSymptom :> lesson1) @@ (other :> lesson2)
              @@ (id :> card) @@ (likeId :> card) @@ (path :> key) @@ (note :> page)
MCTrustedKeys == (id :> id)

(* B's lessons are longer than A's, a card that names a skill longer than one *)
(* that does not, and numbers have their digits.                           *)
MCSize(doc) ==
  CASE "recurrences" \in DOMAIN doc ->
         (IF doc.agent_id = B THEN 3 ELSE 2) + (IF doc.recurrences > 9 THEN 1 ELSE 0)
    [] "skills" \in DOMAIN doc -> 2 + Cardinality(doc.skills)
    [] OTHER -> 2

record(s, a, layer) ==
  [op |-> "record", name |-> s, correction |-> {"mechanism"}, agent_id |-> a, layer |-> layer]
advise(s, a) ==
  [op |-> "record", name |-> s, correction |-> {"advice", "mechanism"}, agent_id |-> a, layer |-> "Guides"]
publish(i, signature, skills) ==
  [op |-> "publish", name |-> i, doc |-> [id |-> i, signature |-> signature, skills |-> skills]]
ask(op, n) == [op |-> op, name |-> n]
write(n, evidence) == [op |-> "note", name |-> n, doc |-> [claim |-> evidence]]

Each(s, t, u) == (p :> s) @@ (q :> t) @@ (r :> u)

LessonScripts ==
  { Each(<<record(symptom, A, "Habits"), record(symptom, A, "Tools")>>,
         <<record(likeSymptom, B, "Tools"), record(other, A, "Memory")>>,
         <<ask("recurrences", A), record(symptom, A, "Tools"), ask("digest", A)>>),
    Each(<<record(symptom, A, "Tools"), record(symptom, A, "Tools")>>,
         <<record(symptom, B, "Tools"), ask("recurrences", A)>>,
         <<advise(symptom, A), record(symptom, B, "Tools")>>) }

CardScripts ==
  { Each(<<publish(id, id, {}), publish(id, id, {"skill"})>>,
         <<publish(id, id, {"skill"}), publish(likeId, strangersKey, {})>>,
         <<ask("get", id), ask("find", "skill"), ask("get", likeId)>>),
    Each(<<publish(id, id, {"skill"}), ask("unpublish", id), ask("find", "skill")>>,
         <<publish(id, id, {}), publish(id, id, {"skill"})>>,
         <<ask("find", "skill"), ask("unpublish", likeId), ask("get", id)>>) }

OtherScripts ==
  { Each(<<ask("keypair", path), ask("keypair", path)>>,
         <<ask("keypair", path), write(note, "second")>>,
         <<write(note, "first"), ask("keypair", path)>>) }

AllScripts == LessonScripts \cup CardScripts \cup OtherScripts
=============================================================================
