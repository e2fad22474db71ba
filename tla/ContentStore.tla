---------------------------- MODULE ContentStore -----------------------------
(***************************************************************************)
(* What the knowledge base promises, without courses, users and tasks: a   *)
(* store of documents that share equal chunks and pictures.                *)
(*                                                                         *)
(* A document in work takes what nobody holds yet, and leaves the rest to  *)
(* its holder.  It is finished when each of its parts is held, or went     *)
(* with a deleted document that also had it.  What a document holds never  *)
(* changes hands and goes with it.  Module Ingestion implements this with  *)
(* tasks that search, store and link in separate statements.               *)
(***************************************************************************)
CONSTANTS
  Documents,
  Chunks,
  Images,
  Text,       \* Text[d]: the chunks of a document
  Pictures,   \* Pictures[d]: its images
  NoDocument  \* the holder of what is not stored

VARIABLES
  status,  \* absent, then in work, then ready or in error; at last deleted
  holder,  \* the document a chunk belongs to
  shown,   \* the document an image belongs to
  links    \* pairs of a chunk and an image, each with its holder

vars == <<status, holder, shown, links>>

Init ==
  /\ status = [d \in Documents |-> "absent"]
  /\ holder = [h \in Chunks |-> NoDocument]
  /\ shown = [i \in Images |-> NoDocument]
  /\ links = {}

Accept(d) ==
  /\ status[d] = "absent"
  /\ status' = [status EXCEPT ![d] = "work"]
  /\ UNCHANGED <<holder, shown, links>>

\* All of the chunks that are new go in together.
TakeChunks(d, new) ==
  /\ status[d] = "work"
  /\ new \subseteq Text[d]
  /\ \A h \in new : holder[h] = NoDocument
  /\ holder' = [h \in Chunks |-> IF h \in new THEN d ELSE holder[h]]
  /\ UNCHANGED <<status, shown, links>>

TakePicture(d, i) ==
  /\ status[d] = "work"
  /\ i \in Pictures[d]
  /\ shown[i] = NoDocument
  /\ shown' = [shown EXCEPT ![i] = d]
  /\ UNCHANGED <<status, holder, links>>

\* The chunk and the image are stored as the link says, and are both of d.
Joined(d, l) ==
  /\ l[1][1] \in Text[d] /\ holder[l[1][1]] = l[1][2]
  /\ l[2][1] \in Pictures[d] /\ shown[l[2][1]] = l[2][2]

\* Links come late: d may have been deleted, but what they join has not.
Link(d) ==
  /\ status[d] \in {"work", "deleted"}
  /\ links \subseteq links'
  /\ \A l \in links' \ links : Joined(d, l)
  /\ UNCHANGED <<status, holder, shown>>

Lost == {e \in Documents : status[e] = "deleted"}

Complete(d) ==
  /\ \A h \in Text[d] : holder[h] # NoDocument \/ \E e \in Lost : h \in Text[e]
  /\ \A i \in Pictures[d] : shown[i] # NoDocument \/ \E e \in Lost : i \in Pictures[e]

Finish(d) ==
  /\ status[d] = "work"
  /\ Complete(d)
  /\ status' = [status EXCEPT ![d] = "ready"]
  /\ UNCHANGED <<holder, shown, links>>

GiveUp(d) ==
  /\ status[d] = "work"
  /\ status' = [status EXCEPT ![d] = "error"]
  /\ UNCHANGED <<holder, shown, links>>

Delete(gone) ==
  /\ \A d \in gone : status[d] \in {"work", "ready", "error"}
  /\ status' = [d \in Documents |-> IF d \in gone THEN "deleted" ELSE status[d]]
  /\ holder' = [h \in Chunks |-> IF holder[h] \in gone THEN NoDocument ELSE holder[h]]
  /\ shown' = [i \in Images |-> IF shown[i] \in gone THEN NoDocument ELSE shown[i]]
  /\ links' = {l \in links : l[1][2] \notin gone /\ l[2][2] \notin gone}

Next ==
  \/ \E d \in Documents :
       \/ Accept(d) \/ Link(d) \/ Finish(d) \/ GiveUp(d)
       \/ \E new \in SUBSET Text[d] : TakeChunks(d, new)
       \/ \E i \in Images : TakePicture(d, i)
  \/ \E gone \in SUBSET Documents : Delete(gone)

Spec == Init /\ [][Next]_vars
=============================================================================
