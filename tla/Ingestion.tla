----------------------------- MODULE Ingestion -----------------------------
(***************************************************************************)
(* Uploading, ingesting and deleting the documents of the knowledge base.  *)
(*                                                                         *)
(* An upload looks for a duplicate, inserts a row of rag_documents and     *)
(* starts a task (ingest_document) that splits the text, stores what other *)
(* documents have not stored yet, does the same for the pictures, links    *)
(* both and marks the row.  Chunks and pictures are shared by content: the *)
(* row of each belongs to the document that inserted it (its holder) and   *)
(* is deleted with it.  Uploads, tasks and deletions interleave at every   *)
(* await; each statement or transaction is one action.                     *)
(***************************************************************************)
EXTENDS Integers, Sequences, FiniteSets

CONSTANTS
  Documents,  \* uploads; each inserts at most one row of rag_documents
  Users,      \* rows of table users
  Courses,    \* rows of table courses
  NoCourse,   \* NULL: a document of the global knowledge base
  NoDocument, \* "there is no such row" for chunks and pictures
  Sources,    \* sha256 of uploaded files and URLs
  Text,       \* Text[s]: the chunks split_text makes of s, in order
  Pictures,   \* Pictures[s]: the images extracted from s
  SourceOf,   \* SourceOf[d]: what upload d uploads
  CourseOf,   \* CourseOf[d]: the course it names, or NoCourse
  UserOf,     \* UserOf[d]: who uploads it
  OwnerOf,    \* OwnerOf[c]: courses.user_id
  FromChat,   \* uploads attached to a chat message
  IsPublic,   \* uploads with is_public
  Faults      \* may worker processes die?

Chunks == UNION {{Text[s][i] : i \in DOMAIN Text[s]} : s \in Sources}
Images == UNION {Pictures[s] : s \in Sources}

ASSUME NullAssumption == NoCourse \notin Courses /\ NoDocument \notin Documents

ASSUME UploadAssumption ==
  /\ SourceOf \in [Documents -> Sources]
  /\ CourseOf \in [Documents -> Courses \cup {NoCourse}]
  /\ UserOf \in [Documents -> Users]
  /\ OwnerOf \in [Courses -> Users]
  /\ FromChat \subseteq Documents
  /\ IsPublic \subseteq Documents
  /\ \A d \in Documents : CourseOf[d] = NoCourse => d \in IsPublic \ FromChat
  /\ Faults \in BOOLEAN

ASSUME TextAssumption ==
  \A s \in Sources : Text[s] \in Seq(Chunks) /\ Text[s] # << >>

VARIABLES
  users,     \* users whose row exists
  courses,   \* courses whose row exists
  status,    \* rag_documents.status, "absent" before and "deleted" after the row
  course,    \* rag_documents.course_id
  pc,        \* where an upload and its task stand
  known,     \* existing_map of the task
  ids,       \* chunk_ids of the task
  todo,      \* images the task has not processed
  image,     \* the image in work: existing_img_id, then img_id
  holder,    \* rag_chunks.document_id per content_hash, NoDocument without a row
  sources,   \* rag_chunks.source_count
  shown,     \* rag_images.document_id per sha256, NoDocument without a row
  links      \* rows of rag_chunk_images

people == <<users, courses>>
rows   == <<status, course>>
task   == <<known, ids, todo, image>>
store  == <<holder, sources, shown, links>>
vars   == <<people, rows, pc, task, store>>

Stage  == {"check", "lookup", "create", "task", "search", "embed", "count",
           "picture", "caption", "link", "end", "silent"}
Status == {"absent", "pending", "indexing", "ready", "error", "deleted"}
Row    == {"pending", "indexing", "ready", "error"}

\* A row's id is generated, and a document inserts a chunk or an image at most once.
ChunkIds == Chunks \X Documents
ImageIds == Images \X Documents
NoImage  == <<>>

Contents(d) == {Text[SourceOf[d]][i] : i \in DOMAIN Text[SourceOf[d]]}
Shots(d)    == Pictures[SourceOf[d]]
Times(d, h) == Cardinality({i \in DOMAIN Text[SourceOf[d]] : Text[SourceOf[d]][i] = h})

Exists(d)   == status[d] \in Row
New(d)      == {h \in Contents(d) : \A id \in known[d] : id[1] # h}

TypeOK ==
  /\ users \subseteq Users
  /\ courses \subseteq Courses
  /\ status \in [Documents -> Status]
  /\ course \in [Documents -> Courses \cup {NoCourse}]
  /\ pc \in [Documents -> Stage]
  /\ known \in [Documents -> SUBSET ChunkIds]
  /\ ids \in [Documents -> SUBSET ChunkIds]
  /\ todo \in [Documents -> SUBSET Images]
  /\ image \in [Documents -> ImageIds \cup {NoImage}]
  /\ \A d \in Documents : pc[d] \in {"caption", "link"} => image[d] \in ImageIds
  /\ holder \in [Chunks -> Documents \cup {NoDocument}]
  /\ sources \in [Chunks -> Nat]
  /\ shown \in [Images -> Documents \cup {NoDocument}]
  /\ links \subseteq ChunkIds \X ImageIds

Init ==
  /\ users = Users
  /\ courses = Courses
  /\ status = [d \in Documents |-> "absent"]
  /\ course = CourseOf
  /\ pc = [d \in Documents |->
             IF d \in FromChat \/ CourseOf[d] = NoCourse THEN "lookup" ELSE "check"]
  /\ known = [d \in Documents |-> {}]
  /\ ids = [d \in Documents |-> {}]
  /\ todo = [d \in Documents |-> Shots(d)]
  /\ image = [d \in Documents |-> NoImage]
  /\ holder = [h \in Chunks |-> NoDocument]
  /\ sources = [h \in Chunks |-> 0]
  /\ shown = [i \in Images |-> NoDocument]
  /\ links = {}

-----------------------------------------------------------------------------
(* The upload request *)

Goto(d, stage) == pc' = [pc EXCEPT ![d] = stage]

\* user_owns_course, and the checks of size and type that follow it.
Check(d) ==
  /\ pc[d] = "check"
  /\ \/ CourseOf[d] \in courses /\ OwnerOf[CourseOf[d]] = UserOf[d] /\ Goto(d, "lookup")
     \/ Goto(d, "end")
  /\ UNCHANGED <<people, rows, task, store>>

\* What find_document_duplicate may return: any of these, there is no ORDER BY.
Duplicates(d) ==
  {e \in Documents :
     /\ Exists(e)
     /\ SourceOf[e] = SourceOf[d]
     /\ course[e] = CourseOf[d]
     /\ CourseOf[d] = NoCourse => e \in IsPublic}

\* An attached file whose row is unknown is skipped as well.
Lookup(d) ==
  /\ pc[d] = "lookup"
  /\ \/ \E e \in Duplicates(d) : status[e] = "ready" /\ Goto(d, "end")
     \/ \E e \in Duplicates(d) : status[e] # "ready" /\ Goto(d, "create")
     \/ Duplicates(d) = {} /\ Goto(d, "create")
     \/ d \in FromChat /\ Goto(d, "end")
  /\ UNCHANGED <<people, rows, task, store>>

\* INSERT INTO rag_documents, whose foreign keys may have gone meanwhile.
Create(d) ==
  /\ pc[d] = "create"
  /\ IF UserOf[d] \in users /\ CourseOf[d] \in courses \cup {NoCourse}
       THEN status' = [status EXCEPT ![d] = "pending"] /\ Goto(d, "task")
       ELSE UNCHANGED status /\ Goto(d, "end")
  /\ UNCHANGED <<people, course, task, store>>

-----------------------------------------------------------------------------
(* ingest_document *)

\* UPDATE rag_documents ... WHERE id = d: no row, no effect.  (Plausible bug first: an
\* upsert brings the row back.)
SetStatusAnyway(d, s) == status' = [status EXCEPT ![d] = s]

SetStatus(d, s) == status' = IF Exists(d) THEN [status EXCEPT ![d] = s] ELSE status

\* The task's locals go with it.  It ends with a word in its row ("end") or without
\* ("silent"): its process stopped, or the statement that sets the status raised.
Finish(d, stage) ==
  /\ Goto(d, stage)
  /\ known' = [known EXCEPT ![d] = {}]
  /\ ids' = [ids EXCEPT ![d] = {}]
  /\ todo' = [todo EXCEPT ![d] = {}]
  /\ image' = [image EXCEPT ![d] = NoImage]

\* The statement stands before the try block: when it raises, the task ends and its
\* row stays as it is.
StartIndexing(d) ==
  /\ pc[d] = "task"
  /\ \/ SetStatus(d, "indexing") /\ Goto(d, "search") /\ UNCHANGED task
     \/ UNCHANGED status /\ Finish(d, "silent")
  /\ UNCHANGED <<people, course, store>>

\* Extraction and splitting have succeeded; find_existing_chunks.  (Plausible
\* bug first: some known chunks are taken for all.)
SearchAnyKnown(d) ==
  /\ pc[d] = "search"
  /\ known' = [known EXCEPT ![d] = {<<h, holder[h]>> : h \in {g \in Contents(d) : holder[g] # NoDocument}}]
  /\ ids' = [ids EXCEPT ![d] = known'[d]]
  /\ Goto(d, IF known'[d] # {} THEN "count" ELSE "embed")
  /\ UNCHANGED <<people, rows, todo, image, store>>

Search(d) ==
  /\ pc[d] = "search"
  /\ known' = [known EXCEPT ![d] = {<<h, holder[h]>> : h \in {g \in Contents(d) : holder[g] # NoDocument}}]
  /\ ids' = [ids EXCEPT ![d] = known'[d]]
  /\ Goto(d, IF New(d)' = {} THEN "count" ELSE "embed")
  /\ UNCHANGED <<people, rows, todo, image, store>>

\* Plausible bug: the upsert takes the row over.
HolderAfterOverwrite(d, h) == IF h \in New(d) THEN d ELSE holder[h]

HolderAfter(d, h) == IF h \in New(d) /\ holder[h] = NoDocument THEN d ELSE holder[h]

\* upsert_chunks, one transaction.  (Plausible bugs first: no foreign key; the
\* known chunks are counted as well.)
StoreUnchecked(d) ==
  /\ pc[d] = "embed"
  /\ holder' = [h \in Chunks |-> HolderAfter(d, h)]
  /\ sources' = [h \in Chunks |-> IF h \in New(d) THEN sources[h] + Times(d, h) ELSE sources[h]]
  /\ ids' = [ids EXCEPT ![d] = known[d] \cup {<<h, holder'[h]>> : h \in New(d)}]
  /\ Goto(d, "picture")
  /\ UNCHANGED <<people, rows, known, todo, image, shown, links>>

StoreThenCount(d) ==
  /\ pc[d] = "embed"
  /\ Exists(d) \/ \A h \in New(d) : holder[h] # NoDocument
  /\ holder' = [h \in Chunks |-> HolderAfter(d, h)]
  /\ sources' = [h \in Chunks |-> IF h \in New(d) THEN sources[h] + Times(d, h) ELSE sources[h]]
  /\ ids' = [ids EXCEPT ![d] = known[d] \cup {<<h, holder'[h]>> : h \in New(d)}]
  /\ Goto(d, "count")
  /\ UNCHANGED <<people, rows, known, todo, image, shown, links>>

Store(d) ==
  /\ pc[d] = "embed"
  /\ Exists(d) \/ \A h \in New(d) : holder[h] # NoDocument
  /\ holder' = [h \in Chunks |-> HolderAfter(d, h)]
  /\ sources' = [h \in Chunks |-> IF h \in New(d) THEN sources[h] + Times(d, h) ELSE sources[h]]
  /\ ids' = [ids EXCEPT ![d] = known[d] \cup {<<h, holder'[h]>> : h \in New(d)}]
  /\ Goto(d, "picture")
  /\ UNCHANGED <<people, rows, known, todo, image, shown, links>>

\* increment_chunk_sources: nothing is new.
Count(d) ==
  /\ pc[d] = "count"
  /\ sources' = [h \in Chunks |->
       IF h \in Contents(d) /\ holder[h] # NoDocument THEN sources[h] + 1 ELSE sources[h]]
  /\ Goto(d, "picture")
  /\ UNCHANGED <<people, rows, task, holder, shown, links>>

\* get_image_id_by_sha.
FindPicture(d, i) ==
  /\ pc[d] = "picture"
  /\ i \in todo[d]
  /\ image' = [image EXCEPT ![d] = <<i, IF shown[i] = NoDocument THEN d ELSE shown[i]>>]
  /\ Goto(d, IF shown[i] = NoDocument THEN "caption" ELSE "link")
  /\ UNCHANGED <<people, rows, known, ids, todo, store>>

\* The file is written and captioned; upsert_image.
StorePicture(d) ==
  LET i == image[d][1] IN
  /\ pc[d] = "caption"
  /\ Exists(d) \/ shown[i] # NoDocument
  /\ shown' = [shown EXCEPT ![i] = IF @ = NoDocument THEN d ELSE @]
  /\ image' = [image EXCEPT ![d] = <<i, shown'[i]>>]
  /\ Goto(d, "link")
  /\ UNCHANGED <<people, rows, known, ids, todo, holder, sources, links>>

\* The chunks an image is linked to: the new ones, or all when none is new.
Linked(d) == {id \in ids[d] : New(d) = {} \/ id[1] \in New(d)}

\* link_chunk_image for each chunk; a link to a row that is gone fails on its
\* foreign key and is skipped.  (Plausible bug first: it is inserted.)
LinkPictureUnchecked(d) ==
  /\ pc[d] = "link"
  /\ links' = links \cup {<<id, image[d]>> : id \in Linked(d)}
  /\ todo' = [todo EXCEPT ![d] = @ \ {image[d][1]}]
  /\ image' = [image EXCEPT ![d] = NoImage]
  /\ Goto(d, "picture")
  /\ UNCHANGED <<people, rows, known, ids, holder, sources, shown>>

LinkPicture(d) ==
  /\ pc[d] = "link"
  /\ links' = links \cup
       {<<id, image[d]>> : id \in {c \in Linked(d) : holder[c[1]] = c[2] /\ shown[image[d][1]] = image[d][2]}}
  /\ todo' = [todo EXCEPT ![d] = @ \ {image[d][1]}]
  /\ image' = [image EXCEPT ![d] = NoImage]
  /\ Goto(d, "picture")
  /\ UNCHANGED <<people, rows, known, ids, holder, sources, shown>>

MarkReady(d) ==
  /\ pc[d] = "picture"
  /\ todo[d] = {}
  /\ SetStatus(d, "ready")
  /\ Finish(d, "end")
  /\ UNCHANGED <<people, course, store>>

\* Plausible bug: an early return for a failure before anything is stored.
FailSilently(d) ==
  /\ pc[d] \in {"search", "embed", "count", "picture", "caption", "link"}
  /\ \/ pc[d] = "search" /\ UNCHANGED status /\ Finish(d, "end")
     \/ pc[d] # "search" /\ SetStatus(d, "error") /\ Finish(d, "end")
     \/ UNCHANGED status /\ Finish(d, "silent")
  /\ UNCHANGED <<people, course, store>>

\* Any step of the try block raises: extraction, an empty text, the embedding or
\* caption call, a foreign key, a database deadlock between two upserts.  So may the
\* handler's own statement, and then the row stays "indexing".
Fail(d) ==
  /\ pc[d] \in {"search", "embed", "count", "picture", "caption", "link"}
  /\ \/ SetStatus(d, "error") /\ Finish(d, "end")
     \/ UNCHANGED status /\ Finish(d, "silent")
  /\ UNCHANGED <<people, course, store>>

\* The worker process stops; nothing resumes its tasks.
Die(d) ==
  /\ Faults
  /\ pc[d] \in {"task", "search", "embed", "count", "picture", "caption", "link"}
  /\ Finish(d, "silent")
  /\ UNCHANGED <<people, rows, store>>

-----------------------------------------------------------------------------
(* Deletions, each with what ON DELETE does to the referencing rows *)

Cascade(gone) ==
  /\ status' = [d \in Documents |-> IF d \in gone /\ Exists(d) THEN "deleted" ELSE status[d]]
  /\ holder' = [h \in Chunks |-> IF holder[h] \in gone THEN NoDocument ELSE holder[h]]
  /\ sources' = [h \in Chunks |-> IF holder[h] \in gone THEN 0 ELSE sources[h]]
  /\ shown' = [i \in Images |-> IF shown[i] \in gone THEN NoDocument ELSE shown[i]]
  /\ links' = {l \in links : l[1][2] \notin gone /\ l[2][2] \notin gone}

\* The route names the document, its course and its user.
DeleteDocument(d) ==
  /\ Exists(d)
  /\ course[d] # NoCourse
  /\ Cascade({d})
  /\ UNCHANGED <<people, course, pc, task>>

\* ON DELETE SET NULL: the documents stay.
DeleteCourse(c) ==
  /\ c \in courses
  /\ courses' = courses \ {c}
  /\ course' = [d \in Documents |-> IF Exists(d) /\ course[d] = c THEN NoCourse ELSE course[d]]
  /\ UNCHANGED <<users, status, pc, task, store>>

DeleteUser(u) ==
  LET owned == {c \in courses : OwnerOf[c] = u} IN
  /\ u \in users
  /\ users' = users \ {u}
  /\ courses' = courses \ owned
  /\ Cascade({d \in Documents : Exists(d) /\ UserOf[d] = u})
  /\ course' = [d \in Documents |-> IF Exists(d) /\ course[d] \in owned THEN NoCourse ELSE course[d]]
  /\ UNCHANGED <<pc, task>>

-----------------------------------------------------------------------------
Progress(d) ==
  \/ StartIndexing(d) \/ Search(d) \/ Store(d) \/ Count(d)
  \/ (\E i \in Images : FindPicture(d, i)) \/ StorePicture(d) \/ LinkPicture(d)
  \/ MarkReady(d) \/ Fail(d)

Upload(d) == Check(d) \/ Lookup(d) \/ Create(d)

Next ==
  \/ \E d \in Documents : Upload(d) \/ Progress(d) \/ Die(d) \/ DeleteDocument(d)
  \/ \E c \in Courses : DeleteCourse(c)
  \/ \E u \in Users : DeleteUser(u)

Spec == Init /\ [][Next]_vars

\* The event loop runs a started task: its database and model calls return or raise.
Fairness == \A d \in Documents : WF_vars(Progress(d))

FairSpec == Spec /\ Fairness

-----------------------------------------------------------------------------
(* Properties *)

\* A document holds what it inserted first; the rows it holds are its own content.
Holds(e, h)  == holder[h] = e /\ h \in Contents(e)
HoldsImage(e, i) == shown[i] = e /\ i \in Shots(e)

\* Stored, or lost with a deleted document that had the same content.
Kept(h) ==
  holder[h] # NoDocument \/ \E e \in Documents : status[e] = "deleted" /\ h \in Contents(e)

KeptImage(i) ==
  shown[i] # NoDocument \/ \E e \in Documents : status[e] = "deleted" /\ i \in Shots(e)

\* A ready document is complete: whatever the other tasks stored, skipped or
\* failed to store between this task's search and its upserts, each of its
\* chunks and pictures is in the store, unless a document with the same content
\* has been deleted (rag.py:10, "same content from 5 users stored once").
ReadyIsComplete ==
  \A d \in Documents : status[d] = "ready" =>
    (\A h \in Contents(d) : Kept(h)) /\ (\A i \in Shots(d) : KeptImage(i))

\* A deletion is complete even when it hits a document while its task runs:
\* no chunk or picture belongs to a document without a row, then or later.
NoOrphanRows ==
  /\ \A h \in Chunks : holder[h] # NoDocument => Exists(holder[h]) /\ Holds(holder[h], h)
  /\ \A i \in Images : shown[i] # NoDocument => Exists(shown[i]) /\ HoldsImage(shown[i], i)

\* A chunk stays with the document that inserted it: no later upload takes a
\* shared chunk over, and it goes only together with that document.
HoldersNeverMove ==
  [][\A h \in Chunks :
       holder[h] # NoDocument =>
         \/ holder'[h] = holder[h]
         \/ holder'[h] = NoDocument /\ status'[holder[h]] = "deleted"]_vars

\* Links join rows that exist, and only text and pictures that one document
\* has both of, although either may be somebody else's row (schema.py:76).
LinksAreGrounded ==
  \A l \in links :
    /\ holder[l[1][1]] = l[1][2]
    /\ shown[l[2][1]] = l[2][2]
    /\ \E d \in Documents : l[1][1] \in Contents(d) /\ l[2][1] \in Shots(d)

\* The tasks that have stored or counted their chunks, and where h occurs in them.
Counted == {d \in Documents : pc[d] \in {"picture", "caption", "link", "end", "silent"}}

Occurrences(h) ==
  UNION {{<<d, i>> : i \in {j \in DOMAIN Text[SourceOf[d]] : Text[SourceOf[d]][j] = h}} : d \in Counted}

\* source_count never exceeds the occurrences of the content in the documents
\* that have been ingested: no document is counted by two of the code's paths.
SourcesBounded ==
  \A h \in Chunks : sources[h] <= Cardinality(Occurrences(h))

\* An ingestion, whatever fails in it and whatever is deleted under it, ends in ready,
\* error or a deletion, with two exceptions that nothing in the code repairs: its
\* process stopped, or an UPDATE of the status itself raised (rag.py 339, 467-469).
IngestionsEnd ==
  \A d \in Documents :
    status[d] \in {"pending", "indexing"} ~>
      status[d] \in {"ready", "error", "deleted"} \/ pc[d] = "silent"

\* The documents a question about course c searches (rag_retrieval.py).
Scope(c) == {d \in Documents : status[d] = "ready" /\ (course[d] = c \/ d \in IsPublic)}

Found(c) == {h \in Chunks : holder[h] \in Scope(c)}

\* "ingest uploaded files into it so attached files can participate in RAG
\* retrieval" (rag.py:821): a ready attachment of a chat is found through the
\* chat's course.
AttachmentsParticipate ==
  \A d \in FromChat : status[d] = "ready" /\ course[d] \in courses =>
    Contents(d) \cap Found(course[d]) # {}

-----------------------------------------------------------------------------
(* The inductive invariant *)

Uploading == {"check", "lookup", "create"}
Active    == Uploading \cup {"task", "search", "embed", "count", "picture", "caption", "link"}

\* What the task of d knows and has done: the chunks it found or stored are its
\* own content and have not been lost without a deletion.
TaskOf(d) ==
  /\ pc[d] \in Uploading => status[d] = "absent"
  /\ todo[d] \subseteq Shots(d)
  /\ \A id \in known[d] : id[1] \in Contents(d) /\ Kept(id[1])
  /\ \A id \in ids[d] : id[1] \in Contents(d)
  /\ pc[d] = "count" => New(d) = {}
  /\ pc[d] \in {"picture", "caption", "link"} => \A h \in Contents(d) : Kept(h)
  /\ pc[d] \in Active => \A i \in Shots(d) \ todo[d] : KeptImage(i)
  /\ pc[d] \in {"caption", "link"} => image[d][1] \in Shots(d)
  /\ pc[d] = "link" => KeptImage(image[d][1])

TaskInv == \A d \in Documents : TaskOf(d)

\* While a task is at work its row is neither ready nor in error.
RowsAwaitTasks ==
  \A d \in Documents :
    pc[d] \in Active \ Uploading => status[d] \in {"pending", "indexing", "deleted"}

IngestInv ==
  TypeOK /\ TaskInv /\ RowsAwaitTasks /\ NoOrphanRows /\ ReadyIsComplete /\ LinksAreGrounded

-----------------------------------------------------------------------------
(* The abstract specification *)

\* Uploads, tasks and deletions in any interleaving look like documents that take what
\* is missing, are finished when complete, and go with all they hold: what a task has
\* read before others stored or deleted does no harm (rag.py 315-471).
Shared ==
  INSTANCE ContentStore WITH
    Text <- [d \in Documents |-> Contents(d)],
    Pictures <- [d \in Documents |-> Shots(d)],
    status <- [d \in Documents |->
                 IF status[d] \in {"pending", "indexing"} THEN "work" ELSE status[d]]

ImplementsStore == Shared!Spec

=============================================================================
