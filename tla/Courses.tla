------------------------------ MODULE Courses ------------------------------
(***************************************************************************)
(* Courses, the documents on them, the chats linked to them, and what a    *)
(* user reaches through them.                                              *)
(*                                                                         *)
(* A route looks at a course first and writes a row that names it later;   *)
(* in between the course may be deleted, or the chat be linked elsewhere.  *)
(* Documents appear here when their row is inserted, as if they were ready *)
(* at once: what they go through is module Ingestion's matter.             *)
(***************************************************************************)
EXTENDS Mindmap

CONSTANTS
  Courses,    \* ids of courses
  OldCourses, \* those created before, still empty
  NoCourse,   \* NULL
  TeacherOf,  \* TeacherOf[c]: courses.user_id
  OpenScope,  \* courses of scope 'public', which no route changes
  Documents,  \* rows rag_documents may get
  AuthorOf,   \* AuthorOf[d]: rag_documents.user_id
  Links,      \* PATCH /api/chats/{chat_id}/course
  OwnerOf     \* OwnerOf[c]: chats.user_id

ASSUME CourseAssumption ==
  /\ NoCourse \notin Courses
  /\ OpenScope \subseteq Courses
  /\ OldCourses \subseteq Courses

VARIABLES
  course,  \* whether a course's row exists
  row,     \* whether a document's row exists
  shelf,   \* rag_documents.course_id
  public,  \* documents with is_public, from the request that brings them
  link,    \* chats.course_id
  filing,  \* a document about to be inserted, and where
  linking  \* a link that has been allowed, to be written

shelves == <<course, row, shelf, public, link, filing, linking>>

Existence == {"absent", "present", "deleted"}
Place     == Courses \cup {NoCourse}

\* Nothing is under way.
Idle  == [busy |-> FALSE, to |-> NoCourse]
Filing  == [busy : BOOLEAN, to : Place]
Linking == {Idle} \cup [busy : {TRUE}, to : Place, chat : Chats]

CoursesTypeOK ==
  /\ course \in [Courses -> Existence]
  /\ row \in [Documents -> Existence]
  /\ shelf \in [Documents -> Place]
  /\ public \subseteq Documents
  /\ link \in [Chats -> Place]
  /\ filing \in [Documents -> Filing]
  /\ linking \in [Links -> Linking]

CoursesInit ==
  /\ course = [c \in Courses |-> IF c \in OldCourses THEN "present" ELSE "absent"]
  /\ row = [d \in Documents |-> "absent"]
  /\ shelf = [d \in Documents |-> NoCourse]
  /\ public = {}
  /\ link = [c \in Chats |-> NoCourse]
  /\ filing = [d \in Documents |-> Idle]
  /\ linking = [l \in Links |-> Idle]

Opened == {c \in Courses : course[c] = "present"}
Filed  == {d \in Documents : row[d] = "present"}

-----------------------------------------------------------------------------
(* Courses *)

CreateCourse(c) ==
  /\ course[c] = "absent"
  /\ course' = [course EXCEPT ![c] = "present"]
  /\ UNCHANGED <<row, shelf, public, link, filing, linking>>

\* Rows go, and the references of others to them become NULL.
RemoveRows(courses, documents, chats) ==
  /\ course' = [c \in Courses |-> IF c \in courses \cap Opened THEN "deleted" ELSE course[c]]
  /\ row' = [d \in Documents |-> IF d \in documents \cap Filed THEN "deleted" ELSE row[d]]
  /\ shelf' = [d \in Documents |-> IF shelf[d] \in courses \/ d \in documents THEN NoCourse ELSE shelf[d]]
  /\ link' = [c \in Chats |-> IF link[c] \in courses \/ c \in chats THEN NoCourse ELSE link[c]]
  /\ public' = public \ documents
  /\ UNCHANGED <<filing, linking>>

RemoveCourse(c) == c \in Opened /\ RemoveRows({c}, {}, {})

\* The route names the course.
RemoveDocument(d) == d \in Filed /\ shelf[d] # NoCourse /\ RemoveRows({}, {d}, {})

-----------------------------------------------------------------------------
(* Documents *)

StartFiling(d, c, shared) ==
  /\ ~filing[d].busy /\ row[d] = "absent" /\ d \notin public
  /\ filing' = [filing EXCEPT ![d] = [busy |-> TRUE, to |-> c]]
  /\ public' = IF shared THEN public \cup {d} ELSE public
  /\ UNCHANGED <<course, row, shelf, link, linking>>

\* Into one's own course, a file or a URL.
FileInCourse(d, c, shared) ==
  /\ c \in Opened /\ TeacherOf[c] = AuthorOf[d]
  /\ StartFiling(d, c, shared)

\* Into the global knowledge base.
FilePublic(d) == StartFiling(d, NoCourse, TRUE)

\* With a message: into the course of the chat, whosever it is.  (A chat without
\* one gets its own, see module Conversation.)
FileWithMessage(d, c) ==
  /\ c \in OpenChats /\ OwnerOf[c] = AuthorOf[d]
  /\ link[c] # NoCourse
  /\ StartFiling(d, link[c], FALSE)

\* INSERT INTO rag_documents; it fails when the course or the author has gone, and
\* the id is lost.  (Plausible bug first: no foreign key.)
InsertDocumentUnchecked(d, authorExists) ==
  /\ filing[d].busy
  /\ filing' = [filing EXCEPT ![d] = Idle]
  /\ row' = [row EXCEPT ![d] = "present"]
  /\ shelf' = [shelf EXCEPT ![d] = filing[d].to]
  /\ UNCHANGED <<course, public, link, linking>>

InsertDocument(d, authorExists) ==
  /\ filing[d].busy
  /\ filing' = [filing EXCEPT ![d] = Idle]
  /\ IF authorExists /\ filing[d].to \in Opened \cup {NoCourse}
       THEN /\ row' = [row EXCEPT ![d] = "present"]
            /\ shelf' = [shelf EXCEPT ![d] = filing[d].to]
       ELSE row' = [row EXCEPT ![d] = "deleted"] /\ UNCHANGED shelf
  /\ UNCHANGED <<course, public, link, linking>>

-----------------------------------------------------------------------------
(* Linking *)

\* user_can_access_course.  (Plausible bug first: any course will do.)
MayLinkAny(c, k) == k \in Opened \cup {NoCourse}

MayLink(c, k) ==
  \/ k = NoCourse
  \/ k \in Opened /\ (k \in OpenScope \/ TeacherOf[k] = OwnerOf[c])

StartLinking(l, c, k) ==
  /\ ~linking[l].busy
  /\ MayLink(c, k)
  /\ linking' = [linking EXCEPT ![l] = [busy |-> TRUE, to |-> k, chat |-> c]]
  /\ UNCHANGED <<course, row, shelf, public, link, filing>>

\* UPDATE chats SET course_id; no row, no effect, and an error for a course that
\* has gone.
LinkChat(l) ==
  LET c == linking[l].chat
      k == linking[l].to
  IN
  /\ linking[l].busy
  /\ linking' = [linking EXCEPT ![l] = Idle]
  /\ link' = IF c \in OpenChats /\ k \in Opened \cup {NoCourse} THEN [link EXCEPT ![c] = k] ELSE link
  /\ UNCHANGED <<course, row, shelf, public, filing>>

-----------------------------------------------------------------------------
(* Reading *)

\* get_image_for_user.
Illustrated(u) == {d \in Filed : shelf[d] # NoCourse /\ TeacherOf[shelf[d]] = u}

\* list_course_documents.
Listed(u) == {d \in Illustrated(u) : AuthorOf[d] = u}

\* retrieve_chunks_and_images, for a question in chat c.
OnShelf(k)  == {d \in Filed : k # NoCourse /\ shelf[d] = k}
Searched(c) == (Filed \cap public) \cup OnShelf(link[c])

ChatsOf(u) == {c \in OpenChats : OwnerOf[c] = u}
Reach(u)   == Listed(u) \cup Illustrated(u) \cup UNION {Searched(c) : c \in ChatsOf(u)}

-----------------------------------------------------------------------------
(* Properties *)

Readers == {OwnerOf[c] : c \in Chats} \cup {TeacherOf[k] : k \in Courses}

\* Neither a document nor a chat names a course that has gone, although the
\* course may go between the check and the write (rag_service.py:124-153, 287-294).
NamedCoursesExist ==
  /\ \A d \in Documents : shelf[d] \in Opened \cup {NoCourse}
  /\ \A c \in Chats : link[c] \in Opened \cup {NoCourse}

\* What a user lists, opens or searches is his own, public or on a public course:
\* whatever chats were linked, files attached and courses deleted meanwhile, no
\* private document gets onto another one's private shelf, and the documents of a
\* deleted course, which keep existing without one, are found by nobody
\* (rag_routes.py:57, rag_retrieval.py:26-42).
ReachIsPermitted ==
  \A u \in Readers : \A d \in Reach(u) :
    d \in public \/ AuthorOf[d] = u \/ shelf[d] \in OpenScope

-----------------------------------------------------------------------------
(* The inductive invariant *)

\* A private course takes its teacher's documents and chats only.
OwnShelf(d, k) == k = NoCourse \/ k \in OpenScope \/ TeacherOf[k] = AuthorOf[d]
OwnLink(c, k)  == k = NoCourse \/ k \in OpenScope \/ TeacherOf[k] = OwnerOf[c]

CoursesInv ==
  /\ CoursesTypeOK
  /\ NamedCoursesExist
  /\ \A d \in Documents : OwnShelf(d, shelf[d]) /\ OwnShelf(d, filing[d].to)
  /\ \A c \in Chats : OwnLink(c, link[c])
  /\ \A l \in Links : linking[l].busy => OwnLink(linking[l].chat, linking[l].to)

=============================================================================
