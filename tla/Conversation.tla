---------------------------- MODULE Conversation ----------------------------
(***************************************************************************)
(* One chat: the turns sent to it, the course its files go to, the cache   *)
(* of retrievals, and the summary of the chat's history.                   *)
(*                                                                         *)
(* A turn is one run of AiChatService.send_message.  It reads the chat,    *)
(* the messages and the chat's course once and works with what it read     *)
(* while other turns of the same chat, the user and the background         *)
(* summary tasks change all three.  No transaction spans two statements.   *)
(***************************************************************************)
EXTENDS Integers, Sequences, FiniteSets

CONSTANTS
  Turns,      \* calls of send_message; a turn also names the course it may create
  Earlier,    \* names the messages that are in the chat at the beginning
  WithFiles,  \* turns with attached files
  Repeats,    \* turns that ask the same question in the same words
  Offered,    \* courses the user has besides those that turns create
  NoCourse,   \* NULL
  Exchanges,  \* questions and answers in the chat at the beginning
  Kept,       \* RECENT_TURNS_ALWAYS_KEPT
  Fresh,      \* messages that must have come after a summary before the next
  Every       \* a summary is considered after every so many user messages

ASSUME CourseAssumption ==
  /\ WithFiles \subseteq Turns
  /\ Repeats \subseteq Turns
  /\ Turns \cap Offered = {}
  /\ NoCourse \notin Turns \cup Offered
  /\ Earlier \notin Turns

ASSUME CountAssumption ==
  /\ Exchanges \in Nat
  /\ Kept \in Nat \ {0}
  /\ Fresh \in Nat
  /\ Every \in Nat \ {0}

VARIABLES
  user,       \* does the user's row exist?
  chat,       \* does the chat's row exist?
  messages,   \* rows of the chat in table messages, by created_at
  course,     \* chats.course_id
  courses,    \* the user's courses
  doc,        \* course of the ready document made of a turn's files
  pc,         \* where a turn stands
  seen,       \* number of history_rows of a turn
  linked,     \* chat["course_id"] as read at the start of a turn
  auto,       \* course_id of ensure_chat_course..., then auto_course
  found,      \* turns whose files were in the scope of a turn's retrieval
  storing,    \* turns whose retrieval is still to be written to the cache
  cached,     \* Redis: what a retrieval of the repeated question found, by scope
  task,       \* where the summary task a turn started stands
  summary     \* chat_history_summaries.message_count, 0 without a row

rows  == <<user, chat, messages, course, courses, doc>>
turn  == <<pc, seen, linked, auto, found>>
cache == <<storing, cached>>
notes == <<task, summary>>
vars  == <<rows, turn, cache, notes>>

Courses  == Turns \cup Offered
Stage    == {"chat", "history", "question", "parts", "ensure", "create", "link", "file",
             "retrieve", "model", "answer", "title", "ok", "refused", "raised"}
Task     == {"none", "check", "model", "save"}
Question == [turn : Turns \cup {Earlier}, role : {"user"}]
Answer   == [turn : Turns \cup {Earlier}, role : {"assistant"}]

TypeOK ==
  /\ user \in BOOLEAN
  /\ chat \in BOOLEAN
  /\ messages \in Seq(Question \cup Answer)
  /\ course \in Courses \cup {NoCourse}
  /\ courses \subseteq Courses
  /\ doc \in [Turns -> Courses \cup {NoCourse}]
  /\ pc \in [Turns -> Stage]
  /\ seen \in [Turns -> Nat]
  /\ linked \in [Turns -> Courses \cup {NoCourse}]
  /\ auto \in [Turns -> Courses \cup {NoCourse}]
  /\ found \in [Turns -> SUBSET Turns]
  /\ storing \subseteq Repeats
  /\ cached \subseteq [scope : SUBSET Courses, found : SUBSET Turns]
  /\ task \in [Turns -> Task]
  /\ summary \in Nat

Init ==
  /\ user = TRUE
  /\ chat = TRUE
  /\ messages = [i \in 1..(2 * Exchanges) |->
                   [turn |-> Earlier, role |-> IF i % 2 = 1 THEN "user" ELSE "assistant"]]
  /\ course \in Offered \cup {NoCourse}
  /\ courses = Offered
  /\ doc = [t \in Turns |-> NoCourse]
  /\ pc = [t \in Turns |-> "chat"]
  /\ seen = [t \in Turns |-> 0]
  /\ linked = [t \in Turns |-> NoCourse]
  /\ auto = [t \in Turns |-> NoCourse]
  /\ found = [t \in Turns |-> {}]
  /\ storing = {}
  /\ cached = {}
  /\ task = [t \in Turns |-> "none"]
  /\ summary = 0

-----------------------------------------------------------------------------
(* The turn *)

Goto(t, stage) == pc' = [pc EXCEPT ![t] = stage]

\* get_chat, then the user's row: no chat is a 404, a blocked account a 403.
ReadChat(t) ==
  /\ pc[t] = "chat"
  /\ linked' = [linked EXCEPT ![t] = course]
  /\ \/ chat /\ Goto(t, "history")
     \/ Goto(t, "refused")
  /\ UNCHANGED <<rows, seen, auto, found, cache, notes>>

Questions(n) == Cardinality({i \in 1..n : messages[i].role = "user"})

\* list_messages; after every so many questions a task will look after the summary.
ReadHistory(t) ==
  LET n == Len(messages) IN
  /\ pc[t] = "history"
  /\ seen' = [seen EXCEPT ![t] = n]
  /\ task' = IF Questions(n) > 0 /\ Questions(n) % Every = 0
               THEN [task EXCEPT ![t] = "check"] ELSE task
  /\ Goto(t, "question")
  /\ UNCHANGED <<rows, linked, auto, found, cache, summary>>

\* The message and its files are separate inserts: an unknown file raises after
\* the message is there.  (Plausible bug first: the handler then tries again.)
SaveQuestionAgain(t) ==
  /\ pc[t] = "question"
  /\ chat
  /\ messages' = Append(messages, [turn |-> t, role |-> "user"])
  /\ \/ Goto(t, "parts")
     \/ /\ t \in WithFiles
        /\ \A i \in 1..Len(messages) : messages[i].turn # t
        /\ UNCHANGED pc
  /\ UNCHANGED <<user, chat, course, courses, doc, seen, linked, auto, found, cache, notes>>

SaveQuestion(t) ==
  /\ pc[t] = "question"
  /\ chat
  /\ messages' = Append(messages, [turn |-> t, role |-> "user"])
  /\ \/ Goto(t, "parts")
     \/ t \in WithFiles /\ Goto(t, "raised")
  /\ UNCHANGED <<user, chat, course, courses, doc, seen, linked, auto, found, cache, notes>>

\* Nothing to send is a 400, although the question has been saved.
BuildParts(t) ==
  /\ pc[t] = "parts"
  /\ \/ Goto(t, IF t \in WithFiles THEN "ensure" ELSE "retrieve")
     \/ Goto(t, "refused")
  /\ UNCHANGED <<rows, seen, linked, auto, found, cache, notes>>

-----------------------------------------------------------------------------
(* ensure_chat_course_and_ingest_uploads *)

ReadCourse(t) ==
  /\ pc[t] = "ensure"
  /\ auto' = [auto EXCEPT ![t] = IF chat THEN course ELSE NoCourse]
  /\ Goto(t, IF ~chat THEN "retrieve" ELSE IF course = NoCourse THEN "create" ELSE "file")
  /\ UNCHANGED <<rows, seen, linked, found, cache, notes>>

CreateCourse(t) ==
  /\ pc[t] = "create"
  /\ user
  /\ courses' = courses \cup {t}
  /\ auto' = [auto EXCEPT ![t] = t]
  /\ Goto(t, "link")
  /\ UNCHANGED <<user, chat, messages, course, doc, seen, linked, found, cache, notes>>

\* UPDATE chats, whose course_id references a row of courses.  (Plausible bug
\* first: no foreign key.)
LinkCourseUnchecked(t) ==
  /\ pc[t] = "link"
  /\ course' = IF chat THEN auto[t] ELSE course
  /\ Goto(t, "file")
  /\ UNCHANGED <<user, chat, messages, courses, doc, seen, linked, auto, found, cache, notes>>

LinkCourse(t) ==
  /\ pc[t] = "link"
  /\ chat => auto[t] \in courses
  /\ course' = IF chat THEN auto[t] ELSE course
  /\ Goto(t, "file")
  /\ UNCHANGED <<user, chat, messages, courses, doc, seen, linked, auto, found, cache, notes>>

\* The files become documents of the course; each ingestion is awaited and may
\* end in an error, of which the turn learns nothing.
IngestFiles(t) ==
  /\ pc[t] = "file"
  /\ \/ auto[t] \in courses /\ doc' = [doc EXCEPT ![t] = auto[t]]
     \/ UNCHANGED doc
  /\ Goto(t, "retrieve")
  /\ UNCHANGED <<user, chat, messages, course, courses, seen, linked, auto, found, cache, notes>>

\* A statement raises, possibly between two files: "auto-ingest failed", and the
\* turn goes on without the course.
EnsureFails(t) ==
  /\ pc[t] \in {"ensure", "create", "link", "file"}
  /\ \/ UNCHANGED doc
     \/ pc[t] = "file" /\ auto[t] \in courses /\ doc' = [doc EXCEPT ![t] = auto[t]]
  /\ auto' = [auto EXCEPT ![t] = NoCourse]
  /\ Goto(t, "retrieve")
  /\ UNCHANGED <<user, chat, messages, course, courses, seen, linked, found, cache, notes>>

-----------------------------------------------------------------------------
(* The answer *)

\* primary_ids.  (Plausible bug first: only the link read at the start.)
ScopeAtStart(t) == {linked[t]} \ {NoCourse}
Scope(t) == {auto[t], linked[t]} \ {NoCourse}

\* The documents of the turn's courses are searched, and a task will cache the
\* result.  Without a course the question goes to the model with the files.
Search(t) ==
  /\ pc[t] = "retrieve"
  /\ found' = [found EXCEPT ![t] = {s \in Turns : doc[s] \in Scope(t)}]
  /\ storing' = IF t \in Repeats /\ Scope(t) # {} THEN storing \cup {t} ELSE storing
  /\ Goto(t, "model")
  /\ UNCHANGED <<rows, seen, linked, auto, cached, notes>>

\* The same question was asked in the same scope a moment ago.  (Plausible bug
\* first: the scope is not part of the key.)
ReuseAnySearch(t) ==
  /\ pc[t] = "retrieve"
  /\ t \in Repeats
  /\ \E e \in cached : found' = [found EXCEPT ![t] = e.found]
  /\ Goto(t, "model")
  /\ UNCHANGED <<rows, seen, linked, auto, cache, notes>>

ReuseSearch(t) ==
  /\ pc[t] = "retrieve"
  /\ t \in Repeats
  /\ \E e \in cached : e.scope = Scope(t) /\ found' = [found EXCEPT ![t] = e.found]
  /\ Goto(t, "model")
  /\ UNCHANGED <<rows, seen, linked, auto, cache, notes>>

\* set_retrieval_result, five minutes to live.
StoreSearch(t) ==
  /\ t \in storing
  /\ storing' = storing \ {t}
  /\ cached' = {e \in cached : e.scope # Scope(t)} \cup {[scope |-> Scope(t), found |-> found[t]]}
  /\ UNCHANGED <<rows, turn, notes>>

\* The entry's time is over, or Redis has lost it or the task that writes it.
ExpireSearch ==
  /\ cached' \in {cached \ {e} : e \in cached}
  /\ UNCHANGED <<rows, turn, storing, notes>>

AskModel(t) ==
  /\ pc[t] = "model"
  /\ Goto(t, "answer")
  /\ UNCHANGED <<rows, seen, linked, auto, found, cache, notes>>

\* (Plausible bug first: a failing insert does not fail the turn.)
SaveAnswerIfPossible(t) ==
  /\ pc[t] = "answer"
  /\ chat
  /\ \/ messages' = Append(messages, [turn |-> t, role |-> "assistant"])
     \/ UNCHANGED messages
  /\ Goto(t, "title")
  /\ UNCHANGED <<user, chat, course, courses, doc, seen, linked, auto, found, cache, notes>>

SaveAnswer(t) ==
  /\ pc[t] = "answer"
  /\ chat
  /\ messages' = Append(messages, [turn |-> t, role |-> "assistant"])
  /\ Goto(t, "title")
  /\ UNCHANGED <<user, chat, course, courses, doc, seen, linked, auto, found, cache, notes>>

\* update_title_after_message finds its row or not; the response is 200.
UpdateTitle(t) ==
  /\ pc[t] = "title"
  /\ Goto(t, "ok")
  /\ UNCHANGED <<rows, seen, linked, auto, found, cache, notes>>

\* A statement or the model call raises: a 500, which the quota refunds.
Raise(t) ==
  /\ pc[t] \in {"chat", "history", "question", "parts", "retrieve", "model", "answer", "title"}
  /\ Goto(t, "raised")
  /\ UNCHANGED <<rows, seen, linked, auto, found, cache, notes>>

-----------------------------------------------------------------------------
(* maybe_summarize, a task of its own *)

Advance(t, stage) == task' = [task EXCEPT ![t] = stage]

\* Long enough (or not), then the summary's row.
CheckSummary(t) ==
  /\ task[t] = "check"
  /\ \/ /\ summary = 0 \/ seen[t] - summary >= Fresh
        /\ seen[t] > Kept
        /\ Advance(t, "model")
     \/ Advance(t, "none")
  /\ UNCHANGED <<rows, turn, cache, summary>>

\* The model returns, or raises and the task ends.
WriteSummary(t) ==
  /\ task[t] = "model"
  /\ Advance(t, "save") \/ Advance(t, "none")
  /\ UNCHANGED <<rows, turn, cache, summary>>

\* The messages a summary covers.  (Plausible bug first: all of them.)
CoveredAll(t) == seen[t]
Covered(t) == seen[t] - Kept

\* The upsert overwrites whatever is there; without the chat it raises.
SaveSummary(t) ==
  /\ task[t] = "save"
  /\ summary' = IF chat THEN Covered(t) ELSE summary
  /\ Advance(t, "none")
  /\ UNCHANGED <<rows, turn, cache>>

-----------------------------------------------------------------------------
(* The user and the administrator *)

\* PATCH /api/chats/{id}/course, after user_can_access_course, which the courses made
\* by turns pass as well; None unlinks.
Relink ==
  /\ chat
  /\ course' \in courses \cup {NoCourse}
  /\ UNCHANGED <<user, chat, messages, courses, doc, turn, cache, notes>>

Unset(c) == [t \in Turns |-> IF doc[t] = c THEN NoCourse ELSE doc[t]]

\* ON DELETE SET NULL for the chat and the documents.
DeleteCourse(c) ==
  /\ c \in courses
  /\ courses' = courses \ {c}
  /\ course' = IF course = c THEN NoCourse ELSE course
  /\ doc' = Unset(c)
  /\ UNCHANGED <<user, chat, messages, turn, cache, notes>>

\* (Plausible bug first: the summary is kept.)
DeleteChatOnly ==
  /\ chat
  /\ chat' = FALSE
  /\ messages' = << >>
  /\ course' = NoCourse
  /\ UNCHANGED <<user, courses, doc, turn, cache, notes>>

DeleteChat ==
  /\ chat
  /\ chat' = FALSE
  /\ messages' = << >>
  /\ course' = NoCourse
  /\ summary' = 0
  /\ UNCHANGED <<user, courses, doc, turn, cache, task>>

DeleteUser ==
  /\ user
  /\ user' = FALSE
  /\ chat' = FALSE
  /\ messages' = << >>
  /\ course' = NoCourse
  /\ courses' = {}
  /\ doc' = [t \in Turns |-> NoCourse]
  /\ summary' = 0
  /\ UNCHANGED <<turn, cache, task>>

-----------------------------------------------------------------------------
TurnStep(t) ==
  \/ ReadChat(t) \/ ReadHistory(t) \/ SaveQuestion(t) \/ BuildParts(t)
  \/ ReadCourse(t) \/ CreateCourse(t) \/ LinkCourse(t) \/ IngestFiles(t) \/ EnsureFails(t)
  \/ Search(t) \/ ReuseSearch(t) \/ AskModel(t) \/ SaveAnswer(t) \/ UpdateTitle(t) \/ Raise(t)

TaskStep(t) == StoreSearch(t) \/ CheckSummary(t) \/ WriteSummary(t) \/ SaveSummary(t)

Next ==
  \/ \E t \in Turns : TurnStep(t) \/ TaskStep(t)
  \/ \E c \in Courses : DeleteCourse(c)
  \/ ExpireSearch \/ Relink \/ DeleteChat \/ DeleteUser

Spec == Init /\ [][Next]_vars

-----------------------------------------------------------------------------
(* Properties *)

Asked(t)    == {i \in 1..Len(messages) : messages[i] = [turn |-> t, role |-> "user"]}
Answered(t) == {i \in 1..Len(messages) : messages[i] = [turn |-> t, role |-> "assistant"]}

\* However turns interleave, fail and stop, a chat holds each question once and
\* each answer once, and an answer comes after its own question (send_message saves
\* both with separate statements, minutes apart).
ExchangeInOrder ==
  \A t \in Turns :
    /\ \A i, j \in Asked(t) : i = j
    /\ \A i, j \in Answered(t) : i = j
    /\ \A j \in Answered(t) : \E i \in Asked(t) : i < j

\* A turn that returns its response, and with it keeps its charge, has left the
\* answer in the chat, unless the chat is gone (ai_chat_service.py 231-261).
KeptChargeHasAnswer ==
  \A t \in Turns : pc[t] = "ok" /\ chat => Answered(t) # {}

\* A summary never covers the recent messages, which go to the model verbatim,
\* whichever of several tasks wrote it last (history.py 104-106, 126-137).
SummaryLeavesRecent == summary > 0 => summary + Kept <= Len(messages)

\* Every question is said once and answered at most once, after it, a response means an
\* answer, summaries leave the recent messages out, and deletion takes everything: the
\* separate statements of concurrent turns and late summary tasks cannot be told from
\* single steps of one dialogue (ai_chat_service.py 111-261, history.py 86-137).
Talk ==
  INSTANCE Dialogue WITH
    open <- chat, log <- messages, covered <- summary,
    returned <- {t \in Turns : pc[t] = "ok"}

ImplementsDialogue == Talk!Spec

\* What belongs to a user goes with the user, what belongs to a chat with the chat,
\* also while turns and tasks of the chat go on; no link outlives its course.
RowsStayTogether ==
  /\ user \/ (~chat /\ courses = {})
  /\ chat \/ (messages = << >> /\ course = NoCourse /\ summary = 0)
  /\ course \in courses \cup {NoCourse}
  /\ \A t \in Turns : doc[t] \in courses \cup {NoCourse}

\* A turn is answered from files of its own courses only, also when the retrieval
\* comes from the cache (the cache_scope of rag.py 494).
FoundWithinScope ==
  \A t, s \in Turns : s \in found[t] /\ auto[s] # NoCourse => auto[s] \in Scope(t)

\* A turn that searches finds its own attached files, even if its chat had no
\* course, or another one, when the turn began (ai_chat_service.py 155-160).
SearchFindsAttachment ==
  [][\A t \in Turns : Search(t) /\ auto[t] # NoCourse /\ doc[t] # NoCourse => t \in found'[t]]_vars

(* The inductive invariant.  Unasked and Unfiled are the stages before a turn's
   question is saved and before its files are documents. *)
Unasked == {"chat", "history", "question"}
Unfiled == Unasked \cup {"parts", "ensure", "create", "link", "file"}

\* What has been saved fits the stage the turn has reached.
SavedAsReached ==
  \A t \in Turns :
    /\ pc[t] \in Unasked => Asked(t) = {}
    /\ Answered(t) # {} => pc[t] \in {"title", "ok", "raised"}
    /\ chat /\ pc[t] \notin Unasked \cup {"refused", "raised"} => Asked(t) # {}
    /\ chat /\ pc[t] \in {"title", "ok"} => Answered(t) # {}

\* What a turn read of the chat is still there, and a summary task has enough of it.
SeenIsKept ==
  \A t \in Turns :
    /\ chat => seen[t] <= Len(messages)
    /\ task[t] \in {"model", "save"} => seen[t] > Kept

\* A turn starts its summary task when it has read the history.
TasksComeLater == \A t \in Turns : pc[t] \in {"chat", "history"} => task[t] = "none"

\* Results, kept by turns or in the cache, are of files that are documents and of
\* courses in the scope they are kept for.
ResultsAreScoped ==
  /\ \A t \in Turns : pc[t] \in Unfiled => doc[t] = NoCourse /\ found[t] = {} /\ t \notin storing
  /\ \A t \in Turns : doc[t] # NoCourse /\ auto[t] # NoCourse => doc[t] = auto[t]
  /\ \A t, s \in Turns : s \in found[t] => pc[s] \notin Unfiled
  /\ \A e \in cached : \A s \in e.found :
       pc[s] \notin Unfiled /\ (auto[s] # NoCourse => auto[s] \in e.scope)

\* The invariant that ConversationProofs shows to be inductive.
ConvInv ==
  /\ TypeOK
  /\ RowsStayTogether
  /\ SavedAsReached
  /\ ExchangeInOrder
  /\ TasksComeLater
  /\ SeenIsKept
  /\ SummaryLeavesRecent
  /\ ResultsAreScoped
  /\ FoundWithinScope

\* rag.py 822: "Ensure chat has a linked private course and ingest uploaded files
\* into it": a turn does not take the chat away from the course that holds another
\* turn's files.  Two turns that both read a NULL course_id do.
FilesStayWithChat ==
  [][\A t, s \in Turns : LinkCourse(t) /\ course # NoCourse /\ doc[s] = course
                          => course' = course]_vars

\* cache_manager.py 113: retrievals of a course are invalidated "when a new document
\* is indexed into a course", and rag.py 823: "so attached files can participate in
\* RAG retrieval".  Nothing invalidates them.
AttachmentsAreRetrieved ==
  \A t \in Turns : pc[t] = "model" /\ doc[t] # NoCourse /\ auto[t] # NoCourse => t \in found[t]
=============================================================================
