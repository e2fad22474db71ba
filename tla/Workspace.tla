----------------------------- MODULE Workspace -----------------------------
(***************************************************************************)
(* Accounts, files, courses, chats, mindmaps and feedback together.        *)
(*                                                                         *)
(* Every request but a registration and a login begins by looking its user *)
(* up (current_user_id); from then on nothing looks again, so what a user  *)
(* has started goes on after an administrator has blocked or deleted him.  *)
(* Deleting an account takes its chats, courses, documents and feedback    *)
(* along, and neither a file nor a trace.                                  *)
(***************************************************************************)
EXTENDS Accounts, FileStore, Courses, Feedback

CONSTANTS
  UploaderOf,  \* UploaderOf[u]: whose upload it is
  MaxRequests  \* bound on the requests of a behaviour

ASSUME WorkspaceAssumption ==
  /\ UploaderOf \in [Uploads -> Users]
  /\ OwnerOf \in [Chats -> Users]
  /\ TeacherOf \in [Courses -> Users]
  /\ AuthorOf \in [Documents -> Users]
  /\ AskerOf \in [Traces -> Users]
  /\ SenderOf \in [Signals -> Users]
  /\ MaxRequests \in Nat

VARIABLE requests \* how many requests have come in

rest == <<maps, shelves, opinions>> \* what a user owns
vars == <<accounts, files, rest, requests>>

\* What has been there before belongs to somebody.
Init ==
  /\ AccountsInit /\ FilesInit /\ MindmapInit /\ CoursesInit /\ FeedbackInit
  /\ \A c \in OpenChats : OwnerOf[c] \in Founders
  /\ \A k \in OldCourses : TeacherOf[k] \in Founders
  /\ requests = 0

-----------------------------------------------------------------------------
(* The first step of each kind of request *)

Enter == requests < MaxRequests /\ requests' = requests + 1

Visit(s) ==
  /\ Enter
  /\ IF s \in Registrations THEN BeginRegistration(s) ELSE ReadCredentials(s)
  /\ UNCHANGED <<files, rest>>

Administer(c) ==
  /\ Enter
  /\ \E a, u \in Users, v \in Verb : OrderCommand(c, a, v, u)
  /\ UNCHANGED <<files, rest>>

SendFile(u) ==
  /\ Enter
  /\ Authorised(UploaderOf[u])
  /\ AcceptUpload(u)
  /\ UNCHANGED <<accounts, rest>>

\* A user deleted before the INSERT makes its foreign key fail.
OpenChat(c) ==
  /\ Enter
  /\ Authorised(OwnerOf[c])
  /\ CreateChat(c)
  /\ UNCHANGED <<accounts, files, shelves, opinions>>

SendMessage(c) ==
  /\ Enter
  /\ Authorised(OwnerOf[c])
  /\ AddMessage(c)
  /\ UNCHANGED <<accounts, files, shelves, opinions>>

\* The route asks whether the chat is the user's; a turn has asked before.
Regenerate(g, c) ==
  /\ Enter
  /\ Authorised(OwnerOf[c])
  /\ QueueRegeneration(g, c)
  /\ UNCHANGED <<accounts, files, shelves, opinions>>

DeleteChat(c) ==
  /\ Enter
  /\ Authorised(OwnerOf[c])
  /\ RemoveChats({c} \cap OpenChats)
  /\ RemoveRows({}, {}, {c})
  /\ UNCHANGED <<accounts, files, opinions>>

OpenCourse(k) ==
  /\ Enter
  /\ Authorised(TeacherOf[k])
  /\ CreateCourse(k)
  /\ UNCHANGED <<accounts, files, maps, opinions>>

DeleteCourse(k) ==
  /\ Enter
  /\ Authorised(TeacherOf[k])
  /\ RemoveCourse(k)
  /\ UNCHANGED <<accounts, files, maps, opinions>>

\* Into a course of his own, into the global knowledge base, or with a message.
SendDocument(d) ==
  /\ Enter
  /\ Authorised(AuthorOf[d])
  /\ \/ \E k \in Courses, shared \in BOOLEAN : FileInCourse(d, k, shared)
     \/ FilePublic(d)
     \/ \E c \in Chats : FileWithMessage(d, c)
  /\ UNCHANGED <<accounts, files, maps, opinions>>

DeleteDocument(d) ==
  /\ Enter
  /\ Authorised(AuthorOf[d])
  /\ RemoveDocument(d)
  /\ UNCHANGED <<accounts, files, maps, opinions>>

Link(l, c) ==
  /\ Enter
  /\ Authorised(OwnerOf[c])
  /\ \E k \in Place : StartLinking(l, c, k)
  /\ UNCHANGED <<accounts, files, maps, opinions>>

\* A question from its message to its answer, which the asker need not live to see.
Ask(t) ==
  /\ Enter
  /\ Authorised(AskerOf[t])
  /\ AnswerQuestion(t)
  /\ UNCHANGED <<accounts, files, maps, shelves>>

SendSignal(s) ==
  /\ Enter
  /\ Authorised(SenderOf[s])
  /\ \E t \in Traces \cup {NoTrace} : SubmitSignal(s, t)
  /\ UNCHANGED <<accounts, files, maps, shelves>>

-----------------------------------------------------------------------------
(* The steps after it *)

ContinueVisit(s) ==
  /\ \/ s \in Registrations /\ (CheckEmail(s) \/ CheckUsername(s) \/ InsertUser(s))
     \/ AnswerSession(s)
  /\ UNCHANGED <<files, rest, requests>>

\* A user goes with this step.
Leaves(u) == account[u] = "present" /\ account'[u] = "deleted"

\* user_id of chats, courses, rag_documents and rag_feedback is ON DELETE CASCADE.
\* (Plausible bug first: they are columns like any other.)
ExecuteAlone(c) ==
  /\ RunCommand(c)
  /\ UNCHANGED <<files, rest, requests>>

Execute(c) ==
  LET chats == {d \in OpenChats : Leaves(OwnerOf[d])} IN
  /\ RunCommand(c)
  /\ RemoveChats(chats)
  /\ RemoveRows({k \in Courses : Leaves(TeacherOf[k])}, {d \in Documents : Leaves(AuthorOf[d])}, chats)
  /\ RemoveSignals({s \in Signals : Leaves(SenderOf[s])})
  /\ UNCHANGED <<files, requests>>

ContinueUpload(u) == UploadStep(u) /\ UNCHANGED <<accounts, rest, requests>>

ContinueRegeneration(g) == RegenerationStep(g) /\ UNCHANGED <<accounts, files, shelves, opinions, requests>>

ContinueDocument(d) ==
  /\ InsertDocument(d, AuthorOf[d] \in Present)
  /\ UNCHANGED <<accounts, files, maps, opinions, requests>>

ContinueLink(l) == LinkChat(l) /\ UNCHANGED <<accounts, files, maps, opinions, requests>>

ContinueTrace(t) == RecordTrace(t) /\ UNCHANGED <<accounts, files, maps, shelves, requests>>

ContinueSignal(s) ==
  /\ VerifyTrace(s) \/ InsertSignal(s, SenderOf[s] \in Present)
  /\ UNCHANGED <<accounts, files, maps, shelves, requests>>

Crash(w) == StopWorker(w) /\ UNCHANGED <<accounts, rest, requests>>

Next ==
  \/ \E s \in Sessions : Visit(s) \/ ContinueVisit(s)
  \/ \E c \in Commands : Administer(c) \/ Execute(c)
  \/ \E u \in Uploads : SendFile(u) \/ ContinueUpload(u)
  \/ \E c \in Chats : OpenChat(c) \/ SendMessage(c) \/ DeleteChat(c)
  \/ \E k \in Courses : OpenCourse(k) \/ DeleteCourse(k)
  \/ \E d \in Documents : SendDocument(d) \/ DeleteDocument(d) \/ ContinueDocument(d)
  \/ \E l \in Links : ContinueLink(l) \/ \E c \in Chats : Link(l, c)
  \/ \E t \in Traces : Ask(t) \/ ContinueTrace(t)
  \/ \E s \in Signals : SendSignal(s) \/ ContinueSignal(s)
  \/ \E g \in Regenerations : ContinueRegeneration(g) \/ \E c \in Chats : Regenerate(g, c)
  \/ \E w \in Workers : Crash(w)

Spec == Init /\ [][Next]_vars

-----------------------------------------------------------------------------
(* Properties *)

\* What is there has an owner: neither a chat nor a mindmap, a course, a document or
\* feedback outlives its user, whatever he had under way when he was deleted (db.py:77,
\* admin_users.py:130).
OwnersExist ==
  /\ \A c \in OpenChats : OwnerOf[c] \in Present
  /\ \A k \in Opened : TeacherOf[k] \in Present
  /\ \A d \in Filed : AuthorOf[d] \in Present
  /\ \A s \in Recorded : SenderOf[s] \in Present

-----------------------------------------------------------------------------
(* The inductive invariant *)

WorkspaceInv ==
  /\ AccountsInv /\ FilesInv /\ MindmapInv /\ CoursesInv /\ FeedbackInv
  /\ OwnersExist
  /\ requests \in 0 .. MaxRequests

=============================================================================
