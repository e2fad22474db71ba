------------------------- MODULE ConversationProofs -------------------------
(* ConvInv is inductive.  The proof has one lemma for each part of it; a     *)
(* lemma about a part goes through the actions that can disturb the part.    *)
EXTENDS Conversation, TLAPS

\* A saved question or answer is the last of the messages and changes nothing
\* about the others.
LEMMA QuestionSaved ==
  ASSUME TypeOK, NEW t \in Turns,
         messages' = Append(messages, [turn |-> t, role |-> "user"])
  PROVE  /\ Len(messages') = Len(messages) + 1
         /\ Asked(t)' = Asked(t) \cup {Len(messages) + 1}
         /\ \A s \in Turns \ {t} : Asked(s)' = Asked(s)
         /\ \A s \in Turns : Answered(s)' = Answered(s)
  BY DEF TypeOK, Asked, Answered

LEMMA AnswerSaved ==
  ASSUME TypeOK, NEW t \in Turns,
         messages' = Append(messages, [turn |-> t, role |-> "assistant"])
  PROVE  /\ Len(messages') = Len(messages) + 1
         /\ Answered(t)' = Answered(t) \cup {Len(messages) + 1}
         /\ \A s \in Turns \ {t} : Answered(s)' = Answered(s)
         /\ \A s \in Turns : Asked(s)' = Asked(s)
  BY DEF TypeOK, Asked, Answered

LEMMA PlacesInRange ==
  ASSUME TypeOK, NEW t \in Turns
  PROVE  /\ Asked(t) \subseteq 1..Len(messages)
         /\ Answered(t) \subseteq 1..Len(messages)
         /\ Len(messages) \in Nat
  BY DEF TypeOK, Asked, Answered

-----------------------------------------------------------------------------
\* Every step is well typed.
LEMMA StepType == ASSUME TypeOK, SeenIsKept, [Next]_vars PROVE TypeOK'
<1> USE CourseAssumption, CountAssumption
<1>1. CASE UNCHANGED vars
  BY <1>1 DEF TypeOK, vars, rows, turn, cache, notes
<1>2. ASSUME NEW t \in Turns, TurnStep(t) PROVE TypeOK'
  <2> USE DEF Goto, Stage, Courses, rows, turn, cache, notes
  <2>1. CASE ReadChat(t)   BY <2>1 DEF ReadChat, TypeOK
  <2>2. CASE ReadHistory(t)
    <3>1. Len(messages) \in Nat  BY DEF TypeOK
    <3> QED BY <3>1, <2>2 DEF ReadHistory, TypeOK, Task
  <2>3. CASE SaveQuestion(t)
    <3>1. [turn |-> t, role |-> "user"] \in Question  BY DEF Question
    <3>2. messages' \in Seq(Question \cup Answer)  BY <3>1, <2>3 DEF SaveQuestion, TypeOK
    <3> QED BY <3>2, <2>3 DEF SaveQuestion, TypeOK
  <2>4. CASE BuildParts(t)   BY <2>4 DEF BuildParts, TypeOK
  <2>5. CASE ReadCourse(t)   BY <2>5 DEF ReadCourse, TypeOK
  <2>6. CASE CreateCourse(t) BY <2>6 DEF CreateCourse, TypeOK
  <2>7. CASE LinkCourse(t)   BY <2>7 DEF LinkCourse, TypeOK
  <2>8. CASE IngestFiles(t)  BY <2>8 DEF IngestFiles, TypeOK
  <2>9. CASE EnsureFails(t)  BY <2>9 DEF EnsureFails, TypeOK
  <2>10. CASE Search(t)      BY <2>10 DEF Search, TypeOK
  <2>11. CASE ReuseSearch(t) BY <2>11 DEF ReuseSearch, TypeOK
  <2>12. CASE AskModel(t)    BY <2>12 DEF AskModel, TypeOK
  <2>13. CASE SaveAnswer(t)
    <3>1. [turn |-> t, role |-> "assistant"] \in Answer  BY DEF Answer
    <3>2. messages' \in Seq(Question \cup Answer)  BY <3>1, <2>13 DEF SaveAnswer, TypeOK
    <3> QED BY <3>2, <2>13 DEF SaveAnswer, TypeOK
  <2>14. CASE UpdateTitle(t) BY <2>14 DEF UpdateTitle, TypeOK
  <2>15. CASE Raise(t)       BY <2>15 DEF Raise, TypeOK
  <2> QED BY <1>2, <2>1, <2>2, <2>3, <2>4, <2>5, <2>6, <2>7, <2>8, <2>9, <2>10, <2>11,
             <2>12, <2>13, <2>14, <2>15 DEF TurnStep
<1>3. ASSUME NEW t \in Turns, TaskStep(t) PROVE TypeOK'
  <2> USE DEF Advance, Task, Courses, rows, turn, cache, notes
  <2>1. CASE StoreSearch(t)
    <3> DEFINE new == [scope |-> Scope(t), found |-> found[t]]
    <3>1. Scope(t) \in SUBSET Courses /\ found[t] \in SUBSET Turns  BY DEF Scope, TypeOK
    <3>2. new \in [scope : SUBSET Courses, found : SUBSET Turns]  BY <3>1
    <3>3. cached' \subseteq cached \cup {new}  BY <2>1 DEF StoreSearch
    <3>4. cached' \subseteq [scope : SUBSET Courses, found : SUBSET Turns]
      <4> HIDE DEF new
      <4> QED BY <3>2, <3>3 DEF TypeOK
    <3> QED BY <3>4, <2>1 DEF StoreSearch, TypeOK
  <2>2. CASE CheckSummary(t) BY <2>2 DEF CheckSummary, TypeOK
  <2>3. CASE WriteSummary(t) BY <2>3 DEF WriteSummary, TypeOK
  <2>4. CASE SaveSummary(t)  BY <2>4 DEF SaveSummary, Covered, TypeOK, SeenIsKept
  <2> QED BY <1>3, <2>1, <2>2, <2>3, <2>4 DEF TaskStep
<1>4. ASSUME NEW c \in Courses, DeleteCourse(c) PROVE TypeOK'
  BY <1>4 DEF DeleteCourse, Unset, TypeOK, Courses, turn, cache, notes
<1>5. CASE ExpireSearch BY <1>5 DEF ExpireSearch, TypeOK, rows, turn, notes
<1>6. CASE Relink       BY <1>6 DEF Relink, TypeOK, Courses, turn, cache, notes
<1>7. CASE DeleteChat
  <2>1. << >> \in Seq(Question \cup Answer)  OBVIOUS
  <2> QED BY <2>1, <1>7 DEF DeleteChat, TypeOK, turn, cache
<1>8. CASE DeleteUser
  <2>1. << >> \in Seq(Question \cup Answer)  OBVIOUS
  <2> QED BY <2>1, <1>8 DEF DeleteUser, TypeOK, turn, cache
<1> QED BY <1>1, <1>2, <1>3, <1>4, <1>5, <1>6, <1>7, <1>8 DEF Next

-----------------------------------------------------------------------------
\* The steps of a turn that change no row and neither its files' results nor the
\* notes: they move it on, and set what the turn has read.
Quiet(t) == ReadChat(t) \/ BuildParts(t) \/ ReadCourse(t) \/ AskModel(t) \/ UpdateTitle(t) \/ Raise(t)

LEMMA QuietKeeps ==
  ASSUME NEW t \in Turns, Quiet(t)
  PROVE  UNCHANGED <<rows, seen, found, cache, notes>>
  BY DEF Quiet, ReadChat, BuildParts, ReadCourse, AskModel, UpdateTitle, Raise, rows, cache, notes

\* Rows are created for parents that exist and deleted with them.
LEMMA StepRows ==
  ASSUME TypeOK, RowsStayTogether, SeenIsKept, [Next]_vars
  PROVE  RowsStayTogether'
<1> USE CourseAssumption, CountAssumption DEF RowsStayTogether
<1>1. CASE UNCHANGED <<rows, summary>>
  BY <1>1 DEF rows
<1>2. ASSUME NEW t \in Turns, TurnStep(t) PROVE RowsStayTogether'
  <2>1. CASE Quiet(t) \/ ReadHistory(t) \/ Search(t) \/ ReuseSearch(t)
    BY <1>1, <2>1, QuietKeeps DEF ReadHistory, Search, ReuseSearch, notes
  <2>2. CASE SaveQuestion(t) BY <2>2 DEF SaveQuestion, cache, notes
  <2>3. CASE SaveAnswer(t)   BY <2>3 DEF SaveAnswer, cache, notes
  <2>4. CASE CreateCourse(t) BY <2>4 DEF CreateCourse, cache, notes
  <2>5. CASE LinkCourse(t)   BY <2>5 DEF LinkCourse, cache, notes
  <2>6. CASE IngestFiles(t)  BY <2>6 DEF IngestFiles, TypeOK, cache, notes
  <2>7. CASE EnsureFails(t)  BY <2>7 DEF EnsureFails, TypeOK, cache, notes
  <2> QED BY <1>2, <2>1, <2>2, <2>3, <2>4, <2>5, <2>6, <2>7 DEF TurnStep, Quiet
<1>3. ASSUME NEW t \in Turns, TaskStep(t) PROVE RowsStayTogether'
  <2>1. CASE StoreSearch(t) \/ CheckSummary(t) \/ WriteSummary(t)
    BY <1>1, <2>1 DEF StoreSearch, CheckSummary, WriteSummary, notes
  <2>2. CASE SaveSummary(t) BY <2>2 DEF SaveSummary, rows
  <2> QED BY <1>3, <2>1, <2>2 DEF TaskStep
<1>4. ASSUME NEW c \in Courses, DeleteCourse(c) PROVE RowsStayTogether'
  BY <1>4 DEF DeleteCourse, Unset, TypeOK, notes
<1>5. CASE ExpireSearch BY <1>1, <1>5 DEF ExpireSearch, notes
<1>6. CASE Relink       BY <1>6 DEF Relink, notes
<1>7. CASE DeleteChat   BY <1>7 DEF DeleteChat
<1>8. CASE DeleteUser   BY <1>8 DEF DeleteUser
<1>9. CASE UNCHANGED vars  BY <1>1, <1>9 DEF vars, notes
<1> QED BY <1>2, <1>3, <1>4, <1>5, <1>6, <1>7, <1>8, <1>9 DEF Next

-----------------------------------------------------------------------------
\* What a step does to the chat's messages: nothing, one more question or answer of
\* a turn that has reached that point, or all gone with the chat.
LEMMA MessageSteps ==
  ASSUME [Next]_vars
  PROVE  \/ UNCHANGED <<chat, messages>>
         \/ \E t \in Turns : SaveQuestion(t) \/ SaveAnswer(t)
         \/ DeleteChat \/ DeleteUser
  BY DEF Next, vars, rows, TurnStep, TaskStep, ReadChat, ReadHistory, BuildParts, ReadCourse,
         CreateCourse, LinkCourse, IngestFiles, EnsureFails, Search, ReuseSearch, AskModel,
         UpdateTitle, Raise, StoreSearch, CheckSummary, WriteSummary, SaveSummary, ExpireSearch,
         Relink, DeleteCourse

\* A turn asks once and answers once, in this order.
LEMMA StepExchange ==
  ASSUME TypeOK, SavedAsReached, ExchangeInOrder, [Next]_vars
  PROVE  ExchangeInOrder'
<1>1. CASE UNCHANGED messages
  BY <1>1 DEF ExchangeInOrder, Asked, Answered
<1>2. ASSUME NEW t \in Turns, SaveQuestion(t) PROVE ExchangeInOrder'
  <2>1. Asked(t) = {}  BY <1>2 DEF SaveQuestion, SavedAsReached, Unasked
  <2>2. Answered(t) = {}  BY <2>1 DEF ExchangeInOrder
  <2>3. messages' = Append(messages, [turn |-> t, role |-> "user"])  BY <1>2 DEF SaveQuestion
  <2>4. /\ Asked(t)' = {Len(messages) + 1}
        /\ \A s \in Turns \ {t} : Asked(s)' = Asked(s)
        /\ \A s \in Turns : Answered(s)' = Answered(s)
    BY <2>1, <2>3, QuestionSaved
  <2> HIDE DEF Asked, Answered
  <2> QED BY <2>2, <2>4 DEF ExchangeInOrder
<1>3. ASSUME NEW t \in Turns, SaveAnswer(t) PROVE ExchangeInOrder'
  <2>1. Answered(t) = {} /\ Asked(t) # {}
    BY <1>3 DEF SaveAnswer, SavedAsReached, Unasked
  <2>2. messages' = Append(messages, [turn |-> t, role |-> "assistant"])  BY <1>3 DEF SaveAnswer
  <2>3. /\ Answered(t)' = {Len(messages) + 1}
        /\ \A s \in Turns \ {t} : Answered(s)' = Answered(s)
        /\ \A s \in Turns : Asked(s)' = Asked(s)
    BY <2>1, <2>2, AnswerSaved
  <2>4. \A i \in Asked(t) : i < Len(messages) + 1
    BY PlacesInRange
  <2> QED BY <2>1, <2>3, <2>4 DEF ExchangeInOrder
<1>4. CASE messages' = << >>
  BY <1>4 DEF ExchangeInOrder, Asked, Answered
<1> QED BY <1>1, <1>2, <1>3, <1>4, MessageSteps DEF DeleteChat, DeleteUser

-----------------------------------------------------------------------------
\* What has been saved keeps fitting the stage a turn has reached.
LEMMA StepSaved ==
  ASSUME TypeOK, RowsStayTogether, SavedAsReached, [Next]_vars
  PROVE  SavedAsReached'
<1> USE DEF Unasked
<1>1. ASSUME UNCHANGED <<chat, messages, pc>> PROVE SavedAsReached'
  BY <1>1 DEF SavedAsReached, Asked, Answered
<1>2. ASSUME NEW t \in Turns, TurnStep(t) PROVE SavedAsReached'
  <2> USE DEF Goto
  <2>1. CASE SaveQuestion(t)
    <3>1. messages' = Append(messages, [turn |-> t, role |-> "user"])  BY <2>1 DEF SaveQuestion
    <3>2. /\ Asked(t)' # {}
          /\ \A s \in Turns \ {t} : Asked(s)' = Asked(s)
          /\ \A s \in Turns : Answered(s)' = Answered(s)
      BY <3>1, QuestionSaved
    <3>3. /\ chat' = chat /\ pc[t] = "question"
          /\ pc' = [pc EXCEPT ![t] = "parts"] \/ pc' = [pc EXCEPT ![t] = "raised"]
      BY <2>1 DEF SaveQuestion
    <3> QED BY <3>2, <3>3 DEF SavedAsReached, TypeOK
  <2>2. CASE SaveAnswer(t)
    <3>1. messages' = Append(messages, [turn |-> t, role |-> "assistant"])  BY <2>2 DEF SaveAnswer
    <3>2. /\ Answered(t)' # {}
          /\ \A s \in Turns \ {t} : Answered(s)' = Answered(s)
          /\ \A s \in Turns : Asked(s)' = Asked(s)
      BY <3>1, AnswerSaved
    <3>3. chat' = chat /\ pc[t] = "answer" /\ pc' = [pc EXCEPT ![t] = "title"]
      BY <2>2 DEF SaveAnswer
    <3> QED BY <3>2, <3>3 DEF SavedAsReached, TypeOK
  <2>3. ASSUME UNCHANGED <<chat, messages>>,
               pc' \in {[pc EXCEPT ![t] = stage] : stage \in Stage},
               \/ pc'[t] \in {"refused", "raised"}
               \/ pc[t] \in Unasked /\ pc'[t] \in Unasked
               \/ pc[t] \in Stage \ {"chat", "history", "question", "title", "ok", "refused", "raised"}
                  /\ pc'[t] \notin {"chat", "history", "question", "title", "ok"}
               \/ pc[t] = "title" /\ pc'[t] = "ok",
               pc'[t] = "refused" => pc[t] \in {"chat", "parts"},
               pc[t] \notin {"refused", "ok"}
        PROVE SavedAsReached'
    <3>1. \A s \in Turns : Asked(s)' = Asked(s) /\ Answered(s)' = Answered(s)
      BY <2>3 DEF Asked, Answered
    <3>2. \A s \in Turns \ {t} : pc'[s] = pc[s]  BY <2>3 DEF TypeOK
    <3> QED BY <2>3, <3>1, <3>2 DEF SavedAsReached, Stage
  <2> USE DEF Stage
  <2>4. CASE ReadChat(t)     BY <2>3, <2>4 DEF ReadChat, TypeOK, rows
  <2>5. CASE ReadHistory(t)  BY <2>3, <2>5 DEF ReadHistory, TypeOK, rows
  <2>6. CASE BuildParts(t)   BY <2>3, <2>6 DEF BuildParts, TypeOK, rows
  <2>7. CASE ReadCourse(t)   BY <2>3, <2>7 DEF ReadCourse, TypeOK, rows
  <2>8. CASE CreateCourse(t) BY <2>3, <2>8 DEF CreateCourse, TypeOK
  <2>9. CASE LinkCourse(t)   BY <2>3, <2>9 DEF LinkCourse, TypeOK
  <2>10. CASE IngestFiles(t) BY <2>3, <2>10 DEF IngestFiles, TypeOK
  <2>11. CASE EnsureFails(t) BY <2>3, <2>11 DEF EnsureFails, TypeOK
  <2>12. CASE Search(t)      BY <2>3, <2>12 DEF Search, TypeOK, rows
  <2>13. CASE ReuseSearch(t) BY <2>3, <2>13 DEF ReuseSearch, TypeOK, rows
  <2>14. CASE AskModel(t)    BY <2>3, <2>14 DEF AskModel, TypeOK, rows
  <2>15. CASE UpdateTitle(t) BY <2>3, <2>15 DEF UpdateTitle, TypeOK, rows
  <2>16. CASE Raise(t)       BY <2>3, <2>16 DEF Raise, TypeOK, rows
  <2> QED BY <1>2, <2>1, <2>2, <2>4, <2>5, <2>6, <2>7, <2>8, <2>9, <2>10, <2>11, <2>12,
             <2>13, <2>14, <2>15, <2>16 DEF TurnStep
<1>3. ASSUME NEW t \in Turns, TaskStep(t) PROVE SavedAsReached'
  BY <1>1, <1>3 DEF TaskStep, StoreSearch, CheckSummary, WriteSummary, SaveSummary, rows, turn
<1>4. ASSUME NEW c \in Courses, DeleteCourse(c) PROVE SavedAsReached'
  BY <1>1, <1>4 DEF DeleteCourse, turn
<1>5. CASE ExpireSearch \/ Relink \/ UNCHANGED vars
  BY <1>1, <1>5 DEF ExpireSearch, Relink, vars, rows, turn
<1>6. CASE DeleteChat \/ DeleteUser
  <2>1. chat' = FALSE /\ messages' = << >> /\ pc' = pc
    BY <1>6 DEF DeleteChat, DeleteUser, turn
  <2>2. \A s \in Turns : Asked(s)' = {} /\ Answered(s)' = {}
    BY <2>1 DEF Asked, Answered
  <2> QED BY <2>1, <2>2 DEF SavedAsReached
<1> QED BY <1>2, <1>3, <1>4, <1>5, <1>6 DEF Next

-----------------------------------------------------------------------------
\* Messages only go away with the chat.
LEMMA MessagesStay ==
  ASSUME TypeOK, [Next]_vars, chat'
  PROVE  chat /\ Len(messages') >= Len(messages) /\ Len(messages') \in Nat
<1>1. CASE UNCHANGED <<chat, messages>>
  BY <1>1 DEF TypeOK
<1>2. ASSUME NEW t \in Turns, SaveQuestion(t) \/ SaveAnswer(t)
      PROVE  chat /\ Len(messages') >= Len(messages) /\ Len(messages') \in Nat
  <2>1. messages' = Append(messages, [turn |-> t, role |-> "user"])
        \/ messages' = Append(messages, [turn |-> t, role |-> "assistant"])
    BY <1>2 DEF SaveQuestion, SaveAnswer
  <2>2. Len(messages') = Len(messages) + 1  BY <2>1, QuestionSaved, AnswerSaved
  <2>3. Len(messages) \in Nat  BY DEF TypeOK
  <2>4. chat  BY <1>2 DEF SaveQuestion, SaveAnswer
  <2> QED BY <2>2, <2>3, <2>4
<1> QED BY <1>1, <1>2, MessageSteps DEF DeleteChat, DeleteUser

\* Before it has read the history, a turn has no task; it never goes back.
LEMMA StepTasks ==
  ASSUME TypeOK, TasksComeLater, [Next]_vars
  PROVE  TasksComeLater'
<1> USE DEF TasksComeLater
<1>1. ASSUME NEW t \in Turns, TurnStep(t) PROVE TasksComeLater'
  <2> USE DEF Goto
  <2>1. CASE ReadHistory(t)  BY <2>1 DEF ReadHistory, TypeOK
  <2>2. CASE ~ReadHistory(t)
    <3>1. task' = task
      BY <1>1, <2>2, QuietKeeps DEF TurnStep, Quiet, SaveQuestion, CreateCourse, LinkCourse,
         IngestFiles, EnsureFails, Search, ReuseSearch, SaveAnswer, notes
    <3>2. \E stage \in Stage : pc' = [pc EXCEPT ![t] = stage]
                            /\ (stage \in {"chat", "history"} => pc[t] = "chat")
      BY <1>1, <2>2 DEF TurnStep, Stage, ReadChat, SaveQuestion, BuildParts, ReadCourse,
         CreateCourse, LinkCourse, IngestFiles, EnsureFails, Search, ReuseSearch, AskModel,
         SaveAnswer, UpdateTitle, Raise
    <3> QED BY <3>1, <3>2 DEF TypeOK
  <2> QED BY <2>1, <2>2
<1>2. ASSUME NEW t \in Turns, TaskStep(t) PROVE TasksComeLater'
  BY <1>2 DEF TaskStep, StoreSearch, CheckSummary, WriteSummary, SaveSummary, Advance, turn,
              notes, TypeOK
<1>3. ASSUME NEW c \in Courses, DeleteCourse(c) PROVE TasksComeLater'
  BY <1>3 DEF DeleteCourse, turn, notes
<1>4. CASE ExpireSearch \/ Relink \/ DeleteChat \/ DeleteUser \/ UNCHANGED vars
  BY <1>4 DEF ExpireSearch, Relink, DeleteChat, DeleteUser, vars, turn, notes
<1> QED BY <1>1, <1>2, <1>3, <1>4 DEF Next

\* What a turn has read stays; a task goes on only with enough messages.
LEMMA StepSeen ==
  ASSUME TypeOK, TasksComeLater, SeenIsKept, [Next]_vars
  PROVE  SeenIsKept'
<1>1. ASSUME UNCHANGED <<seen, task>> PROVE SeenIsKept'
  <2>1. \A t \in Turns : seen[t] \in Nat  BY DEF TypeOK
  <2>2. Len(messages) \in Nat  BY DEF TypeOK
  <2> QED BY <1>1, <2>1, <2>2, MessagesStay DEF SeenIsKept
<1>2. ASSUME NEW t \in Turns, TurnStep(t) PROVE SeenIsKept'
  <2>1. CASE ReadHistory(t)
    <3>1. /\ chat' = chat /\ messages' = messages
          /\ seen' = [seen EXCEPT ![t] = Len(messages)]
          /\ task[t] = "none"
          /\ task' = task \/ task' = [task EXCEPT ![t] = "check"]
      BY <2>1 DEF ReadHistory, TasksComeLater, rows
    <3>2. seen'[t] = Len(messages) /\ \A s \in Turns \ {t} : seen'[s] = seen[s] /\ task'[s] = task[s]
      BY <3>1 DEF TypeOK
    <3>3. task'[t] \in {"none", "check"}
      BY <3>1 DEF TypeOK
    <3>4. Len(messages) \in Nat  BY DEF TypeOK
    <3> QED BY <3>1, <3>2, <3>3, <3>4 DEF SeenIsKept
  <2>2. CASE ~ReadHistory(t)
    <3>1. UNCHANGED <<seen, task>>
      BY <1>2, <2>2, QuietKeeps DEF TurnStep, Quiet, SaveQuestion, CreateCourse, LinkCourse,
         IngestFiles, EnsureFails, Search, ReuseSearch, SaveAnswer, notes
    <3> QED BY <1>1, <3>1
  <2> QED BY <2>1, <2>2
<1>3. ASSUME NEW t \in Turns, TaskStep(t) PROVE SeenIsKept'
  <2>1. UNCHANGED <<chat, messages, seen>>
    BY <1>3 DEF TaskStep, StoreSearch, CheckSummary, WriteSummary, SaveSummary, rows, turn
  <2>2. \A s \in Turns : task'[s] \in {"model", "save"} => seen[s] > Kept
    BY <1>3 DEF TaskStep, StoreSearch, CheckSummary, WriteSummary, SaveSummary, Advance, notes,
                SeenIsKept, TypeOK
  <2> QED BY <2>1, <2>2 DEF SeenIsKept
<1>4. ASSUME NEW c \in Courses, DeleteCourse(c) PROVE SeenIsKept'
  BY <1>1, <1>4 DEF DeleteCourse, turn, notes
<1>5. CASE ExpireSearch \/ Relink \/ DeleteChat \/ DeleteUser \/ UNCHANGED vars
  BY <1>1, <1>5 DEF ExpireSearch, Relink, DeleteChat, DeleteUser, vars, turn, notes
<1> QED BY <1>2, <1>3, <1>4, <1>5 DEF Next

\* A summary leaves the recent messages out, and later ones only add to them.
LEMMA StepSummary ==
  ASSUME TypeOK, RowsStayTogether, SeenIsKept, SummaryLeavesRecent, [Next]_vars
  PROVE  SummaryLeavesRecent'
<1> USE CountAssumption
<1>1. ASSUME summary' = summary, chat' PROVE SummaryLeavesRecent'
  <2>1. Len(messages) \in Nat /\ summary \in Nat  BY DEF TypeOK
  <2> QED BY <1>1, <2>1, MessagesStay DEF SummaryLeavesRecent
<1>2. CASE ~chat'
  BY <1>2, StepRows DEF RowsStayTogether, SummaryLeavesRecent
<1>3. ASSUME NEW t \in Turns, SaveSummary(t), chat' PROVE SummaryLeavesRecent'
  <2>1. summary' = seen[t] - Kept /\ chat /\ messages' = messages /\ seen[t] <= Len(messages)
    BY <1>3 DEF SaveSummary, Covered, SeenIsKept, rows
  <2>2. seen[t] \in Nat /\ Len(messages) \in Nat  BY DEF TypeOK
  <2> QED BY <2>1, <2>2 DEF SummaryLeavesRecent
<1>4. (\A t \in Turns : ~SaveSummary(t)) /\ chat' => summary' = summary
  BY QuietKeeps DEF Next, TurnStep, TaskStep, Quiet, ReadHistory, SaveQuestion, CreateCourse,
     LinkCourse, IngestFiles, EnsureFails, Search, ReuseSearch, SaveAnswer, StoreSearch,
     CheckSummary, WriteSummary, ExpireSearch, Relink, DeleteCourse, DeleteChat, DeleteUser,
     vars, notes
<1> QED BY <1>1, <1>2, <1>3, <1>4

-----------------------------------------------------------------------------
\* Results stay within the scope they were found in.  Only two steps need more than
\* that a turn's files and courses are settled before it searches: a search finds
\* documents by their course, which is the course of their turn, and a cached result
\* has the scope of the turn that reuses it.
LEMMA StepResults ==
  ASSUME TypeOK, ResultsAreScoped, FoundWithinScope, [Next]_vars
  PROVE  ResultsAreScoped' /\ FoundWithinScope'
<1> USE DEF Unfiled, Unasked
<1>1. ASSUME UNCHANGED <<pc, linked, auto, found, storing>>, cached' \subseteq cached,
             \A s \in Turns : doc'[s] \in {doc[s], NoCourse}
      PROVE  ResultsAreScoped' /\ FoundWithinScope'
  <2>1. \A t \in Turns : Scope(t)' = Scope(t)  BY <1>1 DEF Scope
  <2> QED BY <1>1, <2>1 DEF ResultsAreScoped, FoundWithinScope
<1>2. ASSUME NEW t \in Turns, TurnStep(t) PROVE ResultsAreScoped' /\ FoundWithinScope'
  <2> USE DEF Goto
  <2>1. ASSUME UNCHANGED <<found, storing, cached>>,
               pc' \in {[pc EXCEPT ![t] = stage] : stage \in Stage},
               \A s \in Turns \ {t} : linked'[s] = linked[s] /\ auto'[s] = auto[s] /\ doc'[s] = doc[s],
               pc'[t] \in Unfiled => pc[t] \in Unfiled /\ doc'[t] = doc[t],
               doc'[t] # NoCourse /\ auto'[t] # NoCourse => doc'[t] = auto'[t],
               \/ pc[t] \in Unfiled
               \/ linked'[t] = linked[t] /\ auto'[t] = auto[t]
        PROVE  ResultsAreScoped' /\ FoundWithinScope'
    <3>1. pc'[t] \in Stage /\ \A s \in Turns \ {t} : pc'[s] = pc[s]  BY <2>1 DEF TypeOK
    <3>2. \A s \in Turns : Scope(s)' = Scope(s) \/ found[s] = {}
      BY <2>1 DEF Scope, ResultsAreScoped
    <3>3. \A s \in Turns : pc[s] \notin Unfiled => pc'[s] \notin Unfiled /\ auto'[s] = auto[s]
      BY <2>1, <3>1
    <3>4. ASSUME NEW r \in Turns, NEW s \in found'[r], s \in Turns
          PROVE  pc'[s] \notin Unfiled /\ (auto'[s] # NoCourse => auto'[s] \in Scope(r)')
      BY <2>1, <3>2, <3>3, <3>4 DEF ResultsAreScoped, FoundWithinScope
    <3>5. \A e \in cached' : \A s \in e.found :
            pc'[s] \notin Unfiled /\ (auto'[s] # NoCourse => auto'[s] \in e.scope)
      <4>1. \A e \in cached : e.found \subseteq Turns  BY DEF TypeOK
      <4> QED BY <2>1, <3>3, <4>1 DEF ResultsAreScoped
    <3>6. \A s \in Turns : pc'[s] \in Unfiled => doc'[s] = NoCourse /\ found'[s] = {} /\ s \notin storing'
      BY <2>1, <3>1 DEF ResultsAreScoped
    <3>7. \A s \in Turns : doc'[s] # NoCourse /\ auto'[s] # NoCourse => doc'[s] = auto'[s]
      BY <2>1 DEF ResultsAreScoped
    <3> QED BY <3>4, <3>5, <3>6, <3>7 DEF ResultsAreScoped, FoundWithinScope
  <2> USE DEF Stage, rows, cache
  <2>2. CASE ReadChat(t)     BY <2>1, <2>2 DEF ReadChat, TypeOK, ResultsAreScoped
  <2>3. CASE ReadHistory(t)  BY <2>1, <2>3 DEF ReadHistory, TypeOK, ResultsAreScoped
  <2>4. CASE SaveQuestion(t) BY <2>1, <2>4 DEF SaveQuestion, TypeOK, ResultsAreScoped
  <2>5. CASE BuildParts(t)   BY <2>1, <2>5 DEF BuildParts, TypeOK, ResultsAreScoped
  <2>6. CASE ReadCourse(t)   BY <2>1, <2>6 DEF ReadCourse, TypeOK, ResultsAreScoped
  <2>7. CASE CreateCourse(t) BY <2>1, <2>7 DEF CreateCourse, TypeOK, ResultsAreScoped
  <2>8. CASE LinkCourse(t)   BY <2>1, <2>8 DEF LinkCourse, TypeOK, ResultsAreScoped
  <2>9. CASE IngestFiles(t)  BY <2>1, <2>9 DEF IngestFiles, TypeOK, ResultsAreScoped
  <2>10. CASE EnsureFails(t) BY <2>1, <2>10 DEF EnsureFails, TypeOK, ResultsAreScoped
  <2>11. CASE AskModel(t)    BY <2>1, <2>11 DEF AskModel, TypeOK, ResultsAreScoped
  <2>12. CASE SaveAnswer(t)  BY <2>1, <2>12 DEF SaveAnswer, TypeOK, ResultsAreScoped
  <2>13. CASE UpdateTitle(t) BY <2>1, <2>13 DEF UpdateTitle, TypeOK, ResultsAreScoped
  <2>14. CASE Raise(t)       BY <2>1, <2>14 DEF Raise, TypeOK, ResultsAreScoped
  <2>15. ASSUME NEW result \in SUBSET Turns,
                found' = [found EXCEPT ![t] = result],
                pc[t] = "retrieve", pc' = [pc EXCEPT ![t] = "model"],
                storing' \subseteq storing \cup {t},
                UNCHANGED <<doc, linked, auto, cached>>,
                \A s \in result : pc[s] \notin Unfiled /\ (auto[s] # NoCourse => auto[s] \in Scope(t))
         PROVE  ResultsAreScoped' /\ FoundWithinScope'
    <3>1. \A s \in Turns : (pc'[s] \in Unfiled <=> pc[s] \in Unfiled)  BY <2>15 DEF TypeOK
    <3>2. \A s \in Turns : Scope(s)' = Scope(s)  BY <2>15 DEF Scope
    <3>3. found'[t] = result /\ \A s \in Turns \ {t} : found'[s] = found[s]  BY <2>15 DEF TypeOK
    <3>4. ASSUME NEW r \in Turns, NEW s \in Turns, s \in found'[r]
          PROVE  pc'[s] \notin Unfiled /\ (auto'[s] # NoCourse => auto'[s] \in Scope(r)')
      BY <2>15, <3>1, <3>2, <3>3, <3>4 DEF ResultsAreScoped, FoundWithinScope
    <3>5. \A e \in cached : e.found \subseteq Turns  BY DEF TypeOK
    <3>6. \A s \in Turns : pc'[s] \in Unfiled => doc'[s] = NoCourse /\ found'[s] = {} /\ s \notin storing'
      BY <2>15, <3>1, <3>3 DEF ResultsAreScoped
    <3> QED BY <2>15, <3>1, <3>4, <3>5, <3>6 DEF ResultsAreScoped, FoundWithinScope
  <2>16. CASE Search(t)
    <3> DEFINE result == {s \in Turns : doc[s] \in Scope(t)}
    <3>1. \A s \in result : pc[s] \notin Unfiled /\ (auto[s] # NoCourse => auto[s] \in Scope(t))
      BY DEF Scope, ResultsAreScoped
    <3> QED BY <2>15, <2>16, <3>1 DEF Search
  <2>17. CASE ReuseSearch(t)
    <3>1. PICK e \in cached : e.scope = Scope(t) /\ found' = [found EXCEPT ![t] = e.found]
      BY <2>17 DEF ReuseSearch
    <3>2. e.found \in SUBSET Turns  BY DEF TypeOK
    <3>3. \A s \in e.found : pc[s] \notin Unfiled /\ (auto[s] # NoCourse => auto[s] \in Scope(t))
      BY <3>1 DEF ResultsAreScoped
    <3> QED BY <2>15, <2>17, <3>1, <3>2, <3>3 DEF ReuseSearch
  <2> QED BY <1>2, <2>2, <2>3, <2>4, <2>5, <2>6, <2>7, <2>8, <2>9, <2>10, <2>11, <2>12, <2>13,
             <2>14, <2>16, <2>17 DEF TurnStep
<1>3. ASSUME NEW t \in Turns, StoreSearch(t) PROVE ResultsAreScoped' /\ FoundWithinScope'
  <2>1. UNCHANGED <<doc, pc, linked, auto, found>> /\ storing' \subseteq storing
    BY <1>3 DEF StoreSearch, rows, turn
  <2>2. \A s \in Turns : Scope(s)' = Scope(s)  BY <2>1 DEF Scope
  <2>3. found[t] \subseteq Turns  BY DEF TypeOK
  <2>4. ASSUME NEW e \in cached', NEW s \in e.found
        PROVE  pc[s] \notin Unfiled /\ (auto[s] # NoCourse => auto[s] \in e.scope)
    <3>1. CASE e \in cached  BY <3>1 DEF ResultsAreScoped
    <3>2. CASE e = [scope |-> Scope(t), found |-> found[t]]
      BY <2>3, <3>2 DEF ResultsAreScoped, FoundWithinScope
    <3> QED BY <1>3, <3>1, <3>2 DEF StoreSearch
  <2> QED BY <2>1, <2>2, <2>4 DEF ResultsAreScoped, FoundWithinScope
<1>4. ASSUME NEW t \in Turns, CheckSummary(t) \/ WriteSummary(t) \/ SaveSummary(t)
      PROVE  ResultsAreScoped' /\ FoundWithinScope'
  BY <1>1, <1>4 DEF CheckSummary, WriteSummary, SaveSummary, rows, turn, cache
<1>5. ASSUME NEW c \in Courses, DeleteCourse(c) PROVE ResultsAreScoped' /\ FoundWithinScope'
  BY <1>1, <1>5 DEF DeleteCourse, Unset, turn, cache
<1>6. CASE DeleteUser  BY <1>1, <1>6 DEF DeleteUser, turn, cache
<1>7. CASE ExpireSearch \/ Relink \/ DeleteChat \/ UNCHANGED vars
  BY <1>1, <1>7 DEF ExpireSearch, Relink, DeleteChat, vars, rows, turn, cache
<1> QED BY <1>2, <1>3, <1>4, <1>5, <1>6, <1>7 DEF Next, TaskStep

-----------------------------------------------------------------------------
LEMMA InitInv == Init => ConvInv
<1> SUFFICES ASSUME Init PROVE ConvInv  OBVIOUS
<1> USE CourseAssumption, CountAssumption DEF Init
<1>1. TypeOK
  <2>1. \A i \in 1..(2 * Exchanges) :
          [turn |-> Earlier, role |-> IF i % 2 = 1 THEN "user" ELSE "assistant"] \in Question \cup Answer
    BY DEF Question, Answer
  <2>2. 2 * Exchanges \in Nat  OBVIOUS
  <2>3. messages \in Seq(Question \cup Answer)  BY <2>1, <2>2
  <2> QED BY <2>3 DEF TypeOK, Courses, Stage, Task
<1>2. \A t \in Turns : Asked(t) = {} /\ Answered(t) = {}
  <2>1. \A i \in 1..Len(messages) : messages[i].turn = Earlier  OBVIOUS
  <2> QED BY <2>1 DEF Asked, Answered
<1>3. RowsStayTogether  BY DEF RowsStayTogether
<1>4. SavedAsReached /\ ExchangeInOrder  BY <1>2 DEF SavedAsReached, ExchangeInOrder, Unasked
<1>5. TasksComeLater /\ SeenIsKept
  <2>1. Len(messages) \in Nat  BY <1>1 DEF TypeOK
  <2> QED BY <2>1 DEF TasksComeLater, SeenIsKept
<1>6. SummaryLeavesRecent  BY DEF SummaryLeavesRecent
<1>7. ResultsAreScoped /\ FoundWithinScope  BY DEF ResultsAreScoped, FoundWithinScope, Unfiled, Unasked
<1> QED BY <1>1, <1>3, <1>4, <1>5, <1>6, <1>7 DEF ConvInv

\* The inductive invariant of a chat, for any number of turns, courses and messages,
\* however turns, summary tasks, cache and deletions interleave.
THEOREM ConversationInvariant == Spec => []ConvInv
<1>1. ConvInv /\ [Next]_vars => ConvInv'
  BY StepType, StepRows, StepSaved, StepExchange, StepTasks, StepSeen, StepSummary, StepResults
     DEF ConvInv
<1> QED BY InitInv, <1>1, PTL DEF Spec

\* A chat that is gone has left neither messages nor a summary, and neither a chat nor
\* a course is without its user.
THEOREM RowsGoTogether == Spec => []RowsStayTogether
<1>1. ConvInv => RowsStayTogether  BY DEF ConvInv
<1> QED BY <1>1, ConversationInvariant, PTL

\* Each question and each answer is in the chat once, the answer after its question.
THEOREM ExchangesKeepOrder == Spec => []ExchangeInOrder
<1>1. ConvInv => ExchangeInOrder  BY DEF ConvInv
<1> QED BY <1>1, ConversationInvariant, PTL

\* A turn that keeps its charge has left its answer in the chat.
THEOREM ChargesAreAnswered == Spec => []KeptChargeHasAnswer
<1>1. ConvInv => KeptChargeHasAnswer  BY DEF ConvInv, SavedAsReached, KeptChargeHasAnswer
<1> QED BY <1>1, ConversationInvariant, PTL

\* A summary never covers the messages that are sent verbatim.
THEOREM SummariesLeaveRecent == Spec => []SummaryLeavesRecent
<1>1. ConvInv => SummaryLeavesRecent  BY DEF ConvInv
<1> QED BY <1>1, ConversationInvariant, PTL

\* No turn is answered from files of a course it does not work with.
THEOREM ResultsStayInScope == Spec => []FoundWithinScope
<1>1. ConvInv => FoundWithinScope  BY DEF ConvInv
<1> QED BY <1>1, ConversationInvariant, PTL

\* A turn that searches finds its own files.
THEOREM SearchesFindAttachments == Spec => SearchFindsAttachment
<1>1. ConvInv /\ [Next]_vars =>
        [\A t \in Turns : Search(t) /\ auto[t] # NoCourse /\ doc[t] # NoCourse => t \in found'[t]]_vars
  <2> SUFFICES ASSUME ConvInv, NEW t \in Turns, Search(t), auto[t] # NoCourse, doc[t] # NoCourse
               PROVE  t \in found'[t]
    OBVIOUS
  <2>1. doc[t] = auto[t]  BY DEF ConvInv, ResultsAreScoped
  <2>2. doc[t] \in Scope(t)  BY <2>1 DEF Scope
  <2> QED BY <2>2 DEF Search, ConvInv, TypeOK
<1> QED BY <1>1, ConversationInvariant, PTL DEF Spec, SearchFindsAttachment

-----------------------------------------------------------------------------
(* The chat implements one dialogue *)

LEMMA SaidIsSaved ==
  ASSUME NEW t \in Turns
  PROVE  /\ Talk!Said(t, "user") <=> Asked(t) # {}
         /\ Talk!Said(t, "assistant") <=> Answered(t) # {}
  BY DEF Talk!Said, Asked, Answered

LEMMA TalkInit == Init => Talk!Init
<1> SUFFICES ASSUME Init PROVE Talk!Init  OBVIOUS
<1>1. \A i \in 1..Len(messages) : messages[i].turn = Earlier
  BY CountAssumption DEF Init
<1>2. {t \in Turns : pc[t] = "ok"} = {}  BY DEF Init
<1> QED BY <1>1, <1>2, CourseAssumption DEF Init, Talk!Init

\* Each step of a turn, a task or a user is one step of the dialogue or none.
LEMMA TalkStep ==
  ASSUME ConvInv, [Next]_vars
  PROVE  [Talk!Next]_(Talk!vars)
<1> DEFINE returned == {t \in Turns : pc[t] = "ok"}
<1> USE DEF ConvInv, Unasked
<1>1. ASSUME UNCHANGED <<chat, messages, summary>>,
             \A t \in Turns : pc'[t] = "ok" <=> pc[t] = "ok"
      PROVE  UNCHANGED Talk!vars
  BY <1>1 DEF Talk!vars
<1>2. ASSUME NEW t \in Turns, TurnStep(t) PROVE [Talk!Next]_(Talk!vars)
  <2>0. pc \in [Turns -> Stage]  BY DEF TypeOK
  <2>1. CASE SaveQuestion(t)
    <3>1. /\ chat /\ pc[t] = "question"
          /\ messages' = Append(messages, [turn |-> t, role |-> "user"])
          /\ UNCHANGED <<chat, summary>>
          /\ pc' = [pc EXCEPT ![t] = "parts"] \/ pc' = [pc EXCEPT ![t] = "raised"]
      BY <2>1 DEF SaveQuestion, Goto, notes
    <3>2. t \notin returned /\ returned' = returned  BY <2>0, <3>1
    <3>3. ~Talk!Said(t, "user") /\ ~Talk!Said(t, "assistant")
      BY <3>1, SaidIsSaved DEF SavedAsReached
    <3>4. Talk!Ask(t)  BY <3>1, <3>2, <3>3 DEF Talk!Ask, Talk!Say
    <3> QED BY <3>4 DEF Talk!Next
  <2>2. CASE SaveAnswer(t)
    <3>1. /\ chat /\ pc[t] = "answer"
          /\ messages' = Append(messages, [turn |-> t, role |-> "assistant"])
          /\ UNCHANGED <<chat, summary>>
          /\ pc' = [pc EXCEPT ![t] = "title"]
      BY <2>2 DEF SaveAnswer, Goto, notes
    <3>2. t \notin returned /\ returned' = returned  BY <2>0, <3>1
    <3>3. Talk!Said(t, "user") /\ ~Talk!Said(t, "assistant")
      BY <3>1, SaidIsSaved DEF SavedAsReached
    <3>4. Talk!Reply(t)  BY <3>1, <3>2, <3>3 DEF Talk!Reply, Talk!Say
    <3> QED BY <3>4 DEF Talk!Next
  <2>3. CASE UpdateTitle(t)
    <3>1. /\ pc[t] = "title" /\ pc' = [pc EXCEPT ![t] = "ok"]
          /\ UNCHANGED <<chat, messages, summary>>
      BY <2>3 DEF UpdateTitle, Goto, rows, notes
    <3>2. returned' = returned \cup {t}  BY <2>0, <3>1
    <3>3. chat => Talk!Said(t, "user") /\ Talk!Said(t, "assistant")
      BY <3>1, SaidIsSaved DEF SavedAsReached
    <3>4. Talk!Return(t)  BY <3>1, <3>2, <3>3 DEF Talk!Return
    <3> QED BY <3>4 DEF Talk!Next
  <2>4. CASE ~SaveQuestion(t) /\ ~SaveAnswer(t) /\ ~UpdateTitle(t)
    <3>1. UNCHANGED <<chat, messages, summary>>
      BY <1>2, <2>4 DEF TurnStep, ReadChat, ReadHistory, BuildParts, ReadCourse, CreateCourse,
         LinkCourse, IngestFiles, EnsureFails, Search, ReuseSearch, AskModel, Raise, rows, notes
    <3>2. PICK stage \in Stage \ {"ok"} : pc[t] # "ok" /\ pc' = [pc EXCEPT ![t] = stage]
      BY <1>2, <2>4 DEF TurnStep, ReadChat, ReadHistory, BuildParts, ReadCourse, CreateCourse,
         LinkCourse, IngestFiles, EnsureFails, Search, ReuseSearch, AskModel, Raise, Goto, Stage
    <3> QED BY <1>1, <2>0, <3>1, <3>2
  <2> QED BY <2>1, <2>2, <2>3, <2>4
<1>3. ASSUME NEW t \in Turns, SaveSummary(t) PROVE [Talk!Next]_(Talk!vars)
  <2>1. UNCHANGED <<chat, messages, pc>> /\ task[t] = "save"
    BY <1>3 DEF SaveSummary, rows, turn
  <2>2. CASE chat
    <3>1. summary' = seen[t] - Kept  BY <1>3, <2>2 DEF SaveSummary, Covered
    <3>2. seen[t] \in Nat /\ Len(messages) \in Nat /\ seen[t] > Kept /\ seen[t] <= Len(messages)
      BY <2>1, <2>2 DEF TypeOK, SeenIsKept
    <3>3. summary' \in 1..Len(messages) /\ summary' + Kept <= Len(messages)
      BY <3>1, <3>2, CountAssumption
    <3>4. Talk!Summarise(summary')  BY <2>1, <2>2, <3>3 DEF Talk!Summarise
    <3> QED BY <3>3, <3>4 DEF Talk!Next
  <2>3. CASE ~chat
    <3>1. summary' = summary  BY <1>3, <2>3 DEF SaveSummary
    <3> QED BY <1>1, <2>1, <3>1
  <2> QED BY <2>2, <2>3
<1>4. ASSUME NEW t \in Turns, StoreSearch(t) \/ CheckSummary(t) \/ WriteSummary(t)
      PROVE  [Talk!Next]_(Talk!vars)
  BY <1>1, <1>4 DEF StoreSearch, CheckSummary, WriteSummary, rows, turn, notes
<1>5. CASE DeleteChat \/ DeleteUser
  <2>1. chat' = FALSE /\ messages' = << >> /\ summary' = 0 /\ pc' = pc
    BY <1>5 DEF DeleteChat, DeleteUser, turn
  <2>2. CASE chat
    <3>1. Talk!Delete  BY <2>1, <2>2 DEF Talk!Delete
    <3> QED BY <3>1 DEF Talk!Next
  <2>3. CASE ~chat
    <3>1. UNCHANGED <<chat, messages, summary>>
      BY <2>1, <2>3 DEF RowsStayTogether, TypeOK
    <3> QED BY <1>1, <2>1, <3>1
  <2> QED BY <2>2, <2>3
<1>6. ASSUME NEW c \in Courses, DeleteCourse(c) PROVE [Talk!Next]_(Talk!vars)
  BY <1>1, <1>6 DEF DeleteCourse, turn, notes
<1>7. CASE ExpireSearch \/ Relink \/ UNCHANGED vars
  BY <1>1, <1>7 DEF ExpireSearch, Relink, vars, rows, turn, notes
<1> QED BY <1>2, <1>3, <1>4, <1>5, <1>6, <1>7 DEF Next, TaskStep

\* Turns that are made of separate statements, and summaries written late, look like
\* one dialogue, for any number of turns and messages.
THEOREM ConversationImplementsDialogue == Spec => ImplementsDialogue
<1>1. ConvInv /\ [Next]_vars => [Talk!Next]_(Talk!vars)
  BY TalkStep
<1> QED BY TalkInit, <1>1, ConversationInvariant, PTL DEF Spec, ImplementsDialogue, Talk!Spec
=============================================================================
