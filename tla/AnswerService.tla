--------------------------- MODULE AnswerService ----------------------------
(***************************************************************************)
(* What answering a question promises, without levels, keys and tasks.     *)
(*                                                                         *)
(* A request retrieves a context and is answered by the model, or with     *)
(* what the model has answered to a request of the same question and the   *)
(* same context.  It may also stay without an answer.  Module Answers      *)
(* implements this with three levels of caches that are written late,      *)
(* evict, forget and die with their workers.                               *)
(***************************************************************************)
CONSTANTS
  Requests,   \* a request also names the answer that is generated for it
  Questions,  \* texts of queries
  SmallTalk,  \* questions that need no material
  Contexts,   \* sets of chunks that may be retrieved
  Nothing     \* no answer

VARIABLES
  question,  \* what a request asks
  context,   \* the chunks it has retrieved
  answer     \* what it is answered, by the request it was generated for

vars == <<question, context, answer>>

Init ==
  /\ question \in [Requests -> Questions]
  /\ context = [r \in Requests |-> {}]
  /\ answer = [r \in Requests |-> Nothing]

\* The model has answered s, and q with the context c is what s asked.
Answered(s, q, c) == answer[s] = s /\ question[s] = q /\ context[s] = c

Retrieve(r, c) ==
  /\ answer[r] = Nothing
  /\ question[r] \notin SmallTalk
  /\ context' = [context EXCEPT ![r] = c]
  /\ UNCHANGED <<question, answer>>

Generate(r) ==
  /\ answer[r] = Nothing
  /\ answer' = [answer EXCEPT ![r] = r]
  /\ UNCHANGED <<question, context>>

\* Retrieves c, and finds the answer to s.
Reuse(r, c, s) ==
  /\ answer[r] = Nothing
  /\ question[r] \notin SmallTalk
  /\ Answered(s, question[r], c)
  /\ context' = [context EXCEPT ![r] = c]
  /\ answer' = [answer EXCEPT ![r] = s]
  /\ UNCHANGED question

Next ==
  \E r \in Requests :
    \/ Generate(r)
    \/ \E c \in Contexts : Retrieve(r, c) \/ \E s \in Requests : Reuse(r, c, s)

Spec == Init /\ [][Next]_vars
=============================================================================
