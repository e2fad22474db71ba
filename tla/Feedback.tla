------------------------------ MODULE Feedback ------------------------------
(***************************************************************************)
(* Traces of answered questions and the signals users send about them.     *)
(*                                                                         *)
(* A trace names its user without a foreign key: it is written after the   *)
(* answer, whatever has become of the user, and stays.  A signal names a   *)
(* trace whose owner is looked up first, and goes with its own user.       *)
(***************************************************************************)
EXTENDS Integers

CONSTANTS
  Traces,   \* answered questions; the row of rag_pipeline_traces each may get
  AskerOf,  \* AskerOf[t]: rag_pipeline_traces.user_id
  Signals,  \* POST /api/feedback; the row of rag_feedback it may insert
  SenderOf, \* SenderOf[s]: rag_feedback.user_id
  NoTrace   \* NULL

ASSUME FeedbackAssumption == NoTrace \notin Traces

VARIABLES
  trace,  \* where a trace stands
  signal, \* where a signal stands
  about   \* rag_feedback.trace_id, of the request and then of the row

opinions == <<trace, signal, about>>

FeedbackTypeOK ==
  /\ trace \in [Traces -> {"none", "answered", "recorded"}]
  /\ signal \in [Signals -> {"start", "verify", "insert", "recorded", "refused", "deleted"}]
  /\ about \in [Signals -> Traces \cup {NoTrace}]

FeedbackInit ==
  /\ trace = [t \in Traces |-> "none"]
  /\ signal = [s \in Signals |-> "start"]
  /\ about = [s \in Signals |-> NoTrace]

-----------------------------------------------------------------------------
(* Traces *)

AnswerQuestion(t) ==
  /\ trace[t] = "none"
  /\ trace' = [trace EXCEPT ![t] = "answered"]
  /\ UNCHANGED <<signal, about>>

\* A write that fails is swallowed.
RecordTrace(t) ==
  /\ trace[t] = "answered"
  /\ trace' = [trace EXCEPT ![t] = "recorded"]
  /\ UNCHANGED <<signal, about>>

-----------------------------------------------------------------------------
(* Signals *)

\* A signal of a known kind; trace_id is whatever the client says.
SubmitSignal(s, t) ==
  /\ signal[s] = "start"
  /\ signal' = [signal EXCEPT ![s] = IF t = NoTrace THEN "insert" ELSE "verify"]
  /\ about' = [about EXCEPT ![s] = t]
  /\ UNCHANGED trace

OwnTrace(s) == trace[about[s]] = "recorded" /\ AskerOf[about[s]] = SenderOf[s]

VerifyTrace(s) ==
  /\ signal[s] = "verify"
  /\ signal' = [signal EXCEPT ![s] = IF OwnTrace(s) THEN "insert" ELSE "refused"]
  /\ UNCHANGED <<trace, about>>

\* INSERT INTO rag_feedback; it fails when the sender has gone.
InsertSignal(s, senderExists) ==
  /\ signal[s] = "insert"
  /\ signal' = [signal EXCEPT ![s] = IF senderExists THEN "recorded" ELSE "refused"]
  /\ UNCHANGED <<trace, about>>

RemoveSignals(gone) ==
  /\ signal' = [s \in Signals |-> IF s \in gone /\ signal[s] = "recorded" THEN "deleted" ELSE signal[s]]
  /\ UNCHANGED <<trace, about>>

Recorded == {s \in Signals : signal[s] = "recorded"}

-----------------------------------------------------------------------------
(* The inductive invariant *)

\* A signal about a trace is about a trace of its sender.
FeedbackInv ==
  /\ FeedbackTypeOK
  /\ \A s \in Signals :
       signal[s] \in {"insert", "recorded", "deleted"} => about[s] = NoTrace \/ OwnTrace(s)

=============================================================================
