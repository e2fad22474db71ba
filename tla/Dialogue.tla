------------------------------ MODULE Dialogue -------------------------------
(***************************************************************************)
(* What a chat promises to those who talk in it, without stages, courses,  *)
(* caches and tasks.                                                       *)
(*                                                                         *)
(* A turn says its question once and may be answered once, after it; a     *)
(* turn that returns has been answered, unless the chat was deleted.  The  *)
(* summary covers a beginning of what has been said and never the recent   *)
(* messages.  Everything goes with the chat.  Module Conversation          *)
(* implements this with statements that any other turn may come between.   *)
(***************************************************************************)
EXTENDS Integers, Sequences

CONSTANTS
  Turns,  \* messages sent to the chat
  Kept    \* recent messages, which no summary covers

VARIABLES
  open,      \* has the chat not been deleted?
  log,       \* what has been said
  covered,   \* how many of the first messages the summary stands for
  returned   \* turns whose response has been sent

vars == <<open, log, covered, returned>>

Said(t, role) == \E i \in 1..Len(log) : log[i] = [turn |-> t, role |-> role]

Init ==
  /\ open = TRUE
  /\ \A i \in 1..Len(log) : log[i].turn \notin Turns
  /\ covered = 0
  /\ returned = {}

Say(t, role) ==
  /\ open
  /\ t \notin returned
  /\ ~Said(t, role)
  /\ log' = Append(log, [turn |-> t, role |-> role])
  /\ UNCHANGED <<open, covered, returned>>

Ask(t)   == Say(t, "user") /\ ~Said(t, "assistant")
Reply(t) == Say(t, "assistant") /\ Said(t, "user")

Return(t) ==
  /\ open => Said(t, "user") /\ Said(t, "assistant")
  /\ returned' = returned \cup {t}
  /\ UNCHANGED <<open, log, covered>>

Summarise(n) ==
  /\ open
  /\ n + Kept <= Len(log)
  /\ covered' = n
  /\ UNCHANGED <<open, log, returned>>

Delete ==
  /\ open
  /\ open' = FALSE
  /\ log' = << >>
  /\ covered' = 0
  /\ UNCHANGED returned

Next ==
  \/ \E t \in Turns : Ask(t) \/ Reply(t) \/ Return(t)
  \/ \E n \in 1..Len(log) : Summarise(n)
  \/ Delete

Spec == Init /\ [][Next]_vars
=============================================================================
