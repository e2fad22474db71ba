------------------------------ MODULE Mindmap ------------------------------
(***************************************************************************)
(* Chats and the mindmap of a chat, which a model regenerates in the       *)
(* background after every answer and on demand.                            *)
(*                                                                         *)
(* A regeneration reads the last messages, then the map, asks the model to *)
(* extend the map, and replaces it.  Nothing keeps two regenerations of a  *)
(* chat apart, nor the chat from being deleted meanwhile.                  *)
(***************************************************************************)
EXTENDS Integers

CONSTANTS
  Chats,         \* ids of chats
  Regenerations, \* runs of regenerate_background
  Window,        \* how many of the last messages the model gets to see
  MaxMessages,   \* bound on the messages of a chat
  NoChat

ASSUME MindmapAssumption ==
  /\ Window \in Nat \ {0, 1}
  /\ MaxMessages \in Nat /\ Window <= MaxMessages
  /\ NoChat \notin Chats

VARIABLES
  chat,   \* whether a chat's row exists; ids are never used again
  size,   \* how many messages a chat has
  map,    \* the messages a chat's mindmap covers, empty without a row
  run,    \* where a regeneration stands
  chatOf, \* the chat it works on
  seen,   \* the messages it has read
  base    \* the map it has read

maps == <<chat, size, map, run, chatOf, seen, base>>

Messages == 1 .. MaxMessages
Phase    == {"idle", "messages", "existing", "model", "save", "done"}

MindmapTypeOK ==
  /\ chat \in [Chats -> {"absent", "open", "deleted"}]
  /\ size \in [Chats -> 0 .. MaxMessages]
  /\ map \in [Chats -> SUBSET Messages]
  /\ run \in [Regenerations -> Phase]
  /\ chatOf \in [Regenerations -> Chats \cup {NoChat}]
  /\ seen \in [Regenerations -> SUBSET Messages]
  /\ base \in [Regenerations -> SUBSET Messages]

\* Some chats have been used before.
MindmapInit ==
  /\ chat \in [Chats -> {"absent", "open"}]
  /\ size = [c \in Chats |-> IF chat[c] = "open" THEN Window ELSE 0]
  /\ map = [c \in Chats |-> 1 .. size[c]]
  /\ run = [g \in Regenerations |-> "idle"]
  /\ chatOf = [g \in Regenerations |-> NoChat]
  /\ seen = [g \in Regenerations |-> {}]
  /\ base = [g \in Regenerations |-> {}]

OpenChats == {c \in Chats : chat[c] = "open"}

-----------------------------------------------------------------------------
(* Chats *)

CreateChat(c) ==
  /\ chat[c] = "absent"
  /\ chat' = [chat EXCEPT ![c] = "open"]
  /\ UNCHANGED <<size, map, run, chatOf, seen, base>>

\* A row of messages; how a turn comes to it is another module's matter.
AddMessage(c) ==
  /\ c \in OpenChats
  /\ size[c] < MaxMessages
  /\ size' = [size EXCEPT ![c] = @ + 1]
  /\ UNCHANGED <<chat, map, run, chatOf, seen, base>>

\* DELETE FROM chats, and what cascades from it.
RemoveChats(gone) ==
  /\ chat' = [c \in Chats |-> IF c \in gone /\ chat[c] = "open" THEN "deleted" ELSE chat[c]]
  /\ size' = [c \in Chats |-> IF c \in gone THEN 0 ELSE size[c]]
  /\ map' = [c \in Chats |-> IF c \in gone THEN {} ELSE map[c]]
  /\ UNCHANGED <<run, chatOf, seen, base>>

-----------------------------------------------------------------------------
(* Regenerating *)

\* After an answer or on demand, when the chat has been found.
QueueRegeneration(g, c) ==
  /\ run[g] = "idle"
  /\ c \in OpenChats
  /\ run' = [run EXCEPT ![g] = "messages"]
  /\ chatOf' = [chatOf EXCEPT ![g] = c]
  /\ UNCHANGED <<chat, size, map, seen, base>>

ReadMessages(g) ==
  LET n == size[chatOf[g]] IN
  /\ run[g] = "messages"
  /\ run' = [run EXCEPT ![g] = IF n < 2 THEN "done" ELSE "existing"]
  /\ seen' = [seen EXCEPT ![g] = {i \in Messages : n - Window < i /\ i <= n}]
  /\ UNCHANGED <<chat, size, map, chatOf, base>>

ReadMap(g) ==
  /\ run[g] = "existing"
  /\ run' = [run EXCEPT ![g] = "model"]
  /\ base' = [base EXCEPT ![g] = map[chatOf[g]]]
  /\ UNCHANGED <<chat, size, map, chatOf, seen>>

\* The model answers, with more than nothing, or the run ends without a map.
AskForMap(g) ==
  /\ run[g] = "model"
  /\ \E phase \in {"save", "done"} : run' = [run EXCEPT ![g] = phase]
  /\ UNCHANGED <<chat, size, map, chatOf, seen, base>>

\* What the model may make of the map and the messages it was given: it is told to
\* keep every branch, and nothing checks whether it has.
Drafts(g) == (SUBSET (base[g] \cup seen[g])) \ {{}}

\* MindmapRepository.save; the foreign key fails when the chat has gone.
\* (Plausible bug first: there is no foreign key.)
SaveMapUnchecked(g) ==
  /\ run[g] = "save"
  /\ \E draft \in Drafts(g) : map' = [map EXCEPT ![chatOf[g]] = draft]
  /\ run' = [run EXCEPT ![g] = "done"]
  /\ UNCHANGED <<chat, size, chatOf, seen, base>>

SaveMap(g) ==
  /\ run[g] = "save"
  /\ IF chatOf[g] \in OpenChats
       THEN \E draft \in Drafts(g) : map' = [map EXCEPT ![chatOf[g]] = draft]
       ELSE UNCHANGED map
  /\ run' = [run EXCEPT ![g] = "done"]
  /\ UNCHANGED <<chat, size, chatOf, seen, base>>

RegenerationStep(g) == ReadMessages(g) \/ ReadMap(g) \/ AskForMap(g) \/ SaveMap(g)

-----------------------------------------------------------------------------
(* Properties *)

\* A map covers messages of its chat only, whatever was read and saved when; of
\* a deleted chat none comes back, even when the model answers after the
\* deletion (mindmap_service.py:71-81).
MapCoversItsChat == \A c \in Chats : map[c] \subseteq 1 .. size[c]

-----------------------------------------------------------------------------
(* The inductive invariant *)

\* What a regeneration has read stays in its chat as long as that is open.
RunOf(g) ==
  /\ run[g] # "idle" => chatOf[g] \in Chats /\ chat[chatOf[g]] # "absent"
  /\ run[g] \in {"existing", "model", "save"} /\ chatOf[g] \in OpenChats =>
       seen[g] \subseteq 1 .. size[chatOf[g]]
  /\ run[g] \in {"model", "save"} /\ chatOf[g] \in OpenChats =>
       base[g] \subseteq 1 .. size[chatOf[g]]

MindmapInv ==
  /\ MindmapTypeOK
  /\ MapCoversItsChat
  /\ \A g \in Regenerations : RunOf(g)

=============================================================================
