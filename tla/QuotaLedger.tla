---------------------------- MODULE QuotaLedger ----------------------------
(***************************************************************************)
(* What the quota subsystem promises, without counters, rows or events.    *)
(*                                                                         *)
(* A charge is one admitted request of one user on one day.  It is held    *)
(* while the request runs, then either kept (it succeeded) or returned (it *)
(* failed).  A user's remaining room is a function of the charges held and *)
(* kept, so nothing can drift; module Quota implements this with three     *)
(* resettable counters per user and shows that they do not drift either.   *)
(***************************************************************************)
EXTENDS Integers, FiniteSets

CONSTANTS
  Users,     \* ids of the rows of table users
  Requests,  \* the chargeable requests of a behaviour
  Plans,     \* rows of table subscriptions
  Periods,   \* the three accounting periods: day, week, month
  Days,      \* calendar days, integers
  StartOf,   \* StartOf[p][d]: first day of the period p that contains d
  Limit,     \* Limit[q][p]: units plan q allows in one period p
  Units      \* units one request costs

VARIABLES today, member, plan, held, kept

vars == <<today, member, plan, held, kept>>

Charge == [request : Requests, user : Users, day : Days]

\* The charges of u that count in the period p containing day d.
Counted(u, p, d) ==
  {c \in held \cup kept : c.user = u /\ StartOf[p][c.day] = StartOf[p][d]}

Room(u, d) ==
  \A p \in Periods : Units * (Cardinality(Counted(u, p, d)) + 1) <= Limit[plan[u]][p]

Init ==
  /\ today \in Days
  /\ member = Users
  /\ plan \in [Users -> Plans]
  /\ held = {}
  /\ kept = {}

Admit(r, u) ==
  /\ u \in member
  /\ \A c \in held \cup kept : c.request # r
  /\ Room(u, today)
  /\ held' = held \cup {[request |-> r, user |-> u, day |-> today]}
  /\ UNCHANGED <<today, member, plan, kept>>

Keep(c) ==
  /\ c \in held
  /\ held' = held \ {c}
  /\ kept' = kept \cup {c}
  /\ UNCHANGED <<today, member, plan>>

Return(c) ==
  /\ c \in held
  /\ held' = held \ {c}
  /\ UNCHANGED <<today, member, plan, kept>>

ChangePlan(u, q) ==
  /\ u \in member
  /\ plan' = [plan EXCEPT ![u] = q]
  /\ UNCHANGED <<today, member, held, kept>>

Leave(u) ==
  /\ u \in member
  /\ member' = member \ {u}
  /\ held' = {c \in held : c.user # u}
  /\ kept' = {c \in kept : c.user # u}
  /\ UNCHANGED <<today, plan>>

NextDay ==
  /\ today + 1 \in Days
  /\ today' = today + 1
  /\ UNCHANGED <<member, plan, held, kept>>

Next ==
  \/ \E r \in Requests, u \in Users : Admit(r, u)
  \/ \E c \in Charge : Keep(c) \/ Return(c)
  \/ \E u \in Users, q \in Plans : ChangePlan(u, q)
  \/ \E u \in Users : Leave(u)
  \/ NextDay

Spec == Init /\ [][Next]_vars

=============================================================================
