------------------------------- MODULE Quota -------------------------------
(***************************************************************************)
(* The subscription quota of POST /api/chats/{id}/messages.                *)
(*                                                                         *)
(* A request is charged up front by one database transaction (reserve),    *)
(* runs, and is then settled: a success is recorded by a metrics event     *)
(* handled in the background, a failure is refunded by a second            *)
(* transaction and, when the handler raised, also recorded by an event.    *)
(* Requests of all users interleave at every await, and with them the      *)
(* administrator's plan changes and deletions, midnight, and faults.       *)
(*                                                                         *)
(* One database transaction is one action, because its row locks serialise *)
(* it -- except for its date: now() and CURRENT_DATE are those of BEGIN,   *)
(* which precedes the wait for the FOR UPDATE lock.  Begin and             *)
(* Reserve/Deny/Unknown are therefore separate actions.                    *)
(***************************************************************************)
EXTENDS Integers, FiniteSets

CONSTANTS
  Users,         \* ids of the rows of table users
  Requests,      \* chargeable HTTP requests; each runs once
  Plans,         \* rows of table subscriptions
  Periods,       \* accounting periods: day, week, month
  LastDay,       \* bound: the calendar is 0..LastDay
  StartOf,       \* StartOf[p][d]: first day of the period p containing d
  Limit,         \* Limit[q][p]: units plan q allows in one period p
  Units,         \* DEFAULT_INTERNAL_TOKENS_PER_REQUEST
  MidnightRace,  \* may midnight pass while a reservation transaction is open?
  Faults         \* may processes die, refunds fail and events be lost?

Days == 0..LastDay

ASSUME CalendarAssumption ==
  /\ LastDay \in Nat
  /\ StartOf \in [Periods -> [Days -> Days]]
  /\ \A p \in Periods : \A d, e \in Days : d <= e => StartOf[p][d] <= StartOf[p][e]

ASSUME PlanAssumption ==
  /\ \A q \in Plans, p \in Periods : Limit[q][p] \in Nat
  /\ Units \in Nat \ {0}

ASSUME RequestAssumption == IsFiniteSet(Requests)

ASSUME SwitchAssumption == MidnightRace \in BOOLEAN /\ Faults \in BOOLEAN

VARIABLES
  today,     \* the database server's date
  member,    \* users whose row exists
  plan,      \* users.subscription_id
  start,     \* user_usage.day_start, week_start, month_start
  used,      \* user_usage.daily_used, weekly_used, monthly_used; all 0 for no row
  pc,        \* where the middleware stands with a request
  who,       \* the uid in the request's token
  txDate,    \* CURRENT_DATE of the reservation transaction
  txPlan,    \* users.subscription_id when that transaction's SELECT began
  status,    \* request_logs.status; "none" when there is no row
  period,    \* request_logs.period_day_start, period_week_start, period_month_start
  event,     \* the request's published, not yet handled metrics event
  activity   \* sum of user_activity_daily.requests_count of a user

accounts == <<start, used>>
txn      == <<who, txDate, txPlan>>
admin    == <<today, member, plan>>
vars     == <<admin, accounts, pc, txn, status, period, event, activity>>

Stage  == {"new", "begun", "denied", "running", "ok", "rejected", "raised",
           "refunded", "done", "lost"}
Status == {"none", "blocked", "pending", "failed", "success", "error"}
Event  == {"none", "success", "error"}

TypeOK ==
  /\ today \in Days
  /\ member \subseteq Users
  /\ plan \in [Users -> Plans]
  /\ start \in [Users -> [Periods -> Days]]
  /\ used \in [Users -> [Periods -> Nat]]
  /\ pc \in [Requests -> Stage]
  /\ who \in [Requests -> Users]
  /\ txDate \in [Requests -> Days]
  /\ txPlan \in [Requests -> Plans]
  /\ status \in [Requests -> Status]
  /\ period \in [Requests -> [Periods -> Days]]
  /\ event \in [Requests -> Event]
  /\ activity \in [Users -> Nat]

-----------------------------------------------------------------------------
(* The counters *)

PeriodsOf(d) == [p \in Periods |-> StartOf[p][d]]

\* A counter whose period is over counts as zero.
CurrentUse(u, p, d) == IF start[u][p] # StartOf[p][d] THEN 0 ELSE used[u][p]

\* Plausible bugs: compare what was used, not what would be; forbid the last unit.
FitsBeforeCharge(u, d) == \A p \in Periods : CurrentUse(u, p, d) < Limit[plan[u]][p]
FitsBelow(u, d) == \A p \in Periods : CurrentUse(u, p, d) + Units < Limit[plan[u]][p]

Fits(u, d) == \A p \in Periods : CurrentUse(u, p, d) + Units <= Limit[plan[u]][p]

\* Plausible bug: a new period inherits the old counter.
ChargedWithoutReset(u, p, d) == used[u][p] + Units

Charged(u, p, d) ==
  IF start[u][p] # StartOf[p][d] THEN Units
  ELSE IF used[u][p] + Units <= Limit[plan[u]][p] THEN used[u][p] + Units
  ELSE used[u][p]

\* Plausible bug: a refund of an old period.
RefundedBlindly(u, p, s) == IF used[u][p] >= Units THEN used[u][p] - Units ELSE 0

Refunded(u, p, s) ==
  IF start[u][p] # s THEN used[u][p]
  ELSE IF used[u][p] >= Units THEN used[u][p] - Units ELSE 0

-----------------------------------------------------------------------------
Init ==
  /\ today = 0
  /\ member = Users
  /\ plan \in [Users -> Plans]
  /\ start = [u \in Users |-> PeriodsOf(0)]
  /\ used = [u \in Users |-> [p \in Periods |-> 0]]
  /\ pc = [r \in Requests |-> "new"]
  /\ who \in [Requests -> Users]
  /\ txDate = [r \in Requests |-> 0]
  /\ txPlan = [r \in Requests |-> plan[who[r]]]
  /\ status = [r \in Requests |-> "none"]
  /\ period = [r \in Requests |-> PeriodsOf(0)]
  /\ event = [r \in Requests |-> "none"]
  /\ activity = [u \in Users |-> 0]

\* The token names who[r], whose row may be gone by now; BEGIN and the SELECT go out.
Begin(r) ==
  /\ pc[r] = "new"
  /\ pc' = [pc EXCEPT ![r] = "begun"]
  /\ txDate' = [txDate EXCEPT ![r] = today]
  /\ txPlan' = [txPlan EXCEPT ![r] = plan[who[r]]]
  /\ UNCHANGED <<admin, accounts, who, status, period, event, activity>>

Reserve(r) ==
  LET u == who[r]
      d == txDate[r]
  IN /\ pc[r] = "begun"
     /\ u \in member
     /\ Fits(u, d)
     /\ start' = [start EXCEPT ![u] = PeriodsOf(d)]
     /\ used' = [used EXCEPT ![u] = [p \in Periods |-> Charged(u, p, d)]]
     /\ status' = [status EXCEPT ![r] = "pending"]
     /\ period' = [period EXCEPT ![r] = start'[u]]
     /\ pc' = [pc EXCEPT ![r] = "running"]
     /\ UNCHANGED <<admin, txn, event, activity>>

Deny(r) ==
  /\ pc[r] = "begun"
  /\ who[r] \in member
  /\ ~Fits(who[r], txDate[r])
  /\ status' = [status EXCEPT ![r] = "blocked"]
  /\ pc' = [pc EXCEPT ![r] = "denied"]
  /\ UNCHANGED <<admin, accounts, txn, period, event, activity>>

\* SELECT ... FOR UPDATE returns no row: the user is gone, or the plan changed
\* while the statement waited, and the join of the new users row with the old
\* subscriptions row is empty.
Unknown(r) ==
  /\ pc[r] = "begun"
  /\ who[r] \notin member \/ txPlan[r] # plan[who[r]]
  /\ pc' = [pc EXCEPT ![r] = "denied"]
  /\ UNCHANGED <<admin, accounts, txn, status, period, event, activity>>

\* call_next: a response below 400, one of 400 and above, or an exception.
Answer(r) ==
  /\ pc[r] = "running"
  /\ \E outcome \in {"ok", "rejected", "raised"} : pc' = [pc EXCEPT ![r] = outcome]
  /\ UNCHANGED <<admin, accounts, txn, status, period, event, activity>>

AfterRefund(r) == IF pc[r] = "raised" THEN "refunded" ELSE "done"

Refund(r) ==
  LET u == who[r] IN
  /\ pc[r] \in {"rejected", "raised"}
  /\ status[r] # "none"
  /\ used' = [used EXCEPT ![u] = [p \in Periods |-> Refunded(u, p, period[r][p])]]
  /\ status' = [status EXCEPT ![r] = "failed"]
  /\ pc' = [pc EXCEPT ![r] = AfterRefund(r)]
  /\ UNCHANGED <<admin, start, txn, period, event, activity>>

\* The log row went with its user: the early return.
RefundNothing(r) ==
  /\ pc[r] \in {"rejected", "raised"}
  /\ status[r] = "none"
  /\ pc' = [pc EXCEPT ![r] = AfterRefund(r)]
  /\ UNCHANGED <<admin, accounts, txn, status, period, event, activity>>

\* The refund transaction raises: it rolls back, and the middleware with it.
RefundFails(r) ==
  /\ Faults
  /\ pc[r] \in {"rejected", "raised"}
  /\ pc' = [pc EXCEPT ![r] = "done"]
  /\ UNCHANGED <<admin, accounts, txn, status, period, event, activity>>

\* Plausible bugs: a refunded request is logged as a success; a successful one
\* is not logged.
PublishSuccess(r) ==
  /\ pc[r] \in {"ok", "refunded"}
  /\ event' = [event EXCEPT ![r] = "success"]
  /\ pc' = [pc EXCEPT ![r] = "done"]
  /\ UNCHANGED <<admin, accounts, txn, status, period, activity>>

PublishErrorsOnly(r) ==
  /\ pc[r] \in {"ok", "refunded"}
  /\ event' = [event EXCEPT ![r] = IF pc[r] = "ok" THEN "none" ELSE "error"]
  /\ pc' = [pc EXCEPT ![r] = "done"]
  /\ UNCHANGED <<admin, accounts, txn, status, period, activity>>

Publish(r) ==
  /\ pc[r] \in {"ok", "refunded"}
  /\ event' = [event EXCEPT ![r] = IF pc[r] = "ok" THEN "success" ELSE "error"]
  /\ pc' = [pc EXCEPT ![r] = "done"]
  /\ UNCHANGED <<admin, accounts, txn, status, period, activity>>

\* Plausible bug: the event is delivered again after its transaction.
HandleEventAgain(r) ==
  /\ event[r] # "none"
  /\ who[r] \in member
  /\ status' = [status EXCEPT ![r] = event[r]]
  /\ activity' = [activity EXCEPT ![who[r]] = @ + 1]
  /\ UNCHANGED <<admin, accounts, pc, txn, period, event>>

\* One transaction updates the log row and the daily activity.
HandleEvent(r) ==
  /\ event[r] # "none"
  /\ who[r] \in member
  /\ status' = [status EXCEPT ![r] = event[r]]
  /\ activity' = [activity EXCEPT ![who[r]] = @ + 1]
  /\ event' = [event EXCEPT ![r] = "none"]
  /\ UNCHANGED <<admin, accounts, pc, txn, period>>

\* The activity row references a user who is gone (the handler's transaction
\* rolls back and the bus swallows the exception), or the process dies.
LoseEvent(r) ==
  /\ event[r] # "none"
  /\ who[r] \notin member \/ Faults
  /\ event' = [event EXCEPT ![r] = "none"]
  /\ UNCHANGED <<admin, accounts, pc, txn, status, period, activity>>

\* The worker process dies, or the request's task is cancelled: the middleware
\* catches Exception, which CancelledError is not.
Abandon(r) ==
  /\ Faults
  /\ pc[r] \in {"begun", "running", "ok", "rejected", "raised", "refunded"}
  /\ pc' = [pc EXCEPT ![r] = "lost"]
  /\ UNCHANGED <<admin, accounts, txn, status, period, event, activity>>

SetPlan(u, q) ==
  /\ u \in member
  /\ plan' = [plan EXCEPT ![u] = q]
  /\ UNCHANGED <<today, member, accounts, pc, txn, status, period, event, activity>>

\* The user's usage, logs and activity are deleted with the user (ON DELETE CASCADE).
DeleteUser(u) ==
  /\ u \in member
  /\ member' = member \ {u}
  /\ used' = [used EXCEPT ![u] = [p \in Periods |-> 0]]
  /\ status' = [r \in Requests |-> IF who[r] = u THEN "none" ELSE status[r]]
  /\ activity' = [activity EXCEPT ![u] = 0]
  /\ UNCHANGED <<today, plan, start, pc, txn, period, event>>

Midnight ==
  /\ today < LastDay
  /\ MidnightRace \/ \A r \in Requests : pc[r] # "begun"
  /\ today' = today + 1
  /\ UNCHANGED <<member, plan, accounts, pc, txn, status, period, event, activity>>

-----------------------------------------------------------------------------
Decide(r) == Reserve(r) \/ Deny(r) \/ Unknown(r)
Settle(r) == Refund(r) \/ RefundNothing(r) \/ Publish(r)

RequestStep(r) ==
  \/ Begin(r) \/ Decide(r) \/ Answer(r) \/ Settle(r)
  \/ RefundFails(r) \/ HandleEvent(r) \/ LoseEvent(r) \/ Abandon(r)

AdminStep(u) == DeleteUser(u) \/ \E q \in Plans : SetPlan(u, q)

Next ==
  \/ \E r \in Requests : RequestStep(r)
  \/ \E u \in Users : AdminStep(u)
  \/ Midnight

Spec == Init /\ [][Next]_vars

\* The event loop runs every task that is ready, the database answers, and the
\* model call ends.  Users, the administrator and the clock owe nothing.
Fairness ==
  \A r \in Requests :
    /\ WF_vars(Decide(r))
    /\ WF_vars(Answer(r))
    /\ WF_vars(Settle(r))
    /\ WF_vars(HandleEvent(r) \/ LoseEvent(r))

FairSpec == Spec /\ Fairness

-----------------------------------------------------------------------------
(* Properties *)

\* The logs that account for what u has used in the period p starting on day s.
Live(u, p, s) ==
  {r \in Requests : who[r] = u /\ status[r] \in {"pending", "success"} /\ period[r][p] = s}

\* The counters never exceed what the logs account for, even when midnight
\* falls inside a reservation: no user is charged for a refunded, blocked or
\* vanished request (usage.py, reserve and refund, over any interleaving).
NoOvercharge ==
  \A u \in Users, p \in Periods :
    used[u][p] <= Units * Cardinality(Live(u, p, start[u][p]))

\* The counters are exactly what the logs account for: reservations, period
\* resets and refunds of old periods, in any order, lose nothing.  Requires
\* that midnight does not fall inside a reservation transaction.
CountersExact ==
  \A u \in Users, p \in Periods :
    used[u][p] = Units * Cardinality(Live(u, p, start[u][p]))

\* Admission is sound against the logs and not merely against the counters:
\* when a request is admitted, all running and successful requests of its user
\* in its day, week and month together fit the plan it was admitted under
\* ("Atomically consume internal quota units for daily/weekly/monthly quota",
\* db.py:407).
AdmittedWithinPlan ==
  [][\A r \in Requests : pc[r] = "begun" /\ pc'[r] = "running" =>
       \A p \in Periods :
         Units * Cardinality(Live(who[r], p, period[r][p])') <= Limit[plan[who[r]]][p]]_vars

\* The refund and the metrics event both write the log's status, without a
\* guard; their order keeps a refunded charge refunded and a success charged.
SettlementIsFinal ==
  [][\A r \in Requests :
       /\ status[r] \in {"failed", "error"} => status'[r] \in {"failed", "error", "none"}
       /\ status[r] = "success" => status'[r] \in {"success", "none"}
       /\ status[r] = "blocked" => status'[r] \in {"blocked", "none"}]_vars

\* A charge that is still pending has somebody who will settle it -- its request
\* or its success event -- unless a fault removed that somebody.
PendingHasOwner ==
  \A r \in Requests :
    status[r] = "pending" =>
      \/ pc[r] \in {"running", "ok", "rejected", "raised"}
      \/ event[r] = "success"
      \/ Faults /\ pc[r] \in {"done", "lost"}

\* A user's daily activity counts exactly the requests whose logs say success
\* or error: log row and activity are written together or not at all.
ActivityAgrees ==
  \A u \in Users :
    activity[u] = Cardinality({r \in Requests : who[r] = u /\ status[r] \in {"success", "error"}})

\* The room left is a room one may use: a request of an existing user is turned
\* away only when it would exceed a limit together with what the logs account for
\* in its day, week or month, or when the plan was changed while it waited for the
\* row lock (the 429 of quota.py:41 says "quota_exceeded" for both).
RefusedForAReason ==
  [][\A r \in Requests : pc[r] = "begun" /\ pc'[r] = "denied" /\ who[r] \in member =>
       \/ txPlan[r] # plan[who[r]]
       \/ \E p \in Periods :
            Units * (Cardinality(Live(who[r], p, StartOf[p][txDate[r]])) + 1)
              > Limit[plan[who[r]]][p]]_vars

\* Without faults no charge stays pending: every admitted request ends as a
\* success or as a refund, or disappears with its user.
ChargesAreSettled ==
  \A r \in Requests : status[r] = "pending" ~> status[r] # "pending"

ChargeOf(r) == [request |-> r, user |-> who[r], day |-> txDate[r]]

ChargesIn(s) == {ChargeOf(r) : r \in {q \in Requests : status[q] = s}}

Ledger == INSTANCE QuotaLedger WITH held <- ChargesIn("pending"), kept <- ChargesIn("success")

\* The counters, periods, statuses and events implement the abstract ledger.
ImplementsLedger == Ledger!Spec

-----------------------------------------------------------------------------
(* The inductive invariant *)

\* What the middleware's position says of the log row and of the event.
StageInv ==
  \A r \in Requests :
    /\ pc[r] \in {"new", "begun"} => status[r] = "none"
    /\ pc[r] = "denied" => status[r] \in {"none", "blocked"}
    /\ pc[r] \in {"running", "ok", "rejected", "raised"} => status[r] \in {"pending", "none"}
    /\ pc[r] = "refunded" => status[r] \in {"failed", "none"}
    /\ event[r] # "none" => pc[r] = "done"
    /\ event[r] = "success" => status[r] \in {"pending", "none"}
    /\ event[r] = "error" => status[r] \in {"failed", "none"}
    /\ pc[r] \in {"running", "ok", "rejected", "raised", "refunded", "done"} /\ who[r] \in member =>
         status[r] # "none"

\* A deleted user has no logs, no usage and no activity.
GoneInv ==
  /\ \A r \in Requests : who[r] \notin member => status[r] = "none"
  /\ \A u \in Users \ member : activity[u] = 0 /\ \A p \in Periods : used[u][p] = 0

\* Dates only move forward: a log belongs to the period of its own day, and no
\* log is newer than its user's counters, nor these newer than today.
DateInv ==
  /\ \A r \in Requests : pc[r] = "begun" => txDate[r] = today
  /\ \A r \in Requests : status[r] \in {"pending", "success"} =>
       period[r] = PeriodsOf(txDate[r])
  /\ \A r \in Requests, p \in Periods : status[r] \in {"pending", "success"} =>
       period[r][p] <= start[who[r]][p]
  /\ \A u \in Users, p \in Periods : start[u][p] <= StartOf[p][today]

SafeInv == TypeOK /\ StageInv /\ GoneInv /\ NoOvercharge
ExactInv == SafeInv /\ DateInv /\ CountersExact

=============================================================================
