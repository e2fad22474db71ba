---------------------------- MODULE QuotaProofs ----------------------------
(***************************************************************************)
(* Proofs about Quota for every set of users, requests and plans, every    *)
(* calendar and every limit.                                               *)
(***************************************************************************)
EXTENDS Quota, FiniteSetTheorems, TLAPS

LEMMA StartTyped ==
  ASSUME NEW d \in Days
  PROVE  PeriodsOf(d) \in [Periods -> Days]
BY CalendarAssumption DEF PeriodsOf

LEMMA ChargedTyped ==
  ASSUME TypeOK, NEW u \in Users, NEW p \in Periods, NEW d \in Days
  PROVE  Charged(u, p, d) \in Nat
<1> used[u][p] \in Nat BY DEF TypeOK
<1> Units \in Nat BY PlanAssumption
<1> QED BY DEF Charged

LEMMA RefundedTyped ==
  ASSUME TypeOK, NEW u \in Users, NEW p \in Periods, NEW s \in Days
  PROVE  Refunded(u, p, s) \in Nat
<1> used[u][p] \in Nat BY DEF TypeOK
<1> Units \in Nat BY PlanAssumption
<1> QED BY DEF Refunded

-----------------------------------------------------------------------------
(* Types *)

LEMMA TypeInit == Init => TypeOK
<1> SUFFICES ASSUME Init PROVE TypeOK
  OBVIOUS
<1>1. 0 \in Days
  BY CalendarAssumption DEF Days
<1>2. PeriodsOf(0) \in [Periods -> Days]
  BY <1>1, StartTyped
<1> QED
  BY <1>1, <1>2 DEF Init, TypeOK, Stage, Status, Event

LEMMA TypeStep == TypeOK /\ [Next]_vars => TypeOK'
<1> SUFFICES ASSUME TypeOK, [Next]_vars PROVE TypeOK'
  OBVIOUS
<1> USE DEF accounts, txn, admin
<1>1. ASSUME NEW r \in Requests, Begin(r) PROVE TypeOK'
  BY <1>1 DEF TypeOK, Begin, Stage
<1>2. ASSUME NEW r \in Requests, Reserve(r) PROVE TypeOK'
  <2> DEFINE u == who[r]
             d == txDate[r]
  <2>1. u \in Users /\ d \in Days
    BY DEF TypeOK
  <2>2. PeriodsOf(d) \in [Periods -> Days]
    BY <2>1, StartTyped
  <2>3. start' \in [Users -> [Periods -> Days]] /\ start'[u] \in [Periods -> Days]
    BY <1>2, <2>1, <2>2 DEF Reserve, TypeOK
  <2>4. used' \in [Users -> [Periods -> Nat]]
    <3>1. [p \in Periods |-> Charged(u, p, d)] \in [Periods -> Nat]
      BY <2>1, ChargedTyped
    <3> QED
      BY <1>2, <2>1, <3>1 DEF Reserve, TypeOK
  <2>5. period' \in [Requests -> [Periods -> Days]]
    BY <1>2, <2>3 DEF Reserve, TypeOK
  <2>6. pc' \in [Requests -> Stage] /\ status' \in [Requests -> Status]
    BY <1>2 DEF Reserve, TypeOK, Stage, Status
  <2> QED
    BY <1>2, <2>3, <2>4, <2>5, <2>6 DEF Reserve, TypeOK
<1>3. ASSUME NEW r \in Requests, Deny(r) PROVE TypeOK'
  BY <1>3 DEF TypeOK, Deny, Stage, Status
<1>4. ASSUME NEW r \in Requests, Unknown(r) PROVE TypeOK'
  BY <1>4 DEF TypeOK, Unknown, Stage
<1>5. ASSUME NEW r \in Requests, Answer(r) PROVE TypeOK'
  BY <1>5 DEF TypeOK, Answer, Stage
<1>6. ASSUME NEW r \in Requests, Refund(r) PROVE TypeOK'
  <2>1. who[r] \in Users /\ \A p \in Periods : period[r][p] \in Days
    BY DEF TypeOK
  <2>2. [p \in Periods |-> Refunded(who[r], p, period[r][p])] \in [Periods -> Nat]
    BY <2>1, RefundedTyped
  <2>3. used' \in [Users -> [Periods -> Nat]]
    BY <1>6, <2>1, <2>2 DEF Refund, TypeOK
  <2>4. pc' \in [Requests -> Stage] /\ status' \in [Requests -> Status]
    BY <1>6 DEF Refund, AfterRefund, TypeOK, Stage, Status
  <2> QED
    BY <1>6, <2>3, <2>4 DEF Refund, TypeOK
<1>7. ASSUME NEW r \in Requests, RefundNothing(r) PROVE TypeOK'
  BY <1>7 DEF TypeOK, RefundNothing, AfterRefund, Stage
<1>8. ASSUME NEW r \in Requests, RefundFails(r) PROVE TypeOK'
  BY <1>8 DEF TypeOK, RefundFails, Stage
<1>9. ASSUME NEW r \in Requests, Publish(r) PROVE TypeOK'
  BY <1>9 DEF TypeOK, Publish, Stage, Event
<1>10. ASSUME NEW r \in Requests, HandleEvent(r) PROVE TypeOK'
  <2>1. status' \in [Requests -> Status] /\ event' \in [Requests -> Event]
    BY <1>10 DEF HandleEvent, TypeOK, Status, Event
  <2>2. activity' \in [Users -> Nat]
    BY <1>10 DEF HandleEvent, TypeOK
  <2> QED
    BY <1>10, <2>1, <2>2 DEF HandleEvent, TypeOK
<1>11. ASSUME NEW r \in Requests, LoseEvent(r) PROVE TypeOK'
  BY <1>11 DEF TypeOK, LoseEvent, Event
<1>12. ASSUME NEW r \in Requests, Abandon(r) PROVE TypeOK'
  BY <1>12 DEF TypeOK, Abandon, Stage
<1>13. ASSUME NEW u \in Users, NEW q \in Plans, SetPlan(u, q) PROVE TypeOK'
  BY <1>13 DEF TypeOK, SetPlan
<1>14. ASSUME NEW u \in Users, DeleteUser(u) PROVE TypeOK'
  <2>1. used' \in [Users -> [Periods -> Nat]] /\ activity' \in [Users -> Nat]
    BY <1>14 DEF DeleteUser, TypeOK
  <2>2. status' \in [Requests -> Status]
    BY <1>14 DEF DeleteUser, TypeOK, Status
  <2> QED
    BY <1>14, <2>1, <2>2 DEF DeleteUser, TypeOK
<1>15. CASE Midnight
  BY <1>15, CalendarAssumption DEF TypeOK, Midnight, Days
<1>16. CASE UNCHANGED vars
  BY <1>16 DEF TypeOK, vars
<1> QED
  BY <1>1, <1>2, <1>3, <1>4, <1>5, <1>6, <1>7, <1>8, <1>9, <1>10, <1>11, <1>12, <1>13,
     <1>14, <1>15, <1>16
     DEF Next, RequestStep, AdminStep, Decide, Settle

\* Every variable keeps its type, in particular no counter goes below zero
\* (usage.py:266-268, GREATEST), whatever interleaves and whatever fails.
THEOREM TypeCorrect == Spec => []TypeOK
BY TypeInit, TypeStep, PTL DEF Spec

-----------------------------------------------------------------------------
(* Where a request stands, and what its log and its event can be *)

LEMMA StageInit == Init => StageInv /\ GoneInv
BY DEF Init, StageInv, GoneInv

LEMMA StageStep ==
  ASSUME TypeOK, StageInv, GoneInv, [Next]_vars
  PROVE  StageInv' /\ GoneInv'
<1> USE DEF accounts, txn, admin, TypeOK
<1>1. ASSUME NEW r \in Requests, Begin(r) PROVE StageInv' /\ GoneInv'
  BY <1>1 DEF StageInv, GoneInv, Begin
<1>2. ASSUME NEW r \in Requests, Reserve(r) PROVE StageInv' /\ GoneInv'
  <2>1. StageInv'
    BY <1>2 DEF StageInv, Reserve
  <2>2. GoneInv'
    BY <1>2 DEF GoneInv, Reserve
  <2> QED BY <2>1, <2>2
<1>3. ASSUME NEW r \in Requests, Deny(r) PROVE StageInv' /\ GoneInv'
  BY <1>3 DEF StageInv, GoneInv, Deny
<1>4. ASSUME NEW r \in Requests, Unknown(r) PROVE StageInv' /\ GoneInv'
  BY <1>4 DEF StageInv, GoneInv, Unknown
<1>5. ASSUME NEW r \in Requests, Answer(r) PROVE StageInv' /\ GoneInv'
  BY <1>5 DEF StageInv, GoneInv, Answer
<1>6. ASSUME NEW r \in Requests, Refund(r) PROVE StageInv' /\ GoneInv'
  <2>1. StageInv'
    BY <1>6 DEF StageInv, Refund, AfterRefund
  <2>2. who[r] \in member
    BY <1>6 DEF GoneInv, Refund
  <2>3. GoneInv'
    BY <1>6, <2>2 DEF GoneInv, Refund
  <2> QED BY <2>1, <2>3
<1>7. ASSUME NEW r \in Requests, RefundNothing(r) PROVE StageInv' /\ GoneInv'
  BY <1>7 DEF StageInv, GoneInv, RefundNothing, AfterRefund
<1>8. ASSUME NEW r \in Requests, RefundFails(r) PROVE StageInv' /\ GoneInv'
  BY <1>8 DEF StageInv, GoneInv, RefundFails
<1>9. ASSUME NEW r \in Requests, Publish(r) PROVE StageInv' /\ GoneInv'
  BY <1>9 DEF StageInv, GoneInv, Publish
<1>10. ASSUME NEW r \in Requests, HandleEvent(r) PROVE StageInv' /\ GoneInv'
  BY <1>10 DEF StageInv, GoneInv, HandleEvent, Event
<1>11. ASSUME NEW r \in Requests, LoseEvent(r) PROVE StageInv' /\ GoneInv'
  BY <1>11 DEF StageInv, GoneInv, LoseEvent
<1>12. ASSUME NEW r \in Requests, Abandon(r) PROVE StageInv' /\ GoneInv'
  BY <1>12 DEF StageInv, GoneInv, Abandon
<1>13. ASSUME NEW u \in Users, NEW q \in Plans, SetPlan(u, q) PROVE StageInv' /\ GoneInv'
  BY <1>13 DEF StageInv, GoneInv, SetPlan
<1>14. ASSUME NEW u \in Users, DeleteUser(u) PROVE StageInv' /\ GoneInv'
  <2>1. StageInv'
    BY <1>14 DEF StageInv, DeleteUser
  <2>2. GoneInv'
    BY <1>14 DEF GoneInv, DeleteUser
  <2> QED BY <2>1, <2>2
<1>15. CASE Midnight
  BY <1>15 DEF StageInv, GoneInv, Midnight
<1>16. CASE UNCHANGED vars
  BY <1>16 DEF StageInv, GoneInv, vars
<1> QED
  BY <1>1, <1>2, <1>3, <1>4, <1>5, <1>6, <1>7, <1>8, <1>9, <1>10, <1>11, <1>12, <1>13,
     <1>14, <1>15, <1>16
     DEF Next, RequestStep, AdminStep, Decide, Settle

-----------------------------------------------------------------------------
(* What a step does to the live logs: only three actions touch counters *)

LiveStatus == {"pending", "success"}

Quiet ==
  /\ UNCHANGED <<start, used, who, period>>
  /\ \A r \in Requests : status'[r] \in LiveStatus <=> status[r] \in LiveStatus

LEMMA StepKinds ==
  ASSUME TypeOK, StageInv, GoneInv, [Next]_vars
  PROVE  \/ \E r \in Requests : Reserve(r) \/ Refund(r)
         \/ \E u \in Users : DeleteUser(u)
         \/ Quiet
<1> USE DEF accounts, txn, admin, Quiet, LiveStatus
<1>1. ASSUME NEW r \in Requests, Deny(r) PROVE Quiet
  BY <1>1 DEF TypeOK, StageInv, Deny
<1>2. ASSUME NEW r \in Requests, HandleEvent(r) PROVE Quiet
  BY <1>2 DEF TypeOK, StageInv, HandleEvent, Event
<1>3. ASSUME NEW r \in Requests, Begin(r) \/ Unknown(r) \/ Answer(r) \/ RefundNothing(r)
      PROVE Quiet
  BY <1>3 DEF Begin, Unknown, Answer, RefundNothing
<1>4. ASSUME NEW r \in Requests,
             RefundFails(r) \/ Publish(r) \/ LoseEvent(r) \/ Abandon(r)
      PROVE Quiet
  BY <1>4 DEF RefundFails, Publish, LoseEvent, Abandon
<1>5. ASSUME NEW u \in Users, NEW q \in Plans, SetPlan(u, q) PROVE Quiet
  BY <1>5 DEF SetPlan
<1>6. CASE Midnight
  BY <1>6 DEF Midnight
<1>7. CASE UNCHANGED vars
  BY <1>7 DEF vars
<1> QED
  BY <1>1, <1>2, <1>3, <1>4, <1>5, <1>6, <1>7
     DEF Next, RequestStep, AdminStep, Decide, Settle

LEMMA LiveFinite ==
  ASSUME NEW u, NEW p, NEW s
  PROVE  IsFiniteSet(Live(u, p, s)) /\ Cardinality(Live(u, p, s)) \in Nat
<1>1. Live(u, p, s) \subseteq Requests
  BY DEF Live
<1>2. IsFiniteSet(Live(u, p, s))
  BY <1>1, RequestAssumption, FS_Subset
<1> QED
  BY <1>2, FS_CardinalityType

LEMMA LiveQuiet ==
  ASSUME Quiet, NEW u, NEW p, NEW s
  PROVE  Live(u, p, s)' = Live(u, p, s)
BY DEF Quiet, LiveStatus, Live

LEMMA LiveReserve ==
  ASSUME TypeOK, StageInv, NEW r \in Requests, Reserve(r),
         NEW u \in Users, NEW p \in Periods, NEW s
  PROVE  /\ r \notin Live(u, p, s)
         /\ u = who[r] /\ s = StartOf[p][txDate[r]] => Live(u, p, s)' = Live(u, p, s) \cup {r}
         /\ u # who[r] \/ s # StartOf[p][txDate[r]] => Live(u, p, s)' = Live(u, p, s)
<1>1. status[r] = "none"
  BY DEF Reserve, StageInv
<1>2. who' = who /\ status' = [status EXCEPT ![r] = "pending"]
  BY DEF Reserve, txn
<1>3. period' = [period EXCEPT ![r] = PeriodsOf(txDate[r])]
  BY DEF Reserve, TypeOK
<1>4. PeriodsOf(txDate[r])[p] = StartOf[p][txDate[r]]
  BY DEF PeriodsOf
<1> QED
  BY <1>1, <1>2, <1>3, <1>4 DEF Live, TypeOK

LEMMA LiveRefund ==
  ASSUME TypeOK, StageInv, NEW r \in Requests, Refund(r),
         NEW u \in Users, NEW p \in Periods, NEW s
  PROVE  /\ Live(u, p, s)' = Live(u, p, s) \ {r}
         /\ r \in Live(u, p, s) <=> u = who[r] /\ s = period[r][p]
<1>1. status[r] = "pending"
  BY DEF Refund, StageInv, TypeOK
<1>2. who' = who /\ period' = period /\ status' = [status EXCEPT ![r] = "failed"]
  BY DEF Refund, txn
<1> QED
  BY <1>1, <1>2 DEF Live, TypeOK

LEMMA LiveDelete ==
  ASSUME TypeOK, NEW v \in Users, DeleteUser(v),
         NEW u \in Users, NEW p \in Periods, NEW s
  PROVE  Live(u, p, s)' = IF u = v THEN {} ELSE Live(u, p, s)
BY DEF TypeOK, DeleteUser, txn, Live

-----------------------------------------------------------------------------
(* The counters against the logs, midnight race or not *)

LEMMA UnitsArithmetic ==
  ASSUME NEW n \in Nat
  PROVE  Units \in Nat \ {0} /\ Units * n \in Nat /\ Units * (n + 1) = Units * n + Units
BY PlanAssumption

LEMMA OverchargeInit == Init => NoOvercharge
<1> SUFFICES ASSUME Init, NEW u \in Users, NEW p \in Periods
             PROVE  used[u][p] <= Units * Cardinality(Live(u, p, start[u][p]))
  BY DEF NoOvercharge
<1>1. used[u][p] = 0
  BY DEF Init
<1>2. Cardinality(Live(u, p, start[u][p])) \in Nat
  BY LiveFinite
<1> QED
  BY <1>1, <1>2, UnitsArithmetic

LEMMA OverchargeStep ==
  ASSUME TypeOK, StageInv, GoneInv, NoOvercharge, [Next]_vars
  PROVE  NoOvercharge'
<1> SUFFICES ASSUME NEW u \in Users, NEW p \in Periods
             PROVE  (used[u][p] <= Units * Cardinality(Live(u, p, start[u][p])))'
  BY DEF NoOvercharge
<1>s. PICK s : s = start[u][p]
  OBVIOUS
<1>n. PICK n : n = Cardinality(Live(u, p, s))
  OBVIOUS
<1>0. used[u][p] \in Nat /\ n \in Nat /\ used[u][p] <= Units * n
  BY <1>s, <1>n, LiveFinite DEF TypeOK, NoOvercharge
<1>1. ASSUME NEW t, start'[u][p] = t, used'[u][p] <= Units * Cardinality(Live(u, p, t)')
      PROVE  (used[u][p] <= Units * Cardinality(Live(u, p, start[u][p])))'
  BY <1>1 DEF Live
<1>2. ASSUME start'[u] = start[u], used'[u] = used[u], Live(u, p, s)' = Live(u, p, s)
      PROVE  (used[u][p] <= Units * Cardinality(Live(u, p, start[u][p])))'
  BY <1>0, <1>1, <1>2, <1>s, <1>n
<1>3. ASSUME NEW r \in Requests, Reserve(r)
      PROVE  (used[u][p] <= Units * Cardinality(Live(u, p, start[u][p])))'
  <2>1. CASE u # who[r]
    <3>1. used'[u] = used[u] /\ start'[u] = start[u]
      BY <1>3, <2>1 DEF Reserve, TypeOK
    <3>2. Live(u, p, s)' = Live(u, p, s)
      BY <1>3, <2>1, LiveReserve
    <3> QED
      BY <1>2, <3>1, <3>2
  <2>2. CASE u = who[r]
    <3>d. PICK d : d = StartOf[p][txDate[r]]
      OBVIOUS
    <3>m. PICK m : m = Cardinality(Live(u, p, d))
      OBVIOUS
    <3>1. start'[u][p] = d /\ used'[u][p] = Charged(u, p, txDate[r])
      BY <1>3, <2>2, <3>d DEF Reserve, TypeOK, PeriodsOf
    <3>2. Live(u, p, d)' = Live(u, p, d) \cup {r} /\ r \notin Live(u, p, d)
      BY <1>3, <2>2, <3>d, LiveReserve
    <3>3. m \in Nat /\ Cardinality(Live(u, p, d)') = m + 1
      BY <3>2, <3>m, LiveFinite, FS_AddElement
    <3>4. Units \in Nat /\ Units * m \in Nat /\ Units * (m + 1) = Units * m + Units
      BY <3>3, UnitsArithmetic
    <3>5. CASE s # d
      <4>1. used'[u][p] = Units
        BY <1>s, <3>1, <3>d, <3>5 DEF Charged
      <4>2. used'[u][p] <= Units * (m + 1)
        BY <3>4, <4>1
      <4> QED
        BY <1>1, <3>1, <3>3, <4>2
    <3>6. CASE s = d
      <4>1. used'[u][p] = used[u][p] + Units \/ used'[u][p] = used[u][p]
        BY <1>s, <3>1, <3>d, <3>6 DEF Charged
      <4>2. used[u][p] <= Units * m
        BY <1>0, <1>n, <3>m, <3>6
      <4>3. used'[u][p] <= Units * (m + 1)
        BY <1>0, <3>4, <4>1, <4>2
      <4> QED
        BY <1>1, <3>1, <3>3, <4>3
    <3> QED
      BY <3>5, <3>6
  <2> QED
    BY <2>1, <2>2
<1>4. ASSUME NEW r \in Requests, Refund(r)
      PROVE  (used[u][p] <= Units * Cardinality(Live(u, p, start[u][p])))'
  <2>1. start' = start /\ start'[u][p] = s
    BY <1>4, <1>s DEF Refund
  <2>2. /\ Live(u, p, s)' = Live(u, p, s) \ {r}
        /\ r \in Live(u, p, s) <=> u = who[r] /\ s = period[r][p]
    BY <1>4, LiveRefund
  <2>3. used'[u][p] = IF u = who[r] THEN Refunded(u, p, period[r][p]) ELSE used[u][p]
    BY <1>4 DEF Refund, TypeOK
  <2>4. CASE r \notin Live(u, p, s)
    <3>1. Live(u, p, s)' = Live(u, p, s)
      BY <2>2, <2>4
    <3>2. used'[u][p] = used[u][p]
      BY <1>s, <2>2, <2>3, <2>4 DEF Refunded
    <3>3. used'[u][p] <= Units * Cardinality(Live(u, p, s)')
      BY <1>0, <1>n, <3>1, <3>2
    <3> QED
      BY <1>1, <2>1, <3>3
  <2>5. CASE r \in Live(u, p, s)
    <3>1. Cardinality(Live(u, p, s) \ {r}) = n - 1
      BY <1>n, <2>5, LiveFinite, FS_RemoveElement
    <3>2. PICK m \in Nat : m = Cardinality(Live(u, p, s)')
      <4>1. IsFiniteSet(Live(u, p, s) \ {r})
        BY LiveFinite, FS_RemoveElement
      <4>2. Cardinality(Live(u, p, s) \ {r}) \in Nat
        BY <4>1, FS_CardinalityType
      <4> QED
        BY <2>2, <4>2
    <3>3. n = m + 1
      BY <1>0, <2>2, <3>1, <3>2
    <3>4. used'[u][p] = IF used[u][p] >= Units THEN used[u][p] - Units ELSE 0
      BY <1>s, <2>2, <2>3, <2>5 DEF Refunded
    <3>5. Units \in Nat /\ Units * m \in Nat /\ Units * (m + 1) = Units * m + Units
      BY UnitsArithmetic
    <3>6. used'[u][p] <= Units * m
      BY <1>0, <3>3, <3>4, <3>5
    <3> QED
      BY <1>1, <2>1, <3>2, <3>6
  <2> QED
    BY <2>4, <2>5
<1>5. ASSUME NEW v \in Users, DeleteUser(v)
      PROVE  (used[u][p] <= Units * Cardinality(Live(u, p, start[u][p])))'
  <2>1. start' = start
    BY <1>5 DEF DeleteUser
  <2>2. Live(u, p, s)' = IF u = v THEN {} ELSE Live(u, p, s)
    BY <1>5, LiveDelete
  <2>3. CASE u # v
    <3>1. used'[u] = used[u]
      BY <1>5, <2>3 DEF DeleteUser, TypeOK
    <3> QED
      BY <1>2, <2>1, <2>2, <2>3, <3>1
  <2>4. CASE u = v
    <3>1. used'[u][p] = 0
      BY <1>5, <2>4 DEF DeleteUser, TypeOK
    <3>2. Cardinality(Live(u, p, s)') = 0
      BY <2>2, <2>4, FS_EmptySet
    <3>3. used'[u][p] <= Units * Cardinality(Live(u, p, s)')
      BY <3>1, <3>2, UnitsArithmetic
    <3> QED
      BY <1>1, <1>s, <2>1, <3>3
  <2> QED
    BY <2>3, <2>4
<1>6. CASE Quiet
  <2>1. Live(u, p, s)' = Live(u, p, s)
    BY <1>6, LiveQuiet
  <2> QED
    BY <1>2, <1>6, <2>1 DEF Quiet
<1> QED
  BY <1>3, <1>4, <1>5, <1>6, StepKinds

LEMMA SafeInvariant == Spec => []SafeInv
<1>1. Init => SafeInv
  BY TypeInit, StageInit, OverchargeInit DEF SafeInv
<1>2. SafeInv /\ [Next]_vars => SafeInv'
  BY TypeStep, StageStep, OverchargeStep DEF SafeInv
<1> QED
  BY <1>1, <1>2, PTL DEF Spec

\* A user's counters never exceed what the pending and successful logs of the
\* period account for, even when midnight falls inside a reservation
\* (usage.py:57-141 and 241-277).
THEOREM NeverOvercharged == Spec => []NoOvercharge
BY SafeInvariant, PTL DEF SafeInv

-----------------------------------------------------------------------------
(* Without the midnight race the counters are exact *)

LEMMA DateInit == Init => DateInv
<1> SUFFICES ASSUME Init PROVE DateInv
  OBVIOUS
<1>1. \A p \in Periods : StartOf[p][0] \in Nat
  BY CalendarAssumption DEF Days
<1> QED
  BY <1>1 DEF Init, DateInv, PeriodsOf

LEMMA DateStep ==
  ASSUME MidnightRace = FALSE, TypeOK, StageInv, GoneInv, DateInv, [Next]_vars
  PROVE  DateInv'
<1> USE DEF accounts, txn, admin
<1>0. /\ \A p \in Periods : \A d \in Days : StartOf[p][d] \in Nat
      /\ \A p \in Periods, u \in Users : start[u][p] \in Nat
      /\ \A p \in Periods, r \in Requests : period[r][p] \in Nat
  BY CalendarAssumption DEF TypeOK, Days
<1>1. ASSUME NEW r \in Requests, Begin(r) PROVE DateInv'
  BY <1>1 DEF Begin, TypeOK, StageInv, DateInv
<1>2. ASSUME NEW r \in Requests, Reserve(r) PROVE DateInv'
  <2>1. txDate[r] = today /\ today \in Days /\ who[r] \in Users
    BY <1>2 DEF Reserve, DateInv, TypeOK
  <2>2. /\ start' = [start EXCEPT ![who[r]] = PeriodsOf(today)]
        /\ period' = [period EXCEPT ![r] = PeriodsOf(today)]
        /\ status' = [status EXCEPT ![r] = "pending"]
        /\ pc' = [pc EXCEPT ![r] = "running"]
        /\ UNCHANGED <<who, txDate, today>>
    BY <1>2, <2>1 DEF Reserve, TypeOK
  <2>3. \A p \in Periods : PeriodsOf(today)[p] = StartOf[p][today] /\ StartOf[p][today] \in Nat
    BY <1>0, <2>1 DEF PeriodsOf
  <2>4. \A u \in Users, p \in Periods : start[u][p] <= start'[u][p]
    BY <1>0, <2>1, <2>2, <2>3 DEF DateInv, TypeOK
  <2>5. \A u \in Users, p \in Periods : start'[u][p] <= StartOf[p][today] /\ start'[u][p] \in Nat
    BY <1>0, <2>1, <2>2, <2>3 DEF DateInv, TypeOK
  <2>6. \A q \in Requests, p \in Periods : status'[q] \in {"pending", "success"} =>
           period'[q][p] <= start'[who[q]][p]
    <3> SUFFICES ASSUME NEW q \in Requests, NEW p \in Periods,
                        status'[q] \in {"pending", "success"}
                 PROVE  period'[q][p] <= start'[who[q]][p]
      OBVIOUS
    <3>1. CASE q = r
      <4>1. period'[q][p] = StartOf[p][today]
        BY <2>2, <2>3, <3>1 DEF TypeOK
      <4>2. start'[who[q]][p] = StartOf[p][today]
        BY <2>1, <2>2, <2>3, <3>1 DEF TypeOK
      <4> QED
        BY <2>3, <4>1, <4>2
    <3>2. CASE q # r
      <4>1. period'[q] = period[q] /\ status'[q] = status[q] /\ who[q] \in Users
        BY <2>2, <3>2 DEF TypeOK
      <4>2. period[q][p] <= start[who[q]][p]
        BY <4>1 DEF DateInv
      <4>3. start[who[q]][p] <= start'[who[q]][p]
        BY <2>4, <4>1
      <4> QED
        BY <1>0, <2>5, <4>1, <4>2, <4>3
    <3> QED
      BY <3>1, <3>2
  <2>7. \A q \in Requests : status'[q] \in {"pending", "success"} => period'[q] = PeriodsOf(txDate[q])
    BY <2>1, <2>2 DEF DateInv, TypeOK
  <2>8. \A q \in Requests : pc'[q] = "begun" => txDate[q] = today
    BY <2>1, <2>2 DEF DateInv, TypeOK
  <2> QED
    BY <2>2, <2>5, <2>6, <2>7, <2>8 DEF DateInv, PeriodsOf
<1>3. ASSUME NEW r \in Requests, Deny(r) \/ Unknown(r) \/ Answer(r) \/ RefundNothing(r)
      PROVE DateInv'
  BY <1>3 DEF Deny, Unknown, Answer, RefundNothing, AfterRefund, TypeOK, DateInv, PeriodsOf
<1>4. ASSUME NEW r \in Requests, Refund(r) PROVE DateInv'
  BY <1>4 DEF Refund, AfterRefund, TypeOK, DateInv, PeriodsOf
<1>5. ASSUME NEW r \in Requests, RefundFails(r) \/ Publish(r) \/ LoseEvent(r) \/ Abandon(r)
      PROVE DateInv'
  BY <1>5 DEF RefundFails, Publish, LoseEvent, Abandon, TypeOK, DateInv, PeriodsOf
<1>6. ASSUME NEW r \in Requests, HandleEvent(r) PROVE DateInv'
  <2>1. \A q \in Requests : status'[q] \in {"pending", "success"} =>
          status[q] \in {"pending", "success"}
    BY <1>6 DEF HandleEvent, TypeOK, StageInv, Event
  <2> QED
    BY <1>6, <2>1 DEF HandleEvent, DateInv, PeriodsOf
<1>7. ASSUME NEW u \in Users, NEW q \in Plans, SetPlan(u, q) PROVE DateInv'
  BY <1>7 DEF SetPlan, DateInv, PeriodsOf
<1>8. ASSUME NEW u \in Users, DeleteUser(u) PROVE DateInv'
  BY <1>8 DEF DeleteUser, TypeOK, DateInv, PeriodsOf
<1>9. CASE Midnight
  <2>1. \A r \in Requests : pc[r] # "begun"
    BY <1>9 DEF Midnight
  <2>2. today \in Days /\ today' \in Days /\ today <= today'
    BY <1>9, CalendarAssumption DEF Midnight, TypeOK, Days
  <2>3. \A p \in Periods : StartOf[p][today] <= StartOf[p][today']
    BY <2>2, CalendarAssumption
  <2>4. \A u \in Users, p \in Periods : start[u][p] <= StartOf[p][today']
    BY <1>0, <2>2, <2>3 DEF DateInv
  <2>5. UNCHANGED <<start, pc, who, txDate, status, period>>
    BY <1>9 DEF Midnight
  <2> QED
    BY <2>1, <2>4, <2>5 DEF DateInv, PeriodsOf
<1>10. CASE UNCHANGED vars
  BY <1>10 DEF vars, DateInv, PeriodsOf
<1> QED
  BY <1>1, <1>2, <1>3, <1>4, <1>5, <1>6, <1>7, <1>8, <1>9, <1>10
     DEF Next, RequestStep, AdminStep, Decide, Settle

LEMMA ExactInit == Init => CountersExact
<1> SUFFICES ASSUME Init, NEW u \in Users, NEW p \in Periods
             PROVE  used[u][p] = Units * Cardinality(Live(u, p, start[u][p]))
  BY DEF CountersExact
<1>1. used[u][p] = 0
  BY DEF Init
<1>2. Live(u, p, start[u][p]) = {}
  BY DEF Init, Live
<1>3. Cardinality(Live(u, p, start[u][p])) = 0
  BY <1>2, FS_EmptySet
<1> QED
  BY <1>1, <1>3, UnitsArithmetic

\* On the day of its transaction, what a reservation compares with the limit is
\* what the logs account for: a counter of an older period hides no log of this one.
LEMMA CurrentUseExact ==
  ASSUME TypeOK, DateInv, CountersExact,
         NEW u \in Users, NEW p \in Periods, NEW d, d = StartOf[p][today]
  PROVE  CurrentUse(u, p, today) = Units * Cardinality(Live(u, p, d))
<1>1. CASE start[u][p] = d
  BY <1>1 DEF CurrentUse, CountersExact
<1>2. CASE start[u][p] # d
  <2>1. start[u][p] \in Nat /\ d \in Nat /\ start[u][p] <= d
    BY CalendarAssumption DEF DateInv, TypeOK, Days
  <2>2. \A r \in Requests : r \notin Live(u, p, d)
    <3> SUFFICES ASSUME NEW r \in Requests, r \in Live(u, p, d) PROVE FALSE
      OBVIOUS
    <3>1. who[r] = u /\ period[r][p] = d /\ period[r][p] <= start[u][p]
      BY DEF Live, DateInv
    <3> QED
      BY <1>2, <2>1, <3>1
  <2>3. Live(u, p, d) = {}
    BY <2>2 DEF Live
  <2>4. Cardinality(Live(u, p, d)) = 0
    BY <2>3, FS_EmptySet
  <2> QED
    BY <1>2, <2>4, UnitsArithmetic DEF CurrentUse
<1> QED
  BY <1>1, <1>2

LEMMA ReserveExact ==
  ASSUME TypeOK, StageInv, DateInv, CountersExact,
         NEW r \in Requests, Reserve(r), NEW p \in Periods, NEW d, d = StartOf[p][today]
  PROVE  /\ used'[who[r]][p] = Units * Cardinality(Live(who[r], p, d)')
         /\ used'[who[r]][p] <= Limit[plan[who[r]]][p]
         /\ start'[who[r]][p] = d
         /\ period'[r][p] = d
         /\ r \notin Live(who[r], p, d)
<1>u. PICK u \in Users : u = who[r]
  BY DEF TypeOK
<1>m. PICK m : m = Cardinality(Live(u, p, d))
  OBVIOUS
<1>0. txDate[r] = today /\ today \in Days
  BY DEF Reserve, DateInv, TypeOK
<1>1. /\ start'[u][p] = d
      /\ period'[r][p] = d
      /\ used'[u][p] = Charged(u, p, today)
      /\ CurrentUse(u, p, today) + Units <= Limit[plan[u]][p]
  BY <1>0, <1>u DEF Reserve, TypeOK, PeriodsOf, Fits
<1>2. Live(u, p, d)' = Live(u, p, d) \cup {r} /\ r \notin Live(u, p, d)
  BY <1>0, <1>u, LiveReserve
<1>3. m \in Nat /\ Cardinality(Live(u, p, d)') = m + 1
  BY <1>2, <1>m, LiveFinite, FS_AddElement
<1>4. Units \in Nat /\ Units * m \in Nat /\ Units * (m + 1) = Units * m + Units
  BY <1>3, UnitsArithmetic
<1>5. CurrentUse(u, p, today) = Units * m
  BY <1>m, CurrentUseExact
<1>6. used'[u][p] = Units * m + Units
  <2>1. CASE start[u][p] # d
    BY <1>1, <1>4, <1>5, <2>1 DEF Charged, CurrentUse
  <2>2. CASE start[u][p] = d
    BY <1>1, <1>4, <1>5, <2>2 DEF Charged, CurrentUse
  <2> QED
    BY <2>1, <2>2
<1>7. used'[u][p] <= Limit[plan[u]][p]
  BY <1>1, <1>5, <1>6
<1>8. Live(who[r], p, d)' = Live(u, p, d)'
  BY <1>u DEF Live, Reserve, txn
<1>9. used'[u][p] = Units * Cardinality(Live(u, p, d)')
  BY <1>3, <1>4, <1>6
<1> QED
  BY <1>u, <1>1, <1>2, <1>7, <1>8, <1>9

LEMMA ExactStep ==
  ASSUME TypeOK, StageInv, GoneInv, DateInv, CountersExact, [Next]_vars
  PROVE  CountersExact'
<1> SUFFICES ASSUME NEW u \in Users, NEW p \in Periods
             PROVE  (used[u][p] = Units * Cardinality(Live(u, p, start[u][p])))'
  BY DEF CountersExact
<1>s. PICK s : s = start[u][p]
  OBVIOUS
<1>n. PICK n : n = Cardinality(Live(u, p, s))
  OBVIOUS
<1>0. used[u][p] \in Nat /\ n \in Nat /\ used[u][p] = Units * n
  BY <1>s, <1>n, LiveFinite DEF TypeOK, CountersExact
<1>1. ASSUME NEW t, start'[u][p] = t, used'[u][p] = Units * Cardinality(Live(u, p, t)')
      PROVE  (used[u][p] = Units * Cardinality(Live(u, p, start[u][p])))'
  BY <1>1 DEF Live
<1>2. ASSUME start'[u] = start[u], used'[u] = used[u], Live(u, p, s)' = Live(u, p, s)
      PROVE  (used[u][p] = Units * Cardinality(Live(u, p, start[u][p])))'
  BY <1>0, <1>1, <1>2, <1>s, <1>n
<1>3. ASSUME NEW r \in Requests, Reserve(r)
      PROVE  (used[u][p] = Units * Cardinality(Live(u, p, start[u][p])))'
  <2>1. CASE u # who[r]
    <3>1. used'[u] = used[u] /\ start'[u] = start[u]
      BY <1>3, <2>1 DEF Reserve, TypeOK
    <3>2. Live(u, p, s)' = Live(u, p, s)
      BY <1>3, <2>1, LiveReserve
    <3> QED
      BY <1>2, <3>1, <3>2
  <2>2. CASE u = who[r]
    <3>d. PICK d : d = StartOf[p][today]
      OBVIOUS
    <3>1. start'[who[r]][p] = d /\ used'[who[r]][p] = Units * Cardinality(Live(who[r], p, d)')
      BY <1>3, <3>d, ReserveExact
    <3>2. Live(who[r], p, d)' = Live(u, p, d)'
      BY <1>3, <2>2 DEF Live, Reserve, txn
    <3> QED
      BY <1>1, <2>2, <3>1, <3>2
  <2> QED
    BY <2>1, <2>2
<1>4. ASSUME NEW r \in Requests, Refund(r)
      PROVE  (used[u][p] = Units * Cardinality(Live(u, p, start[u][p])))'
  <2>1. start' = start /\ start'[u][p] = s
    BY <1>4, <1>s DEF Refund
  <2>2. /\ Live(u, p, s)' = Live(u, p, s) \ {r}
        /\ r \in Live(u, p, s) <=> u = who[r] /\ s = period[r][p]
    BY <1>4, LiveRefund
  <2>3. used'[u][p] = IF u = who[r] THEN Refunded(u, p, period[r][p]) ELSE used[u][p]
    BY <1>4 DEF Refund, TypeOK
  <2>4. CASE r \notin Live(u, p, s)
    <3>1. Live(u, p, s)' = Live(u, p, s)
      BY <2>2, <2>4
    <3>2. used'[u][p] = used[u][p]
      BY <1>s, <2>2, <2>3, <2>4 DEF Refunded
    <3>3. used'[u][p] = Units * Cardinality(Live(u, p, s)')
      BY <1>0, <1>n, <3>1, <3>2
    <3> QED
      BY <1>1, <2>1, <3>3
  <2>5. CASE r \in Live(u, p, s)
    <3>1. Cardinality(Live(u, p, s) \ {r}) = n - 1
      BY <1>n, <2>5, LiveFinite, FS_RemoveElement
    <3>2. PICK m \in Nat : m = Cardinality(Live(u, p, s)')
      <4>1. IsFiniteSet(Live(u, p, s) \ {r})
        BY LiveFinite, FS_RemoveElement
      <4>2. Cardinality(Live(u, p, s) \ {r}) \in Nat
        BY <4>1, FS_CardinalityType
      <4> QED
        BY <2>2, <4>2
    <3>3. n = m + 1
      BY <1>0, <2>2, <3>1, <3>2
    <3>4. used'[u][p] = IF used[u][p] >= Units THEN used[u][p] - Units ELSE 0
      BY <1>s, <2>2, <2>3, <2>5 DEF Refunded
    <3>5. Units \in Nat /\ Units * m \in Nat /\ Units * (m + 1) = Units * m + Units
      BY UnitsArithmetic
    <3>6. used'[u][p] = Units * m
      BY <1>0, <3>3, <3>4, <3>5
    <3> QED
      BY <1>1, <2>1, <3>2, <3>6
  <2> QED
    BY <2>4, <2>5
<1>5. ASSUME NEW v \in Users, DeleteUser(v)
      PROVE  (used[u][p] = Units * Cardinality(Live(u, p, start[u][p])))'
  <2>1. start' = start
    BY <1>5 DEF DeleteUser
  <2>2. Live(u, p, s)' = IF u = v THEN {} ELSE Live(u, p, s)
    BY <1>5, LiveDelete
  <2>3. CASE u # v
    <3>1. used'[u] = used[u]
      BY <1>5, <2>3 DEF DeleteUser, TypeOK
    <3> QED
      BY <1>2, <2>1, <2>2, <2>3, <3>1
  <2>4. CASE u = v
    <3>1. used'[u][p] = 0
      BY <1>5, <2>4 DEF DeleteUser, TypeOK
    <3>2. Cardinality(Live(u, p, s)') = 0
      BY <2>2, <2>4, FS_EmptySet
    <3>3. used'[u][p] = Units * Cardinality(Live(u, p, s)')
      BY <3>1, <3>2, UnitsArithmetic
    <3> QED
      BY <1>1, <1>s, <2>1, <3>3
  <2> QED
    BY <2>3, <2>4
<1>6. CASE Quiet
  <2>1. Live(u, p, s)' = Live(u, p, s)
    BY <1>6, LiveQuiet
  <2> QED
    BY <1>2, <1>6, <2>1 DEF Quiet
<1> QED
  BY <1>3, <1>4, <1>5, <1>6, StepKinds

LEMMA OnlyReserveAdmits ==
  ASSUME TypeOK, [Next]_vars, NEW r \in Requests, pc[r] = "begun", pc'[r] = "running"
  PROVE  Reserve(r)
<1>1. ASSUME NEW q \in Requests, Reserve(q) PROVE q = r
  BY <1>1 DEF Reserve, TypeOK
<1>2. ASSUME NEW q \in Requests, Begin(q) \/ Deny(q) \/ Unknown(q) \/ Answer(q) PROVE FALSE
  BY <1>2 DEF Begin, Deny, Unknown, Answer, TypeOK
<1>3. ASSUME NEW q \in Requests, Refund(q) \/ RefundNothing(q) \/ RefundFails(q) PROVE FALSE
  BY <1>3 DEF Refund, RefundNothing, AfterRefund, RefundFails, TypeOK
<1>4. ASSUME NEW q \in Requests, Publish(q) \/ HandleEvent(q) \/ LoseEvent(q) \/ Abandon(q)
      PROVE FALSE
  BY <1>4 DEF Publish, HandleEvent, LoseEvent, Abandon, TypeOK
<1>5. ASSUME NEW u \in Users, AdminStep(u) PROVE FALSE
  BY <1>5 DEF AdminStep, SetPlan, DeleteUser
<1>6. CASE Midnight
  BY <1>6 DEF Midnight
<1>7. CASE UNCHANGED vars
  BY <1>7 DEF vars
<1> QED
  BY <1>1, <1>2, <1>3, <1>4, <1>5, <1>6, <1>7 DEF Next, RequestStep, Decide, Settle

\* The inductive invariant behind the exactness of the counters.
THEOREM ExactInvariant ==
  ASSUME MidnightRace = FALSE
  PROVE  Spec => []ExactInv
<1>1. Init => ExactInv
  BY TypeInit, StageInit, OverchargeInit, DateInit, ExactInit DEF ExactInv, SafeInv
<1>2. ExactInv /\ [Next]_vars => ExactInv'
  BY TypeStep, StageStep, OverchargeStep, DateStep, ExactStep DEF ExactInv, SafeInv
<1> QED
  BY <1>1, <1>2, PTL DEF Spec

\* While midnight does not fall inside a reservation, daily_used, weekly_used
\* and monthly_used are exactly the units of the period's pending and
\* successful logs.
THEOREM CountersAreExact ==
  ASSUME MidnightRace = FALSE
  PROVE  Spec => []CountersExact
BY ExactInvariant, PTL DEF ExactInv

\* Under the same assumption no admission takes a user's running and successful
\* requests of a day, week or month over the plan's limit.
THEOREM AdmissionIsSound ==
  ASSUME MidnightRace = FALSE
  PROVE  Spec => AdmittedWithinPlan
<1> DEFINE Sound(r) ==
      pc[r] = "begun" /\ pc'[r] = "running" =>
        \A p \in Periods :
          Units * Cardinality(Live(who[r], p, period[r][p])') <= Limit[plan[who[r]]][p]
<1>1. ASSUME ExactInv, [Next]_vars, NEW r \in Requests PROVE Sound(r)
  <2> SUFFICES ASSUME pc[r] = "begun", pc'[r] = "running", NEW p \in Periods
               PROVE  Units * Cardinality(Live(who[r], p, period[r][p])') <= Limit[plan[who[r]]][p]
    OBVIOUS
  <2>d. PICK d : d = StartOf[p][today]
    OBVIOUS
  <2>1. Reserve(r)
    BY <1>1, OnlyReserveAdmits DEF ExactInv, SafeInv
  <2>2. /\ used'[who[r]][p] = Units * Cardinality(Live(who[r], p, d)')
        /\ used'[who[r]][p] <= Limit[plan[who[r]]][p]
        /\ period'[r][p] = d
    BY <1>1, <2>d, <2>1, ReserveExact DEF ExactInv, SafeInv
  <2>3. Live(who[r], p, period[r][p])' = Live(who[r], p, d)'
    BY <2>2 DEF Live
  <2> QED
    BY <2>2, <2>3
<1>2. ExactInv /\ [Next]_vars => [\A r \in Requests : Sound(r)]_vars
  BY <1>1
<1> QED
  BY <1>2, ExactInvariant, PTL DEF Spec, AdmittedWithinPlan

LEMMA WhoIsDenied ==
  ASSUME TypeOK, [Next]_vars, NEW r \in Requests, pc[r] = "begun", pc'[r] = "denied"
  PROVE  Deny(r) \/ Unknown(r)
<1>1. ASSUME NEW q \in Requests, Deny(q) \/ Unknown(q) PROVE q = r
  BY <1>1 DEF Deny, Unknown, TypeOK
<1>2. ASSUME NEW q \in Requests, Begin(q) \/ Reserve(q) \/ Answer(q) PROVE FALSE
  BY <1>2 DEF Begin, Reserve, Answer, TypeOK
<1>3. ASSUME NEW q \in Requests, Refund(q) \/ RefundNothing(q) \/ RefundFails(q) PROVE FALSE
  BY <1>3 DEF Refund, RefundNothing, AfterRefund, RefundFails, TypeOK
<1>4. ASSUME NEW q \in Requests, Publish(q) \/ HandleEvent(q) \/ LoseEvent(q) \/ Abandon(q)
      PROVE FALSE
  BY <1>4 DEF Publish, HandleEvent, LoseEvent, Abandon, TypeOK
<1>5. ASSUME NEW u \in Users, AdminStep(u) PROVE FALSE
  BY <1>5 DEF AdminStep, SetPlan, DeleteUser
<1>6. CASE Midnight
  BY <1>6 DEF Midnight
<1>7. CASE UNCHANGED vars
  BY <1>7 DEF vars
<1> QED
  BY <1>1, <1>2, <1>3, <1>4, <1>5, <1>6, <1>7 DEF Next, RequestStep, Decide, Settle

\* Under the same assumption a request of an existing user is turned away only for
\* a limit that its logs leave no room in, or for a plan changed while it waited.
THEOREM RefusalsHaveReasons ==
  ASSUME MidnightRace = FALSE
  PROVE  Spec => RefusedForAReason
<1> DEFINE Reason(r) ==
      pc[r] = "begun" /\ pc'[r] = "denied" /\ who[r] \in member =>
        \/ txPlan[r] # plan[who[r]]
        \/ \E p \in Periods :
             Units * (Cardinality(Live(who[r], p, StartOf[p][txDate[r]])) + 1) > Limit[plan[who[r]]][p]
<1>1. ASSUME ExactInv, [Next]_vars, NEW r \in Requests PROVE Reason(r)
  <2> SUFFICES ASSUME pc[r] = "begun", pc'[r] = "denied", who[r] \in member, txPlan[r] = plan[who[r]]
               PROVE  \E p \in Periods :
                        Units * (Cardinality(Live(who[r], p, StartOf[p][txDate[r]])) + 1) > Limit[plan[who[r]]][p]
    OBVIOUS
  <2> USE DEF ExactInv, SafeInv
  <2>u. PICK u \in Users : u = who[r]
    BY <1>1 DEF TypeOK
  <2>1. Deny(r)
    BY <1>1, WhoIsDenied DEF Unknown
  <2>2. txDate[r] = today
    BY <1>1 DEF DateInv
  <2>3. PICK p \in Periods : ~(CurrentUse(u, p, today) + Units <= Limit[plan[u]][p])
    BY <2>u, <2>1, <2>2 DEF Deny, Fits
  <2>d. PICK d : d = StartOf[p][today]
    OBVIOUS
  <2>m. PICK m : m = Cardinality(Live(u, p, d))
    OBVIOUS
  <2>4. CurrentUse(u, p, today) = Units * m /\ m \in Nat
    BY <1>1, <2>d, <2>m, CurrentUseExact, LiveFinite
  <2>5. Units * (m + 1) = Units * m + Units /\ Units * m \in Nat /\ Units \in Nat
    BY <2>4, UnitsArithmetic
  <2>6. Limit[plan[u]][p] \in Nat
    BY <1>1, PlanAssumption DEF TypeOK
  <2>7. Units * (m + 1) > Limit[plan[u]][p]
    BY <2>3, <2>4, <2>5, <2>6
  <2> QED
    BY <2>u, <2>2, <2>d, <2>m, <2>7
<1>2. ExactInv /\ [Next]_vars => [\A r \in Requests : Reason(r)]_vars
  BY <1>1
<1> QED
  BY <1>2, ExactInvariant, PTL DEF Spec, RefusedForAReason

-----------------------------------------------------------------------------
(* Settlement *)

LEMMA SettlementStep ==
  ASSUME SafeInv, [Next]_vars, NEW r \in Requests
  PROVE  /\ status[r] \in {"failed", "error"} => status'[r] \in {"failed", "error", "none"}
         /\ status[r] = "success" => status'[r] \in {"success", "none"}
         /\ status[r] = "blocked" => status'[r] \in {"blocked", "none"}
<1> DEFINE Goal ==
      /\ status[r] \in {"failed", "error"} => status'[r] \in {"failed", "error", "none"}
      /\ status[r] = "success" => status'[r] \in {"success", "none"}
      /\ status[r] = "blocked" => status'[r] \in {"blocked", "none"}
<1> USE DEF SafeInv, TypeOK
<1>1. ASSUME NEW q \in Requests, Reserve(q) \/ Deny(q) PROVE Goal
  BY <1>1 DEF StageInv, Reserve, Deny
<1>2. ASSUME NEW q \in Requests, Refund(q) PROVE Goal
  BY <1>2 DEF StageInv, Refund
<1>3. ASSUME NEW q \in Requests, HandleEvent(q) PROVE Goal
  BY <1>3 DEF StageInv, HandleEvent, Event
<1>4. ASSUME NEW u \in Users, DeleteUser(u) PROVE Goal
  BY <1>4 DEF DeleteUser
<1>5. ASSUME UNCHANGED status PROVE Goal
  BY <1>5
<1>6. ASSUME NEW q \in Requests,
             Begin(q) \/ Unknown(q) \/ Answer(q) \/ RefundNothing(q) \/ RefundFails(q)
               \/ Publish(q) \/ LoseEvent(q) \/ Abandon(q)
      PROVE UNCHANGED status
  BY <1>6 DEF Begin, Unknown, Answer, RefundNothing, RefundFails, Publish, LoseEvent, Abandon
<1>7. ASSUME Midnight \/ (\E u \in Users, q \in Plans : SetPlan(u, q)) \/ UNCHANGED vars
      PROVE UNCHANGED status
  BY <1>7 DEF Midnight, SetPlan, vars
<1> QED
  BY <1>1, <1>2, <1>3, <1>4, <1>5, <1>6, <1>7
     DEF Next, RequestStep, AdminStep, Decide, Settle

\* Although neither the refund nor the metrics transaction looks at the status it
\* overwrites (usage.py:275, request_metrics.py:34-48), a refunded or failed
\* request never becomes a charged one and a success is never refunded.
THEOREM SettlementsAreFinal == Spec => SettlementIsFinal
<1>1. SafeInv /\ [Next]_vars =>
        [\A r \in Requests :
           /\ status[r] \in {"failed", "error"} => status'[r] \in {"failed", "error", "none"}
           /\ status[r] = "success" => status'[r] \in {"success", "none"}
           /\ status[r] = "blocked" => status'[r] \in {"blocked", "none"}]_vars
  BY SettlementStep
<1> QED
  BY <1>1, SafeInvariant, PTL DEF Spec, SettlementIsFinal

LEMMA OwnerStep ==
  ASSUME TypeOK, StageInv, GoneInv, PendingHasOwner, [Next]_vars
  PROVE  PendingHasOwner'
<1> USE DEF TypeOK, StageInv, PendingHasOwner, admin, txn, accounts
<1>1. ASSUME NEW r \in Requests, Begin(r) \/ Reserve(r) \/ Deny(r) \/ Unknown(r) \/ Answer(r)
      PROVE PendingHasOwner'
  BY <1>1 DEF Begin, Reserve, Deny, Unknown, Answer
<1>2. ASSUME NEW r \in Requests, Refund(r) PROVE PendingHasOwner'
  BY <1>2 DEF Refund
<1>3. ASSUME NEW r \in Requests, RefundNothing(r) PROVE PendingHasOwner'
  BY <1>3 DEF RefundNothing
<1>4. ASSUME NEW r \in Requests, RefundFails(r) \/ Abandon(r) PROVE PendingHasOwner'
  BY <1>4 DEF RefundFails, Abandon
<1>5. ASSUME NEW r \in Requests, Publish(r) PROVE PendingHasOwner'
  BY <1>5 DEF Publish
<1>6. ASSUME NEW r \in Requests, HandleEvent(r) PROVE PendingHasOwner'
  BY <1>6 DEF HandleEvent, Event
<1>7. ASSUME NEW r \in Requests, LoseEvent(r) PROVE PendingHasOwner'
  BY <1>7 DEF LoseEvent, GoneInv
<1>8. ASSUME NEW u \in Users, DeleteUser(u) PROVE PendingHasOwner'
  BY <1>8 DEF DeleteUser
<1>9. CASE Midnight \/ (\E u \in Users, q \in Plans : SetPlan(u, q)) \/ UNCHANGED vars
  BY <1>9 DEF Midnight, SetPlan, vars
<1> QED
  BY <1>1, <1>2, <1>3, <1>4, <1>5, <1>6, <1>7, <1>8, <1>9
     DEF Next, RequestStep, AdminStep, Decide, Settle

\* A pending charge is always somebody's business: its request is still to
\* settle it or its success event is on its way.  Only a fault leaves orphans.
THEOREM NoOrphans == Spec => []PendingHasOwner
<1>1. Init => PendingHasOwner
  BY DEF Init, PendingHasOwner
<1>2. SafeInv /\ PendingHasOwner /\ [Next]_vars => PendingHasOwner'
  BY OwnerStep DEF SafeInv
<1> QED
  BY <1>1, <1>2, SafeInvariant, PTL DEF Spec

-----------------------------------------------------------------------------
(* Activity *)

Logged(u) == {r \in Requests : who[r] = u /\ status[r] \in {"success", "error"}}

LEMMA LoggedFinite ==
  ASSUME NEW u
  PROVE  IsFiniteSet(Logged(u))
<1>1. Logged(u) \subseteq Requests
  BY DEF Logged
<1> QED
  BY <1>1, RequestAssumption, FS_Subset

\* Only a metrics event and a deletion change what has been logged.
LEMMA ActivityStep ==
  ASSUME SafeInv, ActivityAgrees, [Next]_vars
  PROVE  ActivityAgrees'
<1> USE DEF SafeInv, TypeOK, StageInv
<1>0. \A u \in Users : activity[u] = Cardinality(Logged(u))
  BY DEF ActivityAgrees, Logged
<1>s. ASSUME UNCHANGED <<who, activity>>,
             \A r \in Requests : status'[r] \in {"success", "error"} <=> status[r] \in {"success", "error"}
      PROVE  ActivityAgrees'
  <2>1. \A u \in Users : Logged(u)' = Logged(u)
    BY <1>s DEF Logged
  <2>2. \A u \in Users : activity'[u] = Cardinality(Logged(u)')
    BY <1>0, <1>s, <2>1
  <2> QED
    BY <2>2 DEF ActivityAgrees, Logged
<1>1. ASSUME NEW r \in Requests, HandleEvent(r) PROVE ActivityAgrees'
  <2>1. PICK v \in Users : v = who[r]
    OBVIOUS
  <2>2. /\ status[r] \in {"pending", "failed"}
        /\ status' = [status EXCEPT ![r] = event[r]] /\ event[r] \in {"success", "error"}
        /\ activity' = [activity EXCEPT ![v] = activity[v] + 1]
        /\ UNCHANGED who
    BY <1>1, <2>1 DEF HandleEvent, Event, txn
  <2>3. \A u \in Users \ {v} : Logged(u)' = Logged(u)
    BY <2>1, <2>2 DEF Logged
  <2>4. Logged(v)' = Logged(v) \cup {r} /\ r \notin Logged(v)
    BY <2>1, <2>2 DEF Logged
  <2>5. Cardinality(Logged(v)') = Cardinality(Logged(v)) + 1
    BY <2>4, LoggedFinite, FS_AddElement
  <2>6. \A u \in Users : activity'[u] = Cardinality(Logged(u)')
    BY <1>0, <2>2, <2>3, <2>5
  <2> QED
    BY <2>6 DEF ActivityAgrees, Logged
<1>2. ASSUME NEW v \in Users, DeleteUser(v) PROVE ActivityAgrees'
  <2>1. /\ status' = [r \in Requests |-> IF who[r] = v THEN "none" ELSE status[r]]
        /\ activity' = [activity EXCEPT ![v] = 0] /\ UNCHANGED who
    BY <1>2 DEF DeleteUser, txn
  <2>2. Logged(v)' = {} /\ \A u \in Users \ {v} : Logged(u)' = Logged(u)
    BY <2>1 DEF Logged
  <2>3. Cardinality(Logged(v)') = 0
    BY <2>2, FS_EmptySet
  <2>4. \A u \in Users : activity'[u] = Cardinality(Logged(u)')
    BY <1>0, <2>1, <2>2, <2>3
  <2> QED
    BY <2>4 DEF ActivityAgrees, Logged
<1>3. ASSUME NEW r \in Requests, Reserve(r) \/ Deny(r) PROVE ActivityAgrees'
  BY <1>3, <1>s DEF Reserve, Deny, txn
<1>4. ASSUME NEW r \in Requests, Refund(r) PROVE ActivityAgrees'
  BY <1>4, <1>s DEF Refund, txn
<1>5. ASSUME NEW r \in Requests,
             Begin(r) \/ Unknown(r) \/ Answer(r) \/ RefundNothing(r) \/ RefundFails(r)
               \/ Publish(r) \/ LoseEvent(r) \/ Abandon(r)
      PROVE ActivityAgrees'
  BY <1>5, <1>s DEF Begin, Unknown, Answer, RefundNothing, RefundFails, Publish, LoseEvent, Abandon, txn
<1>6. CASE Midnight \/ (\E u \in Users, q \in Plans : SetPlan(u, q)) \/ UNCHANGED vars
  BY <1>6, <1>s DEF Midnight, SetPlan, vars, txn
<1> QED
  BY <1>1, <1>2, <1>3, <1>4, <1>5, <1>6 DEF Next, RequestStep, AdminStep, Decide, Settle

\* A user's activity counts exactly the requests logged as success or error,
\* whatever events are lost and users deleted.
THEOREM ActivityIsExact == Spec => []ActivityAgrees
<1>1. Init => ActivityAgrees
  <2> SUFFICES ASSUME Init, NEW u \in Users PROVE activity[u] = Cardinality(Logged(u))
    BY DEF ActivityAgrees, Logged
  <2>1. Logged(u) = {} /\ activity[u] = 0
    BY DEF Init, Logged
  <2> QED
    BY <2>1, FS_EmptySet
<1>2. SafeInv /\ ActivityAgrees /\ [Next]_vars => ActivityAgrees'
  BY ActivityStep
<1> QED
  BY <1>1, <1>2, SafeInvariant, PTL DEF Spec

=============================================================================
