-------------------------- MODULE QuotaRefinement --------------------------
(***************************************************************************)
(* Quota implements QuotaLedger: whatever the counters, period columns,    *)
(* statuses and events do, a user sees an account of charges that are held,*)
(* kept or returned, and is admitted exactly when those leave room.        *)
(***************************************************************************)
EXTENDS QuotaProofs

LEMMA ChargesSame ==
  ASSUME NEW st, who' = who,
         \A r \in Requests : status'[r] = st <=> status[r] = st,
         \A r \in Requests : status[r] = st => txDate'[r] = txDate[r]
  PROVE  ChargesIn(st)' = ChargesIn(st)
BY DEF ChargesIn, ChargeOf

LEMMA ChargesAre ==
  ASSUME NEW st
  PROVE  /\ \A r \in Requests : status[r] = st => ChargeOf(r) \in ChargesIn(st)
         /\ \A c \in ChargesIn(st) : \E r \in Requests : status[r] = st /\ c = ChargeOf(r)
         /\ \A r \in Requests : ChargeOf(r).request = r /\ ChargeOf(r).user = who[r]
                                 /\ ChargeOf(r).day = txDate[r]
BY DEF ChargesIn, ChargeOf

\* The charges the ledger counts are the logs the counters account for.
LEMMA CountedIsLive ==
  ASSUME TypeOK, DateInv, NEW u \in Users, NEW p \in Periods, NEW d, NEW s, s = StartOf[p][d]
  PROVE  Cardinality(Ledger!Counted(u, p, d)) = Cardinality(Live(u, p, s))
<1> DEFINE L == Live(u, p, s)
           C == Ledger!Counted(u, p, d)
           f == [r \in L |-> ChargeOf(r)]
<1>1. \A r \in L : ChargeOf(r) \in C
  <2> SUFFICES ASSUME NEW r \in L PROVE ChargeOf(r) \in C
    OBVIOUS
  <2>1. /\ r \in Requests /\ who[r] = u /\ status[r] \in {"pending", "success"}
        /\ period[r][p] = StartOf[p][d] /\ period[r] = PeriodsOf(txDate[r])
    BY DEF Live, DateInv
  <2>2. StartOf[p][txDate[r]] = StartOf[p][d]
    BY <2>1 DEF PeriodsOf
  <2>3. ChargeOf(r) \in ChargesIn("pending") \cup ChargesIn("success")
    BY <2>1, ChargesAre
  <2> QED
    BY <2>1, <2>2, <2>3, ChargesAre DEF Ledger!Counted
<1>2. \A c \in C : \E r \in L : f[r] = c
  <2> SUFFICES ASSUME NEW c \in C PROVE \E r \in L : f[r] = c
    OBVIOUS
  <2>1. /\ c \in ChargesIn("pending") \cup ChargesIn("success")
        /\ c.user = u /\ StartOf[p][c.day] = StartOf[p][d]
    BY DEF Ledger!Counted
  <2>2. PICK r \in Requests : status[r] \in {"pending", "success"} /\ c = ChargeOf(r)
    BY <2>1, ChargesAre
  <2>3. who[r] = u /\ StartOf[p][txDate[r]] = StartOf[p][d]
    BY <2>1, <2>2, ChargesAre
  <2>4. period[r][p] = s
    BY <2>2, <2>3 DEF DateInv, PeriodsOf
  <2>5. r \in L
    BY <2>2, <2>3, <2>4 DEF Live
  <2> QED
    BY <2>2, <2>5
<1>3. f \in Surjection(L, C)
  BY <1>1, <1>2 DEF Surjection
<1>4. f \in Injection(L, C)
  <2>1. \A a, b \in L : ChargeOf(a) = ChargeOf(b) => a = b
    BY ChargesAre DEF Live
  <2> QED
    BY <1>1, <2>1 DEF Injection, IsInjective
<1> QED
  BY <1>3, <1>4, LiveFinite, FS_Surjection

\* The ledger's copy of Cardinality is Cardinality.
LEMMA SameCardinality ==
  ASSUME NEW S
  PROVE  Ledger!Cardinality(S) = Cardinality(S)
BY DEF Ledger!Cardinality, Cardinality

LEMMA RefinementInit == Init => Ledger!Init
<1> SUFFICES ASSUME Init PROVE Ledger!Init
  OBVIOUS
<1>1. ChargesIn("pending") = {} /\ ChargesIn("success") = {}
  BY DEF Init, ChargesIn
<1>2. 0 \in Days
  BY CalendarAssumption DEF Days
<1> QED
  BY <1>1, <1>2 DEF Init, Ledger!Init

LEMMA ReserveAdmits ==
  ASSUME ExactInv, NEW r \in Requests, Reserve(r)
  PROVE  Ledger!Admit(r, who[r])
<1> USE DEF ExactInv, SafeInv
<1>1. /\ who[r] \in member /\ who[r] \in Users /\ today \in Days
      /\ txDate[r] = today /\ status[r] = "none"
      /\ UNCHANGED <<who, txDate, today, member, plan>>
      /\ status' = [status EXCEPT ![r] = "pending"]
  BY DEF Reserve, txn, admin, TypeOK, StageInv, DateInv
<1>2. ChargesIn("success")' = ChargesIn("success")
  BY <1>1, ChargesSame DEF TypeOK
<1>3. ChargesIn("pending")' = ChargesIn("pending") \cup {ChargeOf(r)}
  BY <1>1 DEF ChargesIn, ChargeOf, TypeOK
<1>4. ChargeOf(r) = [request |-> r, user |-> who[r], day |-> today]
  BY <1>1 DEF ChargeOf
<1>5. \A c \in ChargesIn("pending") \cup ChargesIn("success") : c.request # r
  BY <1>1, ChargesAre
<1>6. Ledger!Room(who[r], today)
  <2> SUFFICES ASSUME NEW p \in Periods
               PROVE  Units * (Cardinality(Ledger!Counted(who[r], p, today)) + 1)
                        <= Limit[plan[who[r]]][p]
    BY SameCardinality DEF Ledger!Room
  <2>d. PICK d : d = StartOf[p][today]
    OBVIOUS
  <2>m. PICK m \in Nat : m = Cardinality(Live(who[r], p, d))
    BY LiveFinite
  <2>1. Cardinality(Ledger!Counted(who[r], p, today)) = m
    BY <1>1, <2>d, <2>m, CountedIsLive
  <2>2. CurrentUse(who[r], p, today) = Units * m
    BY <1>1, <2>d, <2>m, CurrentUseExact
  <2>3. CurrentUse(who[r], p, today) + Units <= Limit[plan[who[r]]][p]
    BY <1>1 DEF Reserve, Fits
  <2>4. Units * (m + 1) = Units * m + Units
    BY UnitsArithmetic
  <2>5. Units * (m + 1) <= Limit[plan[who[r]]][p]
    BY <2>2, <2>3, <2>4
  <2> QED
    BY <2>1, <2>5
<1> QED
  BY <1>1, <1>2, <1>3, <1>4, <1>5, <1>6 DEF Ledger!Admit

LEMMA RefundReturns ==
  ASSUME SafeInv, NEW r \in Requests, Refund(r)
  PROVE  Ledger!Return(ChargeOf(r))
<1> USE DEF SafeInv
<1>1. /\ status[r] = "pending" /\ status' = [status EXCEPT ![r] = "failed"]
      /\ UNCHANGED <<who, txDate, today, member, plan>>
  BY DEF Refund, txn, admin, TypeOK, StageInv
<1>2. ChargesIn("success")' = ChargesIn("success")
  BY <1>1, ChargesSame DEF TypeOK
<1>3. ChargesIn("pending")' = ChargesIn("pending") \ {ChargeOf(r)}
  BY <1>1 DEF ChargesIn, ChargeOf, TypeOK
<1>4. ChargeOf(r) \in ChargesIn("pending")
  BY <1>1, ChargesAre
<1> QED
  BY <1>1, <1>2, <1>3, <1>4 DEF Ledger!Return

LEMMA HandleKeeps ==
  ASSUME SafeInv, NEW r \in Requests, HandleEvent(r)
  PROVE  Ledger!Keep(ChargeOf(r)) \/ UNCHANGED Ledger!vars
<1> USE DEF SafeInv
<1>1. /\ status' = [status EXCEPT ![r] = event[r]]
      /\ UNCHANGED <<who, txDate, today, member, plan>>
      /\ \/ event[r] = "success" /\ status[r] = "pending"
         \/ event[r] = "error" /\ status[r] = "failed"
  BY DEF HandleEvent, txn, admin, TypeOK, StageInv, Event
<1>2. CASE event[r] = "success" /\ status[r] = "pending"
  <2>1. ChargesIn("pending")' = ChargesIn("pending") \ {ChargeOf(r)}
    BY <1>1, <1>2 DEF ChargesIn, ChargeOf, TypeOK
  <2>2. ChargesIn("success")' = ChargesIn("success") \cup {ChargeOf(r)}
    BY <1>1, <1>2 DEF ChargesIn, ChargeOf, TypeOK
  <2>3. ChargeOf(r) \in ChargesIn("pending")
    BY <1>2, ChargesAre
  <2> QED
    BY <1>1, <2>1, <2>2, <2>3 DEF Ledger!Keep
<1>3. CASE event[r] = "error" /\ status[r] = "failed"
  <2>1. ChargesIn("success")' = ChargesIn("success")
    BY <1>1, <1>3, ChargesSame DEF TypeOK
  <2>2. ChargesIn("pending")' = ChargesIn("pending")
    BY <1>1, <1>3, ChargesSame DEF TypeOK
  <2> QED
    BY <1>1, <2>1, <2>2 DEF Ledger!vars
<1> QED
  BY <1>1, <1>2, <1>3

LEMMA DeleteLeaves ==
  ASSUME SafeInv, NEW u \in Users, DeleteUser(u)
  PROVE  Ledger!Leave(u)
<1> USE DEF SafeInv
<1>1. /\ u \in member /\ member' = member \ {u}
      /\ status' = [r \in Requests |-> IF who[r] = u THEN "none" ELSE status[r]]
      /\ UNCHANGED <<who, txDate, today, plan>>
  BY DEF DeleteUser, txn
<1>2. ASSUME NEW st \in {"pending", "success"}
      PROVE  ChargesIn(st)' = {c \in ChargesIn(st) : c.user # u}
  BY <1>1, <1>2 DEF ChargesIn, ChargeOf, TypeOK
<1> QED
  BY <1>1, <1>2 DEF Ledger!Leave

LEMMA RefinementStep ==
  ASSUME ExactInv, [Next]_vars
  PROVE  [Ledger!Next]_(Ledger!vars)
<1> USE DEF ExactInv, SafeInv
<1>0. \A r \in Requests : ChargeOf(r) \in Ledger!Charge
  BY DEF ChargeOf, Ledger!Charge, TypeOK
<1>1. ASSUME NEW r \in Requests, Reserve(r) PROVE Ledger!Next
  BY <1>1, ReserveAdmits DEF Ledger!Next, TypeOK
<1>2. ASSUME NEW r \in Requests, Refund(r) PROVE Ledger!Next
  BY <1>0, <1>2, RefundReturns DEF Ledger!Next
<1>3. ASSUME NEW r \in Requests, HandleEvent(r) PROVE Ledger!Next \/ UNCHANGED Ledger!vars
  BY <1>0, <1>3, HandleKeeps DEF Ledger!Next
<1>4. ASSUME NEW u \in Users, DeleteUser(u) PROVE Ledger!Next
  BY <1>4, DeleteLeaves DEF Ledger!Next
<1>5. ASSUME NEW u \in Users, NEW q \in Plans, SetPlan(u, q) PROVE Ledger!Next
  <2>1. UNCHANGED <<today, member, who, txDate, status>>
    BY <1>5 DEF SetPlan, txn
  <2>2. ChargesIn("pending")' = ChargesIn("pending") /\ ChargesIn("success")' = ChargesIn("success")
    BY <2>1, ChargesSame
  <2> QED
    BY <1>5, <2>1, <2>2 DEF SetPlan, Ledger!ChangePlan, Ledger!Next
<1>6. CASE Midnight
  <2>1. UNCHANGED <<member, plan, who, txDate, status>>
    BY <1>6 DEF Midnight, txn
  <2>2. ChargesIn("pending")' = ChargesIn("pending") /\ ChargesIn("success")' = ChargesIn("success")
    BY <2>1, ChargesSame
  <2>3. today' = today + 1 /\ today + 1 \in Days
    BY <1>6, CalendarAssumption DEF Midnight, TypeOK, Days
  <2> QED
    BY <2>1, <2>2, <2>3 DEF Ledger!NextDay, Ledger!Next
<1>7. ASSUME NEW r \in Requests, Begin(r) \/ Deny(r) PROVE UNCHANGED Ledger!vars
  <2>1. UNCHANGED <<today, member, plan, who>>
    BY <1>7 DEF Begin, Deny, txn, admin
  <2>2. ASSUME NEW st \in {"pending", "success"} PROVE ChargesIn(st)' = ChargesIn(st)
    <3>1. \A q \in Requests : status'[q] = st <=> status[q] = st
      BY <1>7, <2>2 DEF Begin, Deny, TypeOK, StageInv
    <3>2. \A q \in Requests : status[q] = st => txDate'[q] = txDate[q]
      BY <1>7, <2>2 DEF Begin, Deny, txn, TypeOK, StageInv
    <3> QED
      BY <2>1, <3>1, <3>2, ChargesSame
  <2> QED
    BY <2>1, <2>2 DEF Ledger!vars
<1>8. ASSUME UNCHANGED <<today, member, plan, who, txDate, status>> PROVE UNCHANGED Ledger!vars
  BY <1>8, ChargesSame DEF Ledger!vars
<1>9. ASSUME NEW r \in Requests,
             Unknown(r) \/ Answer(r) \/ RefundNothing(r) \/ RefundFails(r)
               \/ Publish(r) \/ LoseEvent(r) \/ Abandon(r)
      PROVE UNCHANGED Ledger!vars
  BY <1>8, <1>9 DEF Unknown, Answer, RefundNothing, RefundFails, Publish, LoseEvent, Abandon,
                    admin, txn
<1>10. CASE UNCHANGED vars
  BY <1>8, <1>10 DEF vars, admin, txn
<1> QED
  BY <1>1, <1>2, <1>3, <1>4, <1>5, <1>6, <1>7, <1>9, <1>10
     DEF Next, RequestStep, AdminStep, Decide, Settle

\* Without the midnight race, and with every fault allowed, the reservation,
\* refund and metrics code implements the abstract ledger of charges.
THEOREM QuotaImplementsLedger ==
  ASSUME MidnightRace = FALSE
  PROVE  Spec => ImplementsLedger
<1>1. ExactInv /\ [Next]_vars => [Ledger!Next]_(Ledger!vars)
  BY RefinementStep
<1> QED
  BY <1>1, RefinementInit, ExactInvariant, PTL DEF Spec, ImplementsLedger, Ledger!Spec

=============================================================================
