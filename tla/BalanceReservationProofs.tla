---------------------- MODULE BalanceReservationProofs ----------------------
(***************************************************************************)
(* That no interleaving of requests, collections and payout outcomes lets  *)
(* a tenant spend what it does not have, for any number of tenants and     *)
(* requests and any amounts.  NoOverdraft is not inductive: a request that *)
(* is about to insert its debit has compared its amount with a balance it  *)
(* read some steps ago.  LockProtectsRead closes the gap: who has read     *)
(* holds the tenant lock, and nobody without the lock takes money away.    *)
(*                                                                         *)
(* The refinement of TenantAccount also needs that a reservation can be    *)
(* paid out or given back in full.  HeldIsSum says so: the reserve is the  *)
(* sum of the amounts reserved.  A sum over a set is not defined here but  *)
(* shown to exist: AddsUp is about every part of the set, so that a step   *)
(* which reserves or releases one payout has a sum to go on with.          *)
(***************************************************************************)
EXTENDS BalanceReservation, TLAPS

IInv == TypeOK /\ LockProtectsRead /\ NoOverdraft

LEMMA InitIInv == Init => IInv
  BY ReservationAssumption DEF Init, IInv, TypeOK, LockProtectsRead, NoOverdraft

-----------------------------------------------------------------------------
(* Type correctness *)

LEMMA NextTypeOK == TypeOK /\ [Next]_vars => TypeOK'
<1> SUFFICES ASSUME TypeOK, [Next]_vars
             PROVE  TypeOK'
  OBVIOUS
<1> USE ReservationAssumption DEF TypeOK, Goto, Unlock, accounts
<1>1. CASE UNCHANGED vars
  BY <1>1 DEF vars
<1>2. ASSUME NEW q \in Requests, InitiateStep(q) \/ abort(q)
      PROVE  TypeOK'
  <2>1. CASE preCheck(q)
    BY <2>1 DEF preCheck, Existing
  <2>2. CASE lockTenantBalance(q)
    BY <2>2 DEF lockTenantBalance
  <2>3. CASE readBalance(q)
    BY <2>3 DEF readBalance
  <2>4. CASE reserve(q)
    BY <2>4 DEF reserve
  <2>5. CASE conflict(q)
    BY <2>5 DEF conflict
  <2>6. CASE replay(q)
    BY <2>6 DEF replay, Existing
  <2>7. CASE abort(q)
    BY <2>7 DEF abort
  <2> QED
    BY <1>2, <2>1, <2>2, <2>3, <2>4, <2>5, <2>6, <2>7 DEF InitiateStep
<1>3. ASSUME NEW tn \in Tenants, NEW n \in Collected, settleCollection(tn, n)
      PROVE  TypeOK'
  BY <1>3 DEF settleCollection
<1>4. ASSUME NEW q \in Requests, settlePayout(q) \/ releasePayout(q)
      PROVE  TypeOK'
  BY <1>4 DEF settlePayout, releasePayout
<1> QED
  BY <1>1, <1>2, <1>3, <1>4 DEF Next, Movement

-----------------------------------------------------------------------------
(* The lock protects what was read *)

\* A step that leaves locks and places alone and takes nothing from a balance
\* disturbs nobody who has read one.
LEMMA OnlyCredits ==
  ASSUME TypeOK, TypeOK', LockProtectsRead, UNCHANGED <<lock, pc, seen>>,
         \A tn \in Tenants : balance[tn] <= balance'[tn]
  PROVE  LockProtectsRead'
  BY ReservationAssumption DEF TypeOK, LockProtectsRead

LEMMA NextLockProtectsRead == TypeOK /\ LockProtectsRead /\ [Next]_vars => LockProtectsRead'
<1> SUFFICES ASSUME TypeOK, LockProtectsRead, [Next]_vars
             PROVE  LockProtectsRead'
  OBVIOUS
<1>0. TypeOK'
  BY NextTypeOK
<1>1. CASE UNCHANGED vars
  BY <1>1 DEF vars, LockProtectsRead
<1>2. ASSUME NEW q \in Requests, InitiateStep(q) \/ abort(q)
      PROVE  LockProtectsRead'
  <2> SUFFICES ASSUME NEW r \in Requests
               PROVE  /\ pc'[r] \in {"locked", "checked"} <=> lock'[TenantOf[r]] = r
                      /\ pc'[r] = "checked" =>
                           AmountOf[r] <= seen'[r] /\ seen'[r] <= balance'[TenantOf[r]]
    BY DEF LockProtectsRead
  <2> USE ReservationAssumption DEF TypeOK, LockProtectsRead, Goto, Unlock, accounts
  <2>1. CASE preCheck(q)
    BY <2>1 DEF preCheck
  <2>2. CASE lockTenantBalance(q)
    BY <2>2 DEF lockTenantBalance
  <2>3. CASE readBalance(q)
    BY <2>3 DEF readBalance
  <2>4. CASE reserve(q)
    BY <2>4 DEF reserve
  <2>5. CASE conflict(q)
    BY <2>5 DEF conflict
  <2>6. CASE replay(q)
    BY <2>6 DEF replay
  <2>7. CASE abort(q)
    BY <2>7 DEF abort
  <2> QED
    BY <1>2, <2>1, <2>2, <2>3, <2>4, <2>5, <2>6, <2>7 DEF InitiateStep
<1>3. ASSUME NEW tn \in Tenants, NEW n \in Collected, settleCollection(tn, n)
      PROVE  LockProtectsRead'
  <2>1. UNCHANGED <<lock, pc, seen>>
    BY <1>3 DEF settleCollection
  <2>2. \A u \in Tenants : balance[u] <= balance'[u]
    BY <1>3, ReservationAssumption DEF settleCollection, TypeOK
  <2> QED
    BY <1>0, <2>1, <2>2, OnlyCredits
<1>4. ASSUME NEW q \in Requests, settlePayout(q) \/ releasePayout(q)
      PROVE  LockProtectsRead'
  <2>1. UNCHANGED <<lock, pc, seen>>
    BY <1>4 DEF settlePayout, releasePayout
  <2>2. \A u \in Tenants : balance[u] <= balance'[u]
    BY <1>4, ReservationAssumption DEF settlePayout, releasePayout, TypeOK
  <2> QED
    BY <1>0, <2>1, <2>2, OnlyCredits
<1> QED
  BY <1>1, <1>2, <1>3, <1>4 DEF Next, Movement

-----------------------------------------------------------------------------
(* No overdraft *)

LEMMA NextNoOverdraft == IInv /\ [Next]_vars => NoOverdraft'
<1> SUFFICES ASSUME IInv, [Next]_vars, NEW u \in Tenants
             PROVE  balance'[u] >= 0
  BY DEF NoOverdraft
<1> USE ReservationAssumption DEF IInv, TypeOK, NoOverdraft
<1>1. CASE UNCHANGED balance
  BY <1>1
<1>2. ASSUME NEW q \in Requests, reserve(q)
      PROVE  balance'[u] >= 0
  BY <1>2 DEF reserve, LockProtectsRead
<1>3. ASSUME NEW tn \in Tenants, NEW n \in Collected, settleCollection(tn, n)
      PROVE  balance'[u] >= 0
  BY <1>3 DEF settleCollection
<1>4. ASSUME NEW q \in Requests, releasePayout(q)
      PROVE  balance'[u] >= 0
  BY <1>4 DEF releasePayout
<1> QED
  BY <1>1, <1>2, <1>3, <1>4
     DEF Next, Movement, InitiateStep, preCheck, lockTenantBalance, readBalance,
         conflict, replay, abort, settlePayout, vars, accounts

LEMMA IInvInvariant == Spec => []IInv
<1>1. IInv /\ [Next]_vars => IInv'
  BY NextTypeOK, NextLockProtectsRead, NextNoOverdraft DEF IInv
<1> QED
  BY InitIInv, <1>1, PTL DEF Spec

\* assertSufficientBalance and the debit it authorises never overdraw.
THEOREM NeverOverdrawn == Spec => []NoOverdraft
<1>1. IInv => NoOverdraft
  BY DEF IInv
<1> QED
  BY IInvInvariant, <1>1, PTL

\* FOR UPDATE on the tenant row keeps every balance that was read spendable
\* until the reader commits.
THEOREM ReadsStayValid == Spec => []LockProtectsRead
<1>1. IInv => LockProtectsRead
  BY DEF IInv
<1> QED
  BY IInvInvariant, <1>1, PTL

-----------------------------------------------------------------------------
(* Conservation *)

LEMMA NextConservation == TypeOK /\ Conservation /\ [Next]_vars => Conservation'
<1> SUFFICES ASSUME TypeOK, Conservation, [Next]_vars, NEW u \in Tenants
             PROVE  credited'[u] = balance'[u] + held'[u] + paidOut'[u]
  BY DEF Conservation
<1> USE ReservationAssumption DEF TypeOK, Conservation
<1>1. CASE UNCHANGED accounts
  BY <1>1 DEF accounts
<1>2. ASSUME NEW q \in Requests, reserve(q)
      PROVE  credited'[u] = balance'[u] + held'[u] + paidOut'[u]
  BY <1>2 DEF reserve
<1>3. ASSUME NEW tn \in Tenants, NEW n \in Collected, settleCollection(tn, n)
      PROVE  credited'[u] = balance'[u] + held'[u] + paidOut'[u]
  BY <1>3 DEF settleCollection
<1>4. ASSUME NEW q \in Requests, settlePayout(q) \/ releasePayout(q)
      PROVE  credited'[u] = balance'[u] + held'[u] + paidOut'[u]
  BY <1>4 DEF settlePayout, releasePayout
<1> QED
  BY <1>1, <1>2, <1>3, <1>4
     DEF Next, Movement, InitiateStep, preCheck, lockTenantBalance, readBalance,
         conflict, replay, abort, vars

\* The pairs of LedgerService move money between accounts and make none.
THEOREM MoneyIsConserved == Spec => []Conservation
<1>1. Init => Conservation
  <2> SUFFICES ASSUME Init, NEW u \in Tenants
               PROVE  credited[u] = balance[u] + held[u] + paidOut[u]
    BY DEF Conservation
  <2>1. balance[u] = 0 /\ held[u] = 0 /\ paidOut[u] = 0 /\ credited[u] = 0
    BY DEF Init
  <2> QED
    BY <2>1
<1>2. IInv /\ Conservation /\ [Next]_vars => Conservation'
  BY NextConservation DEF IInv
<1> QED
  BY IInvInvariant, <1>1, <1>2, PTL DEF Spec

-----------------------------------------------------------------------------
(* One key, one payout *)

SameKey(q, r) == KeyOf[q] = KeyOf[r] /\ KeyOf[q] # NoKey /\ TenantOf[q] = TenantOf[r]

\* what the unique index on (tenantId, idempotencyKey) enforces
UniqueKey ==
  \A q, r \in Requests : SameKey(q, r) /\ row[q] # "none" /\ row[r] # "none" => q = r

\* a request is answered with a committed payout: its own, or that of its key
AnswerIsItsPayout ==
  \A q \in Requests :
    LET r == answer[q]
    IN  r # None => r \in Requests /\ row[r] # "none" /\ (r = q \/ SameKey(q, r))

KeyInv == TypeOK /\ UniqueKey /\ AnswerIsItsPayout

\* Rows only come to be, and only in reserve, which found none with the key.
LEMMA RowsStay ==
  ASSUME TypeOK, [Next]_vars
  PROVE  /\ \A r \in Requests : row[r] # "none" => row'[r] # "none"
         /\ \A r \in Requests : row[r] = "none" /\ row'[r] # "none" => reserve(r)
<1> USE DEF TypeOK
<1>1. CASE UNCHANGED row
  BY <1>1
<1>2. ASSUME NEW q \in Requests, reserve(q)
      PROVE  /\ row'[q] # "none"
             /\ \A r \in Requests \ {q} : row'[r] = row[r]
  BY <1>2 DEF reserve
<1>3. ASSUME NEW q \in Requests, settlePayout(q) \/ releasePayout(q)
      PROVE  /\ row[q] = "reserved" /\ row'[q] # "none"
             /\ \A r \in Requests \ {q} : row'[r] = row[r]
  BY <1>3 DEF settlePayout, releasePayout
<1> QED
  BY <1>1, <1>2, <1>3
     DEF Next, Movement, InitiateStep, preCheck, lockTenantBalance, readBalance,
         conflict, replay, abort, settleCollection, vars

LEMMA NextUniqueKey == KeyInv /\ [Next]_vars => UniqueKey'
<1> SUFFICES ASSUME KeyInv, [Next]_vars, NEW q \in Requests, NEW r \in Requests,
                    SameKey(q, r), row'[q] # "none", row'[r] # "none", q # r
             PROVE  FALSE
  BY DEF UniqueKey, SameKey
<1> DEFINE free(x, y) == SameKey(x, y) /\ row[y] # "none" /\ reserve(x)
<1>1. SameKey(r, q)
  BY DEF SameKey
<1>2. \A x, y \in Requests : ~ free(x, y)
  BY DEF reserve, Existing, SameKey
<1>3. row[q] = "none" \/ row[r] = "none"
  BY DEF KeyInv, UniqueKey
<1>4. /\ row[q] = "none" => reserve(q)
      /\ row[r] = "none" => reserve(r)
  BY RowsStay DEF KeyInv
<1>5. ~ (row[q] = "none" /\ row[r] = "none")
  <2> SUFFICES ASSUME reserve(q), row[r] = "none" PROVE row'[r] = "none"
    BY <1>4
  <2> QED BY DEF reserve, KeyInv, TypeOK
<1> QED
  BY <1>1, <1>2, <1>3, <1>4, <1>5

LEMMA NextAnswer == KeyInv /\ [Next]_vars => AnswerIsItsPayout'
<1> SUFFICES ASSUME KeyInv, [Next]_vars, NEW q \in Requests, answer'[q] # None
             PROVE  /\ answer'[q] \in Requests /\ row'[answer'[q]] # "none"
                    /\ answer'[q] = q \/ SameKey(q, answer'[q])
  BY DEF AnswerIsItsPayout, SameKey
<1> DEFINE kept == answer'[q] = answer[q]
           own == answer'[q] = q /\ row'[q] # "none"
           found == answer'[q] \in Existing(q)
<1>1. CASE kept
  BY <1>1, RowsStay DEF KeyInv, AnswerIsItsPayout
<1>2. CASE own
  BY <1>2
<1>3. CASE found
  BY <1>3, RowsStay DEF KeyInv, Existing, SameKey
<1>4. kept \/ own \/ found
  <2> HIDE DEF kept, own, found
  <2>1. CASE UNCHANGED answer
    BY <2>1 DEF kept
  <2>2. ASSUME NEW r \in Requests, preCheck(r) \/ replay(r) PROVE kept \/ found
    BY <2>2 DEF preCheck, replay, KeyInv, TypeOK, kept, found
  <2>3. ASSUME NEW r \in Requests, reserve(r) PROVE kept \/ own
    BY <2>3 DEF reserve, KeyInv, TypeOK, kept, own
  <2> QED
    BY <2>1, <2>2, <2>3
       DEF Next, Movement, InitiateStep, lockTenantBalance, readBalance, conflict, abort,
           settleCollection, settlePayout, releasePayout, vars
<1> QED
  BY <1>1, <1>2, <1>3, <1>4

\* A client's retries are answered with the payout of the first, whichever of
\* the look-ups and the unique index stops them.
THEOREM RetriesGetOnePayout == Spec => []OneKeyOnePayout
<1>1. Init => KeyInv
  BY InitIInv DEF IInv, Init, KeyInv, UniqueKey, AnswerIsItsPayout
<1>2. KeyInv /\ [Next]_vars => KeyInv'
  BY NextTypeOK, NextUniqueKey, NextAnswer DEF KeyInv
<1>3. KeyInv => OneKeyOnePayout
  <2> SUFFICES ASSUME KeyInv, NEW q \in Requests, NEW r \in Requests, SameKey(q, r),
                      answer[q] # None, answer[r] # None
               PROVE  answer[q] = answer[r]
    BY DEF OneKeyOnePayout, SameKey
  <2>1. /\ answer[q] \in Requests /\ row[answer[q]] # "none"
        /\ answer[r] \in Requests /\ row[answer[r]] # "none"
        /\ answer[q] = q \/ SameKey(q, answer[q])
        /\ answer[r] = r \/ SameKey(r, answer[r])
    BY DEF KeyInv, AnswerIsItsPayout
  <2>2. SameKey(answer[q], answer[r])
    BY <2>1 DEF SameKey
  <2> QED
    BY <2>1, <2>2 DEF KeyInv, UniqueKey
<1> QED
  BY <1>1, <1>2, <1>3, PTL DEF Spec

-----------------------------------------------------------------------------
(* The steps add up to TenantAccount: what is held is the sum of the payouts *)
(* that are reserved, so each of them can be paid out or given back.         *)

Reserved(tn) == {q \in Requests : TenantOf[q] = tn /\ row[q] = "reserved"}

\* w adds up the amounts of every part of R
AddsUp(w, R) ==
  /\ w \in [SUBSET R -> Nat]
  /\ w[{}] = 0
  /\ \A S \in SUBSET R : \A q \in S : w[S] = w[S \ {q}] + AmountOf[q]

HeldIsSum ==
  \A tn \in Tenants : \E w : AddsUp(w, Reserved(tn)) /\ held[tn] = w[Reserved(tn)]

LEMMA NothingAddsUp == \E w : AddsUp(w, {}) /\ w[{}] = 0
<1> DEFINE w == [S \in SUBSET {} |-> 0]
<1>1. AddsUp(w, {}) /\ w[{}] = 0
  BY DEF AddsUp
<1> QED
  BY <1>1

LEMMA OneMoreAddsUp ==
  ASSUME NEW R \in SUBSET Requests, NEW w, AddsUp(w, R), NEW q \in Requests \ R
  PROVE  \E v : AddsUp(v, R \cup {q}) /\ v[R \cup {q}] = w[R] + AmountOf[q]
<1> DEFINE v == [S \in SUBSET (R \cup {q}) |->
                   IF q \in S THEN w[S \ {q}] + AmountOf[q] ELSE w[S]]
<1>0. AmountOf \in [Requests -> Nat]
  BY ReservationAssumption
<1>1. \A S \in SUBSET (R \cup {q}) : S \ {q} \in SUBSET R /\ (q \notin S => S \in SUBSET R)
  OBVIOUS
<1>2. v \in [SUBSET (R \cup {q}) -> Nat]
  BY <1>0, <1>1 DEF AddsUp
<1>3. v[{}] = 0
  BY DEF AddsUp
<1>4. ASSUME NEW S \in SUBSET (R \cup {q}), NEW x \in S
      PROVE  v[S] = v[S \ {x}] + AmountOf[x]
  <2>1. CASE x = q
    <3>1. v[S] = w[S \ {q}] + AmountOf[q] /\ v[S \ {q}] = w[S \ {q}]
      BY <2>1
    <3> QED
      BY <2>1, <3>1
  <2>2. CASE x # q /\ q \in S
    <3>1. /\ S \ {q} \in SUBSET R /\ x \in S \ {q}
          /\ (S \ {x}) \ {q} = (S \ {q}) \ {x}
          /\ q \in S \ {x} /\ S \ {x} \in SUBSET (R \cup {q})
          /\ (S \ {q}) \ {x} \in SUBSET R
      BY <2>2
    <3>2. w[S \ {q}] = w[(S \ {q}) \ {x}] + AmountOf[x]
      BY <3>1 DEF AddsUp
    <3>3. v[S] = w[S \ {q}] + AmountOf[q]
      BY <2>2
    <3>4. v[S \ {x}] = w[(S \ {q}) \ {x}] + AmountOf[q]
      BY <3>1
    <3>5. /\ w[(S \ {q}) \ {x}] \in Nat /\ AmountOf[x] \in Nat /\ AmountOf[q] \in Nat
      BY <1>0, <3>1 DEF AddsUp
    <3> HIDE DEF v
    <3> QED
      BY <3>2, <3>3, <3>4, <3>5
  <2>3. CASE q \notin S
    <3>1. S \in SUBSET R /\ S \ {x} \in SUBSET (R \cup {q}) /\ q \notin S \ {x}
      BY <2>3
    <3> QED
      BY <2>3, <3>1 DEF AddsUp
  <2> QED
    BY <2>1, <2>2, <2>3
<1>5. v[R \cup {q}] = w[R] + AmountOf[q]
  <2>1. (R \cup {q}) \ {q} = R
    OBVIOUS
  <2> QED
    BY <2>1
<1>6. AddsUp(v, R \cup {q})
  BY <1>2, <1>3, <1>4 DEF AddsUp
<1> QED
  BY <1>5, <1>6

LEMMA OneLessAddsUp ==
  ASSUME NEW R \in SUBSET Requests, NEW w, AddsUp(w, R), NEW q \in R
  PROVE  /\ AmountOf[q] <= w[R]
         /\ \E v : AddsUp(v, R \ {q}) /\ v[R \ {q}] = w[R] - AmountOf[q]
<1> DEFINE v == [S \in SUBSET (R \ {q}) |-> w[S]]
<1>1. /\ w[R] = w[R \ {q}] + AmountOf[q]
      /\ w[R \ {q}] \in Nat /\ AmountOf[q] \in Nat
  BY ReservationAssumption DEF AddsUp
<1>2. v \in [SUBSET (R \ {q}) -> Nat] /\ v[{}] = 0
  BY DEF AddsUp
<1>3. ASSUME NEW S \in SUBSET (R \ {q}), NEW x \in S
      PROVE  v[S] = v[S \ {x}] + AmountOf[x]
  BY DEF AddsUp
<1>4. AddsUp(v, R \ {q}) /\ v[R \ {q}] = w[R \ {q}]
  BY <1>2, <1>3 DEF AddsUp
<1> HIDE DEF v
<1>5. AmountOf[q] <= w[R] /\ w[R \ {q}] = w[R] - AmountOf[q]
  BY <1>1
<1>6. AddsUp(v, R \ {q}) /\ v[R \ {q}] = w[R] - AmountOf[q]
  BY <1>4, <1>5
<1> QED
  BY <1>5, <1>6

\* An outcome ends one reservation: it is covered, and the rest still adds up.
LEMMA OutcomeAddsUp ==
  ASSUME TypeOK, HeldIsSum, NEW q \in Requests, settlePayout(q) \/ releasePayout(q)
  PROVE  AmountOf[q] <= held[TenantOf[q]] /\ HeldIsSum'
<1> DEFINE tn == TenantOf[q]
<1>1. /\ tn \in Tenants /\ AmountOf[q] \in Nat
      /\ row[q] = "reserved" /\ row'[q] # "reserved"
      /\ \A r \in Requests \ {q} : row'[r] = row[r]
      /\ held'[tn] = held[tn] - AmountOf[q]
      /\ \A u \in Tenants \ {tn} : held'[u] = held[u]
  BY ReservationAssumption DEF settlePayout, releasePayout, TypeOK
<1>2. PICK w : AddsUp(w, Reserved(tn)) /\ held[tn] = w[Reserved(tn)]
  BY <1>1 DEF HeldIsSum
<1>3. q \in Reserved(tn) /\ Reserved(tn) \in SUBSET Requests
  BY <1>1 DEF Reserved
<1>4. /\ AmountOf[q] <= held[tn]
      /\ \E v : AddsUp(v, Reserved(tn) \ {q}) /\ v[Reserved(tn) \ {q}] = held[tn] - AmountOf[q]
  <2> DEFINE R == Reserved(tn)
  <2>1. R \in SUBSET Requests /\ AddsUp(w, R) /\ q \in R
    BY <1>2, <1>3
  <2> HIDE DEF R
  <2>2. /\ AmountOf[q] <= w[R]
        /\ \E v : AddsUp(v, R \ {q}) /\ v[R \ {q}] = w[R] - AmountOf[q]
    BY <2>1, OneLessAddsUp
  <2> QED
    BY <1>2, <2>2 DEF R
<1>5. /\ Reserved(tn)' = Reserved(tn) \ {q}
      /\ \A u \in Tenants \ {tn} : Reserved(u)' = Reserved(u)
  BY <1>1 DEF Reserved
<1> HIDE DEF tn
<1>6. ASSUME NEW u \in Tenants
      PROVE  \E w1 : AddsUp(w1, Reserved(u)') /\ held'[u] = w1[Reserved(u)']
  <2>1. CASE u = tn
    BY <1>1, <1>4, <1>5, <2>1
  <2>2. CASE u # tn
    BY <1>1, <1>5, <2>2 DEF HeldIsSum
  <2> QED
    BY <2>1, <2>2
<1>7. HeldIsSum'
  BY <1>6 DEF HeldIsSum, AddsUp
<1> QED
  BY <1>4, <1>7 DEF tn

LEMMA reserveAddsUp ==
  ASSUME TypeOK, HeldIsSum, NEW q \in Requests, row[q] = "none", reserve(q)
  PROVE  HeldIsSum'
<1> DEFINE tn == TenantOf[q]
<1>1. /\ tn \in Tenants /\ AmountOf[q] \in Nat
      /\ row'[q] = "reserved"
      /\ \A r \in Requests \ {q} : row'[r] = row[r]
      /\ held'[tn] = held[tn] + AmountOf[q]
      /\ \A u \in Tenants \ {tn} : held'[u] = held[u]
  BY ReservationAssumption DEF reserve, TypeOK
<1>2. PICK w : AddsUp(w, Reserved(tn)) /\ held[tn] = w[Reserved(tn)]
  BY <1>1 DEF HeldIsSum
<1>3. q \in Requests \ Reserved(tn) /\ Reserved(tn) \in SUBSET Requests
  BY DEF Reserved
<1>4. \E v : AddsUp(v, Reserved(tn) \cup {q}) /\ v[Reserved(tn) \cup {q}] = held[tn] + AmountOf[q]
  <2> DEFINE R == Reserved(tn)
  <2>1. R \in SUBSET Requests /\ AddsUp(w, R) /\ q \in Requests \ R
    BY <1>2, <1>3
  <2> HIDE DEF R
  <2>2. \E v : AddsUp(v, R \cup {q}) /\ v[R \cup {q}] = w[R] + AmountOf[q]
    BY <2>1, OneMoreAddsUp
  <2> QED
    BY <1>2, <2>2 DEF R
<1>5. /\ Reserved(tn)' = Reserved(tn) \cup {q}
      /\ \A u \in Tenants \ {tn} : Reserved(u)' = Reserved(u)
  BY <1>1 DEF Reserved
<1> HIDE DEF tn
<1>6. ASSUME NEW u \in Tenants
      PROVE  \E w1 : AddsUp(w1, Reserved(u)') /\ held'[u] = w1[Reserved(u)']
  <2>1. CASE u = tn
    BY <1>1, <1>4, <1>5, <2>1
  <2>2. CASE u # tn
    BY <1>1, <1>5, <2>2 DEF HeldIsSum
  <2> QED
    BY <2>1, <2>2
<1> QED
  BY <1>6 DEF HeldIsSum, AddsUp

\* the row is inserted in the last step of the transaction
NotYet ==
  \A q \in Requests : pc[q] \in {"idle", "begin", "locked", "checked"} => row[q] = "none"

LEMMA NextNotYet == TypeOK /\ NotYet /\ [Next]_vars => NotYet'
<1> SUFFICES ASSUME TypeOK, NotYet, [Next]_vars
             PROVE  NotYet'
  OBVIOUS
<1> USE DEF TypeOK, NotYet, Goto
<1>1. CASE UNCHANGED vars
  BY <1>1 DEF vars
<1>2. ASSUME NEW q \in Requests, InitiateStep(q) \/ abort(q)
      PROVE  NotYet'
  BY <1>2 DEF InitiateStep, preCheck, lockTenantBalance, readBalance, reserve, conflict,
       replay, abort
<1>3. ASSUME NEW tn \in Tenants, NEW n \in Collected, settleCollection(tn, n)
      PROVE  NotYet'
  BY <1>3 DEF settleCollection
<1>4. ASSUME NEW q \in Requests, settlePayout(q) \/ releasePayout(q)
      PROVE  NotYet'
  BY <1>4 DEF settlePayout, releasePayout
<1> QED
  BY <1>1, <1>2, <1>3, <1>4 DEF Next, Movement

SumInv == IInv /\ NotYet /\ HeldIsSum

LEMMA InitSumInv == Init => SumInv
<1> SUFFICES ASSUME Init PROVE NotYet /\ HeldIsSum
  BY InitIInv DEF SumInv
<1>1. NotYet
  BY DEF Init, NotYet
<1>2. \A tn \in Tenants : Reserved(tn) = {} /\ held[tn] = 0
  BY DEF Init, Reserved
<1>3. HeldIsSum
  BY <1>2, NothingAddsUp DEF HeldIsSum
<1> QED
  BY <1>1, <1>3

LEMMA OtherStepsKeepSum ==
  ASSUME HeldIsSum, UNCHANGED <<row, held>>
  PROVE  HeldIsSum'
<1>1. ASSUME NEW tn \in Tenants
      PROVE  \E w : AddsUp(w, Reserved(tn)') /\ held'[tn] = w[Reserved(tn)']
  <2>1. Reserved(tn)' = Reserved(tn) /\ held'[tn] = held[tn]
    BY DEF Reserved
  <2> QED
    BY <2>1 DEF HeldIsSum
<1> QED
  BY <1>1 DEF HeldIsSum, AddsUp

LEMMA NextHeldIsSum == SumInv /\ [Next]_vars => HeldIsSum'
<1> SUFFICES ASSUME SumInv, [Next]_vars
             PROVE  HeldIsSum'
  OBVIOUS
<1>1. CASE UNCHANGED <<row, held>>
  BY <1>1, OtherStepsKeepSum DEF SumInv
<1>2. ASSUME NEW q \in Requests, reserve(q)
      PROVE  HeldIsSum'
  BY <1>2, reserveAddsUp DEF SumInv, IInv, NotYet, reserve
<1>3. ASSUME NEW q \in Requests, settlePayout(q) \/ releasePayout(q)
      PROVE  HeldIsSum'
  BY <1>3, OutcomeAddsUp DEF SumInv, IInv
<1> QED
  BY <1>1, <1>2, <1>3
     DEF Next, Movement, InitiateStep, preCheck, lockTenantBalance, readBalance,
         conflict, replay, abort, settleCollection, vars, accounts

LEMMA SumInvInvariant == Spec => []SumInv
<1>1. SumInv /\ [Next]_vars => SumInv'
  BY NextTypeOK, NextLockProtectsRead, NextNoOverdraft, NextNotYet, NextHeldIsSum
     DEF SumInv, IInv
<1> QED
  BY InitSumInv, <1>1, PTL DEF Spec

LEMMA StepIsAccountStep ==
  SumInv /\ [Next]_vars => [Account!Next]_<<balance, held, paidOut>>
<1> SUFFICES ASSUME SumInv, [Next]_vars
             PROVE  Account!Next \/ UNCHANGED <<balance, held, paidOut>>
  OBVIOUS
<1> DEFINE Amounts == Collected \cup {AmountOf[q] : q \in Requests}
<1>1. ASSUME NEW q \in Requests, reserve(q)
      PROVE  Account!Authorise(TenantOf[q], AmountOf[q])
  <2>1. /\ seen[q] \in Int /\ balance[TenantOf[q]] \in Int /\ AmountOf[q] \in Int
        /\ AmountOf[q] <= seen[q] /\ seen[q] <= balance[TenantOf[q]]
    <3>1. TypeOK /\ LockProtectsRead /\ pc[q] = "checked"
      BY <1>1 DEF reserve, SumInv, IInv
    <3>2. AmountOf[q] \in Int /\ TenantOf[q] \in Tenants
      BY ReservationAssumption
    <3> QED
      BY <3>1, <3>2 DEF LockProtectsRead, TypeOK
  <2>2. AmountOf[q] <= balance[TenantOf[q]]
    BY <2>1
  <2> QED
    BY <1>1, <2>2 DEF reserve, Account!Authorise
<1>2. ASSUME NEW q \in Requests, settlePayout(q) \/ releasePayout(q)
      PROVE  Account!PayOut(TenantOf[q], AmountOf[q]) \/ Account!GiveBack(TenantOf[q], AmountOf[q])
  <2>1. AmountOf[q] <= held[TenantOf[q]]
    BY <1>2, OutcomeAddsUp DEF SumInv, IInv
  <2> QED
    BY <1>2, <2>1 DEF settlePayout, releasePayout, Account!PayOut, Account!GiveBack
<1>3. ASSUME NEW tn \in Tenants, NEW n \in Collected, settleCollection(tn, n)
      PROVE  Account!Collect(tn, n)
  BY <1>3 DEF settleCollection, Account!Collect
<1>4. \A q \in Requests : TenantOf[q] \in Tenants /\ AmountOf[q] \in Amounts
  BY ReservationAssumption
<1>5. Account!Next <=>
        \E tn \in Tenants, n \in Amounts :
          \/ Account!Collect(tn, n) \/ Account!Authorise(tn, n)
          \/ Account!PayOut(tn, n) \/ Account!GiveBack(tn, n)
  BY DEF Account!Next
<1>6. \/ UNCHANGED <<balance, held, paidOut>>
      \/ \E q \in Requests : reserve(q) \/ settlePayout(q) \/ releasePayout(q)
      \/ \E tn \in Tenants, n \in Collected : settleCollection(tn, n)
  BY DEF Next, Movement, InitiateStep, preCheck, lockTenantBalance, readBalance,
         conflict, replay, abort, vars, accounts
<1>7. ASSUME NEW q \in Requests, reserve(q) \/ settlePayout(q) \/ releasePayout(q)
      PROVE  Account!Next
  BY <1>1, <1>2, <1>4, <1>5, <1>7
<1>8. ASSUME NEW tn \in Tenants, NEW n \in Collected, settleCollection(tn, n)
      PROVE  Account!Next
  BY <1>3, <1>5, <1>8
<1> QED
  BY <1>6, <1>7, <1>8

\* The look-up, the lock, the read, the comparison and the commit of
\* B2cService.initiate, interleaved with the outcomes of other payouts, add up to
\* an account that authorises a payout only when it is covered at that moment.
THEOREM ReservationImplementsAccount == Spec => ImplementsAccount
<1>1. Init => Account!Init
  BY DEF Init, Account!Init
<1> QED
  BY <1>1, StepIsAccountStep, SumInvInvariant, PTL DEF Spec, ImplementsAccount, Account!Spec

=============================================================================
