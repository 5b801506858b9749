------------------------ MODULE RequestAccountingProofs ------------------------
(***************************************************************************)
(* Proofs about RequestAccounting, for any number of users, requests,      *)
(* costs, limits, days and faults.                                         *)
(***************************************************************************)
EXTENDS RequestAccounting, FiniteSetTheorems, TLAPS

Grant == [Accounts -> Nat]

-------------------------------------------------------------------------------
\* Typing of the helpers.

LEMMA AccountsOf ==
    ASSUME NEW r \in Requests, day \in 0 .. LastDay
    PROVE  /\ Quota(r) \in Accounts
           /\ Daily(r) \in Accounts
           /\ Idle(r) \in Accounts
           /\ \A a \in Accounts : LimitOf(a) \in LimitKeys
BY AccountingAssumption DEF Quota, Daily, Idle, Accounts, Pools, LimitOf, LimitKeys

LEMMA PoolGrantsType ==
    ASSUME NEW r \in Requests, day \in 0 .. LastDay
    PROVE  PoolGrants(r) \subseteq Grant
<1>1. Nothing \in Grant
    BY DEF Nothing, Grant
<1>2. Count[r] \in Nat
    BY AccountingAssumption
<1>3. \A a \in Accounts, n \in Nat : OnlyOn(a, n) \in Grant
    BY <1>1 DEF OnlyOn, Grant
<1>4. /\ OnlyOn(Daily(r), Count[r]) \in Grant
      /\ OnlyOn(Idle(r), 1) \in Grant
    BY <1>2, <1>3, AccountsOf
<1> QED
    BY <1>1, <1>4 DEF PoolGrants

LEMMA ChargedType ==
    ASSUME NEW r \in Requests
    PROVE  Charged(r) \in Nat
BY AccountingAssumption DEF Charged

LEMMA GrantsType ==
    ASSUME NEW r \in Requests, day \in 0 .. LastDay
    PROVE  Grants(r) \subseteq Grant
<1>1. SUFFICES ASSUME NEW h \in PoolGrants(r)
               PROVE  [h EXCEPT ![Quota(r)] = Charged(r)] \in Grant
    BY DEF Grants
<1>2. h \in Grant
    BY PoolGrantsType
<1> QED
    BY <1>2, ChargedType DEF Grant

LEMMA FailSetsType ==
    ASSUME NEW h, NEW F \in FailSets(h)
    PROVE  /\ F \subseteq Accounts
           /\ \A a \in F : h[a] > 0
BY DEF FailSets

LEMMA MinusType ==
    ASSUME NEW m \in Nat, NEW n \in Nat
    PROVE  Minus(m, n) \in Nat
BY DEF Minus

LEMMA LedgerWriteType ==
    ASSUME used \in Grant, reserved \in Grant, NEW h \in Grant, NEW F,
           Releasing(h, F) \/ Confirming(h, F)
    PROVE  used' \in Grant /\ reserved' \in Grant
<1>1. \A a \in Accounts : used[a] \in Nat /\ reserved[a] \in Nat /\ h[a] \in Nat
    BY DEF Grant
<1>2. \A a \in Accounts : Minus(reserved[a], h[a]) \in Nat /\ used[a] + h[a] \in Nat
    BY <1>1 DEF Minus
<1> QED
    BY <1>1, <1>2 DEF Releasing, Confirming, Grant

LEMMA OutstandingType ==
    ASSUME TypeOK
    PROVE  InFlight \subseteq Requests \X Accounts /\ Outstanding \subseteq Requests \X Accounts
BY DEF TypeOK, Outstanding, InFlight

-------------------------------------------------------------------------------
\* Type correctness.

\* What Settling does to the types, whichever method calls it.
LEMMA SettlingType ==
    ASSUME TypeOK, NEW r \in Requests, NEW how \in {"charged", "refunded"},
           NEW F \in SettleFails(r), Settling(r, how, F)
    PROVE  /\ used' \in Grant /\ reserved' \in Grant
           /\ settled' \in [Requests -> {"no", "charged", "refunded"}]
           /\ orphan' \subseteq Requests \X Accounts
           /\ spent' \subseteq Requests \X Accounts
<1>1. CASE settled[r] = "no"
  <2>1. F \subseteq Accounts
    BY <1>1, FailSetsType DEF SettleFails
  <2>2. hold[r] \in Grant /\ used \in Grant /\ reserved \in Grant
    BY DEF TypeOK, Grant
  <2>3. Releasing(hold[r], F) \/ Confirming(hold[r], F)
    BY <1>1 DEF Settling
  <2>4. used' \in Grant /\ reserved' \in Grant
    BY <2>2, <2>3, LedgerWriteType
  <2> QED
    BY <1>1, <2>1, <2>4 DEF Settling, TypeOK
<1>2. CASE settled[r] # "no"
    BY <1>2 DEF Settling, TypeOK, ledger, Grant
<1> QED
    BY <1>1, <1>2

LEMMA FinalizingType ==
    ASSUME TypeOK, NEW r \in Requests, NEW status \in TerminalRow, NEW written \in BOOLEAN,
           FinalizingLog(r, status, written)
    PROVE  final' \in [Requests -> BOOLEAN] /\ row' \in [Requests -> RowStatus]
BY DEF TypeOK, FinalizingLog, TerminalRow, RowStatus

LEMMA TypeStep ==
    ASSUME TypeOK, [Next]_vars
    PROVE  TypeOK'
<1> USE DEF TypeOK
<1>1. ASSUME NEW r \in Requests, Admit(r)
      PROVE  TypeOK'
  <2>1. PICK h \in Grants(r) :
            /\ hold' = [hold EXCEPT ![r] = h]
            /\ reserved' = [a \in Accounts |-> reserved[a] + h[a]]
    BY <1>1 DEF Admit
  <2>2. h \in Grant
    BY GrantsType
  <2> QED
    BY <1>1, <2>1, <2>2 DEF Admit, Grant, Phases, RowStatus, history
<1>2. ASSUME NEW r \in Requests, AdmitInsertFails(r)
      PROVE  TypeOK'
  <2>0. PICK h \in Grants(r) : \E F \in FailSets(h) :
            /\ hold' = [hold EXCEPT ![r] = h]
            /\ reserved' = [a \in Accounts |-> IF a \in F THEN reserved[a] + h[a] ELSE reserved[a]]
            /\ orphan' = orphan \cup {<<r, a>> : a \in F}
    BY <1>2 DEF AdmitInsertFails
  <2>1. PICK F \in FailSets(h) :
            /\ hold' = [hold EXCEPT ![r] = h]
            /\ reserved' = [a \in Accounts |-> IF a \in F THEN reserved[a] + h[a] ELSE reserved[a]]
            /\ orphan' = orphan \cup {<<r, a>> : a \in F}
    BY <2>0
  <2>2. h \in Grant /\ F \subseteq Accounts
    BY GrantsType, FailSetsType
  <2>3. orphan' \subseteq Requests \X Accounts
    BY <2>1, <2>2
  <2>4. reserved' \in Grant
    BY <2>1, <2>2 DEF Grant
  <2> QED
    BY <1>2, <2>1, <2>2, <2>3, <2>4 DEF AdmitInsertFails, Grant, Phases
<1>3. ASSUME NEW r \in Requests, Reject(r)
      PROVE  TypeOK'
    BY <1>3 DEF Reject, CountFault, ledger, Phases, RowStatus
<1>4. ASSUME NEW r \in Requests, RejectReleaseFails(r)
      PROVE  TypeOK'
  <2>1. PICK h \in PoolGrants(r) :
            /\ hold' = [hold EXCEPT ![r] = h]
            /\ reserved' = [a \in Accounts |-> reserved[a] + h[a]]
            /\ orphan' = orphan \cup {<<r, a>> : a \in {b \in Accounts : h[b] > 0}}
    BY <1>4 DEF RejectReleaseFails
  <2>2. h \in Grant
    BY PoolGrantsType
  <2>3. orphan' \subseteq Requests \X Accounts
    BY <2>1
  <2>4. reserved' \in Grant
    BY <2>1, <2>2 DEF Grant
  <2> QED
    BY <1>4, <2>1, <2>2, <2>3, <2>4 DEF RejectReleaseFails, Grant, Phases, RowStatus
<1>5. ASSUME NEW r \in Requests, SettleReleased(r)
      PROVE  TypeOK'
  <2>1. PICK F \in SettleFails(r) : Settling(r, "refunded", F) /\ CountFault(F # {})
    BY <1>5 DEF SettleReleased, SettleFails
  <2>2. faults' \in Nat
    BY <2>1 DEF CountFault
  <2> QED
    BY <1>5, <2>1, <2>2, SettlingType DEF SettleReleased, Grant
<1>6. ASSUME NEW r \in Requests, NEW how \in {"charged", "refunded"}, NEW status \in TerminalRow,
             SettleAs(r, how, status)
      PROVE  TypeOK'
  <2>1. PICK F \in SettleFails(r), written \in BOOLEAN :
            /\ Settling(r, how, F)
            /\ IF Raises(F) THEN UNCHANGED <<final, row>> ELSE FinalizingLog(r, status, written)
            /\ CountFault(F # {} \/ ~written)
    BY <1>6 DEF SettleAs
  <2>2. faults' \in Nat
    BY <2>1 DEF CountFault
  <2>3. final' \in [Requests -> BOOLEAN] /\ row' \in [Requests -> RowStatus]
    BY <2>1, FinalizingType
  <2> QED
    BY <1>6, <2>1, <2>2, <2>3, SettlingType DEF SettleAs, Grant
<1>7. ASSUME NEW r \in Requests, RecordRetryFailure(r)
      PROVE  TypeOK'
  <2>1. final' \in [Requests -> BOOLEAN] /\ row' \in [Requests -> RowStatus]
    BY <1>7, FinalizingType DEF RecordRetryFailure, TerminalRow
  <2> QED
    BY <1>7, <2>1 DEF RecordRetryFailure, ledger, history
<1>8. ASSUME NEW r \in Requests, RecordRetryAttempt(r)
      PROVE  TypeOK'
    BY <1>8 DEF RecordRetryAttempt, ledger, history, RowStatus
<1>9. ASSUME NEW r \in Requests, RecordRetryAttemptFails(r)
      PROVE  TypeOK'
  <2>1. PICK F \in SettleFails(r) : Settling(r, "refunded", F)
    BY <1>9 DEF RecordRetryAttemptFails, SettleFails
  <2> QED
    BY <1>9, <2>1, SettlingType DEF RecordRetryAttemptFails, Grant
<1>10. ASSUME NEW a \in Accounts, ResetUsage(a)
       PROVE  TypeOK'
  <2>1. LimitOf(a) \in LimitKeys
    BY DEF LimitOf, LimitKeys, Accounts
  <2>2. Raised(0, limit[LimitOf(a)]) \in Nat
    BY <2>1 DEF Raised, Off
  <2> QED
    BY <1>10, <2>2 DEF ResetUsage, object, On
<1>11. ASSUME NEW k \in LimitKeys, NEW n \in Limits, SetLimit(k, n)
       PROVE  TypeOK'
  <2>1. n \in Nat \cup {Off}
    BY AccountingAssumption
  <2>2. \A a \in Accounts : Raised(cap[a], n) \in Nat
    BY <2>1 DEF Raised, Off
  <2> QED
    BY <1>11, <2>1, <2>2 DEF SetLimit, ledger, object
<1>12. ASSUME NextDay
       PROVE  TypeOK'
    BY <1>12, AccountingAssumption DEF NextDay, ledger, object, history
<1>13. ASSUME Crash
       PROVE  TypeOK'
    BY <1>13, OutstandingType DEF Crash, ledger, Phases
<1>14. ASSUME Restart
       PROVE  TypeOK'
    BY <1>14 DEF Restart, object, Nothing
<1>15. CASE UNCHANGED vars
    BY <1>15 DEF vars, ledger, object, history
<1> QED
    BY <1>1, <1>2, <1>3, <1>4, <1>5, <1>6, <1>7, <1>8, <1>9, <1>10, <1>11, <1>12, <1>13, <1>14, <1>15
    DEF Next, Arrival, Method, SettleSuccess, SettleFailure, SettleRejected, TerminalRow

LEMMA InitType == Init => TypeOK
<1>1. \A a \in Accounts : LimitOf(a) \in LimitKeys
    BY DEF LimitOf, LimitKeys, Accounts
<1>2. \A a \in Accounts : Raised(0, InitialLimit[LimitOf(a)]) \in Nat
    BY <1>1, AccountingAssumption DEF Raised, Off
<1> QED
    BY <1>2, AccountingAssumption DEF Init, TypeOK, Nothing, Phases, RowStatus

\* Every variable keeps its type, in every behaviour.
THEOREM TypeCorrect == Spec => []TypeOK
BY InitType, TypeStep, PTL DEF Spec

-------------------------------------------------------------------------------
\* Counting tokens.  Tok(S, a, h) is Tokens(S, a) with the grants h.

Pairs == Requests \X Accounts

Tok(S, a, h) == {x \in Requests \X Nat : <<x[1], a>> \in S /\ x[2] \in 1 .. h[x[1]][a]}

LEMMA TokensAreTok ==
    ASSUME NEW S \in SUBSET Pairs, NEW a \in Accounts, NEW h \in [Requests -> Grant]
    PROVE  UNION {{p[1]} \X (1 .. h[p[1]][a]) : p \in {q \in S : q[2] = a}} = Tok(S, a, h)
<1> DEFINE T == UNION {{p[1]} \X (1 .. h[p[1]][a]) : p \in {q \in S : q[2] = a}}
<1>1. ASSUME NEW x \in T PROVE x \in Tok(S, a, h)
  <2>1. PICK p \in S : p[2] = a /\ x \in {p[1]} \X (1 .. h[p[1]][a])
    OBVIOUS
  <2>2. p \in Requests \X Accounts
    BY DEF Pairs
  <2>3. p = <<p[1], a>> /\ p[1] \in Requests
    BY <2>1, <2>2
  <2>4. x[1] = p[1] /\ x[2] \in 1 .. h[p[1]][a] /\ x = <<x[1], x[2]>>
    BY <2>1
  <2>5. x \in Requests \X Nat
    BY <2>3, <2>4
  <2> QED
    BY <2>1, <2>3, <2>4, <2>5 DEF Tok
<1>2. ASSUME NEW x \in Tok(S, a, h) PROVE x \in T
  <2> DEFINE p == <<x[1], a>>
  <2>1. p \in S /\ p[2] = a /\ p[1] = x[1]
    BY DEF Tok
  <2>2. x \in {x[1]} \X (1 .. h[x[1]][a])
    BY DEF Tok
  <2>3. x \in {p[1]} \X (1 .. h[p[1]][a])
    BY <2>1, <2>2
  <2> QED
    BY <2>1, <2>3
<1> QED
    BY <1>1, <1>2

Block(r, n) == {r} \X (1 .. n)

LEMMA BlockSize ==
    ASSUME NEW r, NEW n \in Nat
    PROVE  IsFiniteSet(Block(r, n)) /\ Cardinality(Block(r, n)) = n
<1> DEFINE A == {r}
           B == 1 .. n
<1>1. IsFiniteSet(A) /\ Cardinality(A) = 1
    BY FS_Singleton
<1>2. 1 \in Int /\ n \in Int
    OBVIOUS
<1>3. IsFiniteSet(B) /\ Cardinality(B) = IF 1 > n THEN 0 ELSE n - 1 + 1
    BY <1>2, FS_Interval
<1>4. Cardinality(B) = n
    BY <1>3
<1> HIDE DEF A, B
<1>5. IsFiniteSet(A \X B) /\ Cardinality(A \X B) = Cardinality(A) * Cardinality(B)
    BY <1>1, <1>3, FS_Product
<1>6. IsFiniteSet(A \X B) /\ Cardinality(A \X B) = n
    BY <1>1, <1>4, <1>5
<1> QED
    BY <1>6 DEF A, B, Block

\* Only the members on account a count, and only their grants.
LEMMA TokSame ==
    ASSUME NEW S, NEW U, NEW a \in Accounts, NEW h, NEW k,
           \A r \in Requests : <<r, a>> \in S <=> <<r, a>> \in U,
           \A r \in Requests : <<r, a>> \in S => h[r][a] = k[r][a]
    PROVE  Tok(S, a, h) = Tok(U, a, k)
BY DEF Tok

LEMMA TokEmpty ==
    ASSUME NEW S, NEW a \in Accounts, NEW h,
           \A r \in Requests : <<r, a>> \notin S
    PROVE  IsFiniteSet(Tok(S, a, h)) /\ Cardinality(Tok(S, a, h)) = 0
<1>1. Tok(S, a, h) = {}
    BY DEF Tok
<1> QED
    BY <1>1, FS_EmptySet

\* One more grant, and one less.
LEMMA AddGrant ==
    ASSUME NEW T, NEW r, NEW n \in Nat, IsFiniteSet(T), T \cap Block(r, n) = {}
    PROVE  /\ IsFiniteSet(T \cup Block(r, n))
           /\ Cardinality(T \cup Block(r, n)) = Cardinality(T) + n
<1> DEFINE New == Block(r, n)
<1>1. IsFiniteSet(New) /\ Cardinality(New) = n
    BY BlockSize
<1>2. T \cap New = {}
    OBVIOUS
<1> HIDE DEF New
<1>3. /\ IsFiniteSet(T \cup New)
      /\ Cardinality(T \cup New) = Cardinality(T) + Cardinality(New) - Cardinality(T \cap New)
    BY <1>1, FS_Union
<1>4. Cardinality(T \cap New) = 0
    BY <1>2, FS_EmptySet
<1>5. Cardinality(T) \in Nat
    BY FS_CardinalityType
<1>6. IsFiniteSet(T \cup New) /\ Cardinality(T \cup New) = Cardinality(T) + n
    BY <1>1, <1>3, <1>4, <1>5
<1> QED
    BY <1>6 DEF New

LEMMA TokAdd ==
    ASSUME NEW S, NEW U, NEW a \in Accounts, NEW h, NEW k,
           NEW r \in Requests, <<r, a>> \notin S, k[r][a] \in Nat,
           \A q \in Requests : <<q, a>> \in U <=> <<q, a>> \in S \/ q = r,
           \A q \in Requests : <<q, a>> \in S => h[q][a] = k[q][a]
    PROVE  /\ Tok(U, a, k) = Tok(S, a, h) \cup Block(r, k[r][a])
           /\ Tok(S, a, h) \cap Block(r, k[r][a]) = {}
<1> DEFINE New == Block(r, k[r][a])
<1>1. ASSUME NEW x \in Tok(U, a, k) PROVE x \in Tok(S, a, h) \cup New
  <2>1. CASE x[1] = r
      BY <2>1 DEF Tok, Block
  <2>2. CASE x[1] # r
      BY <2>2 DEF Tok
  <2> QED
      BY <2>1, <2>2
<1>2. Tok(S, a, h) \subseteq Tok(U, a, k)
    BY DEF Tok
<1>3. New \subseteq Tok(U, a, k)
  <2>1. 1 .. k[r][a] \subseteq Nat
    OBVIOUS
  <2> QED
    BY <2>1 DEF Tok, Block
<1>4. Tok(S, a, h) \cap New = {}
    BY DEF Tok, Block
<1> QED
    BY <1>1, <1>2, <1>3, <1>4

\* U is S and the request r, on account a; the grants h and k agree on S.
Joins(S, U, a, h, k, r) ==
    /\ a \in Accounts
    /\ r \in Requests
    /\ <<r, a>> \notin S
    /\ k[r][a] \in Nat
    /\ \A q \in Requests : <<q, a>> \in U <=> <<q, a>> \in S \/ q = r
    /\ \A q \in Requests : <<q, a>> \in S => h[q][a] = k[q][a]
    /\ IsFiniteSet(Tok(S, a, h))

\* Adding a member to the set counts its grant.
LEMMA CountAdd ==
    ASSUME NEW S, NEW U, NEW a, NEW h, NEW k, NEW r, Joins(S, U, a, h, k, r)
    PROVE  /\ IsFiniteSet(Tok(U, a, k))
           /\ Cardinality(Tok(U, a, k)) = Cardinality(Tok(S, a, h)) + k[r][a]
<1>1. /\ Tok(U, a, k) = Tok(S, a, h) \cup Block(r, k[r][a])
      /\ Tok(S, a, h) \cap Block(r, k[r][a]) = {}
    BY TokAdd DEF Joins
<1>2. IsFiniteSet(Tok(S, a, h)) /\ k[r][a] \in Nat
    BY DEF Joins
<1>3. /\ IsFiniteSet(Tok(S, a, h) \cup Block(r, k[r][a]))
      /\ Cardinality(Tok(S, a, h) \cup Block(r, k[r][a])) = Cardinality(Tok(S, a, h)) + k[r][a]
    BY ONLY <1>1, <1>2, AddGrant
<1> QED
    BY <1>1, <1>3

\* U is S without the request r, on account a.
Leaves(S, U, a, h, r) ==
    /\ a \in Accounts
    /\ r \in Requests
    /\ <<r, a>> \in S
    /\ h[r][a] \in Nat
    /\ \A q \in Requests : <<q, a>> \in U <=> <<q, a>> \in S /\ q # r
    /\ IsFiniteSet(Tok(S, a, h))

\* Removing it takes its grant off the count.
LEMMA CountRemove ==
    ASSUME NEW S, NEW U, NEW a, NEW h, NEW r, Leaves(S, U, a, h, r)
    PROVE  /\ IsFiniteSet(Tok(U, a, h))
           /\ Cardinality(Tok(S, a, h)) = Cardinality(Tok(U, a, h)) + h[r][a]
<1>1. Tok(U, a, h) \subseteq Tok(S, a, h)
    BY DEF Tok, Leaves
<1>2. IsFiniteSet(Tok(U, a, h))
    BY <1>1, FS_Subset DEF Leaves
<1>3. /\ \A q \in Requests : <<q, a>> \in S <=> <<q, a>> \in U \/ q = r
      /\ <<r, a>> \notin U
      /\ h[r][a] \in Nat /\ a \in Accounts /\ r \in Requests
    BY DEF Leaves
<1>5. /\ Tok(S, a, h) = Tok(U, a, h) \cup Block(r, h[r][a])
      /\ Tok(U, a, h) \cap Block(r, h[r][a]) = {}
    BY <1>3, TokAdd
<1>6. /\ IsFiniteSet(Tok(U, a, h) \cup Block(r, h[r][a]))
      /\ Cardinality(Tok(U, a, h) \cup Block(r, h[r][a])) = Cardinality(Tok(U, a, h)) + h[r][a]
    BY ONLY <1>2, <1>3, <1>5, AddGrant
<1> QED
    BY <1>2, <1>5, <1>6

-------------------------------------------------------------------------------
\* The inductive invariant.

LedgerInvAt(a) ==
    /\ IsFiniteSet(Tok(Outstanding, a, hold))
    /\ IsFiniteSet(Tok(spent, a, hold))
    /\ reserved[a] <= Cardinality(Tok(Outstanding, a, hold))
    /\ used[a] = Cardinality(Tok(spent, a, hold))
    /\ a \notin skewed => /\ reserved[a] = Cardinality(Tok(Outstanding, a, hold))
                          /\ used[a] + reserved[a] <= cap[a]

LedgerInv == \A a \in Accounts : LedgerInvAt(a)

IInv == TypeOK /\ Bookkeeping /\ LedgerInv

\* An account that a step does not touch, whose cap may only have grown.
LEMMA UntouchedAt ==
    ASSUME NEW a \in Accounts, TypeOK, TypeOK', LedgerInvAt(a),
           \A r \in Requests : <<r, a>> \in Outstanding <=> <<r, a>> \in Outstanding',
           \A r \in Requests : <<r, a>> \in spent <=> <<r, a>> \in spent',
           \A r \in Requests : <<r, a>> \in Outstanding \cup spent => hold[r][a] = hold'[r][a],
           reserved'[a] = reserved[a], used'[a] = used[a],
           a \notin skewed' => a \notin skewed /\ cap[a] <= cap'[a]
    PROVE  LedgerInvAt(a)'
<1>1. Tok(Outstanding, a, hold) = Tok(Outstanding', a, hold')
    BY TokSame
<1>2. Tok(spent, a, hold) = Tok(spent', a, hold')
    BY TokSame
<1>3. reserved[a] \in Nat /\ used[a] \in Nat /\ cap[a] \in Nat /\ cap'[a] \in Nat
    BY DEF TypeOK
<1> QED
    BY <1>1, <1>2, <1>3 DEF LedgerInvAt

\* A request takes a grant that fits.
LEMMA GrantedAt ==
    ASSUME NEW a \in Accounts, NEW r \in Requests, TypeOK, TypeOK', LedgerInvAt(a),
           <<r, a>> \notin Outstanding, <<r, a>> \notin spent,
           \A q \in Requests : <<q, a>> \in Outstanding' <=> <<q, a>> \in Outstanding \/ q = r,
           \A q \in Requests : q # r => hold'[q] = hold[q],
           reserved'[a] = reserved[a] + hold'[r][a],
           used[a] + reserved[a] + hold'[r][a] <= cap[a],
           UNCHANGED <<used, spent, skewed, cap>>
    PROVE  LedgerInvAt(a)'
<1>0. hold'[r][a] \in Nat /\ reserved[a] \in Nat /\ used[a] \in Nat /\ cap[a] \in Nat
    BY DEF TypeOK
<1>j. Joins(Outstanding, Outstanding', a, hold, hold', r)
    BY <1>0 DEF LedgerInvAt, Joins
<1>1. /\ IsFiniteSet(Tok(Outstanding', a, hold'))
      /\ Cardinality(Tok(Outstanding', a, hold')) = Cardinality(Tok(Outstanding, a, hold)) + hold'[r][a]
    BY <1>j, CountAdd
<1>2. Tok(spent, a, hold) = Tok(spent', a, hold')
    BY TokSame
<1>3. Cardinality(Tok(Outstanding, a, hold)) \in Nat
    BY FS_CardinalityType DEF LedgerInvAt
<1> QED
    BY <1>0, <1>1, <1>2, <1>3 DEF LedgerInvAt

\* A request gives its grant back.
LEMMA ReleasedAt ==
    ASSUME NEW a \in Accounts, NEW r \in Requests, TypeOK, TypeOK', LedgerInvAt(a),
           <<r, a>> \in Outstanding,
           \A q \in Requests : <<q, a>> \in Outstanding' <=> <<q, a>> \in Outstanding /\ q # r,
           \A q \in Requests : <<q, a>> \in spent <=> <<q, a>> \in spent',
           reserved'[a] = Minus(reserved[a], hold[r][a]),
           used'[a] = used[a],
           UNCHANGED <<hold, skewed, cap>>
    PROVE  LedgerInvAt(a)'
<1>0. hold[r][a] \in Nat /\ reserved[a] \in Nat /\ used[a] \in Nat /\ cap[a] \in Nat
    BY DEF TypeOK
<1>l. Leaves(Outstanding, Outstanding', a, hold, r)
    BY <1>0 DEF LedgerInvAt, Leaves
<1>1. /\ IsFiniteSet(Tok(Outstanding', a, hold))
      /\ Cardinality(Tok(Outstanding, a, hold)) = Cardinality(Tok(Outstanding', a, hold)) + hold[r][a]
    BY <1>l, CountRemove
<1>2. Tok(spent, a, hold) = Tok(spent', a, hold)
    BY TokSame
<1>3. Cardinality(Tok(Outstanding', a, hold)) \in Nat
    BY <1>1, FS_CardinalityType
<1> QED
    BY <1>0, <1>1, <1>2, <1>3 DEF LedgerInvAt, Minus

\* A request is charged for its grant.
LEMMA ChargedAt ==
    ASSUME NEW a \in Accounts, NEW r \in Requests, TypeOK, TypeOK', LedgerInvAt(a),
           <<r, a>> \in Outstanding, <<r, a>> \notin spent,
           \A q \in Requests : <<q, a>> \in Outstanding' <=> <<q, a>> \in Outstanding /\ q # r,
           \A q \in Requests : <<q, a>> \in spent' <=> <<q, a>> \in spent \/ q = r,
           reserved'[a] = Minus(reserved[a], hold[r][a]),
           used'[a] = used[a] + hold[r][a],
           UNCHANGED <<hold, skewed, cap>>
    PROVE  LedgerInvAt(a)'
<1>0. hold[r][a] \in Nat /\ reserved[a] \in Nat /\ used[a] \in Nat /\ cap[a] \in Nat
    BY DEF TypeOK
<1>l. Leaves(Outstanding, Outstanding', a, hold, r)
    BY <1>0 DEF LedgerInvAt, Leaves
<1>1. /\ IsFiniteSet(Tok(Outstanding', a, hold))
      /\ Cardinality(Tok(Outstanding, a, hold)) = Cardinality(Tok(Outstanding', a, hold)) + hold[r][a]
    BY <1>l, CountRemove
<1>j. Joins(spent, spent', a, hold, hold, r)
    BY <1>0 DEF LedgerInvAt, Joins
<1>2. /\ IsFiniteSet(Tok(spent', a, hold))
      /\ Cardinality(Tok(spent', a, hold)) = Cardinality(Tok(spent, a, hold)) + hold[r][a]
    BY <1>j, CountAdd
<1>3. Cardinality(Tok(Outstanding', a, hold)) \in Nat
    BY <1>1, FS_CardinalityType
<1> QED
    BY <1>0, <1>1, <1>2, <1>3 DEF LedgerInvAt, Minus

\* An account is reset; it stays exact only when nothing was in flight on it.
LEMMA ResetAt ==
    ASSUME NEW a \in Accounts, TypeOK, TypeOK', LedgerInvAt(a),
           \A q \in Requests : <<q, a>> \in Outstanding' => <<q, a>> \in Outstanding,
           \A q \in Requests : <<q, a>> \notin spent',
           a \notin skewed' => \A q \in Requests : <<q, a>> \notin Outstanding',
           reserved'[a] = 0, used'[a] = 0,
           UNCHANGED hold
    PROVE  LedgerInvAt(a)'
<1>1. Tok(Outstanding', a, hold) \subseteq Tok(Outstanding, a, hold)
    BY DEF Tok
<1>2. IsFiniteSet(Tok(Outstanding', a, hold))
    BY <1>1, FS_Subset DEF LedgerInvAt
<1>3. Cardinality(Tok(Outstanding', a, hold)) \in Nat
    BY <1>2, FS_CardinalityType
<1>4. IsFiniteSet(Tok(spent', a, hold)) /\ Cardinality(Tok(spent', a, hold)) = 0
    BY TokEmpty
<1>5. a \notin skewed' => Cardinality(Tok(Outstanding', a, hold)) = 0
    BY TokEmpty
<1>6. cap'[a] \in Nat
    BY DEF TypeOK
<1> QED
    BY <1>2, <1>3, <1>4, <1>5, <1>6 DEF LedgerInvAt

-------------------------------------------------------------------------------
\* Membership of Outstanding, now and after a step.

LEMMA OutstandingIn ==
    /\ \A r \in Requests, a \in Accounts :
        /\ <<r, a>> \in InFlight <=> phase[r] = "open" /\ settled[r] = "no" /\ hold[r][a] > 0
        /\ <<r, a>> \in Outstanding <=>
                \/ phase[r] = "open" /\ settled[r] = "no" /\ hold[r][a] > 0
                \/ <<r, a>> \in orphan
    /\ \A r \in Requests, a \in Accounts :
        /\ <<r, a>> \in InFlight' <=> phase'[r] = "open" /\ settled'[r] = "no" /\ hold'[r][a] > 0
        /\ <<r, a>> \in Outstanding' <=>
                \/ phase'[r] = "open" /\ settled'[r] = "no" /\ hold'[r][a] > 0
                \/ <<r, a>> \in orphan'
BY DEF Outstanding, InFlight

\* A grant of zero units changes nothing, so the ledger writes of a settlement can be
\* read account by account.
LEMMA SettlingAt ==
    ASSUME TypeOK, TypeOK', Bookkeeping, LedgerInv,
           NEW r \in Requests, Open(r), NEW how \in {"charged", "refunded"},
           NEW F \in SettleFails(r), Settling(r, how, F),
           UNCHANGED <<phase, hold, skewed, cap>>
    PROVE  LedgerInv'
<1>1. CASE settled[r] # "no"
  <2>1. UNCHANGED <<settled, used, reserved, orphan, spent>>
      BY <1>1 DEF Settling, ledger
  <2>2. UNCHANGED Outstanding
      BY <2>1 DEF Outstanding, InFlight
  <2>3. ASSUME NEW a \in Accounts PROVE LedgerInvAt(a)'
    <3>1. LedgerInvAt(a)
        BY DEF LedgerInv
    <3> QED
        BY <2>1, <2>2, <3>1 DEF LedgerInvAt, Tok
  <2> QED
      BY <2>3 DEF LedgerInv
<1>2. CASE settled[r] = "no"
  <2> SUFFICES ASSUME NEW a \in Accounts PROVE LedgerInvAt(a)'
      BY DEF LedgerInv
  <2>0. LedgerInvAt(a)
      BY DEF LedgerInv
  <2>1. /\ settled' = [settled EXCEPT ![r] = how]
        /\ IF how = "charged" THEN Confirming(hold[r], F) ELSE Releasing(hold[r], F)
        /\ orphan' = orphan \cup {<<r, b>> : b \in F}
        /\ spent' = IF how = "charged"
                    THEN spent \cup {<<r, b>> : b \in {c \in Accounts \ F : hold[r][c] > 0}}
                    ELSE spent
      BY <1>2 DEF Settling
  <2>2. /\ phase[r] = "open"
        /\ F \subseteq Accounts
        /\ \A b \in F : hold[r][b] > 0
      BY <1>2, FailSetsType DEF Open, SettleFails
  <2>3. /\ settled'[r] # "no"
        /\ \A q \in Requests : q # r => settled'[q] = settled[q]
      BY <2>1 DEF TypeOK
  <2>4. /\ \A q \in Requests : <<q, a>> \in orphan' <=> <<q, a>> \in orphan \/ (q = r /\ a \in F)
        /\ \A q \in Requests : <<q, a>> \in spent' <=>
                \/ <<q, a>> \in spent
                \/ q = r /\ how = "charged" /\ a \notin F /\ hold[r][a] > 0
      BY <2>1
  <2>5. /\ \A b \in Accounts : <<r, b>> \notin spent
        /\ hold[r][a] > 0 => <<r, a>> \notin orphan
    <3>1. hold[r][a] > 0 => <<r, a>> \in InFlight
        BY <1>2, <2>2, OutstandingIn
    <3> QED
        BY <1>2, <3>1 DEF Bookkeeping
  <2>6. /\ hold[r][a] \in Nat /\ reserved[a] \in Nat /\ used[a] \in Nat
      BY DEF TypeOK
  <2>7. CASE hold[r][a] = 0 \/ a \in F
    <3>1. reserved'[a] = reserved[a] /\ used'[a] = used[a]
        BY <2>1, <2>6, <2>7 DEF Confirming, Releasing, Minus
    <3>2. \A q \in Requests : <<q, a>> \in Outstanding <=> <<q, a>> \in Outstanding'
        BY <1>2, <2>2, <2>3, <2>4, <2>6, <2>7, OutstandingIn
    <3>3. \A q \in Requests : <<q, a>> \in spent <=> <<q, a>> \in spent'
        BY <2>4, <2>6, <2>7
    <3>4. cap[a] <= cap'[a]
        BY DEF TypeOK
    <3> QED
        BY <2>0, <3>1, <3>2, <3>3, <3>4, UntouchedAt
  <2>8. CASE hold[r][a] > 0 /\ a \notin F
    <3>1. <<r, a>> \in Outstanding
        BY <1>2, <2>2, <2>8, OutstandingIn
    <3>2. \A q \in Requests : <<q, a>> \in Outstanding' <=> <<q, a>> \in Outstanding /\ q # r
        BY <2>2, <2>3, <2>4, <2>5, <2>8, OutstandingIn
    <3>3. CASE how = "charged"
      <4>1. reserved'[a] = Minus(reserved[a], hold[r][a]) /\ used'[a] = used[a] + hold[r][a]
          BY <2>1, <2>8, <3>3 DEF Confirming
      <4>2. \A q \in Requests : <<q, a>> \in spent' <=> <<q, a>> \in spent \/ q = r
          BY <2>4, <2>8, <3>3
      <4> QED
          BY <2>0, <2>5, <3>1, <3>2, <4>1, <4>2, ChargedAt
    <3>4. CASE how # "charged"
      <4>1. reserved'[a] = Minus(reserved[a], hold[r][a]) /\ used'[a] = used[a]
          BY <2>1, <2>8, <3>4 DEF Releasing
      <4>2. \A q \in Requests : <<q, a>> \in spent <=> <<q, a>> \in spent'
          BY <2>4, <3>4
      <4> QED
          BY <2>0, <3>1, <3>2, <4>1, <4>2, ReleasedAt
    <3> QED
        BY <3>3, <3>4
  <2> QED
      BY <2>6, <2>7, <2>8
<1> QED
    BY <1>1, <1>2

-------------------------------------------------------------------------------
\* Every step preserves Bookkeeping.

LEMMA SettlingBookkeeping ==
    ASSUME TypeOK, Bookkeeping, NEW r \in Requests, Open(r),
           NEW how \in {"charged", "refunded"}, NEW F \in SettleFails(r), Settling(r, how, F),
           UNCHANGED <<phase, hold>>
    PROVE  /\ \A q \in Requests : settled[q] # "no" => settled'[q] = settled[q]
           /\ \A q \in Requests : q # r => settled'[q] = settled[q]
           /\ \A p \in orphan' \cup spent' : phase'[p[1]] # "new"
           /\ \A p \in spent' : settled'[p[1]] = "charged"
           /\ orphan' \cap InFlight' = {}
<1>1. CASE settled[r] # "no"
  <2>1. UNCHANGED <<settled, orphan, spent, InFlight>>
      BY <1>1 DEF Settling, InFlight
  <2> QED
      BY <2>1 DEF Bookkeeping
<1>2. CASE settled[r] = "no"
  <2>1. /\ settled' = [settled EXCEPT ![r] = how]
        /\ orphan' = orphan \cup {<<r, b>> : b \in F}
        /\ spent' = IF how = "charged"
                    THEN spent \cup {<<r, b>> : b \in {c \in Accounts \ F : hold[r][c] > 0}}
                    ELSE spent
      BY <1>2 DEF Settling
  <2>2. settled'[r] = how /\ \A q \in Requests : q # r => settled'[q] = settled[q]
      BY <2>1 DEF TypeOK
  <2>3. phase[r] = "open" /\ phase'[r] = "open"
      BY DEF Open
  <2>4. \A p \in orphan' \cup spent' : p \in orphan \cup spent \/ p[1] = r
      BY <2>1
  <2>5. \A p \in orphan' \cup spent' : phase'[p[1]] # "new"
      BY <2>3, <2>4 DEF Bookkeeping
  <2>6. \A p \in spent' : settled'[p[1]] = "charged"
    <3>1. ASSUME NEW p \in spent' PROVE settled'[p[1]] = "charged"
      <4>1. CASE p \in spent
          BY <1>2, <2>2, <4>1 DEF Bookkeeping, TypeOK
      <4>2. CASE p \notin spent
          BY <2>1, <2>2, <4>2
      <4> QED
          BY <4>1, <4>2
    <3> QED
        BY <3>1
  <2>7. InFlight' \subseteq InFlight /\ \A p \in InFlight' : p[1] # r
      BY <2>2 DEF InFlight
  <2>8. orphan' \cap InFlight' = {}
      BY <2>1, <2>7 DEF Bookkeeping
  <2> QED
      BY <1>2, <2>2, <2>5, <2>6, <2>8
<1> QED
    BY <1>1, <1>2

LEMMA FinalizingBookkeeping ==
    ASSUME TypeOK, Bookkeeping, NEW r \in Requests, NEW status, NEW written,
           FinalizingLog(r, status, written), UNCHANGED phase
    PROVE  /\ \A q \in Requests : q # r => row'[q] = row[q] /\ final'[q] = final[q]
           /\ phase[r] = "open" /\ row'[r] \in TerminalRow => final'[r]
BY DEF FinalizingLog, TypeOK, Bookkeeping

LEMMA BookkeepingStep ==
    ASSUME TypeOK, TypeOK', Bookkeeping, [Next]_vars
    PROVE  Bookkeeping'
<1>1. ASSUME NEW r \in Requests, Admit(r)
      PROVE  Bookkeeping'
  <2>1. /\ phase[r] = "new" /\ phase'[r] = "open" /\ row'[r] = "queued" /\ up
        /\ \A q \in Requests : q # r => phase'[q] = phase[q] /\ row'[q] = row[q] /\ hold'[q] = hold[q]
        /\ UNCHANGED <<up, limit, settled, final, orphan, spent, cap>>
      BY <1>1 DEF Admit, TypeOK, history
  <2>2. \A p \in orphan \cup spent : p[1] # r /\ p[1] \in Requests
      BY <2>1 DEF Bookkeeping, TypeOK
  <2>3. \A p \in InFlight' : p[1] # r => p \in InFlight
      BY <2>1 DEF InFlight
  <2>4. orphan' \cap InFlight' = {}
      BY <2>1, <2>2, <2>3 DEF Bookkeeping
  <2> QED
      BY <2>1, <2>2, <2>4 DEF Bookkeeping, TerminalRow
<1>2. ASSUME NEW r \in Requests,
             \/ AdmitInsertFails(r)
             \/ Reject(r)
             \/ RejectReleaseFails(r)
      PROVE  Bookkeeping'
  <2>1. /\ phase[r] = "new" /\ phase'[r] = "gone"
        /\ \A q \in Requests : q # r =>
              phase'[q] = phase[q] /\ row'[q] = row[q] /\ hold'[q] = hold[q] /\ settled'[q] = settled[q]
        /\ \A p \in orphan' : p \in orphan \/ p[1] = r
        /\ UNCHANGED <<up, limit, final, spent, cap>>
      BY <1>2 DEF AdmitInsertFails, Reject, RejectReleaseFails, TypeOK
  <2>2. \A p \in orphan \cup spent : p[1] # r /\ p[1] \in Requests
      BY <2>1 DEF Bookkeeping, TypeOK
  <2>3. \A p \in InFlight' : p[1] # r /\ p \in InFlight
      BY <2>1 DEF InFlight
  <2>4. orphan' \cap InFlight' = {}
      BY <2>1, <2>2, <2>3 DEF Bookkeeping
  <2> QED
      BY <2>1, <2>2, <2>4 DEF Bookkeeping
<1>3. ASSUME NEW r \in Requests, NEW how \in {"charged", "refunded"}, NEW F \in SettleFails(r),
             Open(r), Settling(r, how, F), UNCHANGED <<up, limit, phase, hold, cap>>,
             \A q \in Requests : q # r => row'[q] = row[q] /\ final'[q] = final[q],
             phase[r] = "open" /\ row'[r] \in TerminalRow => final'[r]
      PROVE  Bookkeeping'
  <2>1. /\ \A q \in Requests : q # r => settled'[q] = settled[q]
        /\ \A p \in orphan' \cup spent' : phase'[p[1]] # "new"
        /\ \A p \in spent' : settled'[p[1]] = "charged"
        /\ orphan' \cap InFlight' = {}
      BY <1>3, SettlingBookkeeping
  <2>2. phase[r] = "open"
      BY <1>3 DEF Open
  <2> QED
      BY <1>3, <2>1, <2>2 DEF Bookkeeping
<1>4. ASSUME NEW r \in Requests, SettleReleased(r)
      PROVE  Bookkeeping'
  <2>1. PICK F \in SettleFails(r) : Settling(r, "refunded", F)
      BY <1>4 DEF SettleReleased, SettleFails
  <2>2. UNCHANGED <<up, limit, phase, hold, cap, row, final>> /\ Open(r)
      BY <1>4 DEF SettleReleased
  <2> QED
      BY <2>1, <2>2, <1>3 DEF Bookkeeping
<1>5. ASSUME NEW r \in Requests, NEW how \in {"charged", "refunded"}, NEW status \in TerminalRow,
             SettleAs(r, how, status)
      PROVE  Bookkeeping'
  <2>1. PICK F \in SettleFails(r), written \in BOOLEAN :
            /\ Settling(r, how, F)
            /\ IF Raises(F) THEN UNCHANGED <<final, row>> ELSE FinalizingLog(r, status, written)
      BY <1>5 DEF SettleAs
  <2>2. UNCHANGED <<up, limit, phase, hold, cap>> /\ Open(r)
      BY <1>5 DEF SettleAs
  <2>3. /\ \A q \in Requests : q # r => row'[q] = row[q] /\ final'[q] = final[q]
        /\ phase[r] = "open" /\ row'[r] \in TerminalRow => final'[r]
      BY <2>1, <2>2, FinalizingBookkeeping DEF Bookkeeping
  <2> QED
      BY <2>1, <2>2, <2>3, <1>3
<1>6. ASSUME NEW r \in Requests, RecordRetryFailure(r) \/ RecordRetryAttempt(r)
      PROVE  Bookkeeping'
  <2>1. UNCHANGED <<up, limit, phase, hold, cap, settled, orphan, spent, InFlight>> /\ phase[r] = "open"
      BY <1>6 DEF RecordRetryFailure, RecordRetryAttempt, history, InFlight, Open
  <2>2. /\ \A q \in Requests : q # r => row'[q] = row[q] /\ final'[q] = final[q]
        /\ phase[r] = "open" /\ row'[r] \in TerminalRow => final'[r]
    <3>0. row \in [Requests -> RowStatus] /\ final \in [Requests -> BOOLEAN]
        BY DEF TypeOK
    <3>1. CASE RecordRetryFailure(r)
      <4>1. FinalizingLog(r, "failed", TRUE)
          BY <3>1 DEF RecordRetryFailure
      <4>2. ~final[r]
          BY <3>1 DEF RecordRetryFailure
      <4> QED
          BY <3>0, <4>1, <4>2 DEF FinalizingLog
    <3>2. CASE RecordRetryAttempt(r)
      <4>1. row' = [row EXCEPT ![r] = "running"] /\ final' = [final EXCEPT ![r] = FALSE]
          BY <3>2 DEF RecordRetryAttempt
      <4> QED
          BY <3>0, <4>1 DEF TerminalRow
    <3> QED
        BY <1>6, <3>1, <3>2
  <2>3. ASSUME NEW q \in Requests
        PROVE  /\ phase'[q] = "new" => settled'[q] = "no" /\ row'[q] = "none"
               /\ phase'[q] = "open" => up'
               /\ phase'[q] = "open" /\ row'[q] \in TerminalRow => final'[q]
      BY <2>1, <2>2 DEF Bookkeeping
  <2>4. /\ \A p \in orphan' \cup spent' : phase'[p[1]] # "new"
        /\ \A p \in spent' : settled'[p[1]] = "charged"
        /\ orphan' \cap InFlight' = {}
        /\ \A a \in Accounts : limit'[LimitOf(a)] <= cap'[a]
      BY <2>1 DEF Bookkeeping
  <2> QED
      BY <2>3, <2>4 DEF Bookkeeping
<1>7. ASSUME NEW r \in Requests, RecordRetryAttemptFails(r)
      PROVE  Bookkeeping'
  <2>1. PICK F \in SettleFails(r) : Settling(r, "refunded", F)
      BY <1>7 DEF RecordRetryAttemptFails, SettleFails
  <2>2. UNCHANGED <<up, limit, phase, hold, cap, row, final>> /\ Open(r)
      BY <1>7 DEF RecordRetryAttemptFails
  <2> QED
      BY <2>1, <2>2, <1>3 DEF Bookkeeping
<1>8. ASSUME NEW a \in Accounts, ResetUsage(a)
      PROVE  Bookkeeping'
  <2>1. UNCHANGED <<up, limit, phase, hold, settled, final, row, InFlight>>
      BY <1>8 DEF ResetUsage, object, InFlight
  <2>2. orphan' \subseteq orphan /\ spent' \subseteq spent
      BY <1>8 DEF ResetUsage
  <2>3. \A b \in Accounts : limit[LimitOf(b)] <= cap'[b]
    <3>1. cap' = [cap EXCEPT ![a] = Raised(0, limit[LimitOf(a)])]
        BY <1>8 DEF ResetUsage
    <3>2. LimitOf(a) \in LimitKeys
        BY DEF LimitOf, LimitKeys, Accounts
    <3>3. limit[LimitOf(a)] \in Int
        BY <3>2 DEF TypeOK, Off
    <3>4. limit[LimitOf(a)] <= Raised(0, limit[LimitOf(a)])
        BY <3>3 DEF Raised
    <3> QED
        BY <3>1, <3>4 DEF Bookkeeping, TypeOK
  <2> QED
      BY <2>1, <2>2, <2>3 DEF Bookkeeping
<1>9. ASSUME NEW k \in LimitKeys, NEW n \in Limits, SetLimit(k, n)
      PROVE  Bookkeeping'
  <2>1. UNCHANGED <<up, phase, hold, settled, final, row, orphan, spent, InFlight>>
      BY <1>9 DEF SetLimit, object, InFlight
  <2>2. ASSUME NEW b \in Accounts PROVE limit'[LimitOf(b)] <= cap'[b]
    <3>1. /\ limit' = [limit EXCEPT ![k] = n]
          /\ cap'[b] = IF LimitOf(b) = k THEN Raised(cap[b], n) ELSE cap[b]
        BY <1>9 DEF SetLimit
    <3>2. n \in Int /\ cap[b] \in Nat
        BY AccountingAssumption DEF TypeOK, Off
    <3>3. limit[LimitOf(b)] <= cap[b]
        BY DEF Bookkeeping
    <3> QED
        BY <3>1, <3>2, <3>3 DEF Raised, TypeOK
  <2> QED
      BY <2>1, <2>2 DEF Bookkeeping
<1>10. ASSUME NextDay
       PROVE  Bookkeeping'
  <2>1. UNCHANGED <<up, limit, cap, phase, hold, settled, final, row, orphan, spent, InFlight>>
      BY <1>10 DEF NextDay, object, history, InFlight
  <2> QED
      BY <2>1 DEF Bookkeeping
<1>11. ASSUME Crash
       PROVE  Bookkeeping'
  <2>1. /\ \A q \in Requests : phase'[q] # "open"
        /\ \A q \in Requests : phase'[q] = "new" => phase[q] = "new"
      BY <1>11 DEF Crash, TypeOK
  <2>2. InFlight' = {}
      BY <2>1 DEF InFlight
  <2>3. \A p \in orphan' \cup spent' : p[1] \in Requests /\ phase'[p[1]] # "new"
    <3>1. ASSUME NEW p \in orphan' \cup spent' PROVE p[1] \in Requests /\ phase[p[1]] # "new"
      <4>1. CASE p \in orphan \cup spent
          BY <4>1 DEF Bookkeeping, TypeOK
      <4>2. CASE p \in InFlight
          BY <4>2 DEF InFlight
      <4> QED
          BY <1>11, <4>1, <4>2 DEF Crash, Outstanding
    <3> QED
        BY <2>1, <3>1
  <2>4. UNCHANGED <<limit, cap, settled, final, row, spent>>
      BY <1>11 DEF Crash
  <2> QED
      BY <2>1, <2>2, <2>3, <2>4 DEF Bookkeeping
<1>12. ASSUME Restart
       PROVE  Bookkeeping'
  <2>1. UNCHANGED <<limit, cap, phase, hold, settled, final, row, spent>> /\ orphan' = {} /\ up'
      BY <1>12 DEF Restart, object
  <2> QED
      BY <2>1 DEF Bookkeeping
<1>13. CASE UNCHANGED vars
  <2>1. UNCHANGED <<up, limit, cap, phase, hold, settled, final, row, orphan, spent, InFlight>>
      BY <1>13 DEF vars, object, history, InFlight
  <2> QED
      BY <2>1 DEF Bookkeeping
<1> QED
    BY <1>1, <1>2, <1>4, <1>5, <1>6, <1>7, <1>8, <1>9, <1>10, <1>11, <1>12, <1>13
    DEF Next, Arrival, Method, SettleSuccess, SettleFailure, SettleRejected, TerminalRow

-------------------------------------------------------------------------------
\* Every step preserves the ledger invariant.

\* What admission grants fits under the limits.
LEMMA PoolGrantsFit ==
    ASSUME TypeOK, NEW r \in Requests, NEW h \in PoolGrants(r), NEW a \in Accounts, h[a] > 0
    PROVE  used[a] + reserved[a] + h[a] <= limit[LimitOf(a)]
<1>1. \A b, c \in Accounts, n \in Nat : OnlyOn(b, n)[c] = IF c = b THEN n ELSE 0
    BY DEF OnlyOn, Nothing
<1>2. Count[r] \in Nat /\ Daily(r) \in Accounts /\ Idle(r) \in Accounts
    BY AccountingAssumption, AccountsOf DEF TypeOK
<1>3. CASE h = Nothing
    BY <1>3 DEF Nothing
<1>4. CASE h = OnlyOn(Daily(r), Count[r]) /\ Fits(Daily(r), Count[r])
    BY <1>1, <1>2, <1>4 DEF Fits
<1>5. CASE h = OnlyOn(Idle(r), 1) /\ Fits(Idle(r), 1)
    BY <1>1, <1>2, <1>5 DEF Fits
<1> QED
    BY <1>3, <1>4, <1>5 DEF PoolGrants

LEMMA GrantsFit ==
    ASSUME TypeOK, NEW r \in Requests, NEW h \in Grants(r), NEW a \in Accounts, h[a] > 0
    PROVE  used[a] + reserved[a] + h[a] <= limit[LimitOf(a)]
<1>1. QuotaCovers(r) /\ \E g \in PoolGrants(r) : h = [g EXCEPT ![Quota(r)] = Charged(r)]
    BY DEF Grants
<1>2. PICK g \in PoolGrants(r) : h = [g EXCEPT ![Quota(r)] = Charged(r)]
    BY <1>1
<1>3. g \in Grant
    BY PoolGrantsType DEF TypeOK
<1>4. CASE a = Quota(r)
  <2>1. h[a] = Charged(r)
      BY <1>2, <1>3, <1>4 DEF Grant
  <2>2. Cost[r] > 0 /\ Charged(r) = Cost[r]
      BY <2>1, AccountingAssumption DEF Charged
  <2>3. Fits(Quota(r), Cost[r])
      BY <1>1, <2>2 DEF QuotaCovers
  <2> QED
      BY <1>4, <2>1, <2>2, <2>3 DEF Fits
<1>5. CASE a # Quota(r)
  <2>1. h[a] = g[a]
      BY <1>2, <1>3, <1>5 DEF Grant
  <2> QED
      BY <2>1, PoolGrantsFit
<1> QED
    BY <1>4, <1>5

\* A new request keeps its grants on the accounts of G, and only those.
LEMMA GrantingLedger ==
    ASSUME TypeOK, TypeOK', Bookkeeping, LedgerInv,
           NEW r \in Requests, phase[r] = "new", NEW h \in Grant, NEW G \in SUBSET Accounts,
           \A a \in Accounts : h[a] > 0 => used[a] + reserved[a] + h[a] <= limit[LimitOf(a)],
           hold' = [hold EXCEPT ![r] = h],
           reserved' = [a \in Accounts |-> IF a \in G THEN reserved[a] + h[a] ELSE reserved[a]],
           \A q \in Requests, a \in Accounts :
                <<q, a>> \in Outstanding' <=> <<q, a>> \in Outstanding \/ (q = r /\ a \in G /\ h[a] > 0),
           UNCHANGED <<used, spent, skewed, cap>>
    PROVE  LedgerInv'
<1> SUFFICES ASSUME NEW a \in Accounts PROVE LedgerInvAt(a)'
    BY DEF LedgerInv
<1>1. LedgerInvAt(a)
    BY DEF LedgerInv
<1>2. <<r, a>> \notin Outstanding /\ <<r, a>> \notin spent
  <2>1. <<r, a>> \notin orphan \cup spent
      BY DEF Bookkeeping
  <2> QED
      BY <2>1, OutstandingIn
<1>3. hold'[r] = h /\ \A q \in Requests : q # r => hold'[q] = hold[q]
    BY DEF TypeOK
<1>4. h[a] \in Nat /\ reserved[a] \in Nat /\ used[a] \in Nat /\ cap[a] \in Nat
    BY DEF Grant, TypeOK
<1>5. CASE a \in G /\ h[a] > 0
  <2>1. reserved'[a] = reserved[a] + hold'[r][a]
      BY <1>3, <1>5
  <2>2. used[a] + reserved[a] + hold'[r][a] <= cap[a]
    <3>1. limit[LimitOf(a)] <= cap[a] /\ used[a] + reserved[a] + h[a] <= limit[LimitOf(a)]
        BY <1>5 DEF Bookkeeping
    <3>2. limit[LimitOf(a)] \in Int
      <4>1. LimitOf(a) \in LimitKeys
          BY DEF LimitOf, LimitKeys, Accounts
      <4> QED
          BY <4>1 DEF TypeOK, Off
    <3> QED
        BY <1>3, <1>4, <3>1, <3>2
  <2>3. \A q \in Requests : <<q, a>> \in Outstanding' <=> <<q, a>> \in Outstanding \/ q = r
      BY <1>5
  <2> QED
      BY <1>1, <1>2, <1>3, <2>1, <2>2, <2>3, GrantedAt
<1>6. CASE a \notin G \/ h[a] = 0
  <2>1. reserved'[a] = reserved[a]
      BY <1>4, <1>6
  <2>2. \A q \in Requests : <<q, a>> \in Outstanding <=> <<q, a>> \in Outstanding'
      BY <1>4, <1>6
  <2>3. \A q \in Requests : <<q, a>> \in Outstanding \cup spent => hold[q][a] = hold'[q][a]
      BY <1>2, <1>3
  <2> QED
      BY <1>1, <1>4, <2>1, <2>2, <2>3, UntouchedAt
<1> QED
    BY <1>4, <1>5, <1>6

\* The ledgers and who holds what on them stay; a cap may grow.
LEMMA StillLedger ==
    ASSUME TypeOK, TypeOK', LedgerInv,
           UNCHANGED <<used, reserved, hold, spent, skewed>>,
           \A q \in Requests, a \in Accounts : <<q, a>> \in Outstanding' <=> <<q, a>> \in Outstanding,
           \A a \in Accounts : cap[a] <= cap'[a]
    PROVE  LedgerInv'
<1> SUFFICES ASSUME NEW a \in Accounts PROVE LedgerInvAt(a)'
    BY DEF LedgerInv
<1>1. LedgerInvAt(a)
    BY DEF LedgerInv
<1> QED
    BY <1>1, UntouchedAt

LEMMA LedgerStep ==
    ASSUME TypeOK, TypeOK', Bookkeeping, LedgerInv, [Next]_vars
    PROVE  LedgerInv'
<1>0. \A a \in Accounts : cap[a] \in Nat /\ cap[a] <= cap[a]
    BY DEF TypeOK
<1>1. ASSUME NEW r \in Requests, Admit(r)
      PROVE  LedgerInv'
  <2>1. PICK h \in Grants(r) :
            /\ hold' = [hold EXCEPT ![r] = h]
            /\ reserved' = [a \in Accounts |-> reserved[a] + h[a]]
      BY <1>1 DEF Admit
  <2>2. h \in Grant
      BY GrantsType DEF TypeOK
  <2>3. /\ phase[r] = "new" /\ settled[r] = "no" /\ phase'[r] = "open" /\ hold'[r] = h
        /\ \A q \in Requests : q # r => phase'[q] = phase[q] /\ hold'[q] = hold[q]
        /\ UNCHANGED <<used, settled, orphan, spent, skewed, cap>>
      BY <1>1, <2>1 DEF Admit, TypeOK, Bookkeeping, history
  <2>4. \A q \in Requests, a \in Accounts :
            <<q, a>> \in Outstanding' <=> <<q, a>> \in Outstanding \/ (q = r /\ a \in Accounts /\ h[a] > 0)
      BY <2>3, OutstandingIn
  <2>5. reserved' = [a \in Accounts |-> IF a \in Accounts THEN reserved[a] + h[a] ELSE reserved[a]]
      BY <2>1
  <2>6. \A a \in Accounts : h[a] > 0 => used[a] + reserved[a] + h[a] <= limit[LimitOf(a)]
      BY GrantsFit
  <2> QED
      BY ZenonT(60), <2>1, <2>2, <2>3, <2>4, <2>5, <2>6, GrantingLedger
<1>2. ASSUME NEW r \in Requests, AdmitInsertFails(r)
      PROVE  LedgerInv'
  <2>0. PICK h \in Grants(r) : \E F \in FailSets(h) :
            /\ hold' = [hold EXCEPT ![r] = h]
            /\ reserved' = [a \in Accounts |-> IF a \in F THEN reserved[a] + h[a] ELSE reserved[a]]
            /\ orphan' = orphan \cup {<<r, a>> : a \in F}
      BY <1>2 DEF AdmitInsertFails
  <2>1. PICK F \in FailSets(h) :
            /\ hold' = [hold EXCEPT ![r] = h]
            /\ reserved' = [a \in Accounts |-> IF a \in F THEN reserved[a] + h[a] ELSE reserved[a]]
            /\ orphan' = orphan \cup {<<r, a>> : a \in F}
      BY <2>0
  <2>2. h \in Grant /\ F \subseteq Accounts /\ \A a \in F : h[a] > 0
      BY GrantsType, FailSetsType DEF TypeOK
  <2>3. /\ phase[r] = "new" /\ phase'[r] = "gone"
        /\ \A q \in Requests : q # r => phase'[q] = phase[q] /\ hold'[q] = hold[q] /\ settled'[q] = settled[q]
        /\ UNCHANGED <<used, spent, skewed, cap>>
      BY <1>2, <2>1 DEF AdmitInsertFails, TypeOK
  <2>4. \A q \in Requests, a \in Accounts :
            <<q, a>> \in Outstanding' <=> <<q, a>> \in Outstanding \/ (q = r /\ a \in F /\ h[a] > 0)
    <3>1. \A q \in Requests, a \in Accounts :
                <<q, a>> \in orphan' <=> <<q, a>> \in orphan \/ (q = r /\ a \in F /\ h[a] > 0)
        BY <2>1, <2>2
    <3>2. \A q \in Requests, a \in Accounts :
                (phase'[q] = "open" /\ settled'[q] = "no" /\ hold'[q][a] > 0) <=>
                (phase[q] = "open" /\ settled[q] = "no" /\ hold[q][a] > 0)
        BY <2>3
    <3> QED
        BY <3>1, <3>2, OutstandingIn
  <2>6. \A a \in Accounts : h[a] > 0 => used[a] + reserved[a] + h[a] <= limit[LimitOf(a)]
      BY GrantsFit
  <2> QED
      BY ZenonT(60), <2>1, <2>2, <2>3, <2>4, <2>6, GrantingLedger
<1>3. ASSUME NEW r \in Requests, Reject(r)
      PROVE  LedgerInv'
  <2>1. /\ phase[r] = "new" /\ phase'[r] = "gone"
        /\ \A q \in Requests : q # r => phase'[q] = phase[q]
        /\ UNCHANGED <<used, reserved, hold, settled, orphan, spent, skewed, cap>>
      BY <1>3 DEF Reject, TypeOK, ledger
  <2>2. \A q \in Requests, a \in Accounts : <<q, a>> \in Outstanding' <=> <<q, a>> \in Outstanding
      BY <2>1, OutstandingIn
  <2> QED
      BY <1>0, <2>1, <2>2, StillLedger
<1>4. ASSUME NEW r \in Requests, RejectReleaseFails(r)
      PROVE  LedgerInv'
  <2>1. PICK h \in PoolGrants(r) :
            /\ hold' = [hold EXCEPT ![r] = h]
            /\ reserved' = [a \in Accounts |-> reserved[a] + h[a]]
            /\ orphan' = orphan \cup {<<r, a>> : a \in {b \in Accounts : h[b] > 0}}
      BY <1>4 DEF RejectReleaseFails
  <2>2. h \in Grant
      BY PoolGrantsType DEF TypeOK
  <2>3. /\ phase[r] = "new" /\ phase'[r] = "gone"
        /\ \A q \in Requests : q # r => phase'[q] = phase[q] /\ hold'[q] = hold[q] /\ settled'[q] = settled[q]
        /\ UNCHANGED <<used, spent, skewed, cap>>
      BY <1>4, <2>1 DEF RejectReleaseFails, TypeOK
  <2>4. \A q \in Requests, a \in Accounts :
            <<q, a>> \in Outstanding' <=> <<q, a>> \in Outstanding \/ (q = r /\ a \in Accounts /\ h[a] > 0)
    <3>1. \A q \in Requests, a \in Accounts :
                <<q, a>> \in orphan' <=> <<q, a>> \in orphan \/ (q = r /\ a \in Accounts /\ h[a] > 0)
        BY <2>1
    <3> SUFFICES ASSUME NEW q \in Requests, NEW a \in Accounts
                 PROVE  <<q, a>> \in Outstanding'
                            <=> <<q, a>> \in Outstanding \/ (q = r /\ a \in Accounts /\ h[a] > 0)
        OBVIOUS
    <3>2. /\ <<q, a>> \in Outstanding <=>
                    \/ phase[q] = "open" /\ settled[q] = "no" /\ hold[q][a] > 0
                    \/ <<q, a>> \in orphan
          /\ <<q, a>> \in Outstanding' <=>
                    \/ phase'[q] = "open" /\ settled'[q] = "no" /\ hold'[q][a] > 0
                    \/ <<q, a>> \in orphan'
        BY OutstandingIn
    <3>3. CASE q = r
        BY <2>3, <3>1, <3>2, <3>3
    <3>4. CASE q # r
        BY <2>3, <3>1, <3>2, <3>4
    <3> QED
        BY <3>3, <3>4
  <2>5. reserved' = [a \in Accounts |-> IF a \in Accounts THEN reserved[a] + h[a] ELSE reserved[a]]
      BY <2>1
  <2>6. \A a \in Accounts : h[a] > 0 => used[a] + reserved[a] + h[a] <= limit[LimitOf(a)]
      BY PoolGrantsFit
  <2> QED
      BY ZenonT(60), <2>1, <2>2, <2>3, <2>4, <2>5, <2>6, GrantingLedger
<1>5. ASSUME NEW r \in Requests, SettleReleased(r)
      PROVE  LedgerInv'
  <2>1. PICK F \in SettleFails(r) : Settling(r, "refunded", F)
      BY <1>5 DEF SettleReleased, SettleFails
  <2>2. UNCHANGED <<phase, hold, skewed, cap>> /\ Open(r)
      BY <1>5 DEF SettleReleased
  <2> QED
      BY <2>1, <2>2, SettlingAt
<1>6. ASSUME NEW r \in Requests, NEW how \in {"charged", "refunded"}, NEW status,
             SettleAs(r, how, status)
      PROVE  LedgerInv'
  <2>1. PICK F \in SettleFails(r) : Settling(r, how, F)
      BY <1>6 DEF SettleAs
  <2>2. UNCHANGED <<phase, hold, skewed, cap>> /\ Open(r)
      BY <1>6 DEF SettleAs
  <2> QED
      BY <2>1, <2>2, SettlingAt
<1>7. ASSUME NEW r \in Requests, RecordRetryFailure(r) \/ RecordRetryAttempt(r)
      PROVE  LedgerInv'
  <2>1. UNCHANGED <<used, reserved, phase, hold, settled, orphan, spent, skewed, cap>>
      BY <1>7 DEF RecordRetryFailure, RecordRetryAttempt, ledger, history
  <2>2. \A q \in Requests, a \in Accounts : <<q, a>> \in Outstanding' <=> <<q, a>> \in Outstanding
      BY <2>1, OutstandingIn
  <2> QED
      BY <1>0, <2>1, <2>2, StillLedger
<1>8. ASSUME NEW r \in Requests, RecordRetryAttemptFails(r)
      PROVE  LedgerInv'
  <2>1. PICK F \in SettleFails(r) : Settling(r, "refunded", F)
      BY <1>8 DEF RecordRetryAttemptFails, SettleFails
  <2>2. UNCHANGED <<phase, hold, skewed, cap>> /\ Open(r)
      BY <1>8 DEF RecordRetryAttemptFails
  <2> QED
      BY <2>1, <2>2, SettlingAt
<1>9. ASSUME NEW c \in Accounts, ResetUsage(c)
      PROVE  LedgerInv'
  <2> SUFFICES ASSUME NEW a \in Accounts PROVE LedgerInvAt(a)'
      BY DEF LedgerInv
  <2>1. LedgerInvAt(a)
      BY DEF LedgerInv
  <2>2. /\ used' = [used EXCEPT ![c] = 0]
        /\ reserved' = [reserved EXCEPT ![c] = 0]
        /\ orphan' = orphan \ On(orphan, c)
        /\ spent' = spent \ On(spent, c)
        /\ skewed' = IF On(InFlight, c) = {} THEN skewed \ {c} ELSE skewed \cup {c}
        /\ cap' = [cap EXCEPT ![c] = Raised(0, limit[LimitOf(c)])]
        /\ UNCHANGED <<phase, hold, settled>>
      BY <1>9 DEF ResetUsage, object
  <2>3. CASE a = c
    <3>1. reserved'[a] = 0 /\ used'[a] = 0
        BY <2>2, <2>3 DEF TypeOK
    <3>2. \A q \in Requests : <<q, a>> \notin spent' /\ <<q, a>> \notin orphan'
        BY <2>2, <2>3 DEF On
    <3>3. \A q \in Requests : <<q, a>> \in Outstanding' => <<q, a>> \in InFlight
        BY <2>2, <3>2, OutstandingIn
    <3>4. \A q \in Requests : <<q, a>> \in InFlight => <<q, a>> \in Outstanding
        BY DEF Outstanding
    <3>5. a \notin skewed' => \A q \in Requests : <<q, a>> \notin InFlight
        BY <2>2, <2>3 DEF On
    <3> QED
        BY <2>1, <2>2, <3>1, <3>2, <3>3, <3>4, <3>5, ResetAt
  <2>4. CASE a # c
    <3>1. reserved'[a] = reserved[a] /\ used'[a] = used[a] /\ cap'[a] = cap[a]
        BY <2>2, <2>4 DEF TypeOK
    <3>2. \A q \in Requests :
            /\ <<q, a>> \in spent <=> <<q, a>> \in spent'
            /\ <<q, a>> \in orphan <=> <<q, a>> \in orphan'
        BY <2>2, <2>4 DEF On
    <3>3. \A q \in Requests : <<q, a>> \in Outstanding <=> <<q, a>> \in Outstanding'
        BY <2>2, <3>2, OutstandingIn
    <3>4. a \notin skewed' => a \notin skewed /\ cap[a] <= cap'[a]
        BY <1>0, <2>2, <2>4, <3>1
    <3>5. \A q \in Requests : <<q, a>> \in Outstanding \cup spent => hold[q][a] = hold'[q][a]
        BY <2>2
    <3> QED
        BY <2>1, <3>1, <3>2, <3>3, <3>4, <3>5, UntouchedAt
  <2> QED
      BY <2>3, <2>4
<1>10. ASSUME NEW k \in LimitKeys, NEW n \in Limits, SetLimit(k, n)
       PROVE  LedgerInv'
  <2>1. UNCHANGED <<used, reserved, phase, hold, settled, orphan, spent, skewed>>
      BY <1>10 DEF SetLimit, ledger, object
  <2>2. \A q \in Requests, a \in Accounts : <<q, a>> \in Outstanding' <=> <<q, a>> \in Outstanding
      BY <2>1, OutstandingIn
  <2>3. ASSUME NEW a \in Accounts PROVE cap[a] <= cap'[a]
    <3>1. cap'[a] = IF LimitOf(a) = k THEN Raised(cap[a], n) ELSE cap[a]
        BY <1>10 DEF SetLimit
    <3>2. n \in Int
        BY AccountingAssumption DEF Off
    <3> QED
        BY <1>0, <3>1, <3>2 DEF Raised
  <2> QED
      BY <2>1, <2>2, <2>3, StillLedger
<1>11. ASSUME NextDay
       PROVE  LedgerInv'
  <2>1. UNCHANGED <<used, reserved, phase, hold, settled, orphan, spent, skewed, cap>>
      BY <1>11 DEF NextDay, ledger, object, history
  <2>2. \A q \in Requests, a \in Accounts : <<q, a>> \in Outstanding' <=> <<q, a>> \in Outstanding
      BY <2>1, OutstandingIn
  <2> QED
      BY <1>0, <2>1, <2>2, StillLedger
<1>12. ASSUME Crash
       PROVE  LedgerInv'
  <2>1. /\ orphan' = Outstanding
        /\ UNCHANGED <<used, reserved, hold, settled, spent, skewed, cap>>
        /\ \A q \in Requests : phase'[q] # "open"
      BY <1>12 DEF Crash, ledger, TypeOK
  <2>2. \A q \in Requests, a \in Accounts : <<q, a>> \in Outstanding' <=> <<q, a>> \in Outstanding
      BY <2>1, OutstandingIn
  <2> QED
      BY <1>0, <2>1, <2>2, StillLedger
<1>13. ASSUME Restart
       PROVE  LedgerInv'
  <2> SUFFICES ASSUME NEW a \in Accounts PROVE LedgerInvAt(a)'
      BY DEF LedgerInv
  <2>1. LedgerInvAt(a)
      BY DEF LedgerInv
  <2>2. /\ ~up /\ orphan' = {} /\ reserved'[a] = 0
        /\ UNCHANGED <<used, phase, hold, settled, spent, skewed, cap>>
      BY <1>13 DEF Restart, object, Nothing
  <2>3. \A q \in Requests : <<q, a>> \notin Outstanding'
      BY <2>2, OutstandingIn DEF Bookkeeping
  <2>4. IsFiniteSet(Tok(Outstanding', a, hold)) /\ Cardinality(Tok(Outstanding', a, hold)) = 0
      BY <2>3, TokEmpty
  <2>5. used[a] \in Nat /\ reserved[a] \in Nat /\ cap[a] \in Nat
      BY DEF TypeOK
  <2> QED
      BY <2>1, <2>2, <2>4, <2>5 DEF LedgerInvAt, Tok
<1>14. CASE UNCHANGED vars
  <2>1. UNCHANGED <<used, reserved, phase, hold, settled, orphan, spent, skewed, cap>>
      BY <1>14 DEF vars, ledger, object, history
  <2>2. \A q \in Requests, a \in Accounts : <<q, a>> \in Outstanding' <=> <<q, a>> \in Outstanding
      BY <2>1, OutstandingIn
  <2> QED
      BY <1>0, <2>1, <2>2, StillLedger
<1> QED
    BY <1>1, <1>2, <1>3, <1>4, <1>5, <1>6, <1>7, <1>8, <1>9, <1>10, <1>11, <1>12, <1>13, <1>14
    DEF Next, Arrival, Method, SettleSuccess, SettleFailure, SettleRejected

-------------------------------------------------------------------------------
\* The theorems.

LEMMA InitInv == Init => IInv
<1> SUFFICES ASSUME Init PROVE IInv
    OBVIOUS
<1>1. TypeOK
    BY InitType
<1>2. Bookkeeping
  <2>1. \A a \in Accounts : limit[LimitOf(a)] <= cap[a]
    <3>1. ASSUME NEW a \in Accounts PROVE limit[LimitOf(a)] <= cap[a]
      <4>1. LimitOf(a) \in LimitKeys
          BY DEF LimitOf, LimitKeys, Accounts
      <4>2. InitialLimit[LimitOf(a)] \in Int
          BY <4>1, AccountingAssumption DEF Off
      <4> QED
          BY <4>2 DEF Init, Raised
    <3> QED
        BY <3>1
  <2> QED
      BY <2>1 DEF Init, Bookkeeping, TerminalRow
<1>3. ASSUME NEW a \in Accounts PROVE LedgerInvAt(a)
  <2>1. \A q \in Requests : <<q, a>> \notin Outstanding /\ <<q, a>> \notin spent
      BY OutstandingIn DEF Init
  <2>2. /\ IsFiniteSet(Tok(Outstanding, a, hold)) /\ Cardinality(Tok(Outstanding, a, hold)) = 0
        /\ IsFiniteSet(Tok(spent, a, hold)) /\ Cardinality(Tok(spent, a, hold)) = 0
      BY <2>1, TokEmpty
  <2>3. used[a] = 0 /\ reserved[a] = 0 /\ cap[a] \in Nat
      BY <1>1 DEF Init, Nothing, TypeOK
  <2> QED
      BY <2>2, <2>3 DEF LedgerInvAt
<1> QED
    BY <1>1, <1>2, <1>3 DEF IInv, LedgerInv

LEMMA IInvStep == IInv /\ [Next]_vars => IInv'
BY TypeStep, BookkeepingStep, LedgerStep DEF IInv

LEMMA Inductive == Spec => []IInv
BY InitInv, IInvStep, PTL DEF Spec

\* The tokens the properties count are the tokens the invariant counts.
LEMMA UnitsAreTok ==
    ASSUME TypeOK, NEW a \in Accounts
    PROVE  /\ Units(Outstanding, a) = Cardinality(Tok(Outstanding, a, hold))
           /\ Units(spent, a) = Cardinality(Tok(spent, a, hold))
<1>1. hold \in [Requests -> Grant]
    BY DEF TypeOK, Grant
<1>2. Outstanding \in SUBSET Pairs /\ spent \in SUBSET Pairs
    BY OutstandingType DEF TypeOK, Pairs
<1> QED
    BY <1>1, <1>2, TokensAreTok DEF Units, Tokens, On

\* The flags and the rows of the objects agree with the database.
THEOREM BookkeepingCorrect == Spec => []Bookkeeping
BY Inductive, PTL DEF IInv

\* No reservation leaks, whatever fails, is reset or crashes.
THEOREM NoLeakCorrect == Spec => []NoLeak
<1>1. IInv => NoLeak
    BY UnitsAreTok DEF IInv, LedgerInv, LedgerInvAt, NoLeak
<1> QED
    BY <1>1, Inductive, PTL

\* No reservation is given back twice or to another account.
THEOREM LedgerExactCorrect == Spec => []LedgerExact
<1>1. IInv => LedgerExact
    BY UnitsAreTok DEF IInv, LedgerInv, LedgerInvAt, LedgerExact
<1> QED
    BY <1>1, Inductive, PTL

\* Usage is what was charged since the last reset, once per request.
THEOREM SpentExactCorrect == Spec => []SpentExact
<1>1. IInv => SpentExact
    BY UnitsAreTok DEF IInv, LedgerInv, LedgerInvAt, SpentExact
<1> QED
    BY <1>1, Inductive, PTL

\* Nobody overspends, unless an account is reset under requests in flight.
THEOREM WithinCapCorrect == Spec => []WithinCap
<1>1. IInv => WithinCap
    BY DEF IInv, LedgerInv, LedgerInvAt, WithinCap
<1> QED
    BY <1>1, Inductive, PTL

\* Each attempt's row is closed at most once, whatever methods are called in
\* whatever order: only the running row of a next attempt takes a closed row's place.
THEOREM RowTerminalOnceCorrect == Spec => RowTerminalOnce
<1> DEFINE Stable == \A r \in Requests : row[r] \in TerminalRow /\ row'[r] # row[r]
                            => row'[r] = "running" /\ ~final'[r]
<1>1. ASSUME IInv, [Next]_vars PROVE Stable
  <2> USE <1>1
  <2>0. TypeOK /\ Bookkeeping
      BY DEF IInv
  <2>1. ASSUME NEW r \in Requests, Arrival(r) PROVE Stable
    <3>1. phase[r] = "new" /\ \A q \in Requests : q # r => row'[q] = row[q]
        BY <2>0, <2>1 DEF Arrival, Admit, AdmitInsertFails, Reject, RejectReleaseFails, TypeOK
    <3>2. row[r] = "none"
        BY <2>0, <3>1 DEF Bookkeeping
    <3> QED
        BY <3>1, <3>2 DEF TerminalRow
  <2>2. ASSUME NEW r \in Requests, NEW how, NEW status, SettleAs(r, how, status) PROVE Stable
    <3>1. PICK F \in SettleFails(r), written \in BOOLEAN :
            IF Raises(F) THEN UNCHANGED <<final, row>> ELSE FinalizingLog(r, status, written)
        BY <2>2 DEF SettleAs
    <3>2. phase[r] = "open"
        BY <2>2 DEF SettleAs, Open
    <3>3. row'[r] # row[r] => ~final[r]
        BY <3>1 DEF FinalizingLog
    <3>4. \A q \in Requests : q # r => row'[q] = row[q]
        BY <2>0, <3>1 DEF FinalizingLog, TypeOK
    <3> QED
        BY <2>0, <3>2, <3>3, <3>4 DEF Bookkeeping
  <2>3. ASSUME NEW r \in Requests, RecordRetryFailure(r) PROVE Stable
    <3>1. phase[r] = "open" /\ ~final[r] /\ \A q \in Requests : q # r => row'[q] = row[q]
        BY <2>0, <2>3 DEF RecordRetryFailure, FinalizingLog, Open, TypeOK
    <3> QED
        BY <2>0, <3>1 DEF Bookkeeping
  <2>4. ASSUME NEW r \in Requests, RecordRetryAttempt(r) PROVE Stable
      BY <2>0, <2>4 DEF RecordRetryAttempt, TypeOK
  <2>5. ASSUME UNCHANGED row PROVE Stable
      BY <2>5
  <2> QED
      BY <2>1, <2>2, <2>3, <2>4, <2>5
      DEF Next, Method, SettleReleased, SettleSuccess, SettleFailure, SettleRejected,
          RecordRetryAttemptFails, ResetUsage, SetLimit, NextDay, Crash, Restart, vars, object
<1>2. IInv /\ [Next]_vars => [Stable]_vars
    BY <1>1
<1> QED
    BY <1>2, Inductive, PTL DEF Spec, RowTerminalOnce

-------------------------------------------------------------------------------
\* The refinement of Settlement.

LEMMA FateOf ==
    \A r \in Requests :
        /\ phase[r] \in {"new", "gone"} => Fate[r] = "none"
        /\ phase[r] = "open" => Fate[r] = IF settled[r] = "no" THEN "held" ELSE settled[r]
        /\ phase[r] = "crashed" => Fate[r] = IF settled[r] = "no" THEN "orphaned" ELSE settled[r]
BY DEF Fate

LEMMA FateOfNext ==
    \A r \in Requests :
        /\ phase'[r] \in {"new", "gone"} => Fate'[r] = "none"
        /\ phase'[r] = "open" => Fate'[r] = IF settled'[r] = "no" THEN "held" ELSE settled'[r]
        /\ phase'[r] = "crashed" => Fate'[r] = IF settled'[r] = "no" THEN "orphaned" ELSE settled'[r]
BY DEF Fate

LEMMA FateTyped == TypeOK => Fate \in [Requests -> Abstract!Fates]
<1> SUFFICES ASSUME TypeOK, NEW r \in Requests PROVE Fate[r] \in Abstract!Fates
    BY DEF Fate
<1>1. phase[r] \in Phases /\ settled[r] \in {"no", "charged", "refunded"}
    BY DEF TypeOK
<1> QED
    BY <1>1, FateOf DEF Phases, Abstract!Fates

\* One request makes one of its moves.
LEMMA FateChange ==
    ASSUME TypeOK, NEW r \in Requests, <<Fate[r], Fate'[r]>> \in Abstract!Moves,
           \A q \in Requests : q # r => Fate'[q] = Fate[q]
    PROVE  Abstract!Advance
<1>1. \A q \in Requests : Fate'[q] \in Abstract!Fates
    BY FateTyped DEF Abstract!Moves, Abstract!Fates
<1>2. Fate' \in [Requests -> Abstract!Fates]
    BY <1>1 DEF Fate
<1> QED
    BY <1>2 DEF Abstract!Advance

LEMMA FateSame ==
    ASSUME \A q \in Requests : phase'[q] = phase[q] /\ settled'[q] = settled[q]
    PROVE  Fate' = Fate
BY DEF Fate

LEMMA SettlingFate ==
    ASSUME TypeOK, NEW r \in Requests, Open(r), NEW how \in {"charged", "refunded"}, NEW F,
           Settling(r, how, F), UNCHANGED phase
    PROVE  Fate' = Fate \/ Abstract!Advance
<1>1. CASE settled[r] # "no"
    BY <1>1, FateSame DEF Settling
<1>2. CASE settled[r] = "no"
  <2>1. settled'[r] = how /\ \A q \in Requests : q # r => settled'[q] = settled[q]
      BY <1>2 DEF Settling, TypeOK
  <2>2. Fate[r] = "held" /\ Fate'[r] = how
      BY <1>2, <2>1, FateOf, FateOfNext DEF Open
  <2>3. \A q \in Requests : q # r => Fate'[q] = Fate[q]
      BY <2>1 DEF Fate
  <2>4. <<Fate[r], Fate'[r]>> \in Abstract!Moves
      BY <2>2 DEF Abstract!Moves
  <2> QED
      BY <2>3, <2>4, FateChange
<1> QED
    BY <1>1, <1>2

\* Every object lives the life Settlement promises: charged or refunded exactly once.
THEOREM SettledOnceCorrect == Spec => SettledOnce
<1>1. Init => Abstract!Init
    BY DEF Init, Abstract!Init, Fate
<1>2. ASSUME IInv, [Next]_vars PROVE [Abstract!Next]_Fate
  <2> USE <1>2
  <2>0. TypeOK /\ Bookkeeping
      BY DEF IInv
  <2>1. ASSUME NEW r \in Requests, Admit(r) PROVE Abstract!Advance
    <3>1. /\ phase[r] = "new" /\ phase'[r] = "open" /\ settled'[r] = "no"
          /\ \A q \in Requests : q # r => phase'[q] = phase[q] /\ settled'[q] = settled[q]
        BY <2>0, <2>1 DEF Admit, TypeOK, Bookkeeping
    <3>2. Fate[r] = "none" /\ Fate'[r] = "held"
        BY <3>1, FateOf, FateOfNext
    <3>3. \A q \in Requests : q # r => Fate'[q] = Fate[q]
        BY <3>1 DEF Fate
    <3>4. <<Fate[r], Fate'[r]>> \in Abstract!Moves
        BY <3>2 DEF Abstract!Moves
    <3> QED
        BY <2>0, <3>3, <3>4, FateChange
  <2>2. ASSUME NEW r \in Requests, AdmitInsertFails(r) \/ Reject(r) \/ RejectReleaseFails(r)
        PROVE  Fate' = Fate
    <3>1. /\ phase[r] = "new" /\ phase'[r] = "gone"
          /\ \A q \in Requests : q # r => phase'[q] = phase[q] /\ settled'[q] = settled[q]
        BY <2>0, <2>2 DEF AdmitInsertFails, Reject, RejectReleaseFails, TypeOK
    <3>2. Fate[r] = "none" /\ Fate'[r] = "none"
        BY <3>1, FateOf, FateOfNext
    <3>3. \A q \in Requests : q # r => Fate'[q] = Fate[q]
        BY <3>1 DEF Fate
    <3> QED
        BY <3>2, <3>3 DEF Fate
  <2>3. ASSUME NEW r \in Requests, SettleReleased(r) \/ RecordRetryAttemptFails(r)
        PROVE  Fate' = Fate \/ Abstract!Advance
      BY <2>0, <2>3, SettlingFate DEF SettleReleased, RecordRetryAttemptFails
  <2>4. ASSUME NEW r \in Requests, NEW how \in {"charged", "refunded"}, NEW status,
               SettleAs(r, how, status)
        PROVE  Fate' = Fate \/ Abstract!Advance
      BY <2>0, <2>4, SettlingFate DEF SettleAs
  <2>5. ASSUME NEW r \in Requests, RecordRetryFailure(r) \/ RecordRetryAttempt(r)
        PROVE  Fate' = Fate
      BY <2>5, FateSame DEF RecordRetryFailure, RecordRetryAttempt
  <2>6. ASSUME Crash PROVE Abstract!Orphan
    <3>1. ASSUME NEW q \in Requests
          PROVE  Fate'[q] = IF Fate[q] = "held" THEN "orphaned" ELSE Fate[q]
      <4>1. /\ phase'[q] = IF phase[q] = "open" THEN "crashed" ELSE phase[q]
            /\ settled'[q] = settled[q]
          BY <2>6 DEF Crash
      <4>2. phase[q] \in Phases /\ settled[q] \in {"no", "charged", "refunded"}
          BY <2>0 DEF TypeOK
      <4> QED
          BY <4>1, <4>2, FateOf, FateOfNext DEF Phases
    <3> QED
        BY <3>1 DEF Abstract!Orphan, Fate
  <2>7. ASSUME UNCHANGED <<phase, settled>> PROVE Fate' = Fate
      BY <2>7, FateSame
  <2> QED
      BY <2>1, <2>2, <2>3, <2>4, <2>5, <2>6, <2>7
      DEF Next, Arrival, Method, SettleSuccess, SettleFailure, SettleRejected, ResetUsage, SetLimit,
          NextDay, Restart, vars, object, Abstract!Next
<1> QED
    BY <1>1, <1>2, Inductive, PTL DEF Spec, SettledOnce, Abstract!Spec
===============================================================================
