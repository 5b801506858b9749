--------------------------- MODULE RequestAccounting ---------------------------
(***************************************************************************)
(* The accounting of proxy requests: the three ledgers kept in SQLite (the *)
(* anlas quota of a user, its free-small quota of a day, its idle          *)
(* free-small quota of a day) and the RequestAccounting object that holds a *)
(* request's reservations and settles them.                                *)
(*                                                                         *)
(* The queue, the retry path, the service, a reroute and a shutdown may    *)
(* each call the methods of an object, so here they are called in any      *)
(* order and any number of times; any write may fail, an administrator may *)
(* reset a ledger or move a limit at any moment, the day may change, and   *)
(* the process may crash and restart.                                      *)
(***************************************************************************)
EXTENDS Integers, FiniteSets

CONSTANTS
    Users,
    Requests,
    UserOf,       \* the user of each request
    Cost,         \* estimated_cost of each request; negative when unsupported
    Count,        \* free-small images a request counts for in its day
    InitialLimit, \* limits in force at the first start
    Limits,       \* the limits an administrator may set
    LastDay,      \* bound: the last day of a behaviour
    MaxFaults     \* bound: how many calls meet a failing database write

Off == -1         \* no daily limit is configured for the user

Pools == {"quota", "daily", "idle"}
LimitKeys == Pools \X Users

\* A row of user_anlas_quota (day 0), free_small_daily_usage or
\* idle_free_small_daily_usage.
Accounts == Pools \X Users \X (0 .. LastDay)
LimitOf(a) == <<a[1], a[2]>>

ASSUME AccountingAssumption ==
    /\ IsFiniteSet(Requests)
    /\ UserOf \in [Requests -> Users]
    /\ Cost \in [Requests -> Int]
    /\ Count \in [Requests -> Nat]
    /\ Limits \subseteq Nat \cup {Off}
    /\ InitialLimit \in [LimitKeys -> Nat \cup {Off}]
    /\ LastDay \in Nat
    /\ MaxFaults \in Nat

VARIABLES
    up,        \* the process runs
    day,       \* the current daily window
    limit,     \* the limit columns: total of the quota, daily and idle limits
    used, reserved,   \* the ledger rows
    phase,     \* life of the accounting object; "gone": never handed out
    hold,      \* what the object was granted on each account
    settled,   \* "no" until _reservation_settled, then how it was settled
    final,     \* _log_finalized
    row,       \* status of the usage_logs row of the current attempt
    orphan,    \* history: <<r, a>> whose grant no object will settle any more
    spent,     \* history: <<r, a>> charged to account a since its last reset
    skewed,    \* history: accounts reset while grants were in flight
    cap,       \* history: highest limit since the account's last reset
    faults     \* calls that met a failing write so far

ledger == <<used, reserved>>
object == <<phase, hold, settled, final, row>>
history == <<orphan, spent, skewed, cap, faults>>
vars == <<up, day, limit, ledger, object, history>>

Phases == {"new", "open", "gone", "crashed"}
RowStatus == {"none", "queued", "running", "success", "failed", "rejected"}
TerminalRow == {"success", "failed", "rejected"}

Quota(r) == <<"quota", UserOf[r], 0>>
Daily(r) == <<"daily", UserOf[r], day>>
Idle(r)  == <<"idle", UserOf[r], day>>

Nothing == [a \in Accounts |-> 0]
Charged(r) == IF Cost[r] > 0 THEN Cost[r] ELSE 0

-------------------------------------------------------------------------------
\* Ledger arithmetic, shared by the three managers.

FitsIgnoringReserved(a, n) == used[a] + n <= limit[LimitOf(a)]
Fits(a, n) == used[a] + reserved[a] + n <= limit[LimitOf(a)]

\* MAX(reserved - n, 0)
MinusUnclamped(m, n) == m - n
Minus(m, n) == IF m >= n THEN m - n ELSE 0
Raised(m, n) == IF n > m THEN n ELSE m

\* Accounts whose write may fail while settling the grant h.  The quota write
\* raises and the daily one is then skipped; failures of the daily and the idle
\* write are swallowed.
FailSets(h) ==
    {F \in SUBSET {a \in Accounts : h[a] > 0} :
        /\ F # {} => faults < MaxFaults
        /\ (\E a \in F : a[1] = "quota") => \A a \in Accounts : a[1] = "daily" /\ h[a] > 0 => a \in F}

Raises(F) == \E a \in F : a[1] = "quota"

CountFault(failed) == faults' = IF failed THEN faults + 1 ELSE faults

ReleasingAllButIdle(h, F) ==
    /\ reserved' = [a \in Accounts |-> IF a \in F \/ a[1] = "idle" THEN reserved[a] ELSE Minus(reserved[a], h[a])]
    /\ UNCHANGED used
Releasing(h, F) ==
    /\ reserved' = [a \in Accounts |-> IF a \in F THEN reserved[a] ELSE Minus(reserved[a], h[a])]
    /\ UNCHANGED used

ConfirmingInTwoWrites(h, F) ==
    /\ reserved' = [a \in Accounts |-> IF a \in F THEN reserved[a] ELSE Minus(reserved[a], h[a])]
    /\ used' = [a \in Accounts |-> used[a] + h[a]]
Confirming(h, F) ==
    /\ reserved' = [a \in Accounts |-> IF a \in F THEN reserved[a] ELSE Minus(reserved[a], h[a])]
    /\ used' = [a \in Accounts |-> IF a \in F THEN used[a] ELSE used[a] + h[a]]

-------------------------------------------------------------------------------
\* Admission: _check_before_queue and the first half of submit_binary.  It never
\* awaits, so nothing runs between the check of a limit and the reservation.

OnlyOn(a, n) == [Nothing EXCEPT ![a] = n]

\* What the two daily pools may grant: nothing when no limit applies, the daily
\* pool when the images fit, else the idle pool when the request is eligible and
\* the upstreams are idle (which they may or may not be); no grant means 429.
PoolGrants(r) ==
    IF Count[r] = 0 \/ limit[LimitOf(Daily(r))] = Off THEN {Nothing}
    ELSE IF Fits(Daily(r), Count[r]) THEN {OnlyOn(Daily(r), Count[r])}
    ELSE IF Cost[r] = 0 /\ Count[r] = 1 /\ limit[LimitOf(Idle(r))] >= 1 /\ Fits(Idle(r), 1)
         THEN {OnlyOn(Idle(r), 1)}
    ELSE {}

QuotaCovers(r) == Cost[r] = 0 \/ (Cost[r] > 0 /\ Fits(Quota(r), Cost[r]))

\* What an admitted request holds: the grant of a pool and its estimated cost.
Grants(r) ==
    IF QuotaCovers(r) THEN {[h EXCEPT ![Quota(r)] = Charged(r)] : h \in PoolGrants(r)} ELSE {}

Admit(r) ==
    /\ up /\ phase[r] = "new"
    /\ \E h \in Grants(r) :
        /\ hold' = [hold EXCEPT ![r] = h]
        /\ reserved' = [a \in Accounts |-> reserved[a] + h[a]]
    /\ phase' = [phase EXCEPT ![r] = "open"]
    /\ row' = [row EXCEPT ![r] = "queued"]
    /\ UNCHANGED <<up, day, limit, used, settled, final, history>>

\* insert_queued raises: settle_released, and the request is answered with 500.
AdmitInsertFails(r) ==
    /\ up /\ phase[r] = "new" /\ faults < MaxFaults
    /\ \E h \in Grants(r) : \E F \in FailSets(h) :
        /\ hold' = [hold EXCEPT ![r] = h]
        /\ reserved' = [a \in Accounts |-> IF a \in F THEN reserved[a] + h[a] ELSE reserved[a]]
        /\ orphan' = orphan \cup {<<r, a>> : a \in F}
    /\ phase' = [phase EXCEPT ![r] = "gone"]
    /\ settled' = [settled EXCEPT ![r] = "refunded"]
    /\ faults' = faults + 1
    /\ UNCHANGED <<up, day, limit, used, final, row, spent, skewed, cap>>

\* Turned away before the queue: free-small-only, rate limit, daily limit, cost
\* out of range or quota exhausted; what a pool had granted is released again.  A
\* write that raises on the way loses the row, and the answer is 500.
Reject(r) ==
    /\ up /\ phase[r] = "new"
    /\ phase' = [phase EXCEPT ![r] = "gone"]
    /\ \E written \in BOOLEAN :
        /\ ~written => faults < MaxFaults
        /\ row' = IF written THEN [row EXCEPT ![r] = "rejected"] ELSE row
        /\ CountFault(~written)
    /\ UNCHANGED <<up, day, limit, ledger, hold, settled, final, orphan, spent, skewed, cap>>

\* The same, when the release of the pool's grant fails (it is only logged).
RejectReleaseFails(r) ==
    /\ up /\ phase[r] = "new" /\ faults < MaxFaults
    /\ \E h \in PoolGrants(r) :
        /\ h # Nothing
        /\ hold' = [hold EXCEPT ![r] = h]
        /\ reserved' = [a \in Accounts |-> reserved[a] + h[a]]
        /\ orphan' = orphan \cup {<<r, a>> : a \in {b \in Accounts : h[b] > 0}}
    /\ row' = IF QuotaCovers(r) THEN row ELSE [row EXCEPT ![r] = "rejected"]
    /\ phase' = [phase EXCEPT ![r] = "gone"]
    /\ faults' = faults + 1
    /\ UNCHANGED <<up, day, limit, used, settled, final, spent, skewed, cap>>

-------------------------------------------------------------------------------
\* The methods of an open accounting object.

Open(r) == up /\ phase[r] = "open"

SettlingWithoutFlag(r, how, F) ==
    /\ settled' = [settled EXCEPT ![r] = how]
    /\ IF how = "charged" THEN Confirming(hold[r], F) ELSE Releasing(hold[r], F)
    /\ orphan' = orphan \cup {<<r, a>> : a \in F}
    /\ spent' = IF how = "charged"
                THEN spent \cup {<<r, a>> : a \in {b \in Accounts \ F : hold[r][b] > 0}}
                ELSE spent

\* _try_settle_reservation and the ledger writes behind it: the first call
\* settles, a later one changes nothing.
Settling(r, how, F) ==
    IF settled[r] = "no"
    THEN /\ settled' = [settled EXCEPT ![r] = how]
         /\ IF how = "charged" THEN Confirming(hold[r], F) ELSE Releasing(hold[r], F)
         /\ orphan' = orphan \cup {<<r, a>> : a \in F}
         /\ spent' = IF how = "charged"
                     THEN spent \cup {<<r, a>> : a \in {b \in Accounts \ F : hold[r][b] > 0}}
                     ELSE spent
    ELSE UNCHANGED <<settled, ledger, orphan, spent>>

SettleFails(r) == IF settled[r] = "no" THEN FailSets(hold[r]) ELSE {{}}

FinalizingLogAlways(r, status, written) ==
    /\ final' = [final EXCEPT ![r] = TRUE]
    /\ row' = IF written THEN [row EXCEPT ![r] = status] ELSE row

\* _try_finalize_log and the UPDATE behind it; written says whether it succeeds.
FinalizingLog(r, status, written) ==
    IF final[r] THEN UNCHANGED <<final, row>>
    ELSE /\ final' = [final EXCEPT ![r] = TRUE]
         /\ row' = IF written THEN [row EXCEPT ![r] = status] ELSE row

SettleReleased(r) ==
    /\ Open(r) /\ settled[r] = "no"
    /\ \E F \in FailSets(hold[r]) :
        /\ Settling(r, "refunded", F)
        /\ CountFault(F # {})
    /\ UNCHANGED <<up, day, limit, phase, hold, final, row, skewed, cap>>

\* settle_success, settle_failure and settle_rejected: settle, then close the log
\* row unless a quota write raised.
SettleAs(r, how, status) ==
    /\ Open(r)
    /\ \E F \in SettleFails(r), written \in BOOLEAN :
        /\ ~written => faults < MaxFaults /\ ~final[r] /\ ~Raises(F)
        /\ Settling(r, how, F)
        /\ IF Raises(F) THEN UNCHANGED <<final, row>> ELSE FinalizingLog(r, status, written)
        /\ CountFault(F # {} \/ ~written)
    /\ UNCHANGED <<up, day, limit, phase, hold, skewed, cap>>

SettleSuccess(r) == SettleAs(r, "charged", "success")
SettleFailure(r) == SettleAs(r, "refunded", "failed")
SettleRejected(r) == SettleAs(r, "refunded", "rejected")

RecordRetryFailureUnfinalized(r) ==
    /\ Open(r) /\ ~final[r]
    /\ row' = [row EXCEPT ![r] = "failed"]
    /\ UNCHANGED <<up, day, limit, ledger, phase, hold, settled, final, history>>

\* A 429 that will be retried closes the attempt's row and keeps the reservation.
\* When the write fails, _log_finalized is put back and nothing has changed.
RecordRetryFailure(r) ==
    /\ Open(r) /\ ~final[r]
    /\ FinalizingLog(r, "failed", TRUE)
    /\ UNCHANGED <<up, day, limit, ledger, phase, hold, settled, history>>

\* The next attempt gets a row of its own, with an open log; whether the object is
\* settled or its last row closed is not asked.
RecordRetryAttempt(r) ==
    /\ Open(r)
    /\ row' = [row EXCEPT ![r] = "running"]
    /\ final' = [final EXCEPT ![r] = FALSE]
    /\ UNCHANGED <<up, day, limit, ledger, phase, hold, settled, history>>

\* Its INSERT raises: settle_released, and the error goes to the caller.
RecordRetryAttemptFails(r) ==
    /\ Open(r) /\ faults < MaxFaults
    /\ \E F \in SettleFails(r) : Settling(r, "refunded", F)
    /\ faults' = faults + 1
    /\ UNCHANGED <<up, day, limit, phase, hold, final, row, skewed, cap>>

-------------------------------------------------------------------------------
\* Administration, time, crash and restart.

\* Grants an object of this process still holds, and those nobody will settle.
InFlight == {p \in Requests \X Accounts :
                phase[p[1]] = "open" /\ settled[p[1]] = "no" /\ hold[p[1]][p[2]] > 0}
Outstanding == InFlight \cup orphan

On(S, a) == {p \in S : p[2] = a}

\* reset_usage, called by an administrator or by reset_if_due: the quota at any
\* time, a daily row only while its window is current, idle rows never.  It does
\* not look at what is in flight.
ResetUsage(a) ==
    /\ up
    /\ a[1] = "quota" \/ (a[1] = "daily" /\ a[3] = day)
    /\ used' = [used EXCEPT ![a] = 0]
    /\ reserved' = [reserved EXCEPT ![a] = 0]
    /\ orphan' = orphan \ On(orphan, a)
    /\ spent' = spent \ On(spent, a)
    /\ skewed' = IF On(InFlight, a) = {} THEN skewed \ {a} ELSE skewed \cup {a}
    /\ cap' = [cap EXCEPT ![a] = Raised(0, limit[LimitOf(a)])]
    /\ UNCHANGED <<up, day, limit, object, faults>>

SetLimit(k, n) ==
    /\ up
    /\ n = Off => k[1] = "daily"
    /\ limit' = [limit EXCEPT ![k] = n]
    /\ cap' = [a \in Accounts |-> IF LimitOf(a) = k THEN Raised(cap[a], n) ELSE cap[a]]
    /\ UNCHANGED <<up, day, ledger, object, orphan, spent, skewed, faults>>

NextDay ==
    /\ day < LastDay
    /\ day' = day + 1
    /\ UNCHANGED <<up, limit, ledger, object, history>>

\* Every accounting object dies with the process; the ledgers stay on disk.
Crash ==
    /\ up
    /\ up' = FALSE
    /\ orphan' = Outstanding
    /\ phase' = [r \in Requests |-> IF phase[r] = "open" THEN "crashed" ELSE phase[r]]
    /\ UNCHANGED <<day, limit, ledger, hold, settled, final, row, spent, skewed, cap, faults>>

\* The three reclaim_orphan_reserved calls of the lifespan, before any request.
Restart ==
    /\ ~up
    /\ up' = TRUE
    /\ reserved' = Nothing
    /\ orphan' = {}
    /\ UNCHANGED <<day, limit, used, object, spent, skewed, cap, faults>>

-------------------------------------------------------------------------------
Init ==
    /\ up = TRUE
    /\ day = 0
    /\ limit = InitialLimit
    /\ used = Nothing
    /\ reserved = Nothing
    /\ phase = [r \in Requests |-> "new"]
    /\ hold = [r \in Requests |-> Nothing]
    /\ settled = [r \in Requests |-> "no"]
    /\ final = [r \in Requests |-> FALSE]
    /\ row = [r \in Requests |-> "none"]
    /\ orphan = {}
    /\ spent = {}
    /\ skewed = {}
    /\ cap = [a \in Accounts |-> Raised(0, InitialLimit[LimitOf(a)])]
    /\ faults = 0

Arrival(r) == Admit(r) \/ AdmitInsertFails(r) \/ Reject(r) \/ RejectReleaseFails(r)

Method(r) ==
    \/ SettleReleased(r)
    \/ SettleSuccess(r)
    \/ SettleFailure(r)
    \/ SettleRejected(r)
    \/ RecordRetryFailure(r)
    \/ RecordRetryAttempt(r)
    \/ RecordRetryAttemptFails(r)

Next ==
    \/ \E r \in Requests : Arrival(r) \/ Method(r)
    \/ \E a \in Accounts : ResetUsage(a)
    \/ \E k \in LimitKeys, n \in Limits : SetLimit(k, n)
    \/ NextDay
    \/ Crash
    \/ Restart

Spec == Init /\ [][Next]_vars
-------------------------------------------------------------------------------
\* Properties.

\* Every variable keeps its shape; in particular a ledger column never becomes
\* negative, though a reset may zero what is settled later.
TypeOK ==
    /\ up \in BOOLEAN
    /\ day \in 0 .. LastDay
    /\ limit \in [LimitKeys -> Nat \cup {Off}]
    /\ used \in [Accounts -> Nat]
    /\ reserved \in [Accounts -> Nat]
    /\ phase \in [Requests -> Phases]
    /\ hold \in [Requests -> [Accounts -> Nat]]
    /\ settled \in [Requests -> {"no", "charged", "refunded"}]
    /\ final \in [Requests -> BOOLEAN]
    /\ row \in [Requests -> RowStatus]
    /\ orphan \subseteq Requests \X Accounts
    /\ spent \subseteq Requests \X Accounts
    /\ skewed \subseteq Accounts
    /\ cap \in [Accounts -> Nat]
    /\ faults \in Nat

\* The units granted on account a to the requests of S, one token each, so that
\* they are counted with Cardinality.
Tokens(S, a) == UNION {{p[1]} \X (1 .. hold[p[1]][a]) : p \in On(S, a)}
Units(S, a) == Cardinality(Tokens(S, a))

\* No reservation leaks: what an account holds reserved is backed by requests that
\* still hold it or by writes that failed, so it is back to 0 when they are gone.
NoLeak == \A a \in Accounts : reserved[a] <= Units(Outstanding, a)

\* No reservation is given back twice, nor to another account than it was taken
\* from, whatever day it is settled: unless an account was reset under a request in
\* flight, it holds exactly what is outstanding.
LedgerExact == \A a \in Accounts \ skewed : reserved[a] = Units(Outstanding, a)

\* Usage is what was charged since the last reset, each request once, also when
\* the reset came before the charge or a write failed.
SpentExact == \A a \in Accounts : used[a] = Units(spent, a)

\* Nobody is granted more than the highest limit in force since the last reset,
\* however many requests are queued together, as long as no reset came between a
\* reservation and its settlement.
WithinCap == \A a \in Accounts \ skewed : used[a] + reserved[a] <= cap[a]

\* "Reserve in a transaction before queueing, so that requests queued together do
\* not overspend": the same without the exception.  A reset zeroes reservations
\* in flight, and their later confirmation also eats newer reservations.
NeverOverspent == \A a \in Accounts : used[a] + reserved[a] <= cap[a]

\* "Each attempt's row gets at most one terminal status": whatever the queue, the
\* retry path and the service call last, with whatever writes failing, a closed row
\* is never closed again.  It changes only by making way for the running row of a
\* next attempt, whose log is open.
RowTerminalOnce ==
    [][\A r \in Requests : row[r] \in TerminalRow /\ row'[r] # row[r]
            => row'[r] = "running" /\ ~final'[r]]_vars

\* The flags of an object tell the truth about the database, whatever failed on the
\* way: only an object whose log is finalized has a closed row, a grant is either in
\* flight or orphaned, charges belong to objects settled as charged, and nothing is
\* in flight while the process is down.  The ledger properties rest on it.
Bookkeeping ==
    /\ \A r \in Requests :
        /\ phase[r] = "new" => settled[r] = "no" /\ row[r] = "none"
        /\ phase[r] = "open" => up
        /\ phase[r] = "open" /\ row[r] \in TerminalRow => final[r]
    /\ \A p \in orphan \cup spent : phase[p[1]] # "new"
    /\ \A p \in spent : settled[p[1]] = "charged"
    /\ orphan \cap InFlight = {}
    /\ \A a \in Accounts : limit[LimitOf(a)] <= cap[a]

\* The reservation of each request lives the life Settlement promises: charged or
\* refunded once, never both, whatever methods are called in whatever order.
Fate ==
    [r \in Requests |->
        CASE phase[r] \in {"new", "gone"} -> "none"
          [] phase[r] \in {"open", "crashed"} /\ settled[r] # "no" -> settled[r]
          [] phase[r] = "open" /\ settled[r] = "no" -> "held"
          [] OTHER -> "orphaned"]

Abstract == INSTANCE Settlement WITH fate <- Fate
SettledOnce == Abstract!Spec
===============================================================================
