------------------------- MODULE RoutingLedgerProofs -------------------------
(***************************************************************************)
(* What the books say of a request, its caller's future, its coroutine,    *)
(* its reservation and its log rows, follows from the place it is in.      *)
(* That agreement is the inductive invariant of the routing queue; what    *)
(* the queue promises about requests follows from it.                      *)
(***************************************************************************)
EXTENDS RoutingPlacesProofs

-------------------------------------------------------------------------------
\* The agreement of the books with the place of a request.

Accounts ==
    [settled : {"none", "held", "charged", "refunded"}, final : BOOLEAN, row : [Attempts -> RowStatus]]

\* The attempts before n failed, those after it have no row.
RowsAt(a, n, status) ==
    \A m \in Attempts : a.row[m] = IF m < n THEN "failed" ELSE IF m = n THEN status ELSE "none"

Open(a, n, status) ==
    a.settled = "held" /\ (a.final <=> status \in {"none", "failed"}) /\ RowsAt(a, n, status)

ClosedRows(a) == a.final /\ \E n \in Attempts, status \in {"none"} \cup TerminalRow : RowsAt(a, n, status)

\* The row of an attempt that no worker has started.
Shown(i) == IF i.n = 0 THEN "queued" ELSE IF i.logged THEN "running" ELSE "none"

Listening(c, t) == (c = "waiting" /\ t = "awaiting") \/ (c = "cancelled" /\ t = "cancelled")

Settles(a, answer) ==
    \/ answer = "ok" /\ a.settled = "charged"
    \/ answer = "cancelled" /\ a.settled \in {"charged", "refunded"}
    \/ answer \in Answers \ {"ok"} /\ a.settled = "refunded"

\* A first attempt that the queues or the upstreams turned away: the service, if it is
\* not cancelled, will close the row.
LeftToService(c, t, a) ==
    /\ c \in {"full", "unavailable"} /\ t \in {"awaiting", "cancelled"}
    /\ ~a.final /\ RowsAt(a, 0, "queued")

Outside(c, t, a) ==
    \/ c = "none" /\ t = "none" /\ a = Unsubmitted
    \/ c = "refused" /\ t = "answered" /\ a.settled = "refunded" /\ ClosedRows(a)
    \/ /\ c \in Answers \cup {"cancelled"} /\ t \in {"awaiting", "answered", "cancelled"}
       /\ Settles(a, c) /\ (ClosedRows(a) \/ LeftToService(c, t, a))

Underway(i, place, c, a) ==
    \/ place = At("dispatch", "-", i, "-") /\ Open(a, i.n, Shown(i))
    \/ /\ \E s \in Slots : place = At("pending", s, i, "-") \/ place = At("hand", s, i, "lock")
       /\ (i.n > 0 => i.logged) /\ Open(a, i.n, Shown(i))
    \/ /\ \E s \in Slots, pc \in Hands \ {"lock"} : place = At("hand", s, i, pc)
       /\ Open(a, i.n, "running")
    \/ place = At("back", "-", i, "retry") /\ Open(a, i.n, "failed")
    \/ \E result \in Results \ {"retry"} :
        /\ place = At("back", "-", i, result) /\ Settles(a, result) /\ ClosedRows(a)
        /\ result = "cancelled" => c = "cancelled"

Entry(r, place, c, t, a) ==
    /\ a \in Accounts
    /\ \/ place = Nowhere /\ Outside(c, t, a)
       \/ \E i \in Items :
            i.r = r /\ (i.n = 0 => ~i.logged) /\ Listening(c, t) /\ Underway(i, place, c, a)

Ledger(where, cl, tk, ac) ==
    /\ DOMAIN cl = Requests /\ DOMAIN tk = Requests /\ DOMAIN ac = Requests
    /\ \A r \in Requests : Entry(r, where[r], cl[r], tk[r], ac[r])

\* What no step may do to the books of a submitted request.
Follows(c, a, c2, a2) ==
    /\ \A n \in Attempts : a.row[n] \in TerminalRow => a2.row[n] = a.row[n]
    /\ a2.settled = a.settled \/ (a.settled = "held" /\ a2.settled \in {"charged", "refunded"})
    /\ c2 = c \/ (c = "waiting" /\ c2 \notin {"none", "waiting", "refused"})

AllFollow(cl, ac, cl2, ac2) == \A r \in Requests : Follows(cl[r], ac[r], cl2[r], ac2[r])

LEMMA FollowsTwice ==
    ASSUME NEW c1, NEW a1, NEW c2, NEW a2, NEW c3, NEW a3, Follows(c1, a1, c2, a2), Follows(c2, a2, c3, a3)
    PROVE  Follows(c1, a1, c3, a3)
BY DEF Follows

\* Only the books of r change.
LEMMA LedgerStep ==
    ASSUME NEW from, NEW to, NEW cl, NEW tk, NEW ac, NEW cl2, NEW tk2, NEW ac2, NEW r \in Requests,
           Ledger(from, cl, tk, ac),
           Moves(from, to, r), Moves(cl, cl2, r), Moves(tk, tk2, r), Moves(ac, ac2, r),
           Entry(r, to[r], cl2[r], tk2[r], ac2[r]), Follows(cl[r], ac[r], cl2[r], ac2[r])
    PROVE  Ledger(to, cl2, tk2, ac2) /\ AllFollow(cl, ac, cl2, ac2)
<1>1. \A q \in Requests : Follows(cl[q], ac[q], cl[q], ac[q])
    BY DEF Follows
<1> QED
    BY <1>1 DEF Ledger, Moves, AllFollow

LEMMA Updated ==
    ASSUME NEW f, DOMAIN f = Requests, NEW r \in Requests, NEW x
    PROVE  Moves(f, [f EXCEPT ![r] = x], r) /\ [f EXCEPT ![r] = x][r] = x /\ Moves(f, f, r)
BY DEF Moves

LEMMA MovesTwice ==
    ASSUME NEW f, NEW g, NEW h, NEW r, Moves(f, g, r), Moves(g, h, r)
    PROVE  Moves(f, h, r)
BY DEF Moves

-------------------------------------------------------------------------------
\* The accounting calls on the books of an attempt underway.

LEMMA AttemptsAre == 0 \in Attempts /\ Attempts \subseteq Nat /\ \A n \in Attempts : n < MaxAttempts
BY RoutingAssumption DEF Attempts

LEMMA OpenMeans ==
    ASSUME NEW a, NEW n \in Attempts, NEW status
    PROVE  /\ RowsAt(a, n, status) => a.row[n] = status
           /\ Open(a, n, status) => a.settled = "held" /\ RowsAt(a, n, status)
           /\ Open(a, n, status) /\ status \in {"none", "failed"} => a.final
           /\ Open(a, n, status) /\ status \in {"queued", "running"} => ~a.final
<1>1. RowsAt(a, n, status) => a.row[n] = status
    BY AttemptsAre DEF RowsAt
<1>2. status \in {"queued", "running"} => status \notin {"none", "failed"}
    OBVIOUS
<1>3. Open(a, n, status) => (a.final <=> status \in {"none", "failed"})
    BY DEF Open
<1> QED
    BY <1>1, <1>2, <1>3 DEF Open

LEMMA OpensIf ==
    ASSUME NEW a, NEW n, RowsAt(a, n, "running"), a.settled = "held", ~a.final
    PROVE  Open(a, n, "running")
<1>1. "running" \notin {"none", "failed"}
    OBVIOUS
<1> QED
    BY <1>1, Zenon DEF Open

\* Closing the row of an attempt.
LEMMA CloseCall ==
    ASSUME NEW a \in Accounts, NEW n \in Attempts, NEW status \in {"none", "queued", "running", "failed"},
           RowsAt(a, n, status), (a.final <=> status \in {"none", "failed"}), NEW end \in TerminalRow
    PROVE  /\ Close(a, n, end) \in Accounts /\ ClosedRows(Close(a, n, end))
           /\ Close(a, n, end).settled = a.settled
           /\ \A m \in Attempts : a.row[m] \in TerminalRow => Close(a, n, end).row[m] = a.row[m]
           /\ status \notin {"none", "failed"} => RowsAt(Close(a, n, end), n, end)
<1>1. CASE a.final
    <2>1. Close(a, n, end) = a /\ status \in {"none"} \cup TerminalRow
        BY <1>1 DEF Close, TerminalRow
    <2> QED
        BY <1>1, <2>1 DEF ClosedRows
<1>2. CASE ~a.final
    <2> DEFINE b == [a EXCEPT !.final = TRUE, !.row[n] = end]
    <2>1. /\ b.final = TRUE /\ b.settled = a.settled /\ b.row[n] = end
          /\ \A m \in Attempts \ {n} : b.row[m] = a.row[m]
          /\ b \in Accounts
        BY DEF Accounts, RowStatus
    <2>2. Close(a, n, end) = b
        BY <1>2 DEF Close
    <2> HIDE DEF b
    <2>3. a.row[n] = status /\ RowsAt(b, n, end)
        BY <2>1, AttemptsAre DEF RowsAt
    <2>4. a.row[n] \notin TerminalRow
        BY <1>2, <2>3 DEF TerminalRow
    <2> QED
        BY <1>2, <2>1, <2>2, <2>3, <2>4 DEF ClosedRows
<1> QED
    BY <1>1, <1>2

\* Settling a reservation that is held.
LEMMA SettleCall ==
    ASSUME NEW a \in Accounts, a.settled = "held", NEW how \in {"charged", "refunded"}
    PROVE  /\ Settle(a, how) \in Accounts /\ Settle(a, how).settled = how
           /\ Settle(a, how).final = a.final /\ Settle(a, how).row = a.row
BY DEF Settle, Accounts

\* The books b that a call leaves when it ends the request of the books a.
KeepsRows(a, b) == \A n \in Attempts : a.row[n] \in TerminalRow => b.row[n] = a.row[n]
Ends(a, b, how) == b \in Accounts /\ ClosedRows(b) /\ b.settled = how /\ KeepsRows(a, b)

LEMMA EndCall ==
    ASSUME NEW a \in Accounts, NEW n \in Attempts, NEW status \in {"none", "queued", "running", "failed"},
           Open(a, n, status), NEW how \in {"charged", "refunded"}, NEW end \in TerminalRow
    PROVE  Ends(a, Close(Settle(a, how), n, end), how)
<1> DEFINE b == Settle(a, how)
<1>1. b \in Accounts /\ b.settled = how /\ b.final = a.final /\ b.row = a.row
    BY SettleCall DEF Open
<1> HIDE DEF b
<1>2. RowsAt(b, n, status) /\ (b.final <=> status \in {"none", "failed"})
    BY <1>1 DEF Open, RowsAt
<1>3. /\ Close(b, n, end) \in Accounts /\ ClosedRows(Close(b, n, end)) /\ Close(b, n, end).settled = b.settled
      /\ \A m \in Attempts : b.row[m] \in TerminalRow => Close(b, n, end).row[m] = b.row[m]
    BY <1>1, <1>2, CloseCall
<1> QED
    BY <1>1, <1>3 DEF Ends, KeepsRows, b

LEMMA EndCalls ==
    ASSUME NEW a \in Accounts, NEW n \in Attempts, NEW status \in {"none", "queued", "running", "failed"},
           Open(a, n, status)
    PROVE  /\ Ends(a, Failed(a, n), "refunded") /\ Ends(a, Rejected(a, n), "refunded")
           /\ Ends(a, Succeeded(a, n), "charged")
           /\ status \in {"none", "failed"} => Ends(a, Released(a), "refunded")
<1>1. /\ Ends(a, Failed(a, n), "refunded") /\ Ends(a, Rejected(a, n), "refunded")
      /\ Ends(a, Succeeded(a, n), "charged")
    BY EndCall DEF Failed, Rejected, Succeeded, Released, TerminalRow
<1>2. ASSUME status \in {"none", "failed"} PROVE Ends(a, Released(a), "refunded")
    <2> DEFINE b == Settle(a, "refunded")
    <2>1. b \in Accounts /\ b.settled = "refunded" /\ b.final = a.final /\ b.row = a.row
        BY SettleCall DEF Open
    <2> HIDE DEF b
    <2>2. RowsAt(b, n, status) /\ b.final
        BY <1>2, <2>1 DEF Open, RowsAt
    <2>3. ClosedRows(b) /\ KeepsRows(a, b)
        BY <1>2, <2>1, <2>2 DEF ClosedRows, KeepsRows, TerminalRow
    <2> QED
        BY <2>1, <2>3 DEF Ends, Released, b
<1> QED
    BY <1>1, <1>2

\* A first attempt that is turned away keeps its row, all others end.
LEMMA RoutingRejectionCall ==
    ASSUME NEW a \in Accounts, NEW i \in Items, i.n = 0 => ~i.logged, Open(a, i.n, Shown(i))
    PROVE  LET b == RoutingRejection(a, i) IN
           /\ b \in Accounts /\ b.settled = "refunded" /\ KeepsRows(a, b)
           /\ i.n > 0 => ClosedRows(b)
           /\ i.n = 0 => ~b.final /\ RowsAt(b, 0, "queued")
<1>1. i.n \in Attempts /\ i.n \in Nat /\ Shown(i) \in {"none", "queued", "running", "failed"}
    BY ItemOf, AttemptsAre DEF Shown
<1>2. CASE i.n > 0 /\ i.logged
    <2>1. Ends(a, Rejected(a, i.n), "refunded")
        BY <1>1, EndCalls
    <2>2. RoutingRejection(a, i) = Rejected(a, i.n)
        BY <1>2 DEF RoutingRejection
    <2> QED
        BY <1>2, <2>1, <2>2 DEF Ends
<1>3. CASE i.n > 0 /\ ~i.logged
    <2>1. Shown(i) = "none"
        BY <1>1, <1>3 DEF Shown
    <2>2. Ends(a, Released(a), "refunded")
        BY <1>1, <2>1, EndCalls
    <2>3. RoutingRejection(a, i) = Released(a)
        BY <1>3 DEF RoutingRejection
    <2> QED
        BY <1>3, <2>2, <2>3 DEF Ends
<1>4. CASE i.n = 0
    <2> DEFINE b == Settle(a, "refunded")
    <2>1. b \in Accounts /\ b.settled = "refunded" /\ b.final = a.final /\ b.row = a.row
        BY SettleCall DEF Open
    <2>2. RoutingRejection(a, i) = b
        BY <1>4 DEF RoutingRejection, Released
    <2> HIDE DEF b
    <2>3. Shown(i) = "queued"
        BY <1>4 DEF Shown
    <2>4. ~a.final /\ RowsAt(a, 0, "queued")
        BY <1>4, <2>3 DEF Open
    <2>5. ~b.final /\ RowsAt(b, 0, "queued") /\ KeepsRows(a, b)
        BY <2>1, <2>4 DEF RowsAt, KeepsRows
    <2> QED
        BY <1>4, <2>1, <2>2, <2>5
<1> QED
    BY <1>1, <1>2, <1>3, <1>4

\* An attempt that will be tried again, and the next one.
LEMMA RetryFailedCall ==
    ASSUME NEW a \in Accounts, NEW n \in Attempts, Open(a, n, "running")
    PROVE  LET b == RetryFailed(a, n) IN b \in Accounts /\ Open(b, n, "failed") /\ KeepsRows(a, b)
<1>1. RowsAt(a, n, "running") /\ ~a.final /\ a.settled = "held"
    BY DEF Open
<1>2. "failed" \in TerminalRow /\ "running" \in {"none", "queued", "running", "failed"} /\ "running" \notin {"none", "failed"}
    BY DEF TerminalRow
<1> DEFINE b == Close(a, n, "failed")
<1>3. b \in Accounts /\ ClosedRows(b) /\ b.settled = a.settled /\ KeepsRows(a, b) /\ RowsAt(b, n, "failed")
    BY <1>1, <1>2, CloseCall DEF KeepsRows
<1> HIDE DEF b
<1> QED
    BY <1>1, <1>3 DEF Open, ClosedRows, RetryFailed, Accounts, b

LEMMA NextRow ==
    ASSUME NEW a \in Accounts, NEW n \in Attempts, n + 1 \in Attempts, Open(a, n, "failed")
    PROVE  Open(a, n + 1, "none")
BY AttemptsAre DEF Open, RowsAt

LEMMA RunningCalls ==
    ASSUME NEW a \in Accounts, NEW n \in Attempts
    PROVE  /\ Open(a, n, "none") =>
                /\ RetryAttempt(a, n) \in Accounts /\ Open(RetryAttempt(a, n), n, "running")
                /\ KeepsRows(a, RetryAttempt(a, n))
           /\ Open(a, n, "queued") \/ Open(a, n, "running") =>
                /\ MarkRunning(a, n) \in Accounts /\ Open(MarkRunning(a, n), n, "running")
                /\ KeepsRows(a, MarkRunning(a, n))
<1> DEFINE b == RetryAttempt(a, n)
           c == MarkRunning(a, n)
<1>1. b.settled = a.settled /\ b.final = FALSE /\ b.row[n] = "running" /\ b \in Accounts
      /\ \A m \in Attempts \ {n} : b.row[m] = a.row[m]
    BY DEF RetryAttempt, Accounts, RowStatus
<1>2. c.settled = a.settled /\ c.final = a.final /\ c.row[n] = "running" /\ c \in Accounts
      /\ \A m \in Attempts \ {n} : c.row[m] = a.row[m]
    BY DEF MarkRunning, Accounts, RowStatus
<1> HIDE DEF b, c
<1>3. ASSUME Open(a, n, "none") PROVE Open(b, n, "running") /\ KeepsRows(a, b)
    <2>1. a.settled = "held" /\ RowsAt(a, n, "none") /\ a.row[n] = "none"
        BY <1>3, OpenMeans
    <2>2. RowsAt(b, n, "running")
        BY <1>1, <2>1, AttemptsAre DEF RowsAt
    <2>3. KeepsRows(a, b)
        BY <1>1, <2>1 DEF KeepsRows, TerminalRow
    <2> QED
        BY <1>1, <2>1, <2>2, <2>3, OpensIf
<1>4. ASSUME NEW status \in {"queued", "running"}, Open(a, n, status) PROVE Open(c, n, "running") /\ KeepsRows(a, c)
    <2>1. a.settled = "held" /\ ~a.final /\ RowsAt(a, n, status) /\ a.row[n] = status
        BY <1>4, OpenMeans
    <2>2. RowsAt(c, n, "running")
        BY <1>2, <2>1, AttemptsAre DEF RowsAt
    <2>3. KeepsRows(a, c)
        BY <1>2, <2>1 DEF KeepsRows, TerminalRow
    <2> QED
        BY <1>2, <2>1, <2>2, <2>3, OpensIf
<1> QED
    BY <1>1, <1>2, <1>3, <1>4 DEF b, c

\* The first row, as it is opened and as the service closes it.
LEMMA FirstRow ==
    /\ Unsubmitted \in Accounts
    /\ Opened \in Accounts /\ Open(Opened, 0, "queued") /\ Ends(Opened, Rejected(Opened, 0), "refunded")
<1>1. Unsubmitted \in Accounts
    BY DEF Unsubmitted, Accounts, RowStatus
<1>2. Opened \in Accounts
    BY DEF Opened, Accounts, RowStatus
<1>3. Open(Opened, 0, "queued")
    BY AttemptsAre DEF Opened, Open, RowsAt
<1>4. Ends(Opened, Rejected(Opened, 0), "refunded")
    BY <1>2, <1>3, AttemptsAre, EndCalls
<1> QED
    BY <1>1, <1>2, <1>3, <1>4

LEMMA ServiceCall ==
    ASSUME NEW a \in Accounts, a.settled = "refunded", ClosedRows(a) \/ (~a.final /\ RowsAt(a, 0, "queued"))
    PROVE  Ends(a, Rejected(a, 0), "refunded")
<1>1. Rejected(a, 0) = Close(a, 0, "rejected")
    BY DEF Rejected, Released, Settle
<1>2. CASE ClosedRows(a)
    BY <1>1, <1>2 DEF ClosedRows, Close, Ends, KeepsRows
<1>3. CASE ~a.final /\ RowsAt(a, 0, "queued")
    <2>1. "queued" \notin {"none", "failed"} /\ "rejected" \in TerminalRow /\ 0 \in Attempts
        BY AttemptsAre DEF TerminalRow
    <2>2. ~a.final
        BY <1>3, <2>1 DEF Accounts
    <2> DEFINE b == Close(a, 0, "rejected")
    <2>3. b \in Accounts /\ ClosedRows(b) /\ b.settled = a.settled /\ KeepsRows(a, b)
        BY <1>3, <2>1, <2>2, CloseCall DEF KeepsRows
    <2> HIDE DEF b
    <2> QED
        BY <1>1, <2>3 DEF Ends, b
<1> QED
    BY <1>2, <1>3

-------------------------------------------------------------------------------
\* Reading the ledger, and writing it.

\* The books of an attempt that is underway.
Live(i, status, c, t, a) ==
    a \in Accounts /\ (i.n = 0 => ~i.logged) /\ Listening(c, t) /\ Open(a, i.n, status)

\* The books of an attempt that is on its way back with a result for its caller.
Answering(i, result, c, t, a) ==
    /\ a \in Accounts /\ (i.n = 0 => ~i.logged) /\ Listening(c, t)
    /\ Settles(a, result) /\ ClosedRows(a) /\ (result = "cancelled" => c = "cancelled")

\* The books of a request that is over.
Ended(c, t, a) ==
    /\ a \in Accounts /\ c \in Answers \cup {"cancelled"} /\ t \in {"awaiting", "answered", "cancelled"}
    /\ Settles(a, c) /\ (ClosedRows(a) \/ LeftToService(c, t, a))

LEMMA Underways ==
    ASSUME NEW i, NEW j, NEW place, NEW c, NEW a, Underway(j, place, c, a)
    PROVE  /\ place = At("dispatch", "-", i, "-") => i = j /\ Open(a, i.n, Shown(i))
           /\ \A s : place = At("pending", s, i, "-") \/ place = At("hand", s, i, "lock")
                => i = j /\ (i.n > 0 => i.logged) /\ Open(a, i.n, Shown(i))
           /\ \A s : \A pc \in Hands \ {"lock"} : place = At("hand", s, i, pc) => i = j /\ Open(a, i.n, "running")
           /\ place = At("back", "-", i, "retry") => i = j /\ Open(a, i.n, "failed")
           /\ \A result \in Results \ {"retry"} : place = At("back", "-", i, result)
                => i = j /\ Settles(a, result) /\ ClosedRows(a) /\ (result = "cancelled" => c = "cancelled")
           /\ place # Nowhere
<1>1. CASE place = At("dispatch", "-", j, "-") /\ Open(a, j.n, Shown(j))
    BY <1>1, OnePlaceEach
<1>2. CASE /\ \E s \in Slots : place = At("pending", s, j, "-") \/ place = At("hand", s, j, "lock")
           /\ (j.n > 0 => j.logged) /\ Open(a, j.n, Shown(j))
    BY <1>2, OnePlaceEach
<1>3. CASE /\ \E s \in Slots, pc \in Hands \ {"lock"} : place = At("hand", s, j, pc)
           /\ Open(a, j.n, "running")
    BY <1>3, OnePlaceEach
<1>4. CASE place = At("back", "-", j, "retry") /\ Open(a, j.n, "failed")
    BY <1>4, OnePlaceEach
<1>5. CASE \E result \in Results \ {"retry"} :
            /\ place = At("back", "-", j, result) /\ Settles(a, result) /\ ClosedRows(a)
            /\ result = "cancelled" => c = "cancelled"
    BY <1>5, OnePlaceEach
<1> QED
    BY <1>1, <1>2, <1>3, <1>4, <1>5 DEF Underway

LEMMA EntryMeans ==
    ASSUME NEW r, NEW i, NEW place, NEW c, NEW t, NEW a, Entry(r, place, c, t, a)
    PROVE  /\ place = At("dispatch", "-", i, "-") => Live(i, Shown(i), c, t, a)
           /\ \A s : place = At("pending", s, i, "-") \/ place = At("hand", s, i, "lock")
                => Live(i, Shown(i), c, t, a) /\ (i.n > 0 => i.logged)
           /\ \A s : \A pc \in Hands \ {"lock"} : place = At("hand", s, i, pc) => Live(i, "running", c, t, a)
           /\ place = At("back", "-", i, "retry") => Live(i, "failed", c, t, a)
           /\ \A result \in Results \ {"retry"} :
                place = At("back", "-", i, result) => Answering(i, result, c, t, a)
           /\ place = Nowhere => Outside(c, t, a)
           /\ place # Nowhere => Listening(c, t)
           /\ a \in Accounts
<1>1. CASE place = Nowhere /\ Outside(c, t, a)
    <2>1. BoxOf(place) = "nowhere"
        BY <1>1, OnePlaceEach
    <2> QED
        BY <1>1, <2>1, OnePlaceEach DEF Entry
<1>2. CASE \E j \in Items : j.r = r /\ (j.n = 0 => ~j.logged) /\ Listening(c, t) /\ Underway(j, place, c, a)
    <2>1. PICK j \in Items : j.r = r /\ (j.n = 0 => ~j.logged) /\ Listening(c, t) /\ Underway(j, place, c, a)
        BY <1>2
    <2>2. a \in Accounts
        BY DEF Entry
    <2> QED
        BY <2>1, <2>2, Underways DEF Live, Answering
<1> QED
    BY <1>1, <1>2 DEF Entry

LEMMA EntryWhere ==
    ASSUME NEW r, NEW place, NEW c, NEW t, NEW a, Entry(r, place, c, t, a)
    PROVE  /\ place = Nowhere => Outside(c, t, a)
           /\ place # Nowhere => Listening(c, t)
           /\ a \in Accounts
<1>1. a \in Accounts
    BY DEF Entry
<1>2. CASE place = Nowhere /\ Outside(c, t, a)
    BY <1>1, <1>2
<1>3. CASE \E j \in Items : j.r = r /\ (j.n = 0 => ~j.logged) /\ Listening(c, t) /\ Underway(j, place, c, a)
    BY <1>1, <1>3, Underways
<1> QED
    BY <1>2, <1>3 DEF Entry

LEMMA EntryMade ==
    ASSUME NEW i \in Items, NEW place, NEW c, NEW t, NEW a,
           \/ place = At("dispatch", "-", i, "-") /\ Live(i, Shown(i), c, t, a)
           \/ /\ \E s \in Slots : place = At("pending", s, i, "-") \/ place = At("hand", s, i, "lock")
              /\ Live(i, Shown(i), c, t, a) /\ (i.n > 0 => i.logged)
           \/ (\E s \in Slots, pc \in Hands \ {"lock"} : place = At("hand", s, i, pc)) /\ Live(i, "running", c, t, a)
           \/ place = At("back", "-", i, "retry") /\ Live(i, "failed", c, t, a)
           \/ \E result \in Results \ {"retry"} :
                place = At("back", "-", i, result) /\ Answering(i, result, c, t, a)
           \/ place = Nowhere /\ Ended(c, t, a)
    PROVE  Entry(i.r, place, c, t, a)
<1>1. CASE place = Nowhere /\ Ended(c, t, a)
    BY <1>1 DEF Ended, Entry, Outside
<1>2. CASE place = At("dispatch", "-", i, "-") /\ Live(i, Shown(i), c, t, a)
    BY <1>2 DEF Live, Entry, Underway
<1>3. CASE /\ \E s \in Slots : place = At("pending", s, i, "-") \/ place = At("hand", s, i, "lock")
           /\ Live(i, Shown(i), c, t, a) /\ (i.n > 0 => i.logged)
    BY <1>3 DEF Live, Entry, Underway
<1>4. CASE (\E s \in Slots, pc \in Hands \ {"lock"} : place = At("hand", s, i, pc)) /\ Live(i, "running", c, t, a)
    BY <1>4 DEF Live, Entry, Underway
<1>5. CASE place = At("back", "-", i, "retry") /\ Live(i, "failed", c, t, a)
    BY <1>5 DEF Live, Entry, Underway
<1>6. CASE \E result \in Results \ {"retry"} :
                place = At("back", "-", i, result) /\ Answering(i, result, c, t, a)
    <2>1. PICK result \in Results \ {"retry"} :
                place = At("back", "-", i, result) /\ Answering(i, result, c, t, a)
        BY <1>6
    <2>2. Underway(i, place, c, a)
        BY <2>1 DEF Answering, Underway
    <2> QED
        BY <2>1, <2>2 DEF Answering, Entry
<1> QED
    BY <1>1, <1>2, <1>3, <1>4, <1>5, <1>6

-------------------------------------------------------------------------------
\* What happens to the books when an attempt is dispatched, retried or rerouted.

\* The target of an upstream is a slot.
Generations == target \in [Upstreams -> 0 .. MaxGen]

LEMMA TargetSlot == Generations => \A u \in Targets : u \in Upstreams /\ Current(u) \in Slots
BY RoutingAssumption DEF Generations, Targets, Current, Slots

LEMMA Awaited == \A t : Listening("waiting", t) => t = "awaiting"
BY DEF Listening

\* The request of the books a is answered and its books end as b.
LEMMA AnswerGiven ==
    ASSUME NEW i \in Items, NEW status \in {"none", "queued", "running", "failed"}, NEW t, NEW a,
           Live(i, status, "waiting", t, a), NEW answer \in Answers \ {"ok"}, NEW b,
           b \in Accounts, b.settled = "refunded", KeepsRows(a, b),
           \/ ClosedRows(b)
           \/ answer \in {"full", "unavailable"} /\ ~b.final /\ RowsAt(b, 0, "queued")
    PROVE  Entry(i.r, Nowhere, answer, t, b) /\ Follows("waiting", a, answer, b)
<1>1. t = "awaiting" /\ a.settled = "held"
    BY Awaited DEF Live, Open
<1>2. Settles(b, answer) /\ answer \notin {"none", "waiting", "refused"} /\ answer \in Answers \cup {"cancelled"}
    BY DEF Settles, Answers
<1>3. ClosedRows(b) \/ LeftToService(answer, t, b)
    BY <1>1 DEF LeftToService
<1>4. Ended(answer, t, b)
    BY <1>1, <1>2, <1>3 DEF Ended
<1>5. Entry(i.r, Nowhere, answer, t, b)
    BY <1>4, EntryMade
<1> QED
    BY <1>1, <1>2, <1>5 DEF Follows, KeepsRows

LEMMA Logs ==
    ASSUME NEW i \in Items, NEW flag \in BOOLEAN
    PROVE  LET j == [i EXCEPT !.logged = flag] IN j \in Items /\ j.r = i.r /\ j.n = i.n /\ j.logged = flag
BY DEF Items

LEMMA DispatchToLands ==
    ASSUME Generations, DOMAIN client = Requests, DOMAIN acct = Requests,
           NEW mid, NEW dq, NEW back, Boxes(mid, dq, queue, worker, back),
           NEW i \in Items, mid[i.r] = Nowhere, client[i.r] = "waiting",
           Live(i, Shown(i), client[i.r], task[i.r], acct[i.r]), DispatchTo(i)
    PROVE  \E to :
            /\ Moves(mid, to, i.r) /\ Boxes(to, dq, queue', worker, back)
            /\ Entry(i.r, to[i.r], client'[i.r], task[i.r], acct'[i.r])
            /\ Follows(client[i.r], acct[i.r], client'[i.r], acct'[i.r])
            /\ Moves(client, client', i.r) /\ Moves(acct, acct', i.r)
<1> DEFINE r == i.r
           a == acct[r]
<1>1. r \in Requests /\ i.n \in Attempts /\ i.n \in Nat
    BY ItemOf, AttemptsAre
<1>2. a \in Accounts /\ (i.n = 0 => ~i.logged) /\ Open(a, i.n, Shown(i)) /\ Live(i, Shown(i), "waiting", task[r], a)
    BY DEF Live
<1>3. Shown(i) \in {"none", "queued", "running", "failed"}
    BY DEF Shown
<1>4. CASE Routed(i)
    <2> DEFINE j == [i EXCEPT !.logged = i.n > 0]
    <2>1. PICK u \in Roomy(r) : queue' = [queue EXCEPT ![Current(u)] = Put(@, j)]
        BY <1>4 DEF Routed
    <2> DEFINE s == Current(u)
    <2>2. s \in Slots
        BY TargetSlot DEF Roomy, Candidates
    <2>3. j \in Items /\ j.r = r /\ j.n = i.n /\ (j.logged <=> i.n > 0)
        <3> DEFINE flag == i.n > 0
        <3>1. flag \in BOOLEAN
            BY <1>1
        <3> HIDE DEF flag
        <3>2. j \in Items /\ j.r = r /\ j.n = i.n /\ j.logged = flag
            <4>1. j = [i EXCEPT !.logged = flag]
                BY DEF flag
            <4> HIDE DEF j
            <4> QED
                BY <3>1, <4>1, Logs
        <3> QED
            BY <3>2 DEF flag
    <2>4. queue' = [queue EXCEPT ![s] = Put(queue[s], j)]
        BY <2>1, <2>2 DEF Boxes
    <2>5. /\ client' = client
          /\ acct' = IF i.n > 0 /\ ~i.logged THEN [acct EXCEPT ![r] = RetryAttempt(a, i.n)] ELSE acct
        BY <1>4 DEF Routed
    <2> HIDE DEF s, j
    <2>6. /\ Moves(acct, acct', r) /\ Live(j, Shown(j), "waiting", task[r], acct'[r])
          /\ KeepsRows(a, acct'[r]) /\ acct'[r].settled = a.settled
        <3>1. CASE i.n > 0 /\ ~i.logged
            <4>1. Shown(i) = "none" /\ Shown(j) = "running"
                BY <1>1, <2>3, <3>1 DEF Shown
            <4> DEFINE b == RetryAttempt(a, i.n)
            <4>2. b \in Accounts /\ Open(b, i.n, "running") /\ KeepsRows(a, b)
                BY <1>1, <1>2, <4>1, RunningCalls
            <4> HIDE DEF b
            <4>3. acct' = [acct EXCEPT ![r] = b]
                BY <2>5, <3>1 DEF b
            <4>4. Moves(acct, acct', r) /\ acct'[r] = b
                BY <1>1, <4>3, Updated
            <4> QED
                BY <1>1, <1>2, <2>3, <3>1, <4>1, <4>2, <4>4 DEF Live, Open
        <3>2. CASE ~(i.n > 0 /\ ~i.logged)
            <4>1. Shown(j) = Shown(i)
                BY <1>1, <2>3, <3>2 DEF Shown
            <4>2. acct' = acct
                BY <2>5, <3>2
            <4>3. Moves(acct, acct', r)
                BY <4>2 DEF Moves
            <4>4. j.n = 0 => ~j.logged
                BY <2>3
            <4> QED
                BY <1>2, <2>3, <4>1, <4>2, <4>3, <4>4 DEF Live, KeepsRows
        <3> QED
            BY <3>1, <3>2
    <2>7. (j.n > 0 => j.logged)
        BY <2>3
    <2> DEFINE place == At("pending", s, j, "-")
               to == [mid EXCEPT ![r] = place]
    <2>8. Moves(mid, to, r) /\ to[r] = place
        <3>1. DOMAIN mid = Requests
            BY DEF Boxes
        <3> HIDE DEF place
        <3> QED
            BY <1>1, <3>1, Updated
    <2> HIDE DEF to
    <2>9. Boxes(to, dq, queue', worker, back)
        BY <2>2, <2>3, <2>4, <2>8, EnterQueue
    <2>10. Entry(r, to[r], "waiting", task[r], acct'[r])
        <3>1. Entry(j.r, place, "waiting", task[r], acct'[r])
            BY <2>2, <2>3, <2>6, <2>7, EntryMade
        <3> QED
            BY <2>3, <2>8, <3>1
    <2>11. Follows("waiting", a, "waiting", acct'[r]) /\ Moves(client, client, r)
        BY <2>6 DEF Follows, KeepsRows, Moves
    <2> QED
        BY <2>5, <2>6, <2>8, <2>9, <2>10, <2>11
<1>5. CASE Unroutable(i)
    <2> DEFINE overLimit == Candidates(r) = {} /\ r \in IdleRequests
               answer == CASE overLimit -> "idle_rejected"
                           [] ~overLimit /\ i.n > 0 -> "error"
                           [] ~overLimit /\ i.n = 0 /\ Candidates(r) # {} -> "full"
                           [] OTHER -> "unavailable"
               b == IF overLimit /\ ~(i.n > 0 /\ ~i.logged) THEN Rejected(a, i.n) ELSE RoutingRejection(a, i)
    <2>1. /\ acct' = [acct EXCEPT ![r] = b] /\ client' = [client EXCEPT ![r] = answer] /\ queue' = queue
        <3>1. acct' = [acct EXCEPT ![r] = IF overLimit /\ ~(i.n > 0 /\ ~i.logged) THEN Rejected(@, i.n)
                                          ELSE RoutingRejection(@, i)]
            BY <1>5 DEF Unroutable
        <3>2. client' = [client EXCEPT ![r] = answer] /\ queue' = queue
            BY <1>5 DEF Unroutable
        <3> QED
            BY <1>1, <3>1, <3>2
    <2>2. /\ answer \in Answers \ {"ok"}
          /\ ~overLimit /\ i.n = 0 => answer \in {"full", "unavailable"}
        BY <1>1 DEF Answers
    <2> HIDE DEF answer
    <2>3. /\ b \in Accounts /\ b.settled = "refunded" /\ KeepsRows(a, b)
          /\ ClosedRows(b) \/ (answer \in {"full", "unavailable"} /\ ~b.final /\ RowsAt(b, 0, "queued"))
        <3>1. CASE overLimit /\ ~(i.n > 0 /\ ~i.logged)
            <4>1. Ends(a, Rejected(a, i.n), "refunded")
                BY <1>1, <1>2, <1>3, EndCalls
            <4> QED
                BY <3>1, <4>1 DEF Ends
        <3>2. CASE ~(overLimit /\ ~(i.n > 0 /\ ~i.logged))
            <4>1. b = RoutingRejection(a, i)
                BY <3>2
            <4>2. /\ b \in Accounts /\ b.settled = "refunded" /\ KeepsRows(a, b)
                  /\ i.n > 0 => ClosedRows(b)
                  /\ i.n = 0 => ~b.final /\ RowsAt(b, 0, "queued")
                <5> HIDE DEF b
                <5> QED
                    BY <1>2, <4>1, RoutingRejectionCall
            <4>3. i.n = 0 => ~overLimit
                BY <1>1, <3>2
            <4> HIDE DEF b, overLimit
            <4> QED
                BY <1>1, <2>2, <4>2, <4>3
        <3> QED
            BY <3>1, <3>2
    <2> HIDE DEF b
    <2>4. Entry(r, Nowhere, answer, task[r], b) /\ Follows("waiting", a, answer, b)
        BY <1>2, <1>3, <2>2, <2>3, AnswerGiven
    <2>5. /\ Moves(acct, acct', r) /\ acct'[r] = b
          /\ Moves(client, client', r) /\ client'[r] = answer
        BY <1>1, <2>1, Updated
    <2>6. Moves(mid, mid, r) /\ Boxes(mid, dq, queue', worker, back)
        BY <2>1 DEF Moves, Boxes
    <2> QED
        BY <2>4, <2>5, <2>6
<1> QED
    BY <1>4, <1>5 DEF DispatchTo

-------------------------------------------------------------------------------
\* The steps.

Agree(dq, qs, ws, back, cl, tk, ac) == \E where : Boxes(where, dq, qs, ws, back) /\ Ledger(where, cl, tk, ac)

\* The invariant: every request has a place the books agree with.
Booked == Agree(dispatchQ, queue, worker, callbacks, client, task, acct)

\* What no step does to the books of a request that has been submitted.
Orderly == AllFollow(client, acct, client', acct')

LEMMA Lands ==
    ASSUME NEW from, NEW to, NEW r \in Requests, NEW cl, NEW tk, NEW ac, NEW cl2, NEW tk2, NEW ac2,
           NEW dq, NEW qs, NEW ws, NEW back, Ledger(from, cl, tk, ac),
           Moves(from, to, r), Moves(cl, cl2, r), Moves(tk, tk2, r), Moves(ac, ac2, r), Boxes(to, dq, qs, ws, back),
           Entry(r, to[r], cl2[r], tk2[r], ac2[r]), Follows(cl[r], ac[r], cl2[r], ac2[r])
    PROVE  Agree(dq, qs, ws, back, cl2, tk2, ac2) /\ AllFollow(cl, ac, cl2, ac2)
BY LedgerStep DEF Agree

\* The request r is taken from its place.
Off(where, r) == [where EXCEPT ![r] = Nowhere]

LEMMA OffMoves ==
    ASSUME NEW where, NEW dq, NEW qs, NEW ws, NEW back, Boxes(where, dq, qs, ws, back), NEW r \in Requests
    PROVE  Moves(where, Off(where, r), r) /\ Off(where, r)[r] = Nowhere
BY Updated DEF Boxes, Off

LEMMA Still == \A f, r : DOMAIN f = Requests => Moves(f, f, r)
BY DEF Moves

\* An attempt whose caller went away ends without an answer.
LEMMA EndsUnheard ==
    ASSUME NEW i \in Items, NEW status, NEW c, NEW t, NEW a, Live(i, status, c, t, a), c # "waiting",
           NEW b, Ends(a, b, "refunded")
    PROVE  Entry(i.r, Nowhere, c, t, b) /\ Follows(c, a, c, b)
<1>1. c = "cancelled" /\ t = "cancelled" /\ a.settled = "held"
    BY DEF Live, Listening, Open
<1>2. Ended(c, t, b)
    BY <1>1 DEF Ended, Ends, Settles
<1> QED
    BY <1>1, <1>2, EntryMade DEF Follows, Ends, KeepsRows

\* An attempt ends with a result its caller will be told of.
LEMMA EndsWith ==
    ASSUME NEW i \in Items, NEW status, NEW c, NEW t, NEW a, Live(i, status, c, t, a), NEW b, NEW how, Ends(a, b, how),
           NEW result,
           \/ how = "charged" /\ result = "ok"
           \/ how = "refunded" /\ result \in Answers \ {"ok"}
           \/ how = "refunded" /\ result = "cancelled" /\ c # "waiting"
    PROVE  Answering(i, result, c, t, b) /\ Follows(c, a, c, b) /\ result \in Results \ {"retry"}
<1>1. c \in {"waiting", "cancelled"} /\ a.settled = "held"
    BY DEF Live, Listening, Open
<1>2. result \in Results \ {"retry"}
    BY DEF Results, Answers
<1>3. Settles(b, result) /\ (result = "cancelled" => c = "cancelled")
    BY <1>1 DEF Settles, Ends, Answers
<1>4. Answering(i, result, c, t, b)
    BY <1>3 DEF Answering, Live, Ends
<1> QED
    BY <1>1, <1>2, <1>4 DEF Follows, Ends, KeepsRows

LEMMA Returns ==
    ASSUME NEW mid, NEW dq, NEW qs, NEW ws, NEW back, Boxes(mid, dq, qs, ws, back),
           NEW i \in Items, mid[i.r] = Nowhere, NEW result \in Results, NEW c, NEW t, NEW b,
           \/ result # "retry" /\ Answering(i, result, c, t, b)
           \/ result = "retry" /\ Live(i, "failed", c, t, b)
    PROVE  \E to :
            /\ Moves(mid, to, i.r) /\ Boxes(to, dq, qs, ws, back \cup {[item |-> i, result |-> result]})
            /\ Entry(i.r, to[i.r], c, t, b)
<1> DEFINE place == At("back", "-", i, result)
           to == [mid EXCEPT ![i.r] = place]
<1>1. Moves(mid, to, i.r) /\ to[i.r] = place
    <2>1. DOMAIN mid = Requests /\ i.r \in Requests
        BY ItemOf DEF Boxes
    <2> HIDE DEF place
    <2> QED
        BY <2>1, Updated
<1> HIDE DEF to
<1>2. Boxes(to, dq, qs, ws, back \cup {[item |-> i, result |-> result]})
    BY <1>1, EnterBack
<1>3. Entry(i.r, place, c, t, b)
    <2>1. CASE result # "retry" /\ Answering(i, result, c, t, b)
        BY <2>1, EntryMade
    <2>2. CASE result = "retry" /\ Live(i, "failed", c, t, b)
        BY <2>2, EntryMade
    <2> QED
        BY <2>1, <2>2
<1> HIDE DEF place
<1> QED
    BY <1>1, <1>2, <1>3

LEMMA DispatchStep ==
    ASSUME Generations, Booked, Dispatch
    PROVE  Booked' /\ Orderly
<1>1. PICK where : Boxes(where, dispatchQ, queue, worker, callbacks) /\ Ledger(where, client, task, acct)
    BY DEF Booked, Agree
<1> DEFINE i == Head(dispatchQ)
           r == i.r
           a == acct[r]
           mid == Off(where, r)
<1>2. dispatchQ # <<>> /\ dispatchQ' = Tail(dispatchQ) /\ worker' = worker /\ callbacks' = callbacks /\ task' = task
    BY DEF Dispatch, execution
<1>3. /\ i \in Items /\ where[r] = At("dispatch", "-", i, "-")
      /\ \A to : Moves(where, to, r) /\ to[r] = Nowhere => Boxes(to, dispatchQ', queue, worker, callbacks)
    BY <1>1, <1>2, LeaveDispatch
<1>4. \/ client[r] # "waiting" /\ acct' = [acct EXCEPT ![r] = Failed(a, i.n)] /\ queue' = queue /\ client' = client
      \/ /\ client[r] = "waiting" /\ acct' = [acct EXCEPT ![r] = Rejected(a, i.n)]
         /\ client' = [client EXCEPT ![r] = "user_gone"] /\ queue' = queue
      \/ client[r] = "waiting" /\ DispatchTo(i)
    BY DEF Dispatch, Waiting
<1> HIDE DEF i
<1>5. r \in Requests /\ i.n \in Attempts /\ Shown(i) \in {"none", "queued", "running", "failed"}
    BY <1>3, ItemOf DEF Shown
<1>6. DOMAIN client = Requests /\ DOMAIN task = Requests /\ DOMAIN acct = Requests
    BY <1>1 DEF Ledger
<1>7. Live(i, Shown(i), client[r], task[r], a)
    <2>1. Entry(r, where[r], client[r], task[r], a)
        BY <1>1, <1>5 DEF Ledger
    <2> QED
        BY <1>3, <2>1, EntryMeans
<1>8. Moves(where, mid, r) /\ mid[r] = Nowhere /\ Boxes(mid, dispatchQ', queue, worker, callbacks)
    BY <1>1, <1>3, <1>5, OffMoves
<1>9. Ends(a, Failed(a, i.n), "refunded") /\ Ends(a, Rejected(a, i.n), "refunded")
    BY <1>5, <1>7, EndCalls DEF Live
<1> SUFFICES \E to :
        /\ Moves(where, to, r) /\ Boxes(to, dispatchQ', queue', worker, callbacks)
        /\ Entry(r, to[r], client'[r], task[r], acct'[r]) /\ Follows(client[r], a, client'[r], acct'[r])
        /\ Moves(client, client', r) /\ Moves(acct, acct', r)
    BY <1>1, <1>2, <1>5, <1>6, Lands, Still DEF Booked, Orderly
<1> HIDE DEF mid
<1>10. CASE client[r] # "waiting" /\ acct' = [acct EXCEPT ![r] = Failed(a, i.n)] /\ queue' = queue /\ client' = client
    <2>1. Entry(r, Nowhere, client[r], task[r], Failed(a, i.n)) /\ Follows(client[r], a, client[r], Failed(a, i.n))
        BY <1>3, <1>7, <1>9, <1>10, EndsUnheard
    <2>2. Moves(acct, acct', r) /\ acct'[r] = Failed(a, i.n)
        <3>1. acct' = [acct EXCEPT ![r] = Failed(a, i.n)]
            BY <1>10
        <3> QED
            BY <1>5, <1>6, <3>1 DEF Moves
    <2>3. Moves(client, client', r)
        BY <1>6, <1>10, Still
    <2> QED
        BY <1>8, <1>10, <2>1, <2>2, <2>3
<1>11. CASE /\ client[r] = "waiting" /\ acct' = [acct EXCEPT ![r] = Rejected(a, i.n)]
            /\ client' = [client EXCEPT ![r] = "user_gone"] /\ queue' = queue
    <2>1. /\ Entry(r, Nowhere, "user_gone", task[r], Rejected(a, i.n))
          /\ Follows("waiting", a, "user_gone", Rejected(a, i.n))
        <3>1. "user_gone" \in Answers \ {"ok"}
            BY DEF Answers
        <3> QED
            BY <1>3, <1>5, <1>7, <1>9, <1>11, <3>1, AnswerGiven DEF Ends
    <2>2. Moves(acct, acct', r) /\ acct'[r] = Rejected(a, i.n) /\ Moves(client, client', r) /\ client'[r] = "user_gone"
        <3> DEFINE b == Rejected(a, i.n)
        <3>1. Moves(acct, acct', r) /\ acct'[r] = b
            <4>1. acct' = [acct EXCEPT ![r] = b]
                BY <1>11
            <4> HIDE DEF b
            <4> QED
                BY <1>5, <1>6, <4>1, Updated
        <3>2. Moves(client, client', r) /\ client'[r] = "user_gone"
            BY <1>5, <1>6, <1>11, Updated, Zenon
        <3> QED
            BY <3>1, <3>2
    <2> QED
        BY <1>8, <1>11, <2>1, <2>2
<1>12. CASE client[r] = "waiting" /\ DispatchTo(i)
    <2>1. PICK to :
            /\ Moves(mid, to, r) /\ Boxes(to, dispatchQ', queue', worker, callbacks)
            /\ Entry(r, to[r], client'[r], task[r], acct'[r]) /\ Follows(client[r], a, client'[r], acct'[r])
            /\ Moves(client, client', r) /\ Moves(acct, acct', r)
        BY <1>3, <1>6, <1>7, <1>8, <1>12, DispatchToLands
    <2>2. Moves(where, to, r)
        BY <1>8, <2>1, MovesTwice
    <2> QED
        BY <2>1, <2>2
<1> QED
    BY <1>4, <1>10, <1>11, <1>12

\* The next attempt after one that failed on a busy upstream.
LEMMA NextIs ==
    ASSUME NEW i \in Items, ~LastAttempt(i)
    PROVE  LET j == NextAttempt(i) IN
           j \in Items /\ j.r = i.r /\ j.n = i.n + 1 /\ ~j.logged /\ Shown(j) = "none" /\ j.n > 0
<1>1. i.n \in Nat /\ i.n + 1 \in Attempts /\ i.r \in Requests
    BY ItemOf, RoutingAssumption DEF LastAttempt, Attempts
<1>2. NextAttempt(i) = [r |-> i.r, n |-> i.n + 1, logged |-> FALSE]
    BY DEF NextAttempt
<1>3. i.n + 1 > 0 /\ i.n + 1 # 0
    BY <1>1
<1> QED
    BY <1>1, <1>2, <1>3 DEF Items, Shown

LEMMA RequeueLands ==
    ASSUME Generations, DOMAIN client = Requests, DOMAIN acct = Requests,
           NEW mid, NEW back, Boxes(mid, dispatchQ, queue, worker, back),
           NEW i \in Items, mid[i.r] = Nowhere, client[i.r] = "waiting", Shown(i) = "none",
           Live(i, "none", client[i.r], task[i.r], acct[i.r]), Requeue(i)
    PROVE  \E to :
            /\ Moves(mid, to, i.r) /\ Boxes(to, dispatchQ', queue', worker, back)
            /\ Entry(i.r, to[i.r], client'[i.r], task[i.r], acct'[i.r])
            /\ Follows(client[i.r], acct[i.r], client'[i.r], acct'[i.r])
            /\ Moves(client, client', i.r) /\ Moves(acct, acct', i.r)
<1> DEFINE r == i.r
           a == acct[r]
<1>1. r \in Requests /\ i.n \in Attempts
    BY ItemOf
<1>2. CASE DispatchTo(i) /\ dispatchQ' = dispatchQ
    BY <1>2, DispatchToLands
<1>3. CASE dispatchQ' = Put(dispatchQ, i) /\ queue' = queue /\ client' = client /\ acct' = acct
    <2> DEFINE place == At("dispatch", "-", i, "-")
               to == [mid EXCEPT ![r] = place]
    <2>1. Moves(mid, to, r) /\ to[r] = place
        <3>1. DOMAIN mid = Requests
            BY DEF Boxes
        <3> HIDE DEF place
        <3> QED
            BY <1>1, <3>1, Updated
    <2> HIDE DEF to
    <2>2. Boxes(to, dispatchQ', queue, worker, back)
        BY <1>3, <2>1, EnterDispatch
    <2>3. Entry(r, place, client[r], task[r], a)
        BY EntryMade
    <2>4. Follows(client[r], a, client[r], a) /\ Moves(client, client, r) /\ Moves(acct, acct, r)
        BY Still DEF Follows
    <2> QED
        BY <1>3, <2>1, <2>2, <2>3, <2>4
<1>4. CASE /\ acct' = [acct EXCEPT ![r] = Released(a)] /\ client' = [client EXCEPT ![r] = "error"]
           /\ queue' = queue /\ dispatchQ' = dispatchQ
    <2>1. Ends(a, Released(a), "refunded")
        BY <1>1, EndCalls DEF Live
    <2>2. "error" \in Answers \ {"ok"}
        BY DEF Answers
    <2>3. Entry(r, Nowhere, "error", task[r], Released(a)) /\ Follows("waiting", a, "error", Released(a))
        BY <2>1, <2>2, AnswerGiven DEF Ends
    <2>4. Moves(acct, acct', r) /\ acct'[r] = Released(a)
        <3>1. acct' = [acct EXCEPT ![r] = Released(a)]
            BY <1>4
        <3> QED
            BY <1>1, <3>1 DEF Moves
    <2>5. Moves(client, client', r) /\ client'[r] = "error"
        <3>1. client' = [client EXCEPT ![r] = "error"]
            BY <1>4
        <3> QED
            BY <1>1, <3>1 DEF Moves
    <2>6. Moves(mid, mid, r)
        BY DEF Moves, Boxes
    <2> QED
        BY <1>4, <2>3, <2>4, <2>5, <2>6
<1> QED
    BY <1>2, <1>3, <1>4 DEF Requeue

\* A failed attempt whose request ends here.
LEMMA RetryEnds ==
    ASSUME DOMAIN client = Requests, DOMAIN acct = Requests,
           NEW i \in Items, NEW mid, mid[i.r] = Nowhere,
           Live(i, "failed", client[i.r], task[i.r], acct[i.r]),
           acct' = [acct EXCEPT ![i.r] = Released(acct[i.r])],
           \/ client[i.r] # "waiting" /\ client' = client
           \/ \E answer \in {"error", "idle_rejected"} :
                client[i.r] = "waiting" /\ client' = [client EXCEPT ![i.r] = answer]
    PROVE  /\ Entry(i.r, mid[i.r], client'[i.r], task[i.r], acct'[i.r])
           /\ Follows(client[i.r], acct[i.r], client'[i.r], acct'[i.r])
           /\ Moves(client, client', i.r) /\ Moves(acct, acct', i.r)
<1> DEFINE r == i.r
           a == acct[r]
<1>1. r \in Requests /\ i.n \in Attempts
    BY ItemOf
<1>2. Ends(a, Released(a), "refunded")
    BY <1>1, EndCalls DEF Live
<1>3. Moves(acct, acct', r) /\ acct'[r] = Released(a)
    BY <1>1 DEF Moves
<1>4. CASE client[r] # "waiting" /\ client' = client
    <2>1. Entry(r, Nowhere, client[r], task[r], Released(a)) /\ Follows(client[r], a, client[r], Released(a))
        BY <1>2, <1>4, EndsUnheard
    <2> QED
        BY <1>3, <1>4, <2>1, Still
<1>5. CASE \E answer \in {"error", "idle_rejected"} :
                client[r] = "waiting" /\ client' = [client EXCEPT ![r] = answer]
    <2>1. PICK answer \in {"error", "idle_rejected"} :
                client[r] = "waiting" /\ client' = [client EXCEPT ![r] = answer]
        BY <1>5
    <2>2. answer \in Answers \ {"ok"}
        BY DEF Answers
    <2>3. Entry(r, Nowhere, answer, task[r], Released(a)) /\ Follows("waiting", a, answer, Released(a))
        BY <1>2, <2>1, <2>2, AnswerGiven DEF Ends
    <2>4. Moves(client, client', r) /\ client'[r] = answer
        BY <1>1, <2>1, Updated, Zenon
    <2> QED
        BY <1>3, <2>1, <2>3, <2>4
<1> QED
    BY <1>4, <1>5

LEMMA RetryLands ==
    ASSUME Generations, DOMAIN client = Requests, DOMAIN acct = Requests,
           NEW mid, NEW back, Boxes(mid, dispatchQ, queue, worker, back),
           NEW i \in Items, mid[i.r] = Nowhere, Live(i, "failed", client[i.r], task[i.r], acct[i.r]), Retry(i)
    PROVE  \E to :
            /\ Moves(mid, to, i.r) /\ Boxes(to, dispatchQ', queue', worker, back)
            /\ Entry(i.r, to[i.r], client'[i.r], task[i.r], acct'[i.r])
            /\ Follows(client[i.r], acct[i.r], client'[i.r], acct'[i.r])
            /\ Moves(client, client', i.r) /\ Moves(acct, acct', i.r)
<1> DEFINE r == i.r
           a == acct[r]
           next == NextAttempt(i)
<1>1. \/ /\ acct' = [acct EXCEPT ![r] = Released(a)] /\ dispatchQ' = dispatchQ /\ queue' = queue
         /\ \/ client[r] # "waiting" /\ client' = client
            \/ \E answer \in {"error", "idle_rejected"} :
                client[r] = "waiting" /\ client' = [client EXCEPT ![r] = answer]
      \/ client[r] = "waiting" /\ ~LastAttempt(i) /\ Requeue(next)
    <2>1. CASE ~Waiting(r)
        BY <2>1 DEF Retry, Waiting
    <2>2. CASE Waiting(r) /\ Requeue(next) /\ ~LastAttempt(i)
        BY <2>2 DEF Waiting
    <2>3. CASE /\ Waiting(r) /\ acct' = [acct EXCEPT ![r] = Released(acct[r])]
               /\ UNCHANGED <<dispatchQ, queue>> /\ client' = [client EXCEPT ![r] = "error"]
        BY <2>3 DEF Waiting
    <2>4. CASE /\ Waiting(r) /\ acct' = [acct EXCEPT ![r] = Released(acct[r])]
               /\ UNCHANGED <<dispatchQ, queue>> /\ client' = [client EXCEPT ![r] = "idle_rejected"]
        BY <2>4 DEF Waiting
    <2> QED
        BY <2>1, <2>2, <2>3, <2>4 DEF Retry
<1>2. CASE /\ acct' = [acct EXCEPT ![r] = Released(a)] /\ dispatchQ' = dispatchQ /\ queue' = queue
           /\ \/ client[r] # "waiting" /\ client' = client
              \/ \E answer \in {"error", "idle_rejected"} :
                client[r] = "waiting" /\ client' = [client EXCEPT ![r] = answer]
    <2>1. /\ Entry(r, mid[r], client'[r], task[r], acct'[r]) /\ Follows(client[r], a, client'[r], acct'[r])
          /\ Moves(client, client', r) /\ Moves(acct, acct', r)
        BY <1>2, RetryEnds
    <2>2. Moves(mid, mid, r)
        BY DEF Moves, Boxes
    <2> QED
        BY <1>2, <2>1, <2>2
<1>3. CASE client[r] = "waiting" /\ ~LastAttempt(i) /\ Requeue(next)
    <2>1. next \in Items /\ next.r = r /\ next.n = i.n + 1 /\ ~next.logged /\ Shown(next) = "none" /\ next.n > 0
        BY <1>3, NextIs
    <2> HIDE DEF next
    <2>2. i.n \in Attempts /\ next.n \in Attempts
        BY <2>1, ItemOf
    <2>3. Open(a, next.n, "none")
        BY <2>1, <2>2, NextRow DEF Live
    <2>4. Live(next, "none", client[r], task[r], a)
        BY <2>1, <2>3 DEF Live
    <2> QED
        BY <1>3, <2>1, <2>4, RequeueLands
<1> QED
    BY <1>1, <1>2, <1>3

LEMMA CompleteStep ==
    ASSUME Generations, Booked, NEW q \in Requests, Complete(q)
    PROVE  Booked' /\ Orderly
<1>1. PICK where : Boxes(where, dispatchQ, queue, worker, callbacks) /\ Ledger(where, client, task, acct)
    BY DEF Booked, Agree
<1>2. PICK x \in callbacks :
        /\ x.item.r = q /\ callbacks' = callbacks \ {x}
        /\ \/ x.result = "retry" /\ Retry(x.item)
           \/ /\ x.result # "retry"
              /\ client' = IF Waiting(q) THEN [client EXCEPT ![q] = x.result] ELSE client
              /\ UNCHANGED <<dispatchQ, queue, acct>>
    BY DEF Complete
<1> DEFINE i == x.item
           result == x.result
           r == i.r
           a == acct[r]
           mid == Off(where, r)
<1>3. worker' = worker /\ task' = task
    BY DEF Complete, execution
<1>4. /\ i \in Items /\ result \in Results /\ where[r] = At("back", "-", i, result)
      /\ \A to : Moves(where, to, r) /\ to[r] = Nowhere => Boxes(to, dispatchQ, queue, worker, callbacks \ {x})
    BY <1>1, LeaveBack
<1>5. /\ q = r
      /\ \/ result = "retry" /\ Retry(i)
         \/ /\ result # "retry" /\ dispatchQ' = dispatchQ /\ queue' = queue /\ acct' = acct
            /\ client' = IF client[r] = "waiting" THEN [client EXCEPT ![r] = result] ELSE client
    BY <1>2 DEF Waiting
<1> HIDE DEF i, result
<1>6. r \in Requests
    BY <1>4, ItemOf
<1>7. DOMAIN client = Requests /\ DOMAIN task = Requests /\ DOMAIN acct = Requests
    BY <1>1 DEF Ledger
<1>8. Entry(r, where[r], client[r], task[r], a)
    BY <1>1, <1>6 DEF Ledger
<1>9. Moves(where, mid, r) /\ mid[r] = Nowhere /\ Boxes(mid, dispatchQ, queue, worker, callbacks')
    BY <1>1, <1>2, <1>4, <1>6, OffMoves
<1> HIDE DEF mid
<1> SUFFICES \E to :
        /\ Moves(where, to, r) /\ Boxes(to, dispatchQ', queue', worker, callbacks')
        /\ Entry(r, to[r], client'[r], task[r], acct'[r]) /\ Follows(client[r], a, client'[r], acct'[r])
        /\ Moves(client, client', r) /\ Moves(acct, acct', r)
    BY <1>1, <1>3, <1>6, <1>7, Lands, Still DEF Booked, Orderly
<1>10. CASE result = "retry" /\ Retry(i)
    <2>1. Live(i, "failed", client[r], task[r], a)
        BY <1>4, <1>8, <1>10, EntryMeans
    <2>2. PICK to :
            /\ Moves(mid, to, r) /\ Boxes(to, dispatchQ', queue', worker, callbacks')
            /\ Entry(r, to[r], client'[r], task[r], acct'[r]) /\ Follows(client[r], a, client'[r], acct'[r])
            /\ Moves(client, client', r) /\ Moves(acct, acct', r)
        BY <1>4, <1>7, <1>9, <1>10, <2>1, RetryLands
    <2>3. Moves(where, to, r)
        BY <1>9, <2>2, MovesTwice
    <2> QED
        BY <2>2, <2>3
<1>11. CASE /\ result # "retry" /\ dispatchQ' = dispatchQ /\ queue' = queue /\ acct' = acct
            /\ client' = IF client[r] = "waiting" THEN [client EXCEPT ![r] = result] ELSE client
    <2>1. Answering(i, result, client[r], task[r], a)
        BY <1>4, <1>8, <1>11, EntryMeans
    <2>2. CASE client[r] = "waiting"
        <3>1. result \in Answers /\ task[r] = "awaiting"
            BY <1>4, <1>11, <2>1, <2>2 DEF Answering, Listening, Results
        <3>2. Ended(result, task[r], a)
            BY <2>1, <3>1 DEF Ended, Answering
        <3>3. Entry(r, Nowhere, result, task[r], a)
            BY <1>4, <3>2, EntryMade
        <3>4. Moves(client, client', r) /\ client'[r] = result
            BY <1>6, <1>7, <1>11, <2>2, Updated
        <3>5. Follows(client[r], a, client'[r], a)
            BY <2>2, <3>1, <3>4 DEF Follows, Answers
        <3>6. Moves(acct, acct, r)
            BY <1>7, Still
        <3> QED
            BY <1>9, <1>11, <3>3, <3>4, <3>5, <3>6
    <2>3. CASE client[r] # "waiting"
        <3>1. client[r] = "cancelled" /\ task[r] = "cancelled"
            BY <2>1, <2>3 DEF Answering, Listening
        <3>2. Settles(a, "cancelled")
            BY <2>1 DEF Answering, Settles
        <3>3. Ended(client[r], task[r], a)
            BY <2>1, <3>1, <3>2 DEF Ended, Answering
        <3>4. Entry(r, Nowhere, client[r], task[r], a)
            BY <1>4, <3>3, EntryMade
        <3>5. client' = client /\ Follows(client[r], a, client[r], a)
            BY <1>11, <2>3 DEF Follows
        <3> QED
            BY <1>7, <1>9, <1>11, <3>4, <3>5, Still
    <2> QED
        BY <2>2, <2>3
<1> QED
    BY <1>5, <1>10, <1>11

-------------------------------------------------------------------------------
\* The caller's side.

LEMMA CallerStep ==
    ASSUME Booked, NEW r \in Requests, ServiceResume(r) \/ ClientCancels(r) \/ UserGone(r)
    PROVE  Booked' /\ Orderly
<1>1. PICK where : Boxes(where, dispatchQ, queue, worker, callbacks) /\ Ledger(where, client, task, acct)
    BY DEF Booked, Agree
<1> DEFINE a == acct[r]
<1>2. DOMAIN client = Requests /\ DOMAIN task = Requests /\ DOMAIN acct = Requests
    BY <1>1 DEF Ledger
<1>3. /\ dispatchQ' = dispatchQ /\ queue' = queue /\ worker' = worker /\ callbacks' = callbacks
    BY DEF ServiceResume, ClientCancels, UserGone, routing, execution
<1>4. Entry(r, where[r], client[r], task[r], a) /\ Moves(where, where, r)
    BY <1>1 DEF Ledger, Moves, Boxes
<1>5. SUFFICES /\ Entry(r, where[r], client'[r], task'[r], acct'[r]) /\ Follows(client[r], a, client'[r], acct'[r])
               /\ Moves(client, client', r) /\ Moves(task, task', r) /\ Moves(acct, acct', r)
    BY <1>1, <1>3, <1>4, Lands DEF Booked, Orderly
<1>6. CASE ServiceResume(r)
    <2>1. /\ task[r] = "awaiting" /\ client[r] # "waiting" /\ task' = [task EXCEPT ![r] = "answered"]
          /\ acct' = (IF client[r] \in {"full", "unavailable"} THEN [acct EXCEPT ![r] = Rejected(a, 0)] ELSE acct)
          /\ client' = client
        BY <1>6 DEF ServiceResume, Waiting
    <2>2. where[r] = Nowhere
        <3>1. ~Listening(client[r], task[r])
            BY <2>1 DEF Listening
        <3> QED
            BY <1>4, <3>1, EntryMeans
    <2>3. /\ client[r] \in Answers \cup {"cancelled"} /\ Settles(a, client[r])
          /\ ClosedRows(a) \/ LeftToService(client[r], task[r], a)
          /\ a \in Accounts
        <3>1. Outside(client[r], task[r], a) /\ a \in Accounts
            BY <1>4, <2>2, EntryMeans
        <3> QED
            BY <2>1, <3>1 DEF Outside
    <2>4. Moves(task, task', r) /\ task'[r] = "answered" /\ Moves(client, client', r)
        BY <1>2, <2>1, Updated, Still
    <2>5. CASE client[r] \in {"full", "unavailable"}
        <3>1. a.settled = "refunded"
            BY <2>3, <2>5 DEF Settles
        <3>2. Ends(a, Rejected(a, 0), "refunded")
            BY <2>3, <3>1, ServiceCall DEF LeftToService
        <3>3. Moves(acct, acct', r) /\ acct'[r] = Rejected(a, 0)
            BY <1>2, <2>1, <2>5, Updated
        <3>4. Outside(client[r], "answered", Rejected(a, 0))
            BY <2>3, <2>5, <3>2 DEF Outside, Ends, Settles, Answers
        <3>5. Entry(r, Nowhere, client[r], "answered", Rejected(a, 0))
            BY <3>2, <3>4 DEF Entry, Ends
        <3>6. Follows(client[r], a, client[r], Rejected(a, 0))
            BY <3>1, <3>2 DEF Follows, Ends, KeepsRows
        <3> QED
            BY <2>1, <2>2, <2>4, <3>3, <3>5, <3>6
    <2>6. CASE client[r] \notin {"full", "unavailable"}
        <3>1. ClosedRows(a)
            BY <2>3, <2>6 DEF LeftToService
        <3>2. Outside(client[r], "answered", a)
            BY <2>3, <3>1 DEF Outside
        <3>3. Entry(r, Nowhere, client[r], "answered", a)
            BY <2>3, <3>2 DEF Entry
        <3>4. acct' = acct /\ Moves(acct, acct, r) /\ Follows(client[r], a, client[r], a)
            BY <1>2, <2>1, <2>6, Still DEF Follows
        <3> QED
            BY <2>1, <2>2, <2>4, <3>3, <3>4
    <2> QED
        BY <2>5, <2>6
<1>7. CASE ClientCancels(r)
    <2>1. /\ task[r] = "awaiting" /\ task' = [task EXCEPT ![r] = "cancelled"] /\ acct' = acct
          /\ client' = IF client[r] = "waiting" THEN [client EXCEPT ![r] = "cancelled"] ELSE client
        BY <1>7 DEF ClientCancels, Waiting
    <2> DEFINE c == IF client[r] = "waiting" THEN "cancelled" ELSE client[r]
    <2>2. Moves(task, task', r) /\ task'[r] = "cancelled" /\ Moves(acct, acct', r)
        BY <1>2, <2>1, Updated, Still
    <2>3. Moves(client, client', r) /\ client'[r] = c
        BY <1>2, <2>1, Updated, Still
    <2>4. Follows(client[r], a, c, a)
        BY DEF Follows
    <2>5. Entry(r, where[r], c, "cancelled", a)
        <3>1. CASE where[r] = Nowhere /\ Outside(client[r], task[r], a)
            <4>1. /\ client[r] \in Answers \cup {"cancelled"} /\ Settles(a, client[r])
                  /\ ClosedRows(a) \/ LeftToService(client[r], task[r], a)
                BY <2>1, <3>1 DEF Outside
            <4>2. c = client[r]
                BY <4>1 DEF Answers
            <4>3. Outside(client[r], "cancelled", a)
                BY <4>1 DEF Outside, LeftToService
            <4> QED
                BY <1>4, <3>1, <4>2, <4>3 DEF Entry
        <3>2. CASE \E i \in Items :
                    i.r = r /\ (i.n = 0 => ~i.logged) /\ Listening(client[r], task[r]) /\ Underway(i, where[r], client[r], a)
            <4>1. PICK i \in Items :
                    i.r = r /\ (i.n = 0 => ~i.logged) /\ Listening(client[r], task[r]) /\ Underway(i, where[r], client[r], a)
                BY <3>2
            <4>2. c = "cancelled" /\ Listening(c, "cancelled")
                BY <2>1, <4>1 DEF Listening
            <4> HIDE DEF c
            <4>3. Underway(i, where[r], c, a)
                BY <4>1, <4>2 DEF Underway
            <4> QED
                BY <1>4, <4>1, <4>2, <4>3 DEF Entry
        <3> QED
            BY <1>4, <3>1, <3>2 DEF Entry
    <2> HIDE DEF c
    <2> QED
        BY <2>1, <2>2, <2>3, <2>4, <2>5
<1>8. CASE UserGone(r)
    <2>1. client' = client /\ task' = task /\ acct' = acct
        BY <1>8 DEF UserGone
    <2> QED
        BY <1>2, <1>4, <2>1, Still DEF Follows
<1> QED
    BY <1>6, <1>7, <1>8

\* A request comes in: nothing was held or logged for it before.
Comes(r) ==
    /\ client[r] = "none" /\ task[r] = "none" /\ acct[r] = Unsubmitted
    /\ client'[r] \in {"waiting", "refused"} /\ task'[r] # "none"
    /\ client'[r] = "waiting" => acct'[r].settled = "held"
    /\ Moves(client, client', r) /\ Moves(acct, acct', r)

LEMMA SubmitStep ==
    ASSUME Booked, NEW r \in Requests, Submit(r) \/ SubmitRefused(r)
    PROVE  Booked' /\ Comes(r)
<1>1. PICK where : Boxes(where, dispatchQ, queue, worker, callbacks) /\ Ledger(where, client, task, acct)
    BY DEF Booked, Agree
<1>2. DOMAIN client = Requests /\ DOMAIN task = Requests /\ DOMAIN acct = Requests /\ DOMAIN where = Requests
    BY <1>1 DEF Ledger, Boxes
<1>3. task[r] = "none" /\ queue' = queue /\ worker' = worker /\ callbacks' = callbacks
    BY DEF Submit, SubmitRefused, routing, execution
<1>4. where[r] = Nowhere /\ client[r] = "none" /\ acct[r] = Unsubmitted
    <2>1. Entry(r, where[r], client[r], task[r], acct[r])
        BY <1>1 DEF Ledger
    <2>2. ~Listening(client[r], task[r])
        BY <1>3 DEF Listening
    <2>3. where[r] = Nowhere
        BY <2>1, <2>2, EntryWhere
    <2>4. Outside(client[r], task[r], acct[r])
        BY <2>1, <2>3, EntryWhere
    <2> QED
        BY <1>3, <2>3, <2>4 DEF Outside
<1>5. PICK to :
        /\ Moves(where, to, r) /\ Boxes(to, dispatchQ', queue, worker, callbacks)
        /\ Moves(client, client', r) /\ Moves(task, task', r) /\ Moves(acct, acct', r)
        /\ Entry(r, to[r], client'[r], task'[r], acct'[r])
        /\ client'[r] \in {"waiting", "refused"} /\ task'[r] # "none"
        /\ client'[r] = "waiting" => acct'[r].settled = "held"
    <2>1. CASE Submit(r)
        <3> DEFINE i == [r |-> r, n |-> 0, logged |-> FALSE]
                   place == At("dispatch", "-", i, "-")
                   to == [where EXCEPT ![r] = place]
        <3>1. i \in Items /\ i.r = r /\ i.n = 0 /\ ~i.logged
            BY AttemptsAre DEF Items
        <3>2. dispatchQ' = Put(dispatchQ, i)
            BY <2>1 DEF Submit
        <3> HIDE DEF i
        <3>3. Shown(i) = "queued"
            BY <3>1 DEF Shown
        <3>4. Moves(where, to, r) /\ to[r] = place
            <4> HIDE DEF place
            <4> QED
                BY <1>2, Updated
        <3> HIDE DEF to
        <3>5. Boxes(to, dispatchQ', queue, worker, callbacks)
            BY <1>1, <1>4, <3>1, <3>2, <3>4, EnterDispatch
        <3>6. Moves(client, client', r) /\ client'[r] = "waiting"
            BY <1>2, <2>1, Updated, Zenon DEF Submit
        <3>7. Moves(task, task', r) /\ task'[r] = "awaiting"
            BY <1>2, <2>1, Updated, Zenon DEF Submit
        <3>8. Moves(acct, acct', r) /\ acct'[r] = Opened
            BY <1>2, <2>1, Updated, Zenon DEF Submit
        <3>9. Live(i, Shown(i), "waiting", "awaiting", Opened) /\ Opened.settled = "held"
            BY <3>1, <3>3, FirstRow DEF Live, Listening, Open
        <3>10. Entry(r, place, "waiting", "awaiting", Opened)
            <4>1. Entry(i.r, place, "waiting", "awaiting", Opened)
                BY <3>1, <3>9, EntryMade
            <4> QED
                BY <3>1, <4>1
        <3> HIDE DEF place
        <3> QED
            BY <3>4, <3>5, <3>6, <3>7, <3>8, <3>9, <3>10
    <2>2. CASE SubmitRefused(r)
        <3>1. Moves(client, client', r) /\ client'[r] = "refused"
            BY <1>2, <2>2, Updated, Zenon DEF SubmitRefused
        <3>2. Moves(task, task', r) /\ task'[r] = "answered"
            BY <1>2, <2>2, Updated, Zenon DEF SubmitRefused
        <3>3. Moves(acct, acct', r) /\ acct'[r] = Rejected(Opened, 0)
            BY <1>2, <2>2, Updated, Zenon DEF SubmitRefused
        <3>4. Outside("refused", "answered", Rejected(Opened, 0)) /\ Rejected(Opened, 0) \in Accounts
            BY FirstRow DEF Outside, Ends
        <3>5. Entry(r, Nowhere, "refused", "answered", Rejected(Opened, 0))
            BY <3>4 DEF Entry
        <3>6. dispatchQ' = dispatchQ /\ Moves(where, where, r)
            BY <1>2, <2>2, Still DEF SubmitRefused, routing
        <3> QED
            BY <1>1, <1>4, <3>1, <3>2, <3>3, <3>5, <3>6
    <2> QED
        BY <2>1, <2>2
<1>6. Comes(r)
    BY <1>3, <1>4, <1>5 DEF Comes
<1>7. Ledger(to, client', task', acct')
    BY <1>1, <1>5 DEF Ledger, Moves
<1> QED
    BY <1>3, <1>5, <1>6, <1>7 DEF Booked, Agree

-------------------------------------------------------------------------------
\* The workers.

WorkerIdle == Idling \in WorkerStates /\ Idling.pc \notin Hands
WorkerBusy(i) ==
    /\ \A pc \in {"lock", "interval", "exec", "archive", "cleanup"} : Holding(pc, i) \in WorkerStates
    /\ \A pc : Holding(pc, i).pc = pc /\ Holding(pc, i).item = i

LEMMA WorkerIs == WorkerIdle /\ \A i \in Items : WorkerBusy(i)
<1>1. WorkerIdle
    BY DEF WorkerIdle, WorkerStates, Idling, Hands
<1>2. ASSUME NEW i \in Items PROVE WorkerBusy(i)
    BY DEF WorkerBusy, WorkerStates, Holding
<1> QED
    BY <1>1, <1>2

\* The worker of s has taken the attempt i, which was mid is nowhere, and is at its lock.
LEMMA ProcessLands ==
    ASSUME DOMAIN acct = Requests, NEW s \in Slots, NEW mid, NEW qs, worker \in [Slots -> WorkerStates],
           Boxes(mid, dispatchQ, qs, [worker EXCEPT ![s] = Idling], callbacks),
           NEW i \in Items, mid[i.r] = Nowhere, i.n > 0 => i.logged,
           Live(i, Shown(i), client[i.r], task[i.r], acct[i.r]), NEW locks, Process(s, i, locks)
    PROVE  \E to :
            /\ Moves(mid, to, i.r) /\ Boxes(to, dispatchQ, qs, worker', callbacks')
            /\ Entry(i.r, to[i.r], client[i.r], task[i.r], acct'[i.r])
            /\ Follows(client[i.r], acct[i.r], client[i.r], acct'[i.r]) /\ Moves(acct, acct', i.r)
<1> DEFINE r == i.r
           a == acct[r]
           idle == [worker EXCEPT ![s] = Idling]
<1>1. r \in Requests /\ i.n \in Attempts /\ i.n \in Nat /\ Shown(i) \in {"none", "queued", "running", "failed"}
    BY ItemOf, AttemptsAre DEF Shown
<1>2. Ends(a, Failed(a, i.n), "refunded") /\ Ends(a, Rejected(a, i.n), "refunded")
    BY <1>1, EndCalls DEF Live
<1>3. ASSUME NEW b, NEW result, Ends(a, b, "refunded"), acct' = [acct EXCEPT ![r] = b], Done(i, result), worker' = idle,
             result \in {"user_gone", "crashed"} \/ (result = "cancelled" /\ client[r] # "waiting")
      PROVE  \E to :
                /\ Moves(mid, to, r) /\ Boxes(to, dispatchQ, qs, worker', callbacks')
                /\ Entry(r, to[r], client[r], task[r], acct'[r])
                /\ Follows(client[r], a, client[r], acct'[r]) /\ Moves(acct, acct', r)
    <2>1. result \in {"user_gone", "crashed"} => result \in Answers \ {"ok"}
        BY DEF Answers
    <2>2. Answering(i, result, client[r], task[r], b) /\ Follows(client[r], a, client[r], b) /\ result \in Results \ {"retry"}
        BY <1>3, <2>1, EndsWith
    <2>3. Moves(acct, acct', r) /\ acct'[r] = b
        BY <1>1, <1>3, Updated
    <2>4. callbacks' = callbacks \cup {[item |-> i, result |-> result]}
        BY <1>3 DEF Done
    <2> HIDE DEF idle
    <2>5. Boxes(mid, dispatchQ, qs, idle, callbacks)
        BY DEF idle
    <2>6. \E to :
            /\ Moves(mid, to, r) /\ Boxes(to, dispatchQ, qs, idle, callbacks')
            /\ Entry(r, to[r], client[r], task[r], b)
        BY <2>2, <2>4, <2>5, Returns
    <2> QED
        BY <1>3, <2>2, <2>3, <2>6
<1>4. \/ /\ client[r] # "waiting" /\ acct' = [acct EXCEPT ![r] = Failed(a, i.n)]
         /\ Done(i, "cancelled") /\ worker' = idle
      \/ acct' = [acct EXCEPT ![r] = Rejected(a, i.n)] /\ Done(i, "user_gone") /\ worker' = idle
      \/ acct' = [acct EXCEPT ![r] = Failed(MarkRunning(a, i.n), i.n)] /\ Done(i, "crashed") /\ worker' = idle
      \/ \E pc \in {"interval", "exec"} :
            /\ acct' = [acct EXCEPT ![r] = MarkRunning(a, i.n)] /\ callbacks' = callbacks
            /\ worker' = [worker EXCEPT ![s] = Holding(pc, i)]
    BY DEF Process, Account, Free, Keep, Waiting
<1>5. LET b == MarkRunning(a, i.n)
      IN  b \in Accounts /\ Open(b, i.n, "running") /\ KeepsRows(a, b)
    <2>1. a \in Accounts /\ (Open(a, i.n, "queued") \/ Open(a, i.n, "running"))
        BY <1>1 DEF Live, Shown
    <2> QED
        BY <1>1, <2>1, RunningCalls
<1>6. Ends(a, Failed(MarkRunning(a, i.n), i.n), "refunded")
    <2> DEFINE b == MarkRunning(a, i.n)
    <2>1. b \in Accounts /\ Open(b, i.n, "running") /\ KeepsRows(a, b)
        BY <1>5
    <2> HIDE DEF b
    <2>2. Ends(b, Failed(b, i.n), "refunded")
        BY <1>1, <2>1, EndCalls
    <2>3. Ends(a, Failed(b, i.n), "refunded")
        BY <2>1, <2>2 DEF Ends, KeepsRows
    <2> QED
        BY <2>3 DEF b
<1>7. ASSUME NEW pc \in {"interval", "exec"},
             acct' = [acct EXCEPT ![r] = MarkRunning(a, i.n)], callbacks' = callbacks,
             worker' = [worker EXCEPT ![s] = Holding(pc, i)]
      PROVE  \E to :
                /\ Moves(mid, to, r) /\ Boxes(to, dispatchQ, qs, worker', callbacks')
                /\ Entry(r, to[r], client[r], task[r], acct'[r])
                /\ Follows(client[r], a, client[r], acct'[r]) /\ Moves(acct, acct', r)
    <2> DEFINE b == MarkRunning(a, i.n)
    <2>2. b \in Accounts /\ Open(b, i.n, "running") /\ KeepsRows(a, b)
        BY <1>5
    <2>3. acct' = [acct EXCEPT ![r] = b]
        BY <1>7
    <2> HIDE DEF b
    <2>4. Moves(acct, acct', r) /\ acct'[r] = b
        BY <1>1, <2>3, Updated
    <2>5. Live(i, "running", client[r], task[r], b) /\ Follows(client[r], a, client[r], b)
        BY <2>2 DEF Live, Follows, KeepsRows, Open
    <2> DEFINE place == At("hand", s, i, pc)
               to == [mid EXCEPT ![r] = place]
    <2>6. Moves(mid, to, r) /\ to[r] = place
        <3>1. DOMAIN mid = Requests
            BY DEF Boxes
        <3> HIDE DEF place
        <3> QED
            BY <1>1, <3>1, Updated
    <2> HIDE DEF to
    <2>7. pc \in Hands /\ pc \in Hands \ {"lock"}
        BY DEF Hands
    <2>8. Entry(r, place, client[r], task[r], b)
        BY <2>5, <2>7, EntryMade
    <2>9. idle[s] = Idling /\ [idle EXCEPT ![s] = Holding(pc, i)] = worker'
        BY <1>7
    <2> HIDE DEF idle
    <2>10. Boxes(mid, dispatchQ, qs, idle, callbacks) /\ idle[s].pc \notin Hands
        BY <2>9, WorkerIs DEF idle, WorkerIdle
    <2>11. Boxes(to, dispatchQ, qs, [idle EXCEPT ![s] = Holding(pc, i)], callbacks)
        BY <2>6, <2>7, <2>10, EnterHand
    <2> QED
        BY <1>7, <2>4, <2>5, <2>6, <2>8, <2>9, <2>11
<1>8. CASE acct' = [acct EXCEPT ![r] = Rejected(a, i.n)] /\ Done(i, "user_gone") /\ worker' = idle
    BY <1>2, <1>3, <1>8
<1>9. CASE /\ client[r] # "waiting" /\ acct' = [acct EXCEPT ![r] = Failed(a, i.n)]
           /\ Done(i, "cancelled") /\ worker' = idle
    BY <1>2, <1>3, <1>9
<1>10. CASE /\ acct' = [acct EXCEPT ![r] = Failed(MarkRunning(a, i.n), i.n)]
            /\ Done(i, "crashed") /\ worker' = idle
    BY <1>3, <1>6, <1>10
<1>11. CASE \E pc \in {"interval", "exec"} :
            /\ acct' = [acct EXCEPT ![r] = MarkRunning(a, i.n)] /\ callbacks' = callbacks
            /\ worker' = [worker EXCEPT ![s] = Holding(pc, i)]
    <2>1. PICK pc \in {"interval", "exec"} :
            /\ acct' = [acct EXCEPT ![r] = MarkRunning(a, i.n)] /\ callbacks' = callbacks
            /\ worker' = [worker EXCEPT ![s] = Holding(pc, i)]
        BY <1>11
    <2> QED
        BY <1>7, <2>1
<1> QED
    BY <1>4, <1>8, <1>9, <1>10, <1>11

LEMMA TakeStep ==
    ASSUME Booked, NEW s \in Slots, Take(s)
    PROVE  Booked' /\ Orderly
<1>1. PICK where : Boxes(where, dispatchQ, queue, worker, callbacks) /\ Ledger(where, client, task, acct)
    BY DEF Booked, Agree
<1> DEFINE i == Head(queue[s])
           r == i.r
           a == acct[r]
           mid == Off(where, r)
<1>2. /\ worker[s].pc = "idle" /\ queue[s] # <<>> /\ dispatchQ' = dispatchQ /\ client' = client /\ task' = task
      /\ queue' = [queue EXCEPT ![s] = Tail(@)]
    BY DEF Take, caller
<1>3. worker \in [Slots -> WorkerStates] /\ DOMAIN queue = Slots
    BY <1>1 DEF Boxes
<1>4. queue' = [queue EXCEPT ![s] = Tail(queue[s])]
    BY <1>2, <1>3
<1>5. /\ i \in Items /\ where[r] = At("pending", s, i, "-")
      /\ \A to : Moves(where, to, r) /\ to[r] = Nowhere => Boxes(to, dispatchQ, queue', worker, callbacks)
    <2> DEFINE shorter == [queue EXCEPT ![s] = Tail(queue[s])]
    <2>1. /\ i \in Items /\ where[r] = At("pending", s, i, "-")
          /\ \A to : Moves(where, to, r) /\ to[r] = Nowhere => Boxes(to, dispatchQ, shorter, worker, callbacks)
        BY <1>1, <1>2, LeaveQueue
    <2> HIDE DEF i
    <2> QED
        BY <1>4, <2>1
<1>6. \/ Begin(s, i)
      \/ client[r] # "waiting" /\ TurnAway(s, i, Failed(a, i.n), "cancelled")
      \/ TurnAway(s, i, Rejected(a, i.n), "user_gone")
      \/ TurnAway(s, i, Rejected(a, i.n), "idle_rejected")
    BY DEF Take, Waiting
<1> HIDE DEF i
<1>7. r \in Requests /\ i.n \in Attempts /\ Shown(i) \in {"none", "queued", "running", "failed"}
    BY <1>5, ItemOf DEF Shown
<1>8. DOMAIN client = Requests /\ DOMAIN task = Requests /\ DOMAIN acct = Requests
    BY <1>1 DEF Ledger
<1>9. Live(i, Shown(i), client[r], task[r], a) /\ (i.n > 0 => i.logged)
    <2>1. Entry(r, where[r], client[r], task[r], a)
        BY <1>1, <1>7 DEF Ledger
    <2> QED
        BY <1>5, <2>1, EntryMeans
<1>10. Moves(where, mid, r) /\ mid[r] = Nowhere /\ Boxes(mid, dispatchQ, queue', worker, callbacks)
    BY <1>1, <1>5, <1>7, OffMoves
<1> HIDE DEF mid
<1>11. Ends(a, Failed(a, i.n), "refunded") /\ Ends(a, Rejected(a, i.n), "refunded")
    BY <1>7, <1>9, EndCalls DEF Live
<1> SUFFICES \E to :
        /\ Moves(mid, to, r) /\ Boxes(to, dispatchQ, queue', worker', callbacks')
        /\ Entry(r, to[r], client[r], task[r], acct'[r]) /\ Follows(client[r], a, client[r], acct'[r])
        /\ Moves(acct, acct', r)
    <2>1. PICK to :
        /\ Moves(mid, to, r) /\ Boxes(to, dispatchQ, queue', worker', callbacks')
        /\ Entry(r, to[r], client[r], task[r], acct'[r]) /\ Follows(client[r], a, client[r], acct'[r])
        /\ Moves(acct, acct', r)
        OBVIOUS
    <2>2. Moves(where, to, r)
        BY <1>10, <2>1, MovesTwice
    <2>3. /\ Boxes(to, dispatchQ', queue', worker', callbacks') /\ Moves(client, client', r) /\ Moves(task, task', r)
          /\ Entry(r, to[r], client'[r], task'[r], acct'[r]) /\ Follows(client[r], acct[r], client'[r], acct'[r])
        BY <1>2, <1>8, <2>1, Still
    <2>4. /\ Agree(dispatchQ', queue', worker', callbacks', client', task', acct')
          /\ AllFollow(client, acct, client', acct')
        BY <1>1, <1>7, <2>1, <2>2, <2>3, Lands
    <2> QED
        BY <2>4 DEF Booked, Orderly
<1>12. worker[s].pc \notin Hands
    BY <1>2 DEF Hands
<1>13. CASE Begin(s, i)
    <2>1. CASE \E locks : Process(s, i, locks)
        <3>1. Boxes(mid, dispatchQ, queue', [worker EXCEPT ![s] = Idling], callbacks)
            BY <1>10, <1>12, WorkerIs, HandEmpty DEF WorkerIdle
        <3> QED
            BY <1>3, <1>5, <1>8, <1>9, <1>10, <2>1, <3>1, ProcessLands
    <2>2. CASE Keep(s, "lock", i) /\ acct' = acct /\ callbacks' = callbacks
        <3> DEFINE place == At("hand", s, i, "lock")
                   to == [mid EXCEPT ![r] = place]
        <3>1. Moves(mid, to, r) /\ to[r] = place
            <4>1. DOMAIN mid = Requests
                BY <1>10 DEF Boxes
            <4> HIDE DEF place
            <4> QED
                BY <1>7, <4>1, Updated
        <3> HIDE DEF to
        <3>2. "lock" \in Hands /\ worker' = [worker EXCEPT ![s] = Holding("lock", i)]
            BY <2>2 DEF Hands, Keep
        <3>3. Boxes(to, dispatchQ, queue', worker', callbacks)
            BY <1>5, <1>10, <1>12, <3>1, <3>2, EnterHand
        <3>4. Entry(r, place, client[r], task[r], a)
            BY <1>5, <1>9, EntryMade
        <3>5. Follows(client[r], a, client[r], a) /\ Moves(acct, acct, r)
            BY <1>8, Still DEF Follows
        <3> QED
            BY <2>2, <3>1, <3>3, <3>4, <3>5
    <2> QED
        BY <1>13, <2>1, <2>2 DEF Begin
<1>14. CASE \E result \in {"cancelled", "user_gone", "idle_rejected"}, b \in {Failed(a, i.n), Rejected(a, i.n)} :
                TurnAway(s, i, b, result) /\ (result = "cancelled" => client[r] # "waiting")
    <2>1. PICK result \in {"cancelled", "user_gone", "idle_rejected"}, b \in {Failed(a, i.n), Rejected(a, i.n)} :
                TurnAway(s, i, b, result) /\ (result = "cancelled" => client[r] # "waiting")
        BY <1>14
    <2>2. /\ acct' = [acct EXCEPT ![r] = b] /\ worker' = worker
          /\ callbacks' = callbacks \cup {[item |-> i, result |-> result]}
        BY <2>1 DEF TurnAway, Account, Done
    <2>3. Ends(a, b, "refunded")
        BY <1>11, <2>1
    <2>4. result \in Answers \ {"ok"} \/ (result = "cancelled" /\ client[r] # "waiting")
        BY <2>1 DEF Answers
    <2>5. Answering(i, result, client[r], task[r], b) /\ Follows(client[r], a, client[r], b) /\ result \in Results \ {"retry"}
        BY <1>5, <1>9, <2>3, <2>4, EndsWith
    <2>6. Moves(acct, acct', r) /\ acct'[r] = b
        BY <1>7, <1>8, <2>2, Updated
    <2>7. \E to :
            /\ Moves(mid, to, r) /\ Boxes(to, dispatchQ, queue', worker, callbacks')
            /\ Entry(r, to[r], client[r], task[r], b)
        BY <1>5, <1>10, <2>2, <2>5, Returns
    <2> QED
        BY <2>2, <2>5, <2>6, <2>7
<1> QED
    BY <1>6, <1>13, <1>14

LEMMA LockGrantedStep ==
    ASSUME Booked, NEW s \in Slots, LockGranted(s)
    PROVE  Booked' /\ Orderly
<1>1. PICK where : Boxes(where, dispatchQ, queue, worker, callbacks) /\ Ledger(where, client, task, acct)
    BY DEF Booked, Agree
<1> DEFINE i == worker[s].item
           r == i.r
           a == acct[r]
           mid == Off(where, r)
           idle == [worker EXCEPT ![s] = Idling]
<1>2. /\ worker[s].pc = "lock" /\ dispatchQ' = dispatchQ /\ queue' = queue /\ client' = client /\ task' = task
      /\ \E locks : Process(s, i, locks)
    BY DEF LockGranted, caller, routing
<1>3. worker \in [Slots -> WorkerStates] /\ worker[s].pc \in Hands
    BY <1>1, <1>2 DEF Boxes, Hands
<1>4. /\ i \in Items /\ where[r] = At("hand", s, i, "lock")
      /\ \A to : Moves(where, to, r) /\ to[r] = Nowhere => Boxes(to, dispatchQ, queue, idle, callbacks)
    <2>1. Idling \in WorkerStates /\ Idling.pc \notin Hands
        BY WorkerIs DEF WorkerIdle
    <2>2. /\ i \in Items /\ where[r] = At("hand", s, i, worker[s].pc)
          /\ \A to : Moves(where, to, r) /\ to[r] = Nowhere => Boxes(to, dispatchQ, queue, idle, callbacks)
        BY <1>1, <1>3, <2>1, LeaveHand
    <2> HIDE DEF i, idle
    <2> QED
        BY <1>2, <2>2
<1> HIDE DEF i
<1>5. r \in Requests
    BY <1>4, ItemOf
<1>6. DOMAIN client = Requests /\ DOMAIN task = Requests /\ DOMAIN acct = Requests
    BY <1>1 DEF Ledger
<1>7. Live(i, Shown(i), client[r], task[r], a) /\ (i.n > 0 => i.logged)
    <2>1. Entry(r, where[r], client[r], task[r], a)
        BY <1>1, <1>5 DEF Ledger
    <2> QED
        BY <1>4, <2>1, EntryMeans
<1>8. Moves(where, mid, r) /\ mid[r] = Nowhere /\ Boxes(mid, dispatchQ, queue, idle, callbacks)
    BY <1>1, <1>4, <1>5, OffMoves
<1> HIDE DEF mid
<1>9. PICK to :
        /\ Moves(mid, to, r) /\ Boxes(to, dispatchQ, queue, worker', callbacks')
        /\ Entry(r, to[r], client[r], task[r], acct'[r]) /\ Follows(client[r], a, client[r], acct'[r])
        /\ Moves(acct, acct', r)
    BY <1>2, <1>3, <1>4, <1>6, <1>7, <1>8, ProcessLands
<1>10. Moves(where, to, r)
    BY <1>8, <1>9, MovesTwice
<1> QED
    BY <1>1, <1>2, <1>5, <1>6, <1>9, <1>10, Lands, Still DEF Booked, Orderly

\* The attempt a worker deals with is running, and may end in three ways.
LEMMA HandLive ==
    ASSUME NEW where, NEW dq, NEW qs, NEW cl, NEW ac, Boxes(where, dq, qs, worker, callbacks),
           Ledger(where, cl, task, ac), NEW s \in Slots, worker[s].pc \in Hands \ {"lock"}
    PROVE  LET i == worker[s].item
               a == ac[i.r]
           IN
           /\ i \in Items /\ i.r \in Requests /\ i.n \in Attempts /\ where[i.r] = At("hand", s, i, worker[s].pc)
           /\ Live(i, "running", cl[i.r], task[i.r], a)
           /\ Ends(a, Failed(a, i.n), "refunded") /\ Ends(a, Succeeded(a, i.n), "charged")
           /\ DOMAIN cl = Requests /\ DOMAIN task = Requests /\ DOMAIN ac = Requests
<1> DEFINE i == worker[s].item
           a == ac[i.r]
<1>1. i \in Items /\ where[i.r] = At("hand", s, i, worker[s].pc)
    <2>1. Idling \in WorkerStates /\ Idling.pc \notin Hands
        BY WorkerIs DEF WorkerIdle
    <2>2. /\ i \in Items /\ where[i.r] = At("hand", s, i, worker[s].pc)
          /\ \A to : Moves(where, to, i.r) /\ to[i.r] = Nowhere
                        => Boxes(to, dq, qs, [worker EXCEPT ![s] = Idling], callbacks)
        BY <2>1, LeaveHand
    <2> QED
        BY <2>2
<1> HIDE DEF i
<1>2. i.r \in Requests /\ i.n \in Attempts
    BY <1>1, ItemOf
<1>3. Entry(i.r, where[i.r], cl[i.r], task[i.r], a)
    BY <1>2 DEF Ledger
<1>4. Live(i, "running", cl[i.r], task[i.r], a)
    BY <1>1, <1>3, EntryMeans
<1>5. Ends(a, Failed(a, i.n), "refunded") /\ Ends(a, Succeeded(a, i.n), "charged")
    BY <1>2, <1>4, EndCalls DEF Live
<1> QED
    BY <1>1, <1>2, <1>4, <1>5 DEF Ledger, i

LEMMA HandEnds ==
    ASSUME NEW where, NEW dq, NEW qs, NEW cl, NEW ac, Boxes(where, dq, qs, worker, callbacks),
           Ledger(where, cl, task, ac), NEW s \in Slots, worker[s].pc \in Hands \ {"lock"},
           NEW w \in WorkerStates, w.pc \notin Hands, NEW i, i = worker[s].item, NEW b, NEW result, NEW how,
           \/ result = "retry" /\ b = RetryFailed(ac[i.r], i.n)
           \/ /\ Ends(ac[i.r], b, how)
              /\ \/ how = "charged" /\ result = "ok"
                 \/ how = "refunded" /\ result \in Answers \ {"ok"}
                 \/ how = "refunded" /\ result = "cancelled" /\ cl[i.r] # "waiting"
    PROVE  /\ Agree(dq, qs, [worker EXCEPT ![s] = w], callbacks \cup {[item |-> i, result |-> result]},
                    cl, task, [ac EXCEPT ![i.r] = b])
           /\ AllFollow(cl, ac, cl, [ac EXCEPT ![i.r] = b])
<1> DEFINE r == i.r
           a == ac[r]
           mid == Off(where, r)
           ws == [worker EXCEPT ![s] = w]
           ac2 == [ac EXCEPT ![r] = b]
<1>1. /\ i \in Items /\ r \in Requests /\ i.n \in Attempts /\ where[r] = At("hand", s, i, worker[s].pc)
      /\ Live(i, "running", cl[r], task[r], a)
      /\ DOMAIN cl = Requests /\ DOMAIN task = Requests /\ DOMAIN ac = Requests
    BY HandLive
<1>2. Moves(where, mid, r) /\ mid[r] = Nowhere /\ Boxes(mid, dq, qs, ws, callbacks)
    <2>1. Moves(where, mid, r) /\ mid[r] = Nowhere
        BY <1>1, OffMoves
    <2> HIDE DEF mid
    <2> QED
        BY <2>1, LeaveHand
<1> HIDE DEF mid, ws
<1>3. Moves(ac, ac2, r) /\ ac2[r] = b
    BY <1>1, Updated
<1> HIDE DEF ac2
<1>4. /\ result \in Results /\ Follows(cl[r], a, cl[r], b)
      /\ \/ result # "retry" /\ Answering(i, result, cl[r], task[r], b)
         \/ result = "retry" /\ Live(i, "failed", cl[r], task[r], b)
    <2>1. CASE result = "retry" /\ b = RetryFailed(a, i.n)
        <3>1. b \in Accounts /\ Open(b, i.n, "failed") /\ KeepsRows(a, b)
            BY <1>1, <2>1, RetryFailedCall DEF Live
        <3> QED
            BY <1>1, <2>1, <3>1 DEF Live, Follows, KeepsRows, Open, Results
    <2>2. CASE /\ Ends(a, b, how)
               /\ \/ how = "charged" /\ result = "ok"
                  \/ how = "refunded" /\ result \in Answers \ {"ok"}
                  \/ how = "refunded" /\ result = "cancelled" /\ cl[r] # "waiting"
        <3> DEFINE c == cl[r]
                   t == task[r]
        <3>1. /\ i \in Items /\ Live(i, "running", c, t, a) /\ Ends(a, b, how)
              /\ \/ how = "charged" /\ result = "ok"
                 \/ how = "refunded" /\ result \in Answers \ {"ok"}
                 \/ how = "refunded" /\ result = "cancelled" /\ c # "waiting"
            BY <1>1, <2>2
        <3> HIDE DEF c, t, a
        <3>2. Answering(i, result, c, t, b) /\ Follows(c, a, c, b) /\ result \in Results \ {"retry"}
            BY <3>1, EndsWith
        <3> QED
            BY <3>2 DEF c, t
    <2> QED
        BY <2>1, <2>2
<1>5. PICK to :
        /\ Moves(mid, to, r) /\ Boxes(to, dq, qs, ws, callbacks \cup {[item |-> i, result |-> result]})
        /\ Entry(r, to[r], cl[r], task[r], b)
    <2> DEFINE c == cl[r]
               t == task[r]
    <2>1. /\ Boxes(mid, dq, qs, ws, callbacks) /\ i \in Items /\ mid[i.r] = Nowhere /\ result \in Results
          /\ \/ result # "retry" /\ Answering(i, result, c, t, b)
             \/ result = "retry" /\ Live(i, "failed", c, t, b)
        BY <1>1, <1>2, <1>4
    <2> HIDE DEF c, t
    <2>2. \E to :
            /\ Moves(mid, to, i.r) /\ Boxes(to, dq, qs, ws, callbacks \cup {[item |-> i, result |-> result]})
            /\ Entry(i.r, to[i.r], c, t, b)
        BY <2>1, Returns
    <2> QED
        BY <2>2 DEF c, t
<1>6. Moves(where, to, r) /\ Moves(cl, cl, r) /\ Moves(task, task, r)
    BY <1>1, <1>2, <1>5, MovesTwice, Still
<1>7. Agree(dq, qs, ws, callbacks \cup {[item |-> i, result |-> result]}, cl, task, ac2) /\ AllFollow(cl, ac, cl, ac2)
    BY <1>1, <1>3, <1>4, <1>5, <1>6, Lands
<1> QED
    BY <1>7 DEF ws, ac2

LEMMA EndStep ==
    ASSUME Booked, NEW s \in Slots, StartHandler(s) \/ Archived(s) \/ HandlerTimesOut(s),
           callbacks' # callbacks \/ acct' # acct
    PROVE  Booked' /\ Orderly
<1>1. PICK where : Boxes(where, dispatchQ, queue, worker, callbacks) /\ Ledger(where, client, task, acct)
    BY DEF Booked, Agree
<1> DEFINE i == worker[s].item
           r == i.r
           a == acct[r]
<1>2. worker[s].pc \in Hands \ {"lock"}
    BY DEF StartHandler, Archived, HandlerTimesOut, Hands
<1>3. i \in Items /\ Ends(a, Failed(a, i.n), "refunded") /\ Ends(a, Succeeded(a, i.n), "charged")
    BY <1>1, <1>2, HandLive
<1>4. dispatchQ' = dispatchQ /\ queue' = queue /\ client' = client /\ task' = task
    BY DEF StartHandler, Archived, HandlerTimesOut, caller, routing
<1>5. \E how, result, b, w :
        /\ acct' = [acct EXCEPT ![r] = b] /\ worker' = [worker EXCEPT ![s] = w]
        /\ callbacks' = callbacks \cup {[item |-> i, result |-> result]}
        /\ Ends(a, b, how)
        /\ \/ how = "charged" /\ result = "ok"
           \/ how = "refunded" /\ result \in {"crashed", "error"}
           \/ how = "refunded" /\ result = "cancelled" /\ client[r] # "waiting"
        /\ w = Idling \/ w = Holding("cleanup", i)
    <2>1. CASE StartHandler(s)
        <3>1. /\ acct' = [acct EXCEPT ![r] = Failed(a, i.n)] /\ worker' = [worker EXCEPT ![s] = Idling]
              /\ \/ callbacks' = callbacks \cup {[item |-> i, result |-> "cancelled"]} /\ client[r] # "waiting"
                 \/ callbacks' = callbacks \cup {[item |-> i, result |-> "crashed"]}
            BY <2>1 DEF StartHandler, Account, Done, Free, Waiting
        <3> QED
            BY <1>3, <3>1
    <2>2. CASE Archived(s)
        <3>1. /\ acct' = [acct EXCEPT ![r] = Succeeded(a, i.n)] /\ worker' = [worker EXCEPT ![s] = Idling]
              /\ callbacks' = callbacks \cup {[item |-> i, result |-> "ok"]}
            BY <2>2 DEF Archived, Account, Done, Free
        <3> QED
            BY <1>3, <3>1
    <2>3. CASE HandlerTimesOut(s)
        <3>1. /\ acct' = [acct EXCEPT ![r] = Failed(a, i.n)]
              /\ worker' = [worker EXCEPT ![s] = Holding("cleanup", i)]
              /\ callbacks' = callbacks \cup {[item |-> i, result |-> "error"]}
            BY <2>3 DEF HandlerTimesOut, Account, Done, Keep
        <3> QED
            BY <1>3, <3>1
    <2> QED
        BY <2>1, <2>2, <2>3
<1>6. PICK how, result, b, w :
        /\ acct' = [acct EXCEPT ![r] = b] /\ worker' = [worker EXCEPT ![s] = w]
        /\ callbacks' = callbacks \cup {[item |-> i, result |-> result]}
        /\ Ends(a, b, how)
        /\ \/ how = "charged" /\ result = "ok"
           \/ how = "refunded" /\ result \in {"crashed", "error"}
           \/ how = "refunded" /\ result = "cancelled" /\ client[r] # "waiting"
        /\ w = Idling \/ w = Holding("cleanup", i)
    BY <1>5
<1>7. w \in WorkerStates /\ w.pc \notin Hands
    <2>1. "cleanup" \notin Hands
        BY DEF Hands
    <2>2. Holding("cleanup", i) \in WorkerStates /\ Holding("cleanup", i).pc = "cleanup"
        BY <1>3, WorkerIs DEF WorkerBusy
    <2> QED
        BY <1>6, <2>1, <2>2, WorkerIs DEF WorkerIdle
<1>8. \/ how = "charged" /\ result = "ok"
      \/ how = "refunded" /\ result \in Answers \ {"ok"}
      \/ how = "refunded" /\ result = "cancelled" /\ client[r] # "waiting"
    BY <1>6 DEF Answers
<1>9. /\ Agree(dispatchQ, queue, [worker EXCEPT ![s] = w], callbacks \cup {[item |-> i, result |-> result]},
               client, task, [acct EXCEPT ![r] = b])
      /\ AllFollow(client, acct, client, [acct EXCEPT ![r] = b])
    BY <1>1, <1>2, <1>6, <1>7, <1>8, HandEnds
<1> HIDE DEF i
<1> QED
    BY <1>4, <1>6, <1>9 DEF Booked, Orderly

\* A worker keeps the attempt it deals with.
LEMMA KeepStep ==
    ASSUME Booked, NEW s \in Slots, HandlerSucceeds(s) \/ (StartHandler(s) /\ callbacks' = callbacks /\ acct' = acct)
    PROVE  Booked' /\ Orderly
<1>1. PICK where : Boxes(where, dispatchQ, queue, worker, callbacks) /\ Ledger(where, client, task, acct)
    BY DEF Booked, Agree
<1> DEFINE i == worker[s].item
           r == i.r
           a == acct[r]
           mid == Off(where, r)
           idle == [worker EXCEPT ![s] = Idling]
<1>2. worker[s].pc \in Hands \ {"lock"}
    BY DEF StartHandler, HandlerSucceeds, Hands
<1>3. /\ i \in Items /\ r \in Requests /\ i.n \in Attempts /\ where[r] = At("hand", s, i, worker[s].pc)
      /\ Live(i, "running", client[r], task[r], a)
      /\ DOMAIN client = Requests /\ DOMAIN task = Requests /\ DOMAIN acct = Requests
    BY <1>1, <1>2, HandLive
<1>4. callbacks' = callbacks /\ acct' = acct /\ dispatchQ' = dispatchQ /\ queue' = queue /\ client' = client /\ task' = task
    BY DEF StartHandler, HandlerSucceeds, caller, routing
<1>5. PICK pc \in {"exec", "archive"} : worker' = [worker EXCEPT ![s] = Holding(pc, i)]
    <2>1. CASE HandlerSucceeds(s)
        BY <2>1 DEF HandlerSucceeds, Keep
    <2>2. CASE StartHandler(s) /\ callbacks' = callbacks /\ acct' = acct
        <3>1. ASSUME NEW result, Done(i, result), acct' = [acct EXCEPT ![r] = Failed(a, i.n)] PROVE FALSE
            <4>1. acct'[r] = Failed(a, i.n)
                BY <1>3, <3>1
            <4>2. Ends(a, Failed(a, i.n), "refunded")
                BY <1>1, <1>2, HandLive
            <4>3. a.settled = "held"
                BY <1>3 DEF Live, Open
            <4> QED
                BY <1>4, <4>1, <4>2, <4>3 DEF Ends
        <3>2. Keep(s, "exec", i)
            BY <2>2, <3>1 DEF StartHandler, Account
        <3> QED
            BY <3>2 DEF Keep
    <2> QED
        BY <2>1, <2>2
<1>6. Moves(where, mid, r) /\ mid[r] = Nowhere /\ Boxes(mid, dispatchQ, queue, idle, callbacks)
    <2>1. Moves(where, mid, r) /\ mid[r] = Nowhere
        BY <1>1, <1>3, OffMoves
    <2>2. Idling \in WorkerStates /\ Idling.pc \notin Hands
        BY WorkerIs DEF WorkerIdle
    <2> HIDE DEF mid
    <2> QED
        BY <1>1, <1>2, <2>1, <2>2, LeaveHand
<1> HIDE DEF mid
<1> DEFINE place == At("hand", s, i, pc)
           to == [mid EXCEPT ![r] = place]
<1>7. Moves(mid, to, r) /\ to[r] = place
    <2>1. DOMAIN mid = Requests
        BY <1>6 DEF Boxes
    <2> HIDE DEF place, i
    <2> QED
        BY <1>3, <2>1, Updated
<1> HIDE DEF to
<1>8. pc \in Hands /\ pc \in Hands \ {"lock"}
    BY DEF Hands
<1>9. Boxes(to, dispatchQ, queue, worker', callbacks)
    <2>1. worker \in [Slots -> WorkerStates]
        BY <1>1 DEF Boxes
    <2>2. idle[s] = Idling /\ worker' = [idle EXCEPT ![s] = Holding(pc, i)]
        BY <1>5, <2>1
    <2> HIDE DEF idle, i
    <2>3. idle[s].pc \notin Hands
        BY <2>2, WorkerIs DEF WorkerIdle
    <2>4. Boxes(to, dispatchQ, queue, [idle EXCEPT ![s] = Holding(pc, i)], callbacks)
        BY <1>3, <1>6, <1>7, <1>8, <2>3, EnterHand
    <2> QED
        BY <2>2, <2>4
<1>10. Entry(r, place, client[r], task[r], a)
    BY <1>3, <1>8, EntryMade
<1>11. Moves(where, to, r) /\ Follows(client[r], a, client[r], a)
    BY <1>6, <1>7, MovesTwice DEF Follows
<1> HIDE DEF i, place
<1> QED
    BY <1>1, <1>3, <1>4, <1>7, <1>9, <1>10, <1>11, Lands, Still DEF Booked, Orderly

\* A worker that has no attempt in its hand turns to another state without one.
LEMMA FreeStep ==
    ASSUME Booked, UNCHANGED <<dispatchQ, queue, callbacks, client, task, acct>>, NEW s \in Slots,
           worker[s].pc \notin Hands, NEW w \in WorkerStates, w.pc \notin Hands, worker' = [worker EXCEPT ![s] = w]
    PROVE  Booked' /\ Orderly
<1>1. PICK where : Boxes(where, dispatchQ, queue, worker, callbacks) /\ Ledger(where, client, task, acct)
    BY DEF Booked, Agree
<1>2. Boxes(where, dispatchQ, queue, worker', callbacks)
    BY <1>1, HandEmpty
<1> QED
    BY <1>1, <1>2 DEF Booked, Agree, Orderly, AllFollow, Follows

LEMMA BooksIdle ==
    ASSUME Booked, UNCHANGED <<dispatchQ, queue, worker, callbacks, client, task, acct>>
    PROVE  Booked' /\ Orderly
BY DEF Booked, Agree, Orderly, AllFollow, Follows

-------------------------------------------------------------------------------
\* The reroute of what is pending at a disabled upstream.

NobodyWaits == \A r \in Requests : ~Waiting(r)

\* A queue keeps to its bound, whatever the bound.
Within(q, max) == max > 0 => Len(q) <= max

LEMMA RerouteOneStep ==
    ASSUME NEW where, NEW d, NEW qs, NEW s \in Slots, qs[s] # <<>>,
           Boxes(where, d.dispatchQ, qs, worker, callbacks), Ledger(where, d.client, task, d.acct)
    PROVE  LET i == Head(qs[s])
               e == RerouteOne(d, i)
           IN
           /\ Agree(e.dispatchQ, [qs EXCEPT ![s] = Tail(qs[s])], worker, callbacks, e.client, task, e.acct)
           /\ AllFollow(d.client, d.acct, e.client, e.acct)
           /\ Within(d.dispatchQ, MaxDispatch) => Within(e.dispatchQ, MaxDispatch)
           /\ i.r \in Requests /\ (d.client[i.r] # "waiting" => e.dispatchQ = d.dispatchQ)
<1> DEFINE i == Head(qs[s])
           shorter == [qs EXCEPT ![s] = Tail(qs[s])]
           e == RerouteOne(d, i)
           r == i.r
           a == d.acct[r]
           c == d.client[r]
           mid == Off(where, r)
<1>1. /\ i \in Items /\ where[r] = At("pending", s, i, "-")
      /\ \A to : Moves(where, to, r) /\ to[r] = Nowhere => Boxes(to, d.dispatchQ, shorter, worker, callbacks)
    BY LeaveQueue
<1> HIDE DEF i, shorter
<1>2. r \in Requests /\ i.n \in Attempts /\ Shown(i) \in {"none", "queued", "running", "failed"}
    BY <1>1, ItemOf DEF Shown
<1>3. DOMAIN d.client = Requests /\ DOMAIN task = Requests /\ DOMAIN d.acct = Requests
    BY DEF Ledger
<1>4. Live(i, Shown(i), c, task[r], a)
    <2>1. Entry(r, where[r], c, task[r], a)
        BY <1>2 DEF Ledger
    <2> QED
        BY <1>1, <2>1, EntryMeans
<1>5. Moves(where, mid, r) /\ mid[r] = Nowhere /\ Boxes(mid, d.dispatchQ, shorter, worker, callbacks)
    BY <1>1, <1>2, OffMoves
<1> HIDE DEF mid
<1>6. CASE c # "waiting"
    <2> DEFINE b == Failed(a, i.n)
               ac == [d.acct EXCEPT ![r] = b]
    <2>1. e = [dispatchQ |-> d.dispatchQ, client |-> d.client, acct |-> ac]
        BY <1>6, <1>2, <1>3 DEF RerouteOne
    <2>2. Ends(a, b, "refunded")
        BY <1>2, <1>4, EndCalls DEF Live
    <2> HIDE DEF b
    <2>3. Entry(r, Nowhere, c, task[r], b) /\ Follows(c, a, c, b)
        BY <1>1, <1>4, <1>6, <2>2, EndsUnheard
    <2>4. Moves(d.acct, ac, r) /\ ac[r] = b /\ Moves(d.client, d.client, r) /\ Moves(task, task, r)
        BY <1>2, <1>3, Updated, Still
    <2> HIDE DEF ac, e
    <2>5. /\ Agree(d.dispatchQ, shorter, worker, callbacks, d.client, task, ac)
          /\ AllFollow(d.client, d.acct, d.client, ac)
        BY <1>2, <1>5, <2>3, <2>4, Lands
    <2>6. e.dispatchQ = d.dispatchQ /\ e.client = d.client /\ e.acct = ac
        BY <2>1
    <2> QED
        BY <1>2, <2>5, <2>6 DEF e, i, shorter
<1>7. CASE c = "waiting" /\ Full(d.dispatchQ, MaxDispatch)
    <2> DEFINE b == RoutingRejection(a, i)
               ac == [d.acct EXCEPT ![r] = b]
               cl == [d.client EXCEPT ![r] = "full"]
    <2>1. e = [dispatchQ |-> d.dispatchQ, client |-> cl, acct |-> ac]
        BY <1>7, <1>2, <1>3 DEF RerouteOne
    <2>2. /\ b \in Accounts /\ b.settled = "refunded" /\ KeepsRows(a, b)
          /\ i.n > 0 => ClosedRows(b)
          /\ i.n = 0 => ~b.final /\ RowsAt(b, 0, "queued")
        BY <1>1, <1>4, RoutingRejectionCall DEF Live
    <2>3. i.n > 0 \/ i.n = 0
        <3>1. i.n \in Nat
            BY <1>2, AttemptsAre
        <3> QED
            BY <3>1
    <2> HIDE DEF b
    <2>4. "full" \in Answers \ {"ok"} /\ "full" \in {"full", "unavailable"}
        BY DEF Answers
    <2>5. Entry(r, Nowhere, "full", task[r], b) /\ Follows(c, a, "full", b)
        BY <1>1, <1>2, <1>4, <1>7, <2>2, <2>3, <2>4, AnswerGiven
    <2>6. Moves(d.acct, ac, r) /\ ac[r] = b
        BY <1>2, <1>3, Updated
    <2>7. Moves(d.client, cl, r) /\ cl[r] = "full" /\ Moves(task, task, r)
        BY <1>2, <1>3, Updated, Still, Zenon
    <2> HIDE DEF ac, cl, e
    <2>8. /\ Agree(d.dispatchQ, shorter, worker, callbacks, cl, task, ac)
          /\ AllFollow(d.client, d.acct, cl, ac)
        BY <1>2, <1>5, <2>5, <2>6, <2>7, Lands
    <2>9. e.dispatchQ = d.dispatchQ /\ e.client = cl /\ e.acct = ac
        BY <2>1
    <2> QED
        BY <1>2, <2>8, <2>9 DEF e, i, shorter
<1>8. CASE c = "waiting" /\ ~Full(d.dispatchQ, MaxDispatch)
    <2> DEFINE place == At("dispatch", "-", i, "-")
               to == [mid EXCEPT ![r] = place]
               dq == Put(d.dispatchQ, i)
    <2>1. e = [dispatchQ |-> dq, client |-> d.client, acct |-> d.acct]
        BY <1>8 DEF RerouteOne
    <2>2. Moves(mid, to, r) /\ to[r] = place
        <3>1. DOMAIN mid = Requests
            BY <1>5 DEF Boxes
        <3> HIDE DEF place
        <3> QED
            BY <1>2, <3>1, Updated
    <2> HIDE DEF to
    <2>3. Boxes(to, dq, shorter, worker, callbacks)
        BY <1>1, <1>5, <2>2, EnterDispatch
    <2>4. Entry(r, place, c, task[r], a)
        BY <1>1, <1>4, EntryMade
    <2>5. Within(dq, MaxDispatch)
        <3>1. d.dispatchQ \in Seq(Items)
            BY DEF Boxes, InBox
        <3>2. Len(dq) = Len(d.dispatchQ) + 1
            BY <1>1, <3>1, PutShape, Zenon
        <3>3. Len(d.dispatchQ) \in Nat
            BY <3>1
        <3> HIDE DEF dq
        <3> QED
            BY <1>8, <3>2, <3>3, RoutingAssumption, SMTT(30) DEF Full, Within
    <2>6. Moves(where, to, r) /\ Follows(c, a, c, a)
        BY <1>5, <2>2, MovesTwice DEF Follows
    <2> HIDE DEF place, dq, e
    <2>7. /\ Agree(dq, shorter, worker, callbacks, d.client, task, d.acct)
          /\ AllFollow(d.client, d.acct, d.client, d.acct)
        <3>1. Moves(d.client, d.client, r) /\ Moves(task, task, r) /\ Moves(d.acct, d.acct, r)
            BY <1>3, Still
        <3>2. Entry(r, to[r], d.client[r], task[r], d.acct[r])
            BY <1>2, <2>2, <2>4
        <3> QED
            BY <1>2, <1>3, <2>3, <2>6, <3>1, <3>2, Lands
    <2>8. e.dispatchQ = dq /\ e.client = d.client /\ e.acct = d.acct
        BY <2>1
    <2> QED
        BY <1>2, <1>8, <2>5, <2>7, <2>8 DEF e, i, shorter
<1> QED
    BY <1>6, <1>7, <1>8

Shortened(qs, s) == [qs EXCEPT ![s] = Tail(qs[s])]

LEMMA RerouteOneTo ==
    ASSUME NEW where, NEW d, NEW qs, NEW s \in Slots, qs[s] # <<>>,
           Boxes(where, d.dispatchQ, qs, worker, callbacks), Ledger(where, d.client, task, d.acct),
           NEW i, i = Head(qs[s]), NEW e, e = RerouteOne(d, i)
    PROVE  /\ Agree(e.dispatchQ, Shortened(qs, s), worker, callbacks, e.client, task, e.acct)
           /\ AllFollow(d.client, d.acct, e.client, e.acct)
           /\ Within(d.dispatchQ, MaxDispatch) => Within(e.dispatchQ, MaxDispatch)
           /\ i.r \in Requests /\ (d.client[i.r] # "waiting" => e.dispatchQ = d.dispatchQ)
BY RerouteOneStep DEF Shortened

LEMMA RerouteUnheard ==
    ASSUME NEW d, NEW i, NEW e, e = RerouteOne(d, i), d.client[i.r] # "waiting"
    PROVE  e.dispatchQ = d.dispatchQ
BY DEF RerouteOne

\* A queue from its k-th item on.
LEMMA Suffix ==
    ASSUME NEW q \in Seq(Items)
    PROVE  /\ Len(q) \in Nat /\ SubSeq(q, 1, Len(q)) = q /\ SubSeq(q, Len(q) + 1, Len(q)) = <<>>
           /\ \A k \in 1 .. Len(q) :
                LET rest == SubSeq(q, k, Len(q)) IN
                rest # <<>> /\ Head(rest) = q[k] /\ Tail(rest) = SubSeq(q, k + 1, Len(q))
<1>1. Len(q) \in Nat /\ \A k \in 1 .. Len(q) : q[k] \in Items
    OBVIOUS
<1>2. SubSeq(q, 1, Len(q)) = q
    BY SubSeqFull
<1>3. SubSeq(q, Len(q) + 1, Len(q)) = <<>>
    BY <1>1, SubSeqEmpty
<1>4. ASSUME NEW k \in 1 .. Len(q)
      PROVE  LET rest == SubSeq(q, k, Len(q)) IN
             rest # <<>> /\ Head(rest) = q[k] /\ Tail(rest) = SubSeq(q, k + 1, Len(q))
    <2>1. Len(q) \in k .. Len(q)
        BY <1>1
    <2>2. Head(SubSeq(q, k, Len(q))) = q[k] /\ Tail(SubSeq(q, k, Len(q))) = SubSeq(q, k + 1, Len(q))
        BY <2>1, HeadTailOfSubSeq
    <2>3. Len(SubSeq(q, k, Len(q))) = Len(q) - k + 1
        BY <1>1, SubSeqProperties
    <2> DEFINE rest == SubSeq(q, k, Len(q))
    <2>4. Len(rest) # 0
        BY <1>1, <2>3
    <2> HIDE DEF rest
    <2>5. rest # <<>>
        BY <2>4
    <2> QED
        BY <2>2, <2>5 DEF rest
<1> QED
    BY <1>1, <1>2, <1>3, <1>4

\* The reroute as a whole is as good as a step.
LEMMA RerouteStep ==
    ASSUME Booked, NEW u, Current(u) \in Slots
    PROVE  LET d == Rerouted(u) IN
           /\ Agree(d.dispatchQ, [queue EXCEPT ![Current(u)] = <<>>], worker, callbacks, d.client, task, d.acct)
           /\ AllFollow(client, acct, d.client, d.acct)
           /\ Within(dispatchQ, MaxDispatch) => Within(d.dispatchQ, MaxDispatch)
           /\ NobodyWaits => d.dispatchQ = dispatchQ
<1> DEFINE s == Current(u)
           q == queue[s]
           n == Len(q)
           from(k) == SubSeq(q, k, n)
           rest(k) == [queue EXCEPT ![s] = from(k)]
           Good(d, k) ==
            /\ Agree(d.dispatchQ, rest(k + 1), worker, callbacks, d.client, task, d.acct)
            /\ AllFollow(client, acct, d.client, d.acct)
            /\ Within(dispatchQ, MaxDispatch) => Within(d.dispatchQ, MaxDispatch)
            /\ NobodyWaits => d.dispatchQ = dispatchQ
<1>1. queue \in [Slots -> Seq(Items)] /\ q \in Seq(Items) /\ n \in Nat
    BY DEF Booked, Agree, Boxes
<1>2. PICK walk :
        /\ walk[0] = RerouteStart
        /\ \A k \in 1 .. n : walk[k] = RerouteOne(walk[k - 1], q[k])
        /\ Rerouted(u) = walk[n]
    BY <1>1, RerouteWalk
<1>3. /\ from(1) = q /\ from(n + 1) = <<>>
      /\ \A k \in 1 .. n : from(k) # <<>> /\ Head(from(k)) = q[k] /\ Tail(from(k)) = from(k + 1)
    BY <1>1, Suffix
<1> HIDE DEF s, q, n, from
<1> DEFINE S == {k \in 0 .. n : Good(walk[k], k)}
<1>4. 0 \in S
    <2>1. rest(0 + 1) = queue
        BY <1>1, <1>3 DEF q
    <2>2. RerouteStart.dispatchQ = dispatchQ /\ RerouteStart.client = client /\ RerouteStart.acct = acct
        BY DEF RerouteStart
    <2>3. AllFollow(client, acct, client, acct)
        BY DEF AllFollow, Follows
    <2>4. Good(RerouteStart, 0)
        BY <2>1, <2>2, <2>3 DEF Booked
    <2>5. 0 \in 0 .. n
        BY <1>1
    <2> HIDE DEF Good
    <2> QED
        BY <1>2, <2>4, <2>5
<1>5. ASSUME NEW k \in 0 .. n - 1, k \in S PROVE k + 1 \in S
    <2>1. k + 1 \in 1 .. n /\ k + 1 \in 0 .. n /\ (k + 1) - 1 = k /\ k \in 0 .. n
        BY <1>1
    <2> DEFINE d == walk[k]
               e == walk[k + 1]
               qs == rest(k + 1)
    <2>2. Good(d, k)
        BY <1>5
    <2>3. e = RerouteOne(d, q[k + 1])
        BY <1>2, <2>1
    <2>4. s \in Slots /\ qs[s] = from(k + 1) /\ qs[s] # <<>> /\ Head(qs[s]) = q[k + 1] /\ Tail(qs[s]) = from((k + 1) + 1)
        <3>1. s \in Slots
            BY DEF s
        <3>2. qs[s] = from(k + 1)
            BY <1>1, <3>1
        <3> HIDE DEF qs
        <3> QED
            BY <1>3, <2>1, <3>1, <3>2
    <2>5. Shortened(qs, s) = rest((k + 1) + 1)
        BY <1>1, <2>4 DEF Shortened
    <2> HIDE DEF rest, qs
    <2> DEFINE i == Head(qs[s])
    <2>6. e = RerouteOne(d, i)
        BY <2>3, <2>4
    <2> HIDE DEF d, e
    <2>7. PICK where : Boxes(where, d.dispatchQ, qs, worker, callbacks) /\ Ledger(where, d.client, task, d.acct)
        BY <2>2 DEF Agree, qs
    <2>8. /\ Agree(e.dispatchQ, Shortened(qs, s), worker, callbacks, e.client, task, e.acct)
          /\ AllFollow(d.client, d.acct, e.client, e.acct)
          /\ Within(d.dispatchQ, MaxDispatch) => Within(e.dispatchQ, MaxDispatch)
          /\ i.r \in Requests /\ (d.client[i.r] # "waiting" => e.dispatchQ = d.dispatchQ)
        <3>1. s \in Slots /\ qs[s] # <<>>
            BY <2>4
        <3>2. i = Head(qs[s])
            OBVIOUS
        <3>8. qs[s] \in Seq(Items)
            BY <2>7, <3>1 DEF Boxes
        <3>9. Head(qs[s]) \in Items
            BY <3>8, <3>1
        <3> HIDE DEF i, S, Good
        <3>3. /\ Agree(e.dispatchQ, Shortened(qs, s), worker, callbacks, e.client, task, e.acct)
              /\ AllFollow(d.client, d.acct, e.client, e.acct)
              /\ Within(d.dispatchQ, MaxDispatch) => Within(e.dispatchQ, MaxDispatch)
            BY <2>6, <2>7, <3>1, <3>2, RerouteOneTo
        <3>4. i.r \in Requests
            BY <3>2, <3>9, ItemOf
        <3>5. d.client[i.r] # "waiting" => e.dispatchQ = d.dispatchQ
            BY <2>6, RerouteUnheard
        <3> QED
            BY <3>3, <3>4, <3>5
    <2>9. AllFollow(client, acct, e.client, e.acct)
        BY <2>2, <2>8, FollowsTwice DEF AllFollow
    <2>10. NobodyWaits => e.dispatchQ = dispatchQ
        <3>1. NobodyWaits => d.client[i.r] # "waiting"
            BY <2>2, <2>8 DEF NobodyWaits, Waiting, AllFollow, Follows
        <3> QED
            BY <2>2, <2>8, <3>1
    <2>11. Good(e, k + 1)
        BY <2>2, <2>5, <2>8, <2>9, <2>10
    <2> HIDE DEF Good
    <2> QED
        BY <2>1, <2>11 DEF e
<1>6. Good(walk[n], n)
    <2>1. n \in Nat /\ n \in 0 .. n
        BY <1>1
    <2> HIDE DEF S
    <2>2. \A k \in 0 .. n : k \in S
        BY <1>4, <1>5, <2>1, UpTo
    <2> QED
        BY <2>1, <2>2 DEF S
<1>7. rest(n + 1) = [queue EXCEPT ![Current(u)] = <<>>]
    BY <1>3 DEF s
<1> QED
    BY <1>2, <1>6, <1>7


LEMMA DisableStep ==
    ASSUME Generations, Booked, NEW u \in Upstreams, Disable(u)
    PROVE  /\ Booked' /\ Orderly
           /\ Within(dispatchQ, MaxDispatch) => Within(dispatchQ', MaxDispatch)
           /\ NobodyWaits => dispatchQ' = dispatchQ
<1> DEFINE d == Rerouted(u)
<1>1. Current(u) \in Slots
    BY TargetSlot DEF Disable, Targets
<1>2. /\ Agree(d.dispatchQ, [queue EXCEPT ![Current(u)] = <<>>], worker, callbacks, d.client, task, d.acct)
      /\ AllFollow(client, acct, d.client, d.acct)
      /\ Within(dispatchQ, MaxDispatch) => Within(d.dispatchQ, MaxDispatch)
      /\ NobodyWaits => d.dispatchQ = dispatchQ
    BY <1>1, RerouteStep
<1>3. /\ dispatchQ' = d.dispatchQ /\ client' = d.client /\ acct' = d.acct
      /\ queue' = [queue EXCEPT ![Current(u)] = <<>>]
      /\ worker' = worker /\ callbacks' = callbacks /\ task' = task
    BY DEF Disable, execution
<1> HIDE DEF d
<1> QED
    BY <1>2, <1>3 DEF Booked, Orderly

\* The answer of an attempt that failed, and what its books become.
LEMMA HandlerRaisesStep ==
    ASSUME Generations, Booked, NEW s \in Slots, HandlerRaises(s)
    PROVE  /\ Booked' /\ Orderly
           /\ Within(dispatchQ, MaxDispatch) => Within(dispatchQ', MaxDispatch)
           /\ NobodyWaits => dispatchQ' = dispatchQ
<1> DEFINE i == worker[s].item
           u == s[1]
           start == [dispatchQ |-> dispatchQ, client |-> client, acct |-> acct]
<1>1. u \in Upstreams /\ worker[s].pc \in Hands \ {"lock"}
    BY DEF HandlerRaises, Hands, Slots
<1>2. PICK disables, is429 \in BOOLEAN :
        LET d == IF disables THEN Rerouted(u) ELSE start
            retried == is429 /\ RetryThreshold >= 0
                       /\ TotalLength(IF disables THEN Targets \ {u} ELSE Targets) <= RetryThreshold
            a == d.acct[i.r]
        IN
        /\ disables => target[u] # 0
        /\ queue' = IF disables THEN [queue EXCEPT ![Current(u)] = <<>>] ELSE queue
        /\ dispatchQ' = d.dispatchQ /\ client' = d.client
        /\ acct' = [d.acct EXCEPT ![i.r] = IF retried THEN RetryFailed(a, i.n) ELSE Failed(a, i.n)]
        /\ Done(i, IF retried THEN "retry" ELSE "error")
        /\ Free(s)
    BY DEF HandlerRaises
<1> DEFINE d == IF disables THEN Rerouted(u) ELSE start
           qs == IF disables THEN [queue EXCEPT ![Current(u)] = <<>>] ELSE queue
           retried == is429 /\ RetryThreshold >= 0
                      /\ TotalLength(IF disables THEN Targets \ {u} ELSE Targets) <= RetryThreshold
           b == IF retried THEN RetryFailed(d.acct[i.r], i.n) ELSE Failed(d.acct[i.r], i.n)
           result == IF retried THEN "retry" ELSE "error"
<1>3. /\ d = (IF disables THEN Rerouted(u) ELSE start)
      /\ disables => target[u] # 0
      /\ qs = (IF disables THEN [queue EXCEPT ![Current(u)] = <<>>] ELSE queue)
      /\ \/ result = "retry" /\ b = RetryFailed(d.acct[i.r], i.n)
         \/ result = "error" /\ b = Failed(d.acct[i.r], i.n)
      /\ queue' = qs /\ dispatchQ' = d.dispatchQ /\ client' = d.client
      /\ acct' = [d.acct EXCEPT ![i.r] = b]
      /\ callbacks' = callbacks \cup {[item |-> i, result |-> result]}
      /\ worker' = [worker EXCEPT ![s] = Idling]
      /\ task' = task
    <2>2. /\ disables => target[u] # 0
          /\ queue' = qs /\ dispatchQ' = d.dispatchQ /\ client' = d.client
          /\ acct' = [d.acct EXCEPT ![i.r] = b]
          /\ callbacks' = callbacks \cup {[item |-> i, result |-> result]}
          /\ worker' = [worker EXCEPT ![s] = Idling]
        BY <1>2 DEF Done, Free
    <2>3. \/ result = "retry" /\ b = RetryFailed(d.acct[i.r], i.n)
          \/ result = "error" /\ b = Failed(d.acct[i.r], i.n)
        OBVIOUS
    <2>4. task' = task
        BY DEF HandlerRaises
    <2> HIDE DEF b, result, retried, i, u, start
    <2>5. d = (IF disables THEN Rerouted(u) ELSE start) /\ qs = (IF disables THEN [queue EXCEPT ![Current(u)] = <<>>] ELSE queue)
        OBVIOUS
    <2> HIDE DEF d, qs
    <2> QED
        BY <2>2, <2>3, <2>4, <2>5
<1> HIDE DEF b, result, retried, d, qs
<1>4. /\ Agree(d.dispatchQ, qs, worker, callbacks, d.client, task, d.acct)
      /\ AllFollow(client, acct, d.client, d.acct)
      /\ Within(dispatchQ, MaxDispatch) => Within(d.dispatchQ, MaxDispatch)
      /\ NobodyWaits => d.dispatchQ = dispatchQ
    <2>1. CASE disables
        <3>1. Current(u) \in Slots
            BY <1>1, <1>3, <2>1, TargetSlot DEF Targets
        <3>2. d = Rerouted(u) /\ qs = [queue EXCEPT ![Current(u)] = <<>>]
            BY <1>3, <2>1
        <3> HIDE DEF u
        <3> QED
            BY <3>1, <3>2, RerouteStep
    <2>2. CASE ~disables
        <3>1. d.dispatchQ = dispatchQ /\ d.client = client /\ d.acct = acct /\ qs = queue
            BY <1>3, <2>2
        <3> QED
            BY <3>1 DEF Booked, AllFollow, Follows
    <2> QED
        BY <2>1, <2>2
<1>5. PICK where : Boxes(where, d.dispatchQ, qs, worker, callbacks) /\ Ledger(where, d.client, task, d.acct)
    BY <1>4 DEF Agree
<1>6. i \in Items /\ i.r \in Requests /\ Ends(d.acct[i.r], Failed(d.acct[i.r], i.n), "refunded")
    BY <1>1, <1>5, HandLive
<1>7. \/ result = "retry" /\ b = RetryFailed(d.acct[i.r], i.n)
      \/ result = "error" /\ result \in Answers \ {"ok"} /\ Ends(d.acct[i.r], b, "refunded")
    BY <1>3, <1>6 DEF Answers
<1>8. /\ Agree(d.dispatchQ, qs, [worker EXCEPT ![s] = Idling], callbacks \cup {[item |-> i, result |-> result]},
               d.client, task, [d.acct EXCEPT ![i.r] = b])
      /\ AllFollow(d.client, d.acct, d.client, [d.acct EXCEPT ![i.r] = b])
    <2>1. Idling \in WorkerStates /\ Idling.pc \notin Hands
        BY WorkerIs DEF WorkerIdle
    <2>2. i = worker[s].item
        OBVIOUS
    <2> HIDE DEF i, u, start
    <2> QED
        BY <1>1, <1>5, <1>7, <2>1, <2>2, HandEnds
<1>9. AllFollow(client, acct, d.client, [d.acct EXCEPT ![i.r] = b])
    BY <1>4, <1>8, FollowsTwice DEF AllFollow
<1> HIDE DEF i, u, start
<1>10. Agree(dispatchQ', queue', worker', callbacks', client', task', acct') /\ AllFollow(client, acct, client', acct')
    BY <1>3, <1>8, <1>9
<1> QED
    BY <1>3, <1>4, <1>10 DEF Booked, Orderly


-------------------------------------------------------------------------------
\* All steps together.

LEMMA WorkerStep ==
    ASSUME Generations, Booked, NEW s \in Slots, Worker(s)
    PROVE  Booked' /\ Orderly
<1>1. CASE StartHandler(s) \/ Archived(s) \/ HandlerTimesOut(s)
    <2>1. CASE callbacks' # callbacks \/ acct' # acct
        BY <1>1, <2>1, EndStep
    <2>2. CASE callbacks' = callbacks /\ acct' = acct
        <3>1. StartHandler(s) => Booked' /\ Orderly
            BY <2>2, KeepStep
        <3>2. ASSUME Archived(s) \/ HandlerTimesOut(s) PROVE FALSE
            <4>1. PICK where : Boxes(where, dispatchQ, queue, worker, callbacks) /\ Ledger(where, client, task, acct)
                BY DEF Booked, Agree
            <4> DEFINE i == worker[s].item
                       a == acct[i.r]
            <4>2. worker[s].pc \in Hands \ {"lock"}
                BY <3>2 DEF Archived, HandlerTimesOut, Hands
            <4>3. /\ i.r \in Requests /\ DOMAIN acct = Requests /\ Live(i, "running", client[i.r], task[i.r], a)
                  /\ Ends(a, Failed(a, i.n), "refunded") /\ Ends(a, Succeeded(a, i.n), "charged")
                BY <4>1, <4>2, HandLive
            <4>4. acct'[i.r] = Failed(a, i.n) \/ acct'[i.r] = Succeeded(a, i.n)
                BY <3>2, <4>3 DEF Archived, HandlerTimesOut, Account
            <4> QED
                BY <2>2, <4>3, <4>4 DEF Ends, Live, Open
        <3> QED
            BY <1>1, <3>1, <3>2
    <2> QED
        BY <2>1, <2>2
<1>2. CASE HandlerExits(s) \/ GiveUp(s)
    <2>1. worker[s].pc \notin Hands /\ worker' = [worker EXCEPT ![s] = Idling]
          /\ UNCHANGED <<dispatchQ, queue, callbacks, client, task, acct>>
        BY <1>2 DEF HandlerExits, GiveUp, Hands, Free, caller, routing
    <2> QED
        BY <2>1, FreeStep, WorkerIs DEF WorkerIdle
<1> QED
    BY <1>1, <1>2, TakeStep, LockGrantedStep, KeepStep, HandlerRaisesStep DEF Worker, Handler, Cleanup

LEMMA BookedStep ==
    ASSUME LockInv, Generations, Booked, [Next]_vars
    PROVE  Booked' /\ (Orderly \/ \E r \in Requests : Comes(r))
<1>1. ASSUME NEW r \in Requests, Caller(r) \/ Complete(r)
      PROVE  Booked' /\ (Orderly \/ \E q \in Requests : Comes(q))
    BY <1>1, SubmitStep, CallerStep, CompleteStep DEF Caller
<1>2. ASSUME NEW s \in Slots, StopWorker(s)
      PROVE  Booked' /\ Orderly
    <2>1. /\ worker[s].pc \notin Hands /\ worker' = [worker EXCEPT ![s] = Stopped]
          /\ UNCHANGED <<dispatchQ, queue, callbacks, client, task, acct>>
        BY <1>2 DEF StopWorker, Drained, Hands, caller, routing
    <2>2. Stopped \in WorkerStates /\ Stopped.pc \notin Hands
        BY DEF WorkerStates, Stopped, Hands
    <2> QED
        BY <2>1, <2>2, FreeStep
<1>3. ASSUME NEW u \in Upstreams, Enable(u)
      PROVE  Booked' /\ Orderly
    <2> DEFINE s == <<u, born[u] + 1>>
    <2>1. s \in Slots /\ born[u] + 1 > born[u] /\ born[u] + 1 \in 1 .. MaxGen
        <3>1. born[u] \in Nat /\ born[u] < MaxGen /\ MaxGen \in Nat
            BY <1>3, RoutingAssumption DEF Enable, LockInv, LockShape
        <3>2. born[u] + 1 \in 1 .. MaxGen
            BY <3>1
        <3> QED
            BY <3>1, <3>2 DEF Slots
    <2>2. worker[s].pc = "none"
        BY <2>1 DEF LockInv, LockOf
    <2>3. worker' = [worker EXCEPT ![s] = Idling] /\ UNCHANGED <<dispatchQ, queue, callbacks, client, task, acct>>
        BY <1>3 DEF Enable, caller
    <2>4. worker[s].pc \notin Hands
        BY <2>2 DEF Hands
    <2> HIDE DEF s
    <2> QED
        BY <2>1, <2>3, <2>4, FreeStep, WorkerIs DEF WorkerIdle
<1>4. ASSUME NEW u \in Upstreams, AbandonedExits(u)
      PROVE  Booked' /\ Orderly
    BY <1>4, BooksIdle DEF AbandonedExits, caller, routing
<1>5. CASE BeginStop \/ StopDispatcher \/ FinishStop
    BY <1>5, BooksIdle DEF BeginStop, StopDispatcher, FinishStop, caller, routing, execution
<1>6. CASE UNCHANGED vars
    BY <1>6, BooksIdle DEF vars, caller, routing, execution
<1> QED
    BY <1>1, <1>2, <1>3, <1>4, <1>5, <1>6, WorkerStep, DispatchStep, DisableStep DEF Next

LEMMA BookedInit == Init => Booked
<1> SUFFICES ASSUME Init PROVE Booked
    OBVIOUS
<1> DEFINE where == [r \in Requests |-> Nowhere]
<1>1. \A r \in Requests : where[r] = Nowhere
    OBVIOUS
<1>2. DOMAIN where = Requests
    OBVIOUS
<1> HIDE DEF where
<1>3. \A box, slot, i, mark : box # "nowhere" => Nowhere # At(box, slot, i, mark)
    BY OnePlaceEach
<1>4. \A box, slot : box # "nowhere" => InBox(where, box, slot, <<>>)
    <2>1. <<>> \in Seq(Items) /\ Distinct(<<>>) /\ \A i : ~In(i, <<>>)
        BY DEF Distinct, In
    <2> QED
        BY <1>1, <1>3, <2>1, ItemOf DEF InBox
<1>5. queue = [s \in Slots |-> <<>>] /\ dispatchQ = <<>> /\ callbacks = {}
    BY DEF Init
<1>6. queue \in [Slots -> Seq(Items)] /\ \A s \in Slots : queue[s] = <<>>
    <2>1. <<>> \in Seq(Items)
        OBVIOUS
    <2> QED
        BY <1>5, <2>1
<1>7. worker \in [Slots -> WorkerStates] /\ \A s \in Slots : worker[s].pc \notin Hands
    BY DEF Init, WorkerStates, Idling, None, Hands
<1>8. \A s \in Slots : InTheHand(where, s, worker[s])
    BY <1>1, <1>3, <1>7, ItemOf DEF InTheHand
<1>9. OnWayBack(where, {})
    BY <1>1, <1>3, ItemOf DEF OnWayBack
<1>10. Boxes(where, dispatchQ, queue, worker, callbacks)
    BY <1>2, <1>4, <1>5, <1>6, <1>7, <1>8, <1>9 DEF Boxes
<1>11. Ledger(where, client, task, acct)
    <2>1. \A r \in Requests : Entry(r, where[r], "none", "none", Unsubmitted)
        BY <1>1, FirstRow DEF Entry, Outside
    <2>2. client = [r \in Requests |-> "none"] /\ task = [r \in Requests |-> "none"] /\ acct = [r \in Requests |-> Unsubmitted]
        BY DEF Init
    <2> QED
        BY <2>1, <2>2 DEF Ledger
<1> QED
    BY <1>10, <1>11 DEF Booked, Agree


-------------------------------------------------------------------------------
\* The life of the queues and their workers, up to the end of a stop.

NoWork(s) == worker[s].pc \in {"none", "stopped"}
Quiet(m) == m \in {"dispatcher_stopped", "stopped"}

LifeTypes ==
    /\ mode \in {"run", "draining", "dispatcher_stopped", "stopped"}
    /\ target \in [Upstreams -> 0 .. MaxGen] /\ born \in [Upstreams -> 1 .. MaxGen]
    /\ abandoned \in [Upstreams -> Nat] /\ paced \subseteq Slots /\ gone \subseteq Deletable

\* The worker of a target works until the dispatcher has stopped, and nothing is pending
\* where no worker is; the dispatcher stops when nobody waits any more, and the queue
\* when no worker and no callback is left.
Life ==
    /\ LifeTypes
    /\ \A u \in Upstreams : target[u] # 0 =>
        worker[Current(u)].pc # "none" /\ (worker[Current(u)].pc = "stopped" => Quiet(mode))
    /\ \A s \in Slots : NoWork(s) => queue[s] = <<>>
    /\ Quiet(mode) => dispatchQ = <<>> /\ NobodyWaits
    /\ mode = "stopped" => callbacks = {} /\ \A s \in Slots : NoWork(s)

SameLives == \A s \in Slots, pc \in {"none", "stopped"} : worker'[s].pc = pc <=> worker[s].pc = pc

\* What most steps leave alone.
LEMMA LifeKeeps ==
    ASSUME Life, UNCHANGED mode, LifeTypes', SameLives,
           \A u \in Upstreams : target'[u] \in {0, target[u]},
           \A s \in Slots : NoWork(s) => queue'[s] = <<>>,
           Quiet(mode) => dispatchQ' = dispatchQ /\ NobodyWaits',
           mode = "stopped" => callbacks' = {}
    PROVE  Life'
<1>1. \A s \in Slots : NoWork(s)' <=> NoWork(s)
    BY DEF SameLives, NoWork
<1>2. ASSUME NEW u \in Upstreams, target'[u] # 0
      PROVE  worker'[Current(u)'].pc # "none" /\ (worker'[Current(u)'].pc = "stopped" => Quiet(mode'))
    <2>1. Current(u)' = Current(u) /\ Current(u) \in Slots /\ target[u] # 0
        <3>1. target'[u] = target[u] /\ target[u] # 0
            BY <1>2
        <3> QED
            BY <1>2, <3>1, TargetSlot DEF Current, Targets, Generations, Life, LifeTypes
    <2>2. worker[Current(u)].pc # "none" /\ (worker[Current(u)].pc = "stopped" => Quiet(mode))
        BY <2>1 DEF Life
    <2> HIDE DEF Current
    <2> QED
        BY <2>1, <2>2 DEF SameLives
<1>3. \A s \in Slots : NoWork(s)' => queue'[s] = <<>>
    BY <1>1
<1>4. Quiet(mode)' => dispatchQ' = <<>> /\ NobodyWaits'
    BY DEF Life, Over
<1>5. mode' = "stopped" => callbacks' = {} /\ \A s \in Slots : NoWork(s)'
    BY <1>1 DEF Life
<1> QED
    BY <1>2, <1>3, <1>4, <1>5 DEF Life

LEMMA BookedTypes ==
    ASSUME Booked
    PROVE  /\ dispatchQ \in Seq(Items) /\ queue \in [Slots -> Seq(Items)] /\ worker \in [Slots -> WorkerStates]
           /\ callbacks \subseteq [item : Items, result : Results]
BY DEF Booked, Agree, Boxes, InBox, OnWayBack

\* Nobody begins to wait but by a submission.
LEMMA NobodyBegins == Orderly /\ NobodyWaits => NobodyWaits'
BY DEF Orderly, AllFollow, Follows, NobodyWaits, Waiting

\* A target gets attempts while its worker works.
LEMMA RoutedLife ==
    ASSUME Life, Booked, ~Quiet(mode), NEW i, Routed(i)
    PROVE  \A s \in Slots : NoWork(s) => queue'[s] = <<>>
<1>1. PICK u \in Roomy(i.r) : queue' = [queue EXCEPT ![Current(u)] = Put(@, [i EXCEPT !.logged = i.n > 0])]
    BY DEF Routed
<1>2. u \in Upstreams /\ target[u] # 0
    BY <1>1 DEF Roomy, Candidates, Targets
<1>3. ~NoWork(Current(u))
    BY <1>2 DEF Life, NoWork
<1>4. \A s \in Slots : s # Current(u) => queue'[s] = queue[s]
    BY <1>1, BookedTypes
<1> QED
    BY <1>3, <1>4 DEF Life

LEMMA DispatchToLife ==
    ASSUME Life, Booked, ~Quiet(mode), NEW i, DispatchTo(i)
    PROVE  \A s \in Slots : NoWork(s) => queue'[s] = <<>>
<1>1. Unroutable(i) => queue' = queue
    BY DEF Unroutable
<1> QED
    BY <1>1, RoutedLife DEF DispatchTo, Life

LEMMA SameLivesIf ==
    ASSUME worker' = worker \/ \E s \in Slots : \E w :
            ~NoWork(s) /\ w.pc \notin {"none", "stopped"} /\ worker' = [worker EXCEPT ![s] = w],
           worker \in [Slots -> WorkerStates]
    PROVE  SameLives
BY DEF SameLives, NoWork


LEMMA CallersLife ==
    ASSUME Life, Booked, NEW r \in Requests, Caller(r)
    PROVE  Life'
<1>1. /\ UNCHANGED <<mode, target, born, queue, worker, abandoned, paced, callbacks>> /\ gone' \subseteq Deletable
      /\ dispatchQ' = dispatchQ \/ ~Quiet(mode)
    BY DEF Caller, Submit, SubmitRefused, ServiceResume, ClientCancels, UserGone, routing, execution, Quiet, Life, LifeTypes
<1>2. NobodyWaits /\ Quiet(mode) => NobodyWaits'
    <2>1. CASE Submit(r)
        BY <2>1 DEF Submit, Quiet
    <2>2. CASE SubmitRefused(r)
        <3>1. Moves(client, client', r) /\ client'[r] = "refused"
            <4>1. DOMAIN client = Requests
                BY DEF Booked, Agree, Ledger
            <4> QED
                BY <2>2, <4>1, Updated, Zenon DEF SubmitRefused
        <3> QED
            BY <3>1 DEF Moves, NobodyWaits, Waiting
    <2> QED
        BY <2>1, <2>2, CallerStep, NobodyBegins DEF Caller
<1>3. SameLives /\ LifeTypes'
    BY <1>1 DEF SameLives, Life, LifeTypes
<1> QED
    BY <1>1, <1>2, <1>3, LifeKeeps DEF Life

LEMMA CompleteLife ==
    ASSUME Life, Booked, NEW r \in Requests, Complete(r)
    PROVE  Life'
<1>1. PICK c \in callbacks :
        /\ c.item.r = r
        /\ callbacks' = callbacks \ {c}
        /\ \/ c.result = "retry" /\ Retry(c.item)
           \/ /\ c.result # "retry"
              /\ client' = IF Waiting(r) THEN [client EXCEPT ![r] = c.result] ELSE client
              /\ UNCHANGED <<dispatchQ, queue, acct>>
    BY DEF Complete
<1>2. UNCHANGED <<mode, target, born, worker, abandoned, paced, gone>> /\ mode # "stopped"
    BY <1>1 DEF Complete, execution, Life
<1>3. Generations
    BY DEF Life, LifeTypes, Generations
<1>4. Quiet(mode) => dispatchQ' = dispatchQ /\ queue' = queue /\ NobodyWaits'
    <2> SUFFICES ASSUME Quiet(mode) PROVE dispatchQ' = dispatchQ /\ queue' = queue /\ NobodyWaits'
        OBVIOUS
    <2>1. NobodyWaits
        BY DEF Life
    <2>2. NobodyWaits'
        BY <1>3, <2>1, CompleteStep, NobodyBegins
    <2>3. ~Waiting(c.item.r)
        BY <1>1, <2>1 DEF NobodyWaits
    <2> QED
        BY <1>1, <2>2, <2>3 DEF Retry
<1>5. \A s \in Slots : NoWork(s) => queue'[s] = <<>>
    <2>1. CASE queue' = queue
        BY <2>1 DEF Life
    <2>2. CASE queue' # queue
        <3>1. \E i : DispatchTo(i)
            BY <1>1, <2>2 DEF Retry, Requeue
        <3> QED
            BY <1>4, <2>2, <3>1, DispatchToLife
    <2> QED
        BY <2>1, <2>2
<1>6. SameLives /\ LifeTypes'
    BY <1>2 DEF SameLives, Life, LifeTypes
<1>7. \A u \in Upstreams : target'[u] \in {0, target[u]}
    BY <1>2
<1> QED
    BY <1>2, <1>4, <1>5, <1>6, <1>7, LifeKeeps

LEMMA DispatchLife ==
    ASSUME Life, Booked, Dispatch
    PROVE  Life'
<1>1. UNCHANGED <<mode, target, born, worker, abandoned, paced, callbacks, gone>> /\ ~Quiet(mode) /\ mode # "stopped"
    BY DEF Dispatch, execution, Quiet
<1>2. queue' = queue \/ \E i : DispatchTo(i)
    BY DEF Dispatch
<1>3. \A s \in Slots : NoWork(s) => queue'[s] = <<>>
    BY <1>1, <1>2, DispatchToLife DEF Life
<1>4. SameLives /\ LifeTypes'
    BY <1>1 DEF SameLives, Life, LifeTypes
<1>5. \A u \in Upstreams : target'[u] \in {0, target[u]}
    BY <1>1
<1> QED
    BY <1>1, <1>3, <1>4, <1>5, LifeKeeps

LEMMA DisableLife ==
    ASSUME Life, Booked, NEW u \in Upstreams, Disable(u)
    PROVE  Life'
<1>1. /\ UNCHANGED <<mode, born, worker, abandoned, paced, callbacks, gone>>
      /\ target' = [target EXCEPT ![u] = 0] /\ queue' = [queue EXCEPT ![Current(u)] = <<>>]
    BY DEF Disable, execution
<1>2. Generations
    BY DEF Life, LifeTypes, Generations
<1>3. Quiet(mode) => dispatchQ' = dispatchQ /\ NobodyWaits'
    <2>1. Orderly /\ (NobodyWaits => dispatchQ' = dispatchQ)
        BY <1>2, DisableStep
    <2> QED
        BY <2>1, NobodyBegins DEF Life
<1>4. \A s \in Slots : NoWork(s) => queue'[s] = <<>>
    BY <1>1, BookedTypes DEF Life
<1>5. SameLives /\ LifeTypes' /\ \A v \in Upstreams : target'[v] \in {0, target[v]}
    BY <1>1, RoutingAssumption DEF SameLives, Life, LifeTypes
<1>6. mode = "stopped" => callbacks' = {}
    BY <1>1 DEF Life
<1> QED
    BY <1>1, <1>3, <1>4, <1>5, <1>6, LifeKeeps

LEMMA WorkerMoves ==
    ASSUME NEW s \in Slots, Worker(s)
    PROVE  /\ ~NoWork(s)
           /\ worker' = worker \/ \E w : w.pc \notin {"none", "stopped"} /\ worker' = [worker EXCEPT ![s] = w]
           /\ UNCHANGED <<mode, born, gone>>
<1>1. /\ Idling.pc \notin {"none", "stopped"}
      /\ \A pc \in {"lock", "interval", "exec", "archive", "cleanup"} : \A i : Holding(pc, i).pc \notin {"none", "stopped"}
    BY DEF Idling, Holding
<1>2. UNCHANGED <<mode, born, gone>>
    BY DEF Worker, Handler, Cleanup, Take, LockGranted, StartHandler, HandlerSucceeds, HandlerRaises, HandlerTimesOut,
           Archived, HandlerExits, GiveUp, routing, caller
<1>3. ~NoWork(s)
    BY DEF Worker, Handler, Cleanup, Take, LockGranted, StartHandler, HandlerSucceeds, HandlerRaises, HandlerTimesOut,
           Archived, HandlerExits, GiveUp, NoWork
<1>4. \/ worker' = worker
      \/ worker' = [worker EXCEPT ![s] = Idling]
      \/ \E pc \in {"lock", "interval", "exec", "archive", "cleanup"} : \E i : worker' = [worker EXCEPT ![s] = Holding(pc, i)]
    <2>1. ASSUME NEW i, NEW locks, Process(s, i, locks)
          PROVE  \/ worker' = [worker EXCEPT ![s] = Idling]
                 \/ \E pc \in {"lock", "interval", "exec", "archive", "cleanup"} : \E j : worker' = [worker EXCEPT ![s] = Holding(pc, j)]
        BY <2>1, ProcessCases
    <2>2. ASSUME NEW i, Begin(s, i)
          PROVE  \/ worker' = [worker EXCEPT ![s] = Idling]
                 \/ \E pc \in {"lock", "interval", "exec", "archive", "cleanup"} : \E j : worker' = [worker EXCEPT ![s] = Holding(pc, j)]
        BY <2>1, <2>2 DEF Begin, Keep
    <2>3. Take(s) => worker' = worker \/ \E i : Begin(s, i)
        BY DEF Take, TurnAway
    <2>4. LockGranted(s) => \E i, locks : Process(s, i, locks)
        BY DEF LockGranted
    <2>5. StartHandler(s) => worker' = [worker EXCEPT ![s] = Idling] \/ \E i : worker' = [worker EXCEPT ![s] = Holding("exec", i)]
        BY DEF StartHandler, Free, Keep
    <2>6. HandlerSucceeds(s) => \E i : worker' = [worker EXCEPT ![s] = Holding("archive", i)]
        BY DEF HandlerSucceeds, Keep
    <2>7. HandlerTimesOut(s) => \E i : worker' = [worker EXCEPT ![s] = Holding("cleanup", i)]
        BY DEF HandlerTimesOut, Keep
    <2>8. HandlerRaises(s) \/ Archived(s) \/ HandlerExits(s) \/ GiveUp(s) => worker' = [worker EXCEPT ![s] = Idling]
        BY DEF HandlerRaises, Archived, HandlerExits, GiveUp, Free
    <2> QED
        BY <2>1, <2>2, <2>3, <2>4, <2>5, <2>6, <2>7, <2>8 DEF Worker, Handler, Cleanup
<1> QED
    BY <1>1, <1>2, <1>3, <1>4

LEMMA WorkerLife ==
    ASSUME Life, Booked, NEW s \in Slots, Worker(s)
    PROVE  Life'
<1>1. /\ ~NoWork(s) /\ UNCHANGED <<mode, born, gone>> /\ mode # "stopped"
      /\ worker' = worker \/ \E w : w.pc \notin {"none", "stopped"} /\ worker' = [worker EXCEPT ![s] = w]
    BY WorkerMoves DEF Life
<1>2. SameLives
    BY <1>1, BookedTypes, SameLivesIf
<1>3. Generations
    BY DEF Life, LifeTypes, Generations
<1>4. /\ \A v \in Upstreams : target'[v] \in {0, target[v]}
      /\ target' \in [Upstreams -> 0 .. MaxGen]
      /\ \A t \in Slots : NoWork(t) => queue'[t] = <<>>
      /\ NobodyWaits => dispatchQ' = dispatchQ
    <2>1. CASE HandlerRaises(s)
        <3>1. /\ target' = target \/ target' = [target EXCEPT ![s[1]] = 0]
              /\ queue' = queue \/ queue' = [queue EXCEPT ![Current(s[1])] = <<>>]
            BY <2>1 DEF HandlerRaises
        <3> QED
            BY <1>3, <2>1, <3>1, HandlerRaisesStep, BookedTypes, RoutingAssumption DEF Life, LifeTypes
    <2>2. CASE ~HandlerRaises(s)
        <3>1. UNCHANGED <<target, dispatchQ>> /\ (queue' = queue \/ Take(s))
            BY <2>2 DEF Worker, Handler, Cleanup, Take, LockGranted, StartHandler, HandlerSucceeds, HandlerTimesOut,
                   Archived, HandlerExits, GiveUp, routing
        <3>2. Take(s) => queue' = [queue EXCEPT ![s] = Tail(@)]
            BY DEF Take
        <3> QED
            BY <1>1, <3>1, <3>2, BookedTypes DEF Life, LifeTypes
    <2> QED
        BY <2>1, <2>2
<1>5. abandoned' \in [Upstreams -> Nat]
    <2>1. abandoned' = abandoned \/ abandoned' = [abandoned EXCEPT ![s[1]] = @ + 1]
        BY DEF Worker, Handler, Cleanup, Take, LockGranted, StartHandler, HandlerSucceeds, HandlerRaises, HandlerTimesOut,
               Archived, HandlerExits, GiveUp
    <2> QED
        BY <2>1 DEF Life, LifeTypes
<1>6. paced' \subseteq Slots
    <2>1. ASSUME NEW t \in Slots, NEW i, NEW locks, Process(t, i, locks) PROVE paced' = paced \/ paced' = paced \cup {t}
        BY <2>1 DEF Process, Pace
    <2>2. Take(s) \/ LockGranted(s) => paced' = paced \/ paced' = paced \cup {s}
        BY <2>1 DEF Take, LockGranted, Begin, TurnAway
    <2>3. StartHandler(s) \/ HandlerSucceeds(s) \/ HandlerRaises(s) \/ HandlerTimesOut(s) \/ Archived(s)
            \/ HandlerExits(s) \/ GiveUp(s)
          => paced' = paced \/ paced' = paced \cup {s}
        BY DEF StartHandler, HandlerSucceeds, HandlerRaises, HandlerTimesOut, Archived, HandlerExits, GiveUp, Pace
    <2> QED
        BY <2>2, <2>3 DEF Worker, Handler, Cleanup, Life, LifeTypes
<1>7. LifeTypes'
    BY <1>1, <1>4, <1>5, <1>6 DEF Life, LifeTypes
<1>8. Quiet(mode) => dispatchQ' = dispatchQ /\ NobodyWaits'
    BY <1>3, <1>4, WorkerStep, NobodyBegins DEF Life
<1> QED
    BY <1>1, <1>2, <1>4, <1>7, <1>8, LifeKeeps

LEMMA EnableLife ==
    ASSUME Life, Booked, LockInv, NEW u \in Upstreams, Enable(u)
    PROVE  Life'
<1> DEFINE g == born[u] + 1
           s == <<u, g>>
<1>1. g \in 1 .. MaxGen /\ g > born[u] /\ s \in Slots /\ MaxGen \in Nat
    <2>1. born[u] \in Nat /\ born[u] < MaxGen /\ MaxGen \in Nat
        BY RoutingAssumption DEF Enable, Life, LifeTypes
    <2>2. g \in 1 .. MaxGen /\ g > born[u]
        BY <2>1
    <2> QED
        BY <2>1, <2>2 DEF Slots
<1>2. /\ mode \in {"run", "draining"} /\ born' = [born EXCEPT ![u] = g] /\ target' = [target EXCEPT ![u] = g]
      /\ worker' = [worker EXCEPT ![s] = Idling]
      /\ UNCHANGED <<mode, dispatchQ, queue, abandoned, paced, callbacks, client, gone>>
    BY DEF Enable, caller
<1>3. worker \in [Slots -> WorkerStates] /\ worker'[s] = Idling /\ \A t \in Slots \ {s} : worker'[t] = worker[t]
    BY <1>1, <1>2, BookedTypes
<1>4. LifeTypes'
    <2> HIDE DEF g, s
    <2> QED
        BY <1>1, <1>2 DEF Life, LifeTypes
<1>5. \A v \in Upstreams : target'[v] # 0 => worker'[Current(v)'].pc # "none" /\ worker'[Current(v)'].pc # "stopped"
    <2> SUFFICES ASSUME NEW v \in Upstreams, target'[v] # 0
                 PROVE  worker'[<<v, target'[v]>>].pc # "none" /\ worker'[<<v, target'[v]>>].pc # "stopped"
        BY DEF Current
    <2>1. CASE v = u
        <3>1. target'[v] = g
            BY <1>2, <2>1 DEF Life, LifeTypes
        <3> QED
            BY <1>3, <2>1, <3>1 DEF Idling
    <2>2. CASE v # u
        <3>1. target'[v] = target[v]
            BY <1>2, <2>2 DEF Life, LifeTypes
        <3>2. Current(v) = <<v, target[v]>> /\ Current(v) \in Slots /\ Current(v) # s
            BY <2>2, <3>1, TargetSlot DEF Current, Targets, Generations, Life, LifeTypes
        <3>3. worker[Current(v)].pc # "none" /\ worker[Current(v)].pc # "stopped"
            BY <1>2, <3>1 DEF Life, Quiet
        <3> QED
            BY <1>3, <3>1, <3>2, <3>3
    <2> QED
        BY <2>1, <2>2
<1>6. \A t \in Slots : NoWork(t)' => queue'[t] = <<>>
    <2>1. \A t \in Slots : NoWork(t)' => NoWork(t)
        BY <1>3 DEF NoWork, Idling
    <2> QED
        BY <1>2, <2>1 DEF Life
<1>7. ~Quiet(mode)' /\ mode' # "stopped"
    BY <1>2 DEF Quiet
<1> QED
    BY <1>4, <1>5, <1>6, <1>7 DEF Life

LEMMA StopWorkerLife ==
    ASSUME Life, Booked, NEW s \in Slots, StopWorker(s)
    PROVE  Life'
<1>1. /\ worker[s].pc = "idle" /\ queue[s] = <<>> /\ (target[s[1]] = s[2] => mode = "dispatcher_stopped")
      /\ worker' = [worker EXCEPT ![s] = Stopped]
      /\ UNCHANGED <<mode, dispatchQ, target, born, queue, abandoned, callbacks, client, gone>>
      /\ paced' = paced \ {s}
    BY DEF StopWorker, Drained, routing, caller
<1>2. worker'[s] = Stopped /\ \A t \in Slots \ {s} : worker'[t] = worker[t]
    BY <1>1, BookedTypes
<1>3. LifeTypes' /\ mode # "stopped"
    BY <1>1 DEF Life, LifeTypes, NoWork
<1>4. ASSUME NEW v \in Upstreams, target'[v] # 0
      PROVE  worker'[Current(v)'].pc # "none" /\ (worker'[Current(v)'].pc = "stopped" => Quiet(mode'))
    <2>1. Current(v)' = Current(v) /\ Current(v) \in Slots /\ target[v] # 0
        BY <1>1, <1>4, TargetSlot DEF Current, Targets, Generations, Life, LifeTypes
    <2>2. Current(v) = s => mode' = "dispatcher_stopped"
        BY <1>1 DEF Current
    <2>3. worker[Current(v)].pc # "none" /\ (worker[Current(v)].pc = "stopped" => Quiet(mode))
        BY <2>1 DEF Life
    <2> HIDE DEF Current
    <2> QED
        BY <1>1, <1>2, <2>1, <2>2, <2>3 DEF Quiet, Stopped
<1>5. \A t \in Slots : NoWork(t)' => queue'[t] = <<>>
    BY <1>1, <1>2 DEF NoWork, Life
<1>6. Quiet(mode)' => dispatchQ' = <<>> /\ NobodyWaits'
    BY <1>1 DEF Life, Quiet, NobodyWaits, Waiting
<1> QED
    BY <1>1, <1>3, <1>4, <1>5, <1>6 DEF Life

LEMMA OtherLife ==
    ASSUME Life, BeginStop \/ StopDispatcher \/ FinishStop \/ (\E u \in Upstreams : AbandonedExits(u)) \/ UNCHANGED vars
    PROVE  Life'
<1>1. UNCHANGED <<dispatchQ, target, born, queue, worker, paced, callbacks, client, gone>>
    BY DEF BeginStop, StopDispatcher, FinishStop, AbandonedExits, vars, routing, execution, caller
<1>2. abandoned' \in [Upstreams -> Nat]
    <2>1. ASSUME NEW u \in Upstreams, AbandonedExits(u)
          PROVE  abandoned' \in [Upstreams -> Nat]
        BY <2>1 DEF AbandonedExits, Life, LifeTypes
    <2> QED
        BY <2>1 DEF BeginStop, StopDispatcher, FinishStop, vars, execution, Life, LifeTypes
<1>3. \/ mode' = mode
      \/ mode = "run" /\ mode' = "draining"
      \/ mode' = "dispatcher_stopped" /\ dispatchQ = <<>> /\ NobodyWaits
      \/ mode = "dispatcher_stopped" /\ mode' = "stopped" /\ callbacks = {} /\ \A s \in Slots : NoWork(s)
    BY DEF BeginStop, StopDispatcher, FinishStop, AbandonedExits, vars, NobodyWaits, NoWork
<1>4. /\ LifeTypes'
      /\ \A u \in Upstreams : Current(u)' = Current(u)
      /\ \A s \in Slots : NoWork(s)' <=> NoWork(s)
      /\ NobodyWaits' <=> NobodyWaits
    BY <1>1, <1>2, <1>3 DEF Life, LifeTypes, Current, NoWork, NobodyWaits, Waiting
<1>5. Quiet(mode) => Quiet(mode')
    BY <1>3 DEF Quiet
<1> QED
    BY <1>1, <1>3, <1>4, <1>5 DEF Life, Quiet

LEMMA LifeInit == Init => Life
<1> SUFFICES ASSUME Init PROVE Life
    OBVIOUS
<1>1. MaxGen \in Nat /\ 1 \in 1 .. MaxGen /\ 1 \in 0 .. MaxGen
    BY RoutingAssumption
<1>2. \A u \in Upstreams : target[u] = 1 /\ Current(u) \in Slots /\ worker[Current(u)] = Idling
    BY <1>1 DEF Init, Current, Slots
<1>3. LifeTypes
    BY <1>1 DEF Init, LifeTypes
<1>4. mode = "run" /\ \A s \in Slots : queue[s] = <<>>
    BY DEF Init
<1> QED
    BY <1>2, <1>3, <1>4 DEF Life, Quiet, Idling

LEMMA LifeStep == Life /\ Booked /\ LockInv /\ [Next]_vars => Life'
BY CallersLife, CompleteLife, DispatchLife, DisableLife, WorkerLife, EnableLife, StopWorkerLife, OtherLife DEF Next


-------------------------------------------------------------------------------
\* What follows for every reachable state.

RoutingInv == LockInv /\ Booked /\ Life

LEMMA RoutingStep == RoutingInv /\ [Next]_vars => RoutingInv' /\ (Orderly \/ \E r \in Requests : Comes(r))
<1>1. Life => Generations
    BY DEF Life, LifeTypes, Generations
<1> QED
    BY <1>1, LockStep, BookedStep, LifeStep DEF RoutingInv

\* The books agree with the places of all requests, the locks with the workers that need
\* them, and the workers with the life of the queue: in every reachable state.
THEOREM RoutingInvariant == Spec => []RoutingInv
<1>1. Init => RoutingInv
    BY LockInit, BookedInit, LifeInit DEF RoutingInv
<1>2. RoutingInv /\ [Next]_vars => RoutingInv'
    BY RoutingStep
<1> QED
    BY <1>1, <1>2, PTL DEF Spec

LEMMA Somewhere ==
    ASSUME NEW r, NEW place, NEW c, NEW t, NEW a, Entry(r, place, c, t, a), place # Nowhere
    PROVE  \E i \in Items :
            /\ i.r = r
            /\ \/ place = At("dispatch", "-", i, "-")
               \/ \E s \in Slots : place = At("pending", s, i, "-")
               \/ \E s \in Slots, pc \in Hands : place = At("hand", s, i, pc)
               \/ \E result \in Results : place = At("back", "-", i, result)
<1>1. PICK i \in Items : i.r = r /\ Underway(i, place, c, a)
    BY DEF Entry
<1>2. "lock" \in Hands /\ "retry" \in Results
    BY DEF Hands, Results
<1>3. \/ place = At("dispatch", "-", i, "-")
      \/ \E s \in Slots : place = At("pending", s, i, "-")
      \/ \E s \in Slots, pc \in Hands : place = At("hand", s, i, pc)
      \/ \E result \in Results : place = At("back", "-", i, result)
    <2>1. CASE place = At("dispatch", "-", i, "-")
        BY <2>1
    <2>2. CASE \E s \in Slots : place = At("pending", s, i, "-") \/ place = At("hand", s, i, "lock")
        BY <1>2, <2>2
    <2>3. CASE \E s \in Slots, pc \in Hands \ {"lock"} : place = At("hand", s, i, pc)
        BY <2>3
    <2>4. CASE place = At("back", "-", i, "retry") \/ \E result \in Results \ {"retry"} : place = At("back", "-", i, result)
        BY <1>2, <2>4
    <2> QED
        BY <1>1, <2>1, <2>2, <2>3, <2>4 DEF Underway
<1> QED
    BY <1>1, <1>3

LEMMA PlacesAre ==
    ASSUME NEW where, Boxes(where, dispatchQ, queue, worker, callbacks), Ledger(where, client, task, acct),
           NEW r \in Requests
    PROVE  Places(r) = IF where[r] = Nowhere THEN 0 ELSE 1
<1>1. CASE where[r] = Nowhere
    <2>1. where[r] = At("nowhere", "-", "-", "-")
        BY <1>1 DEF Nowhere
    <2> QED
        BY <1>1, <2>1, PlacesCounted
<1>2. CASE where[r] # Nowhere
    <2>1. Entry(r, where[r], client[r], task[r], acct[r])
        BY DEF Ledger
    <2>2. PICK i \in Items :
            /\ i.r = r
            /\ \/ where[r] = At("dispatch", "-", i, "-")
               \/ \E s \in Slots : where[r] = At("pending", s, i, "-")
               \/ \E s \in Slots, pc \in Hands : where[r] = At("hand", s, i, pc)
               \/ \E result \in Results : where[r] = At("back", "-", i, result)
        BY <1>2, <2>1, Somewhere
    <2>3. CASE where[r] = At("dispatch", "-", i, "-")
        BY <2>2, <2>3, PlacesCounted
    <2>4. ASSUME NEW s \in Slots, where[r] = At("pending", s, i, "-")
          PROVE  Places(r) = IF where[r] = Nowhere THEN 0 ELSE 1
        BY <2>2, <2>4, PlacesCounted
    <2>5. ASSUME NEW s \in Slots, NEW pc \in Hands, where[r] = At("hand", s, i, pc)
          PROVE  Places(r) = IF where[r] = Nowhere THEN 0 ELSE 1
        BY <2>2, <2>5, PlacesCounted
    <2>6. ASSUME NEW result \in Results, where[r] = At("back", "-", i, result)
          PROVE  Places(r) = IF where[r] = Nowhere THEN 0 ELSE 1
        BY <2>2, <2>6, PlacesCounted
    <2> QED
        BY <2>2, <2>3, <2>4, <2>5, <2>6
<1> QED
    BY <1>1, <1>2

\* What the invariant says of one request.
LEMMA OfRequest ==
    ASSUME Booked, NEW r \in Requests
    PROVE  LET c == client[r]
               t == task[r]
               a == acct[r]
           IN
           /\ \/ Places(r) = 0 /\ Outside(c, t, a)
              \/ Places(r) = 1 /\ Listening(c, t)
           /\ a \in Accounts
           /\ a = Unsubmitted \/ \E n \in Attempts, status \in RowStatus : RowsAt(a, n, status)
<1>1. PICK where : Boxes(where, dispatchQ, queue, worker, callbacks) /\ Ledger(where, client, task, acct)
    BY DEF Booked, Agree
<1>2. Entry(r, where[r], client[r], task[r], acct[r])
    BY <1>1 DEF Ledger
<1>3. Places(r) = IF where[r] = Nowhere THEN 0 ELSE 1
    BY <1>1, PlacesAre
<1>4. /\ where[r] = Nowhere => Outside(client[r], task[r], acct[r])
      /\ where[r] # Nowhere => Listening(client[r], task[r])
      /\ acct[r] \in Accounts
    BY <1>2, EntryWhere
<1>5. acct[r] = Unsubmitted \/ \E n \in Attempts, status \in RowStatus : RowsAt(acct[r], n, status)
    <2> DEFINE a == acct[r]
    <2>1. ClosedRows(a) => \E n \in Attempts, status \in RowStatus : RowsAt(a, n, status)
        BY DEF ClosedRows, RowStatus
    <2>2. RowsAt(a, 0, "queued") => \E n \in Attempts, status \in RowStatus : RowsAt(a, n, status)
        BY AttemptsAre DEF RowStatus
    <2>3. ASSUME Outside(client[r], task[r], a)
          PROVE  a = Unsubmitted \/ \E n \in Attempts, status \in RowStatus : RowsAt(a, n, status)
        BY <2>1, <2>2, <2>3 DEF Outside, LeftToService
    <2>4. ASSUME NEW i \in Items, Underway(i, where[r], client[r], a)
          PROVE  \E n \in Attempts, status \in RowStatus : RowsAt(a, n, status)
        <3>1. i.n \in Attempts /\ Shown(i) \in RowStatus /\ "running" \in RowStatus /\ "failed" \in RowStatus
            BY ItemOf DEF Shown, RowStatus, TerminalRow
        <3>2. Open(a, i.n, Shown(i)) \/ Open(a, i.n, "running") \/ Open(a, i.n, "failed") \/ ClosedRows(a)
            BY <2>4 DEF Underway
        <3> QED
            BY <2>1, <3>1, <3>2 DEF Open
    <2> QED
        BY <1>2, <2>3, <2>4 DEF Entry
<1> QED
    BY <1>3, <1>4, <1>5

\* A request whose caller waits is in exactly one place, and no request is in two: not
\* through the retries, the reroutes and the cancellations of the queue code.
THEOREM OnePlaceCorrect == Spec => []OnePlace
<1>1. RoutingInv => OnePlace
    <2> SUFFICES ASSUME RoutingInv, NEW r \in Requests
                 PROVE  /\ Places(r) <= 1 /\ (Waiting(r) => Places(r) = 1)
                        /\ client[r] \in {"none", "refused"} => Places(r) = 0
        BY DEF OnePlace
    <2>1. \/ Places(r) = 0 /\ Outside(client[r], task[r], acct[r])
          \/ Places(r) = 1 /\ Listening(client[r], task[r])
        BY OfRequest DEF RoutingInv
    <2>2. Outside(client[r], task[r], acct[r]) => client[r] # "waiting"
        BY DEF Outside, Answers
    <2>3. Listening(client[r], task[r]) => client[r] \notin {"none", "refused"}
        BY DEF Listening
    <2> QED
        BY <2>1, <2>2, <2>3 DEF Waiting
<1> QED
    BY <1>1, RoutingInvariant, PTL

\* A reservation is held only for a request that is still somewhere: an accounting call
\* settles it before the attempt leaves the queue layer for good.
THEOREM NothingLostCorrect == Spec => []NothingLost
<1>1. RoutingInv => NothingLost
    <2> SUFFICES ASSUME RoutingInv, NEW r \in Requests, acct[r].settled = "held"
                 PROVE  Places(r) = 1
        BY DEF NothingLost
    <2>1. \/ Places(r) = 0 /\ Outside(client[r], task[r], acct[r])
          \/ Places(r) = 1
        BY OfRequest DEF RoutingInv
    <2>2. ~Outside(client[r], task[r], acct[r])
        BY DEF Outside, Settles, Unsubmitted
    <2> QED
        BY <2>1, <2>2
<1> QED
    BY <1>1, RoutingInvariant, PTL

\* Whatever the caller is told, its account agrees: charged for an image, refunded with
\* any other answer, and that before the answer is given.
THEOREM AnswerMatchesChargeCorrect == Spec => []AnswerMatchesCharge
<1>1. RoutingInv => AnswerMatchesCharge
    <2> SUFFICES ASSUME RoutingInv, NEW r \in Requests
                 PROVE  /\ client[r] = "ok" => acct[r].settled = "charged"
                        /\ client[r] \in (Answers \ {"ok"}) \cup {"refused"} => acct[r].settled = "refunded"
        BY DEF AnswerMatchesCharge
    <2>1. \/ Outside(client[r], task[r], acct[r])
          \/ Listening(client[r], task[r])
        BY OfRequest DEF RoutingInv
    <2>2. CASE Outside(client[r], task[r], acct[r])
        BY <2>2 DEF Outside, Settles, Answers
    <2>3. CASE Listening(client[r], task[r])
        BY <2>3 DEF Listening, Answers
    <2> QED
        BY <2>1, <2>2, <2>3
<1> QED
    BY <1>1, RoutingInvariant, PTL

\* A request that is over has no open row, but for the one its cancelled coroutine was to
\* close.
THEOREM RowsClosedCorrect == Spec => []RowsClosed
<1>1. RoutingInv => RowsClosed
    <2> SUFFICES ASSUME RoutingInv, NEW r \in Requests, Places(r) = 0, task[r] \in {"answered", "cancelled"}
                 PROVE  Closed(r) \/ (task[r] = "cancelled" /\ client[r] \in {"full", "unavailable"})
        BY DEF RowsClosed, Over
    <2>1. \/ Places(r) = 0 /\ Outside(client[r], task[r], acct[r])
          \/ Places(r) = 1
        BY OfRequest DEF RoutingInv
    <2>2. ClosedRows(acct[r]) \/ LeftToService(client[r], task[r], acct[r])
        BY <2>1 DEF Outside
    <2>3. ClosedRows(acct[r]) => Closed(r)
        BY DEF ClosedRows, RowsAt, Closed, TerminalRow
    <2> QED
        BY <2>2, <2>3 DEF LeftToService
<1> QED
    BY <1>1, RoutingInvariant, PTL

\* A retry is logged only after all its earlier attempts were logged as failed.
THEOREM RetryRowsCorrect == Spec => []RetryRows
<1>1. RoutingInv => RetryRows
    <2> SUFFICES ASSUME RoutingInv, NEW r \in Requests, NEW n \in Attempts, acct[r].row[n] # "none", NEW m \in 0 .. n - 1
                 PROVE  acct[r].row[m] = "failed"
        BY DEF RetryRows
    <2>1. acct[r] = Unsubmitted \/ \E k \in Attempts, status \in RowStatus : RowsAt(acct[r], k, status)
        BY OfRequest DEF RoutingInv
    <2>2. acct[r] # Unsubmitted
        BY DEF Unsubmitted
    <2>3. PICK k \in Attempts, status \in RowStatus : RowsAt(acct[r], k, status)
        BY <2>1, <2>2
    <2>4. m \in Attempts /\ m < n /\ n \in Nat /\ k \in Nat /\ m \in Nat
        BY RoutingAssumption DEF Attempts
    <2>5. n <= k
        BY <2>3, <2>4 DEF RowsAt
    <2>6. m < k
        BY <2>4, <2>5
    <2> QED
        BY <2>3, <2>4, <2>6 DEF RowsAt
<1> QED
    BY <1>1, RoutingInvariant, PTL

\* A stop that drained has left no attempt anywhere and no reservation held.
THEOREM StopLosesNothingCorrect == Spec => []StopLosesNothing
<1>1. RoutingInv => StopLosesNothing
    <2> SUFFICES ASSUME RoutingInv, mode = "stopped", NEW r \in Requests
                 PROVE  Places(r) = 0 /\ acct[r].settled # "held"
        BY DEF StopLosesNothing
    <2>1. dispatchQ = <<>> /\ callbacks = {} /\ \A s \in Slots : NoWork(s) /\ queue[s] = <<>>
        BY DEF RoutingInv, Life, Quiet
    <2>2. PICK where : Boxes(where, dispatchQ, queue, worker, callbacks) /\ Ledger(where, client, task, acct)
        BY DEF RoutingInv, Booked, Agree
    <2>3. where[r] = Nowhere
        <3> SUFFICES ASSUME where[r] # Nowhere PROVE FALSE
            OBVIOUS
        <3>1. Entry(r, where[r], client[r], task[r], acct[r])
            BY <2>2 DEF Ledger
        <3>2. PICK i \in Items :
                /\ i.r = r
                /\ \/ where[r] = At("dispatch", "-", i, "-")
                   \/ \E s \in Slots : where[r] = At("pending", s, i, "-")
                   \/ \E s \in Slots, pc \in Hands : where[r] = At("hand", s, i, pc)
                   \/ \E result \in Results : where[r] = At("back", "-", i, result)
            BY <3>1, Somewhere
        <3>3. \A j : ~In(j, <<>>)
            BY DEF In
        <3>4. where[r] # At("dispatch", "-", i, "-") /\ \A s \in Slots : where[r] # At("pending", s, i, "-")
            <4>1. InBox(where, "dispatch", "-", <<>>) /\ \A s \in Slots : InBox(where, "pending", s, <<>>)
                BY <2>1, <2>2 DEF Boxes
            <4> QED
                BY <3>2, <3>3, <4>1 DEF InBox
        <3>5. \A s \in Slots, pc \in Hands : where[r] # At("hand", s, i, pc)
            <4>1. \A s \in Slots : worker[s].pc \notin Hands
                BY <2>1 DEF NoWork, Hands
            <4>2. \A s \in Slots : InTheHand(where, s, worker[s])
                BY <2>2 DEF Boxes
            <4> QED
                BY <3>2, <4>1, <4>2 DEF InTheHand
        <3>6. \A result \in Results : where[r] # At("back", "-", i, result)
            BY <2>1, <2>2, <3>2 DEF Boxes, OnWayBack
        <3> QED
            BY <3>2, <3>4, <3>5, <3>6
    <2>4. Places(r) = 0
        BY <2>2, <2>3, PlacesAre
    <2>5. Outside(client[r], task[r], acct[r])
        BY <2>4, OfRequest DEF RoutingInv
    <2> QED
        BY <2>4, <2>5 DEF Outside, Settles, Unsubmitted
<1> QED
    BY <1>1, RoutingInvariant, PTL

\* A row that is closed stays as it is, whichever layer writes next.
THEOREM RowsFinalCorrect == Spec => RowsFinal
<1>1. RoutingInv /\ [Next]_vars
        => [\A r \in Requests, n \in Attempts : acct[r].row[n] \in TerminalRow => acct'[r].row[n] = acct[r].row[n]]_vars
    <2> SUFFICES ASSUME RoutingInv, [Next]_vars, NEW r \in Requests, NEW n \in Attempts, acct[r].row[n] \in TerminalRow
                 PROVE  acct'[r].row[n] = acct[r].row[n]
        OBVIOUS
    <2>1. CASE Orderly
        BY <2>1 DEF Orderly, AllFollow, Follows
    <2>2. ASSUME NEW q \in Requests, Comes(q)
          PROVE  acct'[r].row[n] = acct[r].row[n]
        <3>1. acct[q].row[n] \notin TerminalRow
            BY <2>2 DEF Comes, Unsubmitted, TerminalRow
        <3> QED
            BY <2>2, <3>1 DEF Comes, Moves
    <2> QED
        BY <2>1, <2>2, RoutingStep
<1> QED
    BY <1>1, RoutingInvariant, PTL DEF Spec, RowsFinal


-------------------------------------------------------------------------------
\* The settlement of a reservation.

LEMMA FateIs ==
    \A r \in Requests : Fate[r] = (IF client[r] = "refused" THEN "none" ELSE acct[r].settled)
BY DEF Fate

LEMMA FateAfter ==
    \A r \in Requests : Fate'[r] = (IF client'[r] = "refused" THEN "none" ELSE acct'[r].settled)
BY DEF Fate

LEMMA SettlementStep ==
    ASSUME RoutingInv, RoutingInv', Orderly \/ \E r \in Requests : Comes(r)
    PROVE  Abstract!Advance
<1>1. \A r \in Requests : acct'[r].settled \in {"none", "held", "charged", "refunded"}
    <2>1. Booked'
        BY DEF RoutingInv
    <2>2. \A r \in Requests : acct'[r] \in Accounts
        BY <2>1, EntryWhere DEF Booked, Agree, Ledger
    <2> QED
        BY <2>2 DEF Accounts
<1>2. Fate' \in [Requests -> Abstract!Fates]
    <2>1. \A r \in Requests : Fate'[r] \in Abstract!Fates
        BY <1>1, FateAfter DEF Abstract!Fates
    <2> QED
        BY <2>1 DEF Fate
<1>3. ASSUME NEW r \in Requests, Fate'[r] # Fate[r]
      PROVE  \/ Fate[r] = "none" /\ Fate'[r] = "held"
             \/ Fate[r] = "held" /\ Fate'[r] \in {"charged", "refunded"}
    <2>1. CASE Orderly
        <3>1. client[r] = "refused" <=> client'[r] = "refused"
            BY <2>1 DEF Orderly, AllFollow, Follows
        <3>2. acct'[r].settled = acct[r].settled
              \/ (acct[r].settled = "held" /\ acct'[r].settled \in {"charged", "refunded"})
            BY <2>1 DEF Orderly, AllFollow, Follows
        <3> QED
            BY <1>3, <3>1, <3>2, FateIs, FateAfter
    <2>2. ASSUME NEW q \in Requests, Comes(q)
          PROVE  Fate[r] = "none" /\ Fate'[r] = "held"
        <3>1. r = q
            BY <1>3, <2>2, FateIs, FateAfter DEF Comes, Moves
        <3>2. Fate[r] = "none"
            BY <2>2, <3>1, FateIs DEF Comes, Unsubmitted
        <3>3. client'[r] = "waiting" /\ acct'[r].settled = "held"
            BY <1>3, <2>2, <3>1, <3>2, FateAfter DEF Comes
        <3> QED
            BY <3>2, <3>3, FateAfter
    <2> QED
        BY <2>1, <2>2
<1> QED
    BY <1>2, <1>3 DEF Abstract!Advance, Abstract!Moves

\* Every step of the routing queue is a step, or a stutter, of the life that Settlement
\* promises a reservation: held once, and settled once.
THEOREM SettledOnceCorrect == Spec => SettledOnce
<1>1. Init => Abstract!Init
    BY DEF Init, Abstract!Init, Fate, Unsubmitted
<1>2. RoutingInv /\ [Next]_vars => [Abstract!Next]_Fate
    BY RoutingStep, SettlementStep DEF Abstract!Next
<1> QED
    BY <1>1, <1>2, RoutingInvariant, PTL DEF Spec, SettledOnce, Abstract!Spec

-------------------------------------------------------------------------------
\* The types.

\* The books are functions: a step updates one of them, or the reroute several in turn.
Mapped(f) == f = [x \in DOMAIN f |-> f[x]]
BooksMapped == Mapped(client) /\ Mapped(task) /\ Mapped(acct)

Updates(f, g) == g = f \/ \E x, y : g = [f EXCEPT ![x] = y]

LEMMA UpdatesMapped ==
    ASSUME NEW f, NEW g, Mapped(f), Updates(f, g)
    PROVE  Mapped(g)
<1>1. ASSUME NEW x, NEW y, g = [f EXCEPT ![x] = y] PROVE Mapped(g)
    BY <1>1 DEF Mapped
<1> QED
    BY <1>1 DEF Updates

LEMMA RerouteMapped ==
    ASSUME Booked, Mapped(client), Mapped(acct), NEW u, Current(u) \in Slots
    PROVE  Mapped(Rerouted(u).client) /\ Mapped(Rerouted(u).acct)
<1> DEFINE n == Len(queue[Current(u)])
<1>1. n \in Nat
    BY BookedTypes
<1>2. PICK walk :
        /\ walk[0] = RerouteStart
        /\ \A k \in 1 .. n : walk[k] = RerouteOne(walk[k - 1], queue[Current(u)][k])
        /\ Rerouted(u) = walk[n]
    BY <1>1, RerouteWalk
<1> HIDE DEF n
<1> DEFINE S == {k \in 0 .. n : Mapped(walk[k].client) /\ Mapped(walk[k].acct)}
<1>3. 0 \in S
    BY <1>1, <1>2 DEF RerouteStart
<1>4. ASSUME NEW k \in 0 .. n - 1, k \in S PROVE k + 1 \in S
    <2> DEFINE d == walk[k]
               e == walk[k + 1]
    <2>1. k + 1 \in 1 .. n /\ k + 1 \in 0 .. n /\ (k + 1) - 1 = k
        BY <1>1
    <2>2. e = RerouteOne(d, queue[Current(u)][k + 1])
        BY <1>2, <2>1
    <2> HIDE DEF d, e
    <2>3. Updates(d.client, e.client) /\ Updates(d.acct, e.acct)
        BY <2>2 DEF RerouteOne, Updates
    <2>4. Mapped(d.client) /\ Mapped(d.acct)
        BY <1>4 DEF d
    <2>5. Mapped(e.client) /\ Mapped(e.acct)
        BY <2>3, <2>4, UpdatesMapped
    <2> QED
        BY <2>1, <2>5 DEF e
<1>5. n \in S
    <2>1. n \in 0 .. n
        BY <1>1
    <2> HIDE DEF S
    <2> QED
        BY <1>1, <1>3, <1>4, <2>1, UpTo
<1> QED
    BY <1>2, <1>5

LEMMA DispatchToUpdates ==
    ASSUME NEW i, DispatchTo(i)
    PROVE  Updates(client, client') /\ Updates(acct, acct')
BY DEF DispatchTo, Routed, Unroutable, Updates

LEMMA ProcessUpdates ==
    ASSUME NEW s, NEW i, NEW locks, Process(s, i, locks)
    PROVE  Updates(acct, acct')
BY DEF Process, Account, Updates

LEMMA WorkerUpdates ==
    ASSUME NEW s, Worker(s), ~HandlerRaises(s)
    PROVE  Updates(client, client') /\ Updates(task, task') /\ Updates(acct, acct')
<1>1. ASSUME NEW i, Begin(s, i) PROVE Updates(acct, acct')
    BY <1>1, ProcessUpdates DEF Begin, Updates
<1>2. Take(s) => Updates(acct, acct')
    <2>1. Take(s) => (\E i : Begin(s, i)) \/ \E r, a : Account(r, a)
        BY DEF Take, TurnAway
    <2> QED
        BY <1>1, <2>1 DEF Account, Updates
<1>3. LockGranted(s) => Updates(acct, acct')
    BY ProcessUpdates DEF LockGranted
<1>4. StartHandler(s) \/ HandlerSucceeds(s) \/ HandlerTimesOut(s) \/ Archived(s) \/ HandlerExits(s) \/ GiveUp(s)
        => Updates(acct, acct')
    BY DEF StartHandler, HandlerSucceeds, HandlerTimesOut, Archived, HandlerExits, GiveUp, Account, Updates
<1>5. client' = client /\ task' = task
    BY DEF Worker, Handler, Cleanup, Take, LockGranted, StartHandler, HandlerSucceeds, HandlerTimesOut, Archived,
           HandlerExits, GiveUp, caller
<1> QED
    BY <1>2, <1>3, <1>4, <1>5 DEF Worker, Handler, Cleanup, Updates

LEMMA CompleteUpdates ==
    ASSUME NEW r, Complete(r)
    PROVE  Updates(client, client') /\ Updates(acct, acct')
<1>1. PICK c \in callbacks :
        \/ Retry(c.item)
        \/ /\ client' = IF Waiting(r) THEN [client EXCEPT ![r] = c.result] ELSE client
           /\ UNCHANGED acct
    BY DEF Complete
<1>2. ASSUME NEW i, Retry(i), ~\E j : DispatchTo(j) PROVE Updates(client, client') /\ Updates(acct, acct')
    BY <1>2 DEF Retry, Requeue, Updates
<1>3. CASE \E j : DispatchTo(j)
    BY <1>3, DispatchToUpdates
<1>4. CASE client' = (IF Waiting(r) THEN [client EXCEPT ![r] = c.result] ELSE client) /\ acct' = acct
    BY <1>4 DEF Updates
<1> QED
    BY <1>1, <1>2, <1>3, <1>4

LEMMA MappedStep ==
    ASSUME Generations, Booked, BooksMapped, [Next]_vars
    PROVE  BooksMapped'
<1> DEFINE U == Updates(client, client') /\ Updates(task, task') /\ Updates(acct, acct')
<1>1. U => BooksMapped'
    BY UpdatesMapped DEF BooksMapped
<1>2. ASSUME NEW r \in Requests, Caller(r) PROVE U
    BY <1>2 DEF Caller, Submit, SubmitRefused, ServiceResume, ClientCancels, UserGone, Updates
<1>3. ASSUME NEW r \in Requests, Complete(r) PROVE U
    BY <1>3, CompleteUpdates DEF Complete, Updates
<1>4. ASSUME Dispatch PROVE U
    <2>1. CASE \E i : DispatchTo(i)
        BY <1>4, <2>1, DispatchToUpdates DEF Dispatch, Updates
    <2>2. CASE ~\E i : DispatchTo(i)
        BY <1>4, <2>2 DEF Dispatch, Updates
    <2> QED
        BY <2>1, <2>2
<1>5. ASSUME NEW u \in Upstreams, Disable(u) PROVE BooksMapped'
    <2>1. Current(u) \in Slots
        BY <1>5, TargetSlot DEF Disable, Targets
    <2>2. client' = Rerouted(u).client /\ acct' = Rerouted(u).acct /\ task' = task
        BY <1>5 DEF Disable
    <2>3. Mapped(Rerouted(u).client) /\ Mapped(Rerouted(u).acct)
        BY <2>1, RerouteMapped DEF BooksMapped
    <2> QED
        BY <2>2, <2>3 DEF BooksMapped
<1>6. ASSUME NEW s \in Slots, HandlerRaises(s) PROVE BooksMapped'
    <2> DEFINE u == s[1]
               start == [dispatchQ |-> dispatchQ, client |-> client, acct |-> acct]
    <2>1. PICK disables, is429 \in BOOLEAN :
            LET d == IF disables THEN Rerouted(u) ELSE start
                retried == is429 /\ RetryThreshold >= 0
                           /\ TotalLength(IF disables THEN Targets \ {u} ELSE Targets) <= RetryThreshold
                i == worker[s].item
                a == d.acct[i.r]
            IN
            /\ disables => target[u] # 0
            /\ client' = d.client
            /\ acct' = [d.acct EXCEPT ![i.r] = IF retried THEN RetryFailed(a, i.n) ELSE Failed(a, i.n)]
        BY <1>6 DEF HandlerRaises
    <2> DEFINE d == IF disables THEN Rerouted(u) ELSE start
    <2>2. /\ d = start \/ (d = Rerouted(u) /\ target[u] # 0)
          /\ client' = d.client /\ Updates(d.acct, acct') /\ task' = task
        BY <1>6, <2>1 DEF HandlerRaises, Updates
    <2> HIDE DEF d
    <2>3. u \in Upstreams
        BY DEF Slots
    <2>4. target[u] # 0 => Current(u) \in Slots
        BY <2>3, TargetSlot DEF Targets
    <2>5. Mapped(d.client) /\ Mapped(d.acct)
        <3>1. CASE d = start
            BY <3>1 DEF BooksMapped
        <3>2. CASE d = Rerouted(u) /\ target[u] # 0
            <4> HIDE DEF u
            <4> QED
                BY <2>4, <3>2, RerouteMapped DEF BooksMapped
        <3> QED
            BY <2>2, <3>1, <3>2
    <2> HIDE DEF u, start
    <2>6. Mapped(acct')
        BY <2>2, <2>5, UpdatesMapped
    <2> QED
        BY <2>2, <2>5, <2>6 DEF BooksMapped
<1>7. ASSUME NEW s \in Slots, Worker(s), ~HandlerRaises(s) PROVE U
    BY <1>7, WorkerUpdates
<1>8. ASSUME NEW s \in Slots, StopWorker(s) PROVE U
    BY <1>8 DEF StopWorker, Updates, caller
<1>9. ASSUME NEW u \in Upstreams, Enable(u) \/ AbandonedExits(u) PROVE U
    BY <1>9 DEF Enable, AbandonedExits, Updates, caller
<1>10. ASSUME BeginStop \/ StopDispatcher \/ FinishStop \/ UNCHANGED vars PROVE U
    BY <1>10 DEF BeginStop, StopDispatcher, FinishStop, vars, Updates, caller
<1> HIDE DEF U
<1> QED
    BY <1>1, <1>2, <1>3, <1>4, <1>5, <1>6, <1>7, <1>8, <1>9, <1>10 DEF Next

\* Every variable keeps its type, through the reroute that walks over several books too.
THEOREM TypeCorrect == Spec => []TypeOK
<1>1. Init => BooksMapped
    BY DEF Init, BooksMapped, Mapped
<1>2. RoutingInv /\ BooksMapped /\ [Next]_vars => BooksMapped'
    BY MappedStep DEF RoutingInv, Life, LifeTypes, Generations
<1>3. RoutingInv /\ BooksMapped => TypeOK
    <2> SUFFICES ASSUME RoutingInv, BooksMapped PROVE TypeOK
        OBVIOUS
    <2>1. DOMAIN client = Requests /\ DOMAIN task = Requests /\ DOMAIN acct = Requests
        BY DEF RoutingInv, Booked, Agree, Ledger
    <2>2. \A r \in Requests :
            /\ client[r] \in Answers \cup {"none", "waiting", "refused", "cancelled"}
            /\ task[r] \in {"none", "awaiting", "answered", "cancelled"}
            /\ acct[r] \in Accounts
        <3> SUFFICES ASSUME NEW r \in Requests
                     PROVE  /\ client[r] \in Answers \cup {"none", "waiting", "refused", "cancelled"}
                            /\ task[r] \in {"none", "awaiting", "answered", "cancelled"}
                            /\ acct[r] \in Accounts
            OBVIOUS
        <3>1. Outside(client[r], task[r], acct[r]) \/ Listening(client[r], task[r])
            BY OfRequest DEF RoutingInv
        <3>2. acct[r] \in Accounts
            BY OfRequest DEF RoutingInv
        <3> QED
            BY <3>1, <3>2 DEF Outside, Listening
    <2>3. /\ client \in [Requests -> Answers \cup {"none", "waiting", "refused", "cancelled"}]
          /\ task \in [Requests -> {"none", "awaiting", "answered", "cancelled"}]
          /\ acct \in [Requests -> Accounts]
        BY <2>1, <2>2 DEF BooksMapped, Mapped
    <2>4. lockQ \in [Upstreams -> Seq(1 .. MaxGen)]
        BY DEF RoutingInv, LockInv, LockShape
    <2> QED
        BY <2>3, <2>4, BookedTypes DEF TypeOK, RoutingInv, Life, LifeTypes, WorkerStates, Results, Accounts
<1> QED
    BY <1>1, <1>2, <1>3, RoutingInvariant, PTL DEF Spec


-------------------------------------------------------------------------------
\* The bounds of the queues.

\* The attempts in a queue that are counted: VIP attempts are not.
Counted(q) == {k \in DOMAIN q : Tier[q[k].r] # "vip"}
SlotsBounded(qs) == MaxQueue > 0 => \A s \in Slots : Cardinality(Counted(qs[s])) <= MaxQueue

LEMMA BoundsAre == QueueBounds <=> Within(dispatchQ, MaxDispatch) /\ SlotsBounded(queue)
BY DEF QueueBounds, Within, SlotsBounded, Counted

LEMMA BoundsAfter == QueueBounds' <=> Within(dispatchQ', MaxDispatch) /\ SlotsBounded(queue')
BY DEF QueueBounds, Within, SlotsBounded, Counted

LEMMA CountedFinite ==
    ASSUME NEW q \in Seq(Items)
    PROVE  /\ IsFiniteSet(Counted(q)) /\ Cardinality(Counted(q)) \in Nat /\ Cardinality(Counted(q)) <= Len(q)
           /\ q = <<>> => Cardinality(Counted(q)) = 0
<1>1. Len(q) \in Nat /\ DOMAIN q = 1 .. Len(q)
    OBVIOUS
<1>2. IsFiniteSet(1 .. Len(q)) /\ Cardinality(1 .. Len(q)) = Len(q)
    <2>1. 1 \in Int /\ Len(q) \in Int
        BY <1>1
    <2>2. IsFiniteSet(1 .. Len(q)) /\ Cardinality(1 .. Len(q)) = IF 1 > Len(q) THEN 0 ELSE Len(q) - 1 + 1
        BY <2>1, FS_Interval
    <2> QED
        BY <1>1, <2>2
<1>3. Counted(q) \in SUBSET (1 .. Len(q))
    <2>1. Counted(q) \subseteq DOMAIN q
        BY DEF Counted
    <2> QED
        BY <1>1, <2>1
<1>4. IsFiniteSet(Counted(q)) /\ Cardinality(Counted(q)) <= Len(q)
    BY <1>2, <1>3, FS_Subset
<1>5. Cardinality(Counted(q)) \in Nat
    BY <1>4, FS_CardinalityType
<1>6. q = <<>> => Len(q) = 0
    OBVIOUS
<1> QED
    BY <1>1, <1>4, <1>5, <1>6

\* A VIP attempt moves others behind it, but adds to none.
LEMMA CountedPut ==
    ASSUME NEW q \in Seq(Items), NEW i \in Items, Tier[i.r] = "vip"
    PROVE  Cardinality(Counted(Put(q, i))) <= Cardinality(Counted(q))
<1> DEFINE q2 == Put(q, i)
<1>1. q2 \in Seq(Items) /\ Len(q2) = Len(q) + 1
    BY PutShape
<1>2. PICK p \in 0 .. Len(q) :
        \A k \in 1 .. Len(q) + 1 : q2[k] = IF k <= p THEN q[k] ELSE IF k = p + 1 THEN i ELSE q[k - 1]
    BY PutShape
<1> HIDE DEF q2
<1> DEFINE S == Counted(q2)
           T == Counted(q)
           f == [k \in S |-> IF k <= p THEN k ELSE k - 1]
<1>3. Len(q) \in Nat /\ DOMAIN q = 1 .. Len(q) /\ DOMAIN q2 = 1 .. Len(q) + 1
    BY <1>1
<1>4. ASSUME NEW k \in S
      PROVE  k \in 1 .. Len(q) + 1 /\ k # p + 1 /\ (IF k <= p THEN k ELSE k - 1) \in T
    <2>1. k \in 1 .. Len(q) + 1 /\ Tier[q2[k].r] # "vip"
        BY <1>3 DEF Counted
    <2>2. k # p + 1
        BY <1>2, <2>1
    <2>3. CASE k <= p
        BY <1>2, <1>3, <2>1, <2>3 DEF Counted
    <2>4. CASE ~(k <= p)
        <3>1. k - 1 \in 1 .. Len(q) /\ q2[k] = q[k - 1]
            BY <1>2, <1>3, <2>1, <2>2, <2>4
        <3> QED
            BY <1>3, <2>1, <2>2, <2>4, <3>1 DEF Counted
    <2> QED
        BY <2>1, <2>2, <2>3, <2>4
<1> HIDE DEF S, T
<1>5. f \in [S -> T]
    BY <1>4
<1>6. ASSUME NEW j \in S, NEW k \in S, f[j] = f[k] PROVE j = k
    BY <1>3, <1>4, <1>6
<1>7. f \in Injection(S, T)
    <2> HIDE DEF f
    <2> QED
        BY <1>5, <1>6 DEF Injection, IsInjective
<1>8. IsFiniteSet(T)
    BY CountedFinite DEF T
<1>9. Cardinality(S) <= Cardinality(T)
    <2> HIDE DEF f
    <2> QED
        BY <1>7, <1>8, FS_Injection
<1> QED
    BY <1>9 DEF S, T, q2

LEMMA CountedTail ==
    ASSUME NEW q \in Seq(Items), q # <<>>
    PROVE  Cardinality(Counted(Tail(q))) <= Cardinality(Counted(q))
<1> DEFINE S == Counted(Tail(q))
           T == Counted(q)
           f == [k \in S |-> k + 1]
<1>1. Len(q) \in Nat /\ DOMAIN q = 1 .. Len(q) /\ DOMAIN Tail(q) = 1 .. Len(q) - 1
    OBVIOUS
<1>2. \A k \in 1 .. Len(q) - 1 : Tail(q)[k] = q[k + 1]
    OBVIOUS
<1>3. \A k \in S : k \in Nat /\ k + 1 \in T
    BY <1>1, <1>2 DEF Counted
<1> HIDE DEF S, T
<1>4. f \in [S -> T]
    BY <1>3
<1>5. ASSUME NEW j \in S, NEW k \in S, f[j] = f[k] PROVE j = k
    BY <1>3, <1>5
<1>6. f \in Injection(S, T)
    <2> HIDE DEF f
    <2> QED
        BY <1>4, <1>5 DEF Injection, IsInjective
<1>7. IsFiniteSet(T)
    BY CountedFinite DEF T
<1>8. Cardinality(S) <= Cardinality(T)
    <2> HIDE DEF f
    <2> QED
        BY <1>6, <1>7, FS_Injection
<1> QED
    BY <1>8 DEF S, T

\* An attempt is put in the queue of a slot only if the queue has room or is made room in.
LEMMA RoutedBounds ==
    ASSUME Booked, Generations, SlotsBounded(queue), NEW i \in Items, Routed(i)
    PROVE  SlotsBounded(queue')
<1>1. PICK u \in Roomy(i.r) : queue' = [queue EXCEPT ![Current(u)] = Put(@, [i EXCEPT !.logged = i.n > 0])]
    BY DEF Routed
<1> DEFINE s == Current(u)
           flag == i.n > 0
           j == [i EXCEPT !.logged = flag]
           q == queue[s]
<1>2. s \in Slots /\ (Tier[i.r] = "vip" \/ ~Full(q, MaxQueue))
    BY <1>1, TargetSlot DEF Roomy, Candidates
<1>3. j \in Items /\ j.r = i.r
    <2>1. flag \in BOOLEAN
        OBVIOUS
    <2> HIDE DEF flag
    <2> QED
        BY <2>1, Logs
<1>4. q \in Seq(Items) /\ queue'[s] = Put(q, j) /\ \A t \in Slots \ {s} : queue'[t] = queue[t]
    BY <1>1, <1>2, BookedTypes
<1> HIDE DEF s, j, q
<1>5. ASSUME MaxQueue > 0, Cardinality(Counted(q)) <= MaxQueue
      PROVE  Cardinality(Counted(Put(q, j))) <= MaxQueue
    <2>1. Put(q, j) \in Seq(Items) /\ Len(Put(q, j)) = Len(q) + 1
        BY <1>3, <1>4, PutShape
    <2>2. Cardinality(Counted(q)) \in Nat /\ Len(q) \in Nat
        BY <1>4, CountedFinite
    <2>3. Cardinality(Counted(Put(q, j))) \in Nat /\ Cardinality(Counted(Put(q, j))) <= Len(q) + 1
        BY <2>1, CountedFinite
    <2>4. CASE Tier[i.r] = "vip"
        <3>1. Cardinality(Counted(Put(q, j))) <= Cardinality(Counted(q))
            BY <1>3, <1>4, <2>4, CountedPut
        <3> QED
            BY <1>5, <2>2, <2>3, <3>1, RoutingAssumption
    <2>5. CASE ~Full(q, MaxQueue)
        BY <1>5, <2>2, <2>3, <2>5, RoutingAssumption DEF Full
    <2> QED
        BY <1>2, <2>4, <2>5
<1>6. ASSUME NEW t \in Slots, MaxQueue > 0 PROVE Cardinality(Counted(queue'[t])) <= MaxQueue
    <2>1. Cardinality(Counted(queue[t])) <= MaxQueue /\ Cardinality(Counted(queue[s])) <= MaxQueue
        BY <1>2, <1>6 DEF SlotsBounded
    <2> QED
        BY <1>4, <1>5, <1>6, <2>1 DEF q
<1> QED
    BY <1>6 DEF SlotsBounded

LEMMA DispatchToBounds ==
    ASSUME Booked, Generations, SlotsBounded(queue), NEW i \in Items, DispatchTo(i)
    PROVE  SlotsBounded(queue')
BY RoutedBounds DEF DispatchTo, Unroutable

\* Something is put in the dispatch queue only if it has room.
LEMMA DispatchQueueBounds ==
    ASSUME Booked, Within(dispatchQ, MaxDispatch), NEW i \in Items
    PROVE  /\ ~Full(dispatchQ, MaxDispatch) => Within(Put(dispatchQ, i), MaxDispatch)
           /\ dispatchQ # <<>> => Within(Tail(dispatchQ), MaxDispatch)
<1>1. dispatchQ \in Seq(Items) /\ Len(dispatchQ) \in Nat
    BY BookedTypes
<1>2. Len(Put(dispatchQ, i)) = Len(dispatchQ) + 1
    BY <1>1, PutShape
<1>3. dispatchQ # <<>> => Len(Tail(dispatchQ)) = Len(dispatchQ) - 1
    BY <1>1
<1> QED
    BY <1>1, <1>2, <1>3, RoutingAssumption DEF Within, Full

LEMMA EmptiedBounds ==
    ASSUME Booked, SlotsBounded(queue), NEW s, queue' = [queue EXCEPT ![s] = <<>>]
    PROVE  SlotsBounded(queue')
<1>1. <<>> \in Seq(Items)
    OBVIOUS
<1>2. Cardinality(Counted(<<>>)) = 0
    BY <1>1, CountedFinite
<1>3. \A t \in Slots : queue'[t] = queue[t] \/ queue'[t] = <<>>
    BY BookedTypes
<1> QED
    BY <1>2, <1>3, RoutingAssumption DEF SlotsBounded

LEMMA BoundsStep ==
    ASSUME Booked, Generations, QueueBounds, [Next]_vars
    PROVE  QueueBounds'
<1>1. Within(dispatchQ, MaxDispatch) /\ SlotsBounded(queue)
    BY BoundsAre
<1> DEFINE W == Within(dispatchQ', MaxDispatch)
           B == SlotsBounded(queue')
<1>2. ASSUME NEW r \in Requests, Caller(r) PROVE W /\ B
    <2>1. CASE Submit(r)
        <3> DEFINE i == [r |-> r, n |-> 0, logged |-> FALSE]
        <3>1. i \in Items /\ queue' = queue /\ dispatchQ' = Put(dispatchQ, i) /\ ~Full(dispatchQ, MaxDispatch)
            BY <2>1, AttemptsAre DEF Submit, Items
        <3> HIDE DEF i
        <3> QED
            BY <1>1, <3>1, DispatchQueueBounds
    <2>2. CASE ~Submit(r)
        BY <1>1, <1>2, <2>2 DEF Caller, SubmitRefused, ServiceResume, ClientCancels, UserGone, routing
    <2> QED
        BY <2>1, <2>2
<1>3. ASSUME NEW r \in Requests, Complete(r) PROVE W /\ B
    <2>1. PICK c \in callbacks : Retry(c.item) \/ UNCHANGED <<dispatchQ, queue>>
        BY <1>3 DEF Complete
    <2>2. c.item \in Items
        BY <2>1, BookedTypes
    <2>3. CASE Waiting(c.item.r) /\ ~LastAttempt(c.item) /\ Requeue(NextAttempt(c.item))
        <3> DEFINE i == NextAttempt(c.item)
        <3>1. i \in Items
            BY <2>2, <2>3, NextIs
        <3> HIDE DEF i
        <3>2. \/ DispatchTo(i) /\ UNCHANGED dispatchQ
              \/ ~Full(dispatchQ, MaxDispatch) /\ dispatchQ' = Put(dispatchQ, i) /\ queue' = queue
              \/ UNCHANGED <<dispatchQ, queue>>
            BY <2>3 DEF Requeue, i
        <3> QED
            BY <1>1, <3>1, <3>2, DispatchToBounds, DispatchQueueBounds
    <2>4. CASE UNCHANGED <<dispatchQ, queue>>
        BY <1>1, <2>4
    <2> QED
        BY <2>1, <2>3, <2>4 DEF Retry
<1>4. ASSUME Dispatch PROVE W /\ B
    <2> DEFINE i == Head(dispatchQ)
    <2>1. i \in Items /\ dispatchQ # <<>> /\ dispatchQ' = Tail(dispatchQ)
        BY <1>4, BookedTypes DEF Dispatch
    <2>2. DispatchTo(i) \/ UNCHANGED queue
        BY <1>4 DEF Dispatch
    <2> HIDE DEF i
    <2> QED
        BY <1>1, <2>1, <2>2, DispatchToBounds, DispatchQueueBounds
<1>5. ASSUME NEW u \in Upstreams, Disable(u) PROVE W /\ B
    <2>1. queue' = [queue EXCEPT ![Current(u)] = <<>>]
        BY <1>5 DEF Disable
    <2> QED
        BY <1>1, <1>5, <2>1, DisableStep, EmptiedBounds
<1>6. ASSUME NEW s \in Slots, Worker(s) PROVE W /\ B
    <2>1. CASE Take(s)
        <3>1. /\ queue[s] # <<>> /\ queue' = [queue EXCEPT ![s] = Tail(@)] /\ dispatchQ' = dispatchQ
            BY <2>1 DEF Take
        <3>2. queue'[s] = Tail(queue[s]) /\ (\A t \in Slots \ {s} : queue'[t] = queue[t])
            BY <3>1, BookedTypes
        <3>3. queue[s] \in Seq(Items) /\ Tail(queue[s]) \in Seq(Items)
            BY <3>1, BookedTypes
        <3>4. /\ Cardinality(Counted(Tail(queue[s]))) <= Cardinality(Counted(queue[s]))
              /\ Cardinality(Counted(queue[s])) \in Nat /\ Cardinality(Counted(Tail(queue[s]))) \in Nat
            BY <3>1, <3>3, CountedTail, CountedFinite
        <3>5. ASSUME NEW t \in Slots, MaxQueue > 0 PROVE Cardinality(Counted(queue'[t])) <= MaxQueue
            <4>1. Cardinality(Counted(queue[t])) <= MaxQueue
                BY <1>1, <3>5 DEF SlotsBounded
            <4>2. CASE t = s
                BY <3>2, <3>4, <4>1, <4>2, RoutingAssumption
            <4>3. CASE t # s
                BY <3>2, <4>1, <4>3
            <4> QED
                BY <4>2, <4>3
        <3> QED
            BY <1>1, <3>1, <3>5 DEF SlotsBounded
    <2>2. CASE HandlerRaises(s)
        <3>1. queue' = queue \/ queue' = [queue EXCEPT ![Current(s[1])] = <<>>]
            BY <2>2 DEF HandlerRaises
        <3> QED
            BY <1>1, <2>2, <3>1, HandlerRaisesStep, EmptiedBounds
    <2>3. CASE ~Take(s) /\ ~HandlerRaises(s)
        <3>1. UNCHANGED <<dispatchQ, queue>>
            BY <1>6, <2>3 DEF Worker, Handler, Cleanup, LockGranted, StartHandler, HandlerSucceeds, HandlerTimesOut,
                   Archived, HandlerExits, GiveUp, routing
        <3> QED
            BY <1>1, <3>1
    <2> QED
        BY <2>1, <2>2, <2>3
<1>7. ASSUME NEW s \in Slots, StopWorker(s) PROVE W /\ B
    BY <1>1, <1>7 DEF StopWorker, routing
<1>8. ASSUME NEW u \in Upstreams, Enable(u) \/ AbandonedExits(u) PROVE W /\ B
    BY <1>1, <1>8 DEF Enable, AbandonedExits, routing
<1>9. ASSUME BeginStop \/ StopDispatcher \/ FinishStop \/ UNCHANGED vars PROVE W /\ B
    BY <1>1, <1>9 DEF BeginStop, StopDispatcher, FinishStop, vars, routing
<1>10. W /\ B
    <2> HIDE DEF W, B
    <2> QED
        BY <1>2, <1>3, <1>4, <1>5, <1>6, <1>7, <1>8, <1>9 DEF Next
<1> QED
    BY <1>10, BoundsAfter

\* The queues keep to their bounds, through the retries and the reroutes that come back to
\* them; only VIP attempts are put in the full queue of an upstream.
THEOREM QueueBoundsCorrect == Spec => []QueueBounds
<1>1. Init => QueueBounds
    <2> SUFFICES ASSUME Init PROVE QueueBounds
        OBVIOUS
    <2>1. dispatchQ = <<>> /\ \A s \in Slots : queue[s] = <<>>
        BY DEF Init
    <2>2. <<>> \in Seq(Items) /\ Len(<<>>) = 0
        OBVIOUS
    <2>3. Cardinality(Counted(<<>>)) = 0
        BY <2>2, CountedFinite
    <2>4. Within(dispatchQ, MaxDispatch) /\ SlotsBounded(queue)
        BY <2>1, <2>2, <2>3, RoutingAssumption DEF Within, SlotsBounded
    <2> QED
        BY <2>4, BoundsAre
<1>2. RoutingInv /\ QueueBounds /\ [Next]_vars => QueueBounds'
    BY BoundsStep DEF RoutingInv, Life, LifeTypes, Generations
<1> QED
    BY <1>1, <1>2, RoutingInvariant, PTL DEF Spec

=============================================================================
