--------------------------- MODULE HourlyStatistics ---------------------------
(***************************************************************************)
(* The hourly counters behind the dashboard (dashboard_stats/): what one   *)
(* log row adds to and takes from a cell (hour, upstream), how often each  *)
(* request occurs in a cell, and what a rebuild from the log rows writes.  *)
(* A cell of `stats' is NoRow until something is counted in it; a request  *)
(* count of 0 in `refs' stands for a missing row.                          *)
(***************************************************************************)
EXTENDS Integers, FiniteSets

CONSTANTS
    Requests,
    Upstreams,
    NoUpstream,   \* a log row that names no upstream
    AllUpstreams, \* the reserved id of the aggregate cell
    NoRow,        \* a cell without a row
    Cost,         \* final Anlas cost of a request
    Hours

Cells == Hours \X ({AllUpstreams} \cup Upstreams)
Bit(b) == IF b THEN 1 ELSE 0

\* What one row counts, request_count aside.
Delta(row) ==
    [success  |-> Bit(row.status = "success"),
     failed   |-> Bit(row.status = "failed"),
     rejected |-> Bit(row.status = "rejected"),
     retried  |-> Bit(row.status = "success" /\ row.retried),
     anlas    |-> IF row.status = "success" THEN Cost[row.req] ELSE 0]

Zero == [requests |-> 0, success |-> 0, failed |-> 0, rejected |-> 0, retried |-> 0, anlas |-> 0]

ASSUME HourlyStatisticsAssumption ==
    /\ Cost \in [Requests -> Nat]
    /\ NoUpstream \notin Upstreams /\ AllUpstreams \notin Upstreams \cup {NoUpstream}
    /\ NoRow \notin [DOMAIN Zero -> Int]

Counted(cell) == IF cell = NoRow THEN Zero ELSE cell
Moved(cell, delta, sign, requests) ==
    [k \in DOMAIN Zero |-> cell[k] + IF k = "requests" THEN requests ELSE sign * delta[k]]

CellsOf(row) == {row.hour} \X ({AllUpstreams} \cup ({row.upstream} \ {NoUpstream}))

NoStatistics == [stats |-> [c \in Cells |-> NoRow], refs |-> [c \in Cells |-> [r \in Requests |-> 0]]]

ApplyEveryAttempt(t, row) ==
    [refs  |-> [c \in Cells |-> IF c \in CellsOf(row) THEN [t.refs[c] EXCEPT ![row.req] = @ + 1] ELSE t.refs[c]],
     stats |-> [c \in Cells |-> IF c \in CellsOf(row)
                                THEN Moved(Counted(t.stats[c]), Delta(row), 1, 1) ELSE t.stats[c]]]

\* The insert trigger: the request counts once per cell however many attempts it has there.
Apply(t, row) ==
    [refs  |-> [c \in Cells |-> IF c \in CellsOf(row) THEN [t.refs[c] EXCEPT ![row.req] = @ + 1] ELSE t.refs[c]],
     stats |-> [c \in Cells |-> IF c \in CellsOf(row)
                                THEN Moved(Counted(t.stats[c]), Delta(row), 1, Bit(t.refs[c][row.req] = 0))
                                ELSE t.stats[c]]]

\* The delete trigger: an UPDATE of a missing cell or a missing count changes nothing.
Retract(t, row) ==
    [refs  |-> [c \in Cells |-> IF c \in CellsOf(row) /\ t.refs[c][row.req] > 0
                                THEN [t.refs[c] EXCEPT ![row.req] = @ - 1] ELSE t.refs[c]],
     stats |-> [c \in Cells |-> IF c \in CellsOf(row) /\ t.stats[c] # NoRow
                                THEN Moved(t.stats[c], Delta(row), -1, -Bit(t.refs[c][row.req] = 1))
                                ELSE t.stats[c]]]

\* The update trigger takes the old row out and puts the new one in; updates that name no
\* counted column (archiving or clearing a payload, a duration) do not fire it.
Replace(t, old, new) == Apply(Retract(t, old), new)

\* What the rebuild script computes for a cell from the log rows.
RowsIn(rows, c) == {id \in DOMAIN rows : c \in CellsOf(rows[id])}
\* A sum over rows, as the number of its units.
Total(w) == Cardinality(UNION {{id} \X (1..w[id]) : id \in DOMAIN w})
Recounted(rows, c) ==
    [k \in DOMAIN Zero |->
        IF k = "requests" THEN Cardinality({rows[id].req : id \in RowsIn(rows, c)})
        ELSE Total([id \in RowsIn(rows, c) |-> Delta(rows[id])[k]])]
Recurrences(rows, c) == [r \in Requests |-> Cardinality({id \in RowsIn(rows, c) : rows[id].req = r})]

Aggregate == Hours \X {AllUpstreams}
===============================================================================
