------------------------------ MODULE LogStorage ------------------------------
(***************************************************************************)
(* The usage log and what is kept beside it: request payloads, hot in the  *)
(* row or packed with others in an archive, and the hourly statistics its  *)
(* triggers maintain.  The event loop writes rows; maintenance jobs of     *)
(* administrators run in threads, one transaction after another, with any  *)
(* other write in between; a crash takes the jobs and the next start       *)
(* migrates an old database and refills empty statistics step by step.     *)
(***************************************************************************)
EXTENDS HourlyStatistics, Sequences, SequencesExt

CONSTANTS
    WithPayload,    \* requests whose payload is stored (skip_request_payload stores none)
    Big,            \* payloads that reach the minimum size of a clearing
    Threads,
    StatusFilters,  \* sets of statuses a clean-up is asked for
    HotDays,        \* days a payload stays hot, as configured or asked for
    HoursPerDay,    \* bound: hours of a modelled day
    MaxRows,        \* bound: log rows ever written
    PartSize,       \* max_payloads_per_part
    BatchSize       \* rows a clean-up deletes per transaction

ASSUME LogStorageAssumption ==
    /\ WithPayload \subseteq Requests /\ Big \subseteq Requests
    /\ 0 \in Hours /\ Hours \subseteq Nat
    /\ HotDays \subseteq Nat /\ HoursPerDay \in Nat \ {0} /\ MaxRows \in Nat \ {0}
    /\ PartSize \in Nat \ {0} /\ BatchSize \in Nat \ {0}

VARIABLES
    hour,         \* now
    rows,         \* usage_logs: log id -> row
    lastRow,      \* ids given so far (AUTOINCREMENT: never again)
    archives,     \* usage_log_payload_archives: id -> date and payloads
    lastArchive,
    archiveOf,    \* usage_log_payload_archive_refs: log id -> archive id
    tables,       \* the statistics
    version,      \* of the schema: 0 before sizes were stored, 2 after; -1 with the old unique key
    server,       \* "up", "down" or the step of the start it is at
    phase,        \* where the event loop is with a request
    attempt,      \* its attempt
    jobs,         \* what a thread is doing
    hollow,       \* history: retry rows that were copied when the payload had left row 0
    leaked,       \* history: archives a job that died still had to compact
    torn          \* history: a start died after the aggregate and before the upstreams were refilled

stored == <<rows, lastRow, archives, lastArchive, archiveOf>>
live == <<hour, phase, attempt>>
vars == <<hour, rows, lastRow, archives, lastArchive, archiveOf, tables, version, server, phase,
          attempt, jobs, hollow, leaked, torn>>

Statuses == {"queued", "running", "success", "failed", "rejected"}
Date(h) == h \div HoursPerDay
Ids == 1..MaxRows
Idle == [doing |-> "nothing", parts |-> <<>>, before |-> 0, statuses |-> {}, todo |-> {}]

Row(r, att, status, up, h, payload) ==
    [req |-> r, att |-> att, status |-> status, upstream |-> up, retried |-> FALSE, hour |-> h,
     hot |-> payload, bytes |-> payload, avail |-> payload]

Only(x, y) == [z \in {x} |-> y]
Over(f, g) == [x \in DOMAIN f \cup DOMAIN g |-> IF x \in DOMAIN f THEN f[x] ELSE g[x]]
Without(f, ids) == [x \in DOMAIN f \ ids |-> f[x]]

\* get_payload_text: the request whose payload reading a log would give, or "missing".
PayloadOf(id) ==
    IF rows[id].hot THEN rows[id].req
    ELSE IF id \notin DOMAIN archiveOf THEN "missing"
    ELSE IF id \notin DOMAIN archives[archiveOf[id]].blob THEN "missing"
    ELSE archives[archiveOf[id]].blob[id]

-------------------------------------------------------------------------------
\* Databases a start can find: a new one, one from before payload sizes and statistics
\* existed, and one that had archived a payload before its size was kept in the row.
Old(r, up, hot) == [Row(r, 0, "success", up, 0, FALSE) EXCEPT !.hot = hot]

Init ==
    /\ hour = 0 /\ server = "down"
    /\ \/ /\ rows = <<>> /\ archiveOf = <<>> /\ archives = <<>> /\ version = 2
       \/ \E r \in WithPayload, up \in Upstreams :
            /\ rows = Only(1, Old(r, up, TRUE)) /\ archiveOf = <<>> /\ archives = <<>>
            /\ version \in {-1, 0}
       \/ \E r \in WithPayload, up \in Upstreams :
            /\ rows = Only(1, Old(r, up, FALSE)) /\ archiveOf = Only(1, 1) /\ version \in {-1, 0}
            /\ archives = Only(1, [date |-> 0, blob |-> Only(1, r)])
    /\ lastRow = Cardinality(DOMAIN rows) /\ lastArchive = Cardinality(DOMAIN archives)
    /\ tables = NoStatistics
    /\ phase = [r \in Requests |-> IF \E id \in DOMAIN rows : rows[id].req = r THEN "done" ELSE "new"]
    /\ attempt = [r \in Requests |-> 0]
    /\ jobs = [t \in Threads |-> Idle]
    /\ hollow = {} /\ leaked = {} /\ torn = FALSE

-------------------------------------------------------------------------------
\* The event loop.

Up == server = "up"
RowsOf(r, att) == {id \in DOMAIN rows : rows[id].req = r /\ rows[id].att = att}

Insert(row) ==
    /\ lastRow < MaxRows
    /\ rows' = Over(Only(lastRow + 1, row), rows)
    /\ lastRow' = lastRow + 1
    /\ tables' = Apply(tables, row)
    /\ UNCHANGED <<archives, lastArchive, archiveOf, version, server, jobs, leaked, torn>>

\* The UPDATE of one attempt's row; no row, no effect.
Write(r, changes) ==
    /\ rows' = [id \in DOMAIN rows |-> IF id \in RowsOf(r, attempt[r]) THEN Over(changes, rows[id]) ELSE rows[id]]
    /\ tables' = IF RowsOf(r, attempt[r]) = {} THEN tables
                 ELSE LET id == CHOOSE x \in RowsOf(r, attempt[r]) : TRUE      \* unique (request_id, attempt)
                      IN Replace(tables, rows[id], Over(changes, rows[id]))
    /\ UNCHANGED <<lastRow, archives, lastArchive, archiveOf, version, server, jobs, hollow, leaked, torn>>

\* insert_queued, insert_rejected.
Log(r, status) ==
    /\ Up /\ phase[r] = "new"
    /\ Insert(Row(r, 0, status, NoUpstream, hour, r \in WithPayload))
    /\ phase' = [phase EXCEPT ![r] = IF status = "queued" THEN "queued" ELSE "done"]
    /\ UNCHANGED <<hour, attempt, hollow>>

\* A replay stores the payload it reads from the newest attempt of another request.
Replay(r, source) ==
    /\ Up /\ phase[r] = "new"
    /\ \E id \in DOMAIN rows :
        /\ rows[id].req = source
        /\ \A other \in DOMAIN rows : rows[other].req = source => rows[other].att <= rows[id].att
        /\ PayloadOf(id) # "missing"
    /\ Insert(Row(r, 0, "queued", NoUpstream, hour, r \in WithPayload))
    /\ phase' = [phase EXCEPT ![r] = "queued"]
    /\ UNCHANGED <<hour, attempt, hollow>>

MarkRunning(r, up) ==
    /\ Up /\ phase[r] = "queued"
    /\ Write(r, [status |-> "running", upstream |-> up])
    /\ phase' = [phase EXCEPT ![r] = "running"]
    /\ UNCHANGED <<hour, attempt>>

MarkSuccess(r) ==
    /\ Up /\ phase[r] = "running"
    /\ Write(r, [status |-> "success", retried |-> attempt[r] > 0])
    /\ phase' = [phase EXCEPT ![r] = "done"]
    /\ UNCHANGED <<hour, attempt>>

MarkFailed(r) ==
    /\ Up /\ phase[r] \in {"queued", "running"}
    /\ Write(r, [status |-> "failed"])
    /\ phase' = [phase EXCEPT ![r] = "done"]
    /\ UNCHANGED <<hour, attempt>>

MarkRejected(r) ==
    /\ Up /\ phase[r] \in {"queued", "retrying"}
    /\ Write(r, [status |-> "rejected"])
    /\ phase' = [phase EXCEPT ![r] = "done"]
    /\ UNCHANGED <<hour, attempt>>

\* record_retry_failure; the row of the next attempt is written when an upstream takes it.
RetryFailure(r) ==
    /\ Up /\ phase[r] = "running" /\ attempt[r] = 0   \* bound: one retry
    /\ Write(r, [status |-> "failed"])
    /\ phase' = [phase EXCEPT ![r] = "retrying"]
    /\ attempt' = [attempt EXCEPT ![r] = 1]
    /\ UNCHANGED hour

\* insert_retry_attempt copies row 0 as it is now: nothing if a clean-up has deleted it,
\* a size without a payload if the payload was archived meanwhile.
RetryAttempt(r, up) ==
    /\ Up /\ phase[r] = "retrying"
    /\ phase' = [phase EXCEPT ![r] = "queued"]
    /\ IF RowsOf(r, 0) = {}
       THEN UNCHANGED <<stored, tables, version, server, jobs, hollow, leaked, torn>>
       ELSE LET first == rows[CHOOSE id \in RowsOf(r, 0) : TRUE] IN
            /\ Insert([first EXCEPT !.att = 1, !.status = "running", !.upstream = up,
                                    !.retried = FALSE, !.hour = hour])
            /\ hollow' = IF first.avail /\ ~first.hot THEN hollow \cup {lastRow + 1} ELSE hollow
    /\ UNCHANGED <<hour, attempt>>

NextHour ==
    /\ hour + 1 \in Hours
    /\ hour' = hour + 1
    /\ UNCHANGED <<stored, tables, version, server, phase, attempt, jobs, hollow, leaked, torn>>

-------------------------------------------------------------------------------
\* Maintenance jobs: each transaction of a job is one step.

Free(t) == Up /\ jobs[t].doing = "nothing"
Run(t, job) == jobs' = [jobs EXCEPT ![t] = job]
Compacting(todo) == IF todo = {} THEN Idle ELSE [Idle EXCEPT !.doing = "compacting", !.todo = todo]

\* Payloads that can be archived, oldest first (ids grow with the time of creation).
Due(ids) == {id \in ids \cap DOMAIN rows : rows[id].bytes /\ rows[id].hot /\ id \notin DOMAIN archiveOf}
InOrder(ids) == SetToSortSeq(ids, LAMBDA a, b : a < b)

\* _build_parts: one local day per part, at most PartSize payloads.
Parts(ids) ==
    LET place(id, parts) ==
            IF parts # <<>> /\ Len(Last(parts)) < PartSize
               /\ Date(rows[Last(Last(parts))].hour) = Date(rows[id].hour)
            THEN Front(parts) \o <<Append(Last(parts), id)>>
            ELSE Append(parts, <<id>>)
    IN FoldLeft(LAMBDA parts, id : place(id, parts), <<>>, InOrder(ids))

\* archive_due_payloads reads its candidates: rows of local days before the hot ones.
StartArchive(t, days) ==
    /\ Free(t)
    /\ LET due == {id \in Due(DOMAIN rows) : Date(rows[id].hour) < Date(hour) - days} IN
       /\ due # {}
       /\ Run(t, [Idle EXCEPT !.doing = "archiving", !.parts = Parts(due)])
    /\ UNCHANGED <<live, stored, tables, version, server, hollow, leaked, torn>>

\* What of a part is still to be archived when its transaction begins.
StillDueAsRead(part) == ToSet(part) \cap DOMAIN rows
StillDue(part) == Due(ToSet(part))

\* _archive_part.
ArchivePart(t) ==
    /\ Up /\ jobs[t].doing = "archiving"
    /\ LET part == Head(jobs[t].parts)
           ids == StillDue(part)
           id == lastArchive + 1
       IN /\ Run(t, IF Len(jobs[t].parts) = 1 THEN Idle ELSE [jobs[t] EXCEPT !.parts = Tail(@)])
          /\ IF ids = {} THEN UNCHANGED stored
             ELSE /\ lastArchive' = id
                  /\ archives' = Over(Only(id, [date |-> Date(rows[InOrder(ids)[1]].hour),
                                              blob |-> [i \in ids |-> rows[i].req]]), archives)
                  /\ archiveOf' = Over([i \in ids |-> id], archiveOf)
                  /\ rows' = [i \in DOMAIN rows |->
                                IF i \in ids THEN [rows[i] EXCEPT !.hot = FALSE, !.bytes = FALSE] ELSE rows[i]]
                  /\ UNCHANGED lastRow
    /\ UNCHANGED <<live, tables, version, server, hollow, leaked, torn>>

\* _cleanup_logs fixes its age limit once; ids below `before' are older than it.
StartCleanup(t, before, statuses) ==
    /\ Free(t)
    /\ Run(t, [Idle EXCEPT !.doing = "deleting", !.before = before, !.statuses = statuses])
    /\ UNCHANGED <<live, stored, tables, version, server, hollow, leaked, torn>>

Batch(job) ==
    LET old == {id \in DOMAIN rows : id < job.before /\ rows[id].status \in job.statuses} IN
    {id \in old : Cardinality({other \in old : other < id}) < BatchSize}

ArchivesOfDeleted(ids) == {archiveOf[id] : id \in (ids \ DOMAIN rows) \cap DOMAIN archiveOf}

ArchivesOf(ids) == {archiveOf[id] : id \in ids \cap DOMAIN archiveOf}

\* The delete trigger runs once for each row.
Retracted(ids) ==
    LET after[n \in 0..lastRow] ==
            IF n = 0 THEN tables
            ELSE IF n \in ids THEN Retract(after[n - 1], rows[n]) ELSE after[n - 1]
    IN after[lastRow]

\* One batch: the rows go, their archive references with them, the triggers take them out
\* of the statistics.  An empty batch ends the deletion.
CleanupBatch(t) ==
    /\ Up /\ jobs[t].doing = "deleting"
    /\ LET ids == Batch(jobs[t]) IN
       IF ids = {}
       THEN Run(t, Compacting(jobs[t].todo)) /\ UNCHANGED <<stored, tables, hollow>>
       ELSE /\ Run(t, [jobs[t] EXCEPT !.todo = @ \cup ArchivesOf(ids)])
            /\ rows' = Without(rows, ids)
            /\ archiveOf' = Without(archiveOf, ids)
            /\ tables' = Retracted(ids)
            /\ hollow' = hollow \ ids
            /\ UNCHANGED <<lastRow, archives, lastArchive>>
    /\ UNCHANGED <<live, version, server, leaked, torn>>

\* _clear_payloads: one transaction, then the compaction.
ClearPayloads(t, before, sizes) ==
    /\ Free(t)
    /\ LET ids == {id \in DOMAIN rows : id < before /\ rows[id].avail /\ rows[id].req \in sizes} IN
       /\ ids # {}
       /\ Run(t, Compacting(ArchivesOf(ids)))
       /\ rows' = [id \in DOMAIN rows |->
                    IF id \in ids THEN [rows[id] EXCEPT !.hot = FALSE, !.bytes = FALSE, !.avail = FALSE]
                    ELSE rows[id]]
       /\ archiveOf' = Without(archiveOf, ids)
       /\ hollow' = hollow \ ids
    /\ UNCHANGED <<live, lastRow, archives, lastArchive, tables, version, server, leaked, torn>>

Kept(a) == {id \in DOMAIN archiveOf : archiveOf[id] = a}

CompactedToNothing(a) == Without(archives, {a})

\* _compact_archive: an archive nobody refers to goes, another keeps what is referred to.
Compacted(a) ==
    IF Kept(a) = {} THEN Without(archives, {a})
    ELSE [archives EXCEPT ![a].blob = [id \in Kept(a) |-> @[id]]]

CompactNext(t) ==
    /\ Up /\ jobs[t].doing = "compacting"
    /\ LET a == Min(jobs[t].todo) IN
       IF a \in DOMAIN archives /\ ~(Kept(a) \subseteq DOMAIN archives[a].blob)
       THEN Run(t, Idle) /\ UNCHANGED archives      \* PayloadArchiveError ends the job
       ELSE /\ Run(t, Compacting(jobs[t].todo \ {a}))
            /\ archives' = IF a \in DOMAIN archives THEN Compacted(a) ELSE archives
    /\ UNCHANGED <<live, rows, lastRow, lastArchive, archiveOf, tables, version, server, hollow, leaked, torn>>

-------------------------------------------------------------------------------
\* Crash and start.

\* Also a shutdown: the lifespan closes the database under the threads.
Crash ==
    /\ server # "down"
    /\ server' = "down"
    /\ phase' = [r \in Requests |-> IF phase[r] = "new" THEN "new" ELSE "done"]
    /\ leaked' = leaked \cup UNION {jobs[t].todo : t \in Threads}
    /\ jobs' = [t \in Threads |-> Idle]
    /\ torn' = (torn \/ server = "aggregated")
    /\ UNCHANGED <<hour, attempt, stored, tables, version, hollow>>

Booting(from, to) == server = from /\ server' = to
BootRest == <<live, lastRow, archives, lastArchive, archiveOf, jobs, hollow, leaked, torn>>

\* migrate_usage_logs_unique_constraint copies the rows into a new table and drops the old
\* one with foreign keys off: the archive references stay.
MigrateKey ==
    /\ Booting("down", "keyed")
    /\ version' = IF version = -1 THEN 0 ELSE version
    /\ rows' = [id \in DOMAIN rows |->
                IF version = -1 THEN [rows[id] EXCEPT !.bytes = @ \/ rows[id].hot, !.avail = rows[id].bytes \/ rows[id].hot]
                ELSE rows[id]]
    /\ UNCHANGED <<BootRest, tables>>

\* migrate_usage_log_size_fields: two updates and the version, each on its own.
MigrateBytes ==
    /\ Booting("keyed", "measured")
    /\ rows' = [id \in DOMAIN rows |-> IF version < 2 /\ rows[id].hot THEN [rows[id] EXCEPT !.bytes = TRUE] ELSE rows[id]]
    /\ UNCHANGED <<BootRest, tables, version>>

MigrateAvailable ==
    /\ Booting("measured", "available")
    /\ rows' = [id \in DOMAIN rows |->
                IF version < 2
                THEN [rows[id] EXCEPT !.avail = id \in DOMAIN archiveOf \/ rows[id].bytes \/ rows[id].hot]
                ELSE rows[id]]
    /\ UNCHANGED <<BootRest, tables, version>>

MigrateVersion ==
    /\ Booting("available", "sized")
    /\ version' = 2
    /\ UNCHANGED <<BootRest, rows, tables>>

\* backfill_dashboard_hourly_stats_if_empty.
Serve ==
    /\ \/ Booting("sized", "up") /\ (rows = <<>> \/ \E c \in Cells : tables.stats[c] # NoRow)
       \/ Booting("aggregated", "up")
          /\ tables' = [tables EXCEPT !.stats = [c \in Cells |->
                IF c \in Aggregate \/ RowsIn(rows, c) = {} THEN @[c] ELSE Recounted(rows, c)]]
    /\ server = "sized" => UNCHANGED tables
    /\ UNCHANGED <<BootRest, rows, version>>

\* The rebuild script commits each of its statements by itself.  A death before the counters
\* are written leaves them empty and the next start begins anew, so the statements up to there
\* are two steps.
RebuildStep ==
    /\ \/ /\ Booting("sized", "emptied") /\ rows # <<>> /\ \A c \in Cells : tables.stats[c] = NoRow
          /\ tables' = NoStatistics
       \/ /\ Booting("emptied", "referred")
          /\ tables' = [tables EXCEPT !.refs = [c \in Cells |-> Recurrences(rows, c)]]
       \/ /\ Booting("referred", "aggregated")
          /\ tables' = [tables EXCEPT !.stats = [c \in Cells |->
                IF c \in Aggregate /\ RowsIn(rows, c) # {} THEN Recounted(rows, c) ELSE NoRow]]
    /\ UNCHANGED <<BootRest, rows, version>>

Boot == MigrateKey \/ MigrateBytes \/ MigrateAvailable \/ MigrateVersion \/ RebuildStep \/ Serve

Next ==
    \/ \E r \in Requests :
        \/ \E status \in {"queued", "rejected"} : Log(r, status)
        \/ \E source \in Requests : Replay(r, source)
        \/ \E up \in Upstreams : MarkRunning(r, up) \/ RetryAttempt(r, up)
        \/ MarkSuccess(r) \/ MarkFailed(r) \/ MarkRejected(r) \/ RetryFailure(r)
    \/ \E t \in Threads :
        \/ \E days \in HotDays : StartArchive(t, days)
        \/ ArchivePart(t)
        \/ \E before \in 2..lastRow + 1, statuses \in StatusFilters : StartCleanup(t, before, statuses)
        \/ CleanupBatch(t)
        \/ \E before \in 2..lastRow + 1, sizes \in {Requests, Big} : ClearPayloads(t, before, sizes)
        \/ CompactNext(t)
    \/ NextHour \/ Crash \/ Boot

Spec == Init /\ [][Next]_vars

-------------------------------------------------------------------------------
TypeOK ==
    /\ hour \in Hours /\ lastRow \in 0..MaxRows
    /\ DOMAIN rows \subseteq 1..lastRow
    /\ \A id \in DOMAIN rows :
        /\ rows[id].req \in Requests /\ rows[id].status \in Statuses /\ rows[id].hour \in Hours
        /\ rows[id].upstream \in Upstreams \cup {NoUpstream}
    /\ DOMAIN archives \subseteq 1..lastArchive
    /\ DOMAIN archiveOf \subseteq DOMAIN rows
    /\ \A id \in DOMAIN archiveOf : archiveOf[id] \in DOMAIN archives
    /\ \A t \in Threads : jobs[t].todo \subseteq 1..lastArchive
    /\ version \in {-1, 0, 2} /\ torn \in BOOLEAN

\* While the server is up, a log that is shown with a payload has one, of its own request,
\* hot or archived, and a log without one keeps none: whatever archiving, clearing, cleaning
\* up and compacting do between each other's transactions.  Hollow retry rows are the exception.
PayloadReadable ==
    Up => \A id \in DOMAIN rows \ hollow :
        PayloadOf(id) = IF rows[id].avail THEN rows[id].req ELSE "missing"

\* A payload that was cleared or whose log was deleted is on its way out of its archive:
\* only archives that a job has still to compact, or that a dead job left, hold such payloads.
NoLeftovers ==
    \A a \in DOMAIN archives :
        ~(DOMAIN archives[a].blob \subseteq Kept(a)) =>
            a \in leaked \/ \E t \in Threads : a \in jobs[t].todo

\* The counters the dashboard shows are those of the rows: the aggregate always, an upstream's
\* unless a start died in the middle of the refill.
StatsExact ==
    Up => \A c \in (IF torn THEN Aggregate ELSE Cells) :
        /\ Counted(tables.stats[c]) = Recounted(rows, c)
        /\ tables.refs[c] = Recurrences(rows, c)
===============================================================================
