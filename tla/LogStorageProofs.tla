--------------------------- MODULE LogStorageProofs ---------------------------
(***************************************************************************)
(* Payloads stay readable and leave no copies behind, and the statistics   *)
(* are those of the rows, for any requests, threads, filters, part and     *)
(* batch sizes and however the transactions of jobs, the event loop's      *)
(* writes, crashes and starts interleave.                                  *)
(***************************************************************************)
EXTENDS LogStorage, FiniteSetTheorems, WellFoundedInduction, TLAPS

Columns == {"req", "hot", "bytes", "avail"}

IsRow(row) ==
    /\ Columns \subseteq DOMAIN row
    /\ row.hot \in BOOLEAN /\ row.bytes \in BOOLEAN /\ row.avail \in BOOLEAN

Shape ==
    /\ lastRow \in Nat /\ DOMAIN rows \subseteq 1..lastRow
    /\ \A id \in DOMAIN rows : IsRow(rows[id])
    /\ lastArchive \in Nat /\ DOMAIN archives \subseteq 1..lastArchive
    /\ \A a \in DOMAIN archives : "blob" \in DOMAIN archives[a]
    /\ DOMAIN archiveOf \subseteq DOMAIN rows
    /\ DOMAIN jobs = Threads
    /\ \A t \in Threads : {"doing", "todo", "parts"} \subseteq DOMAIN jobs[t]

\* A reference leads to the payload of its log, which is no longer hot.
Resolves ==
    \A id \in DOMAIN archiveOf :
        /\ archiveOf[id] \in DOMAIN archives
        /\ id \in DOMAIN archives[archiveOf[id]].blob
        /\ archives[archiveOf[id]].blob[id] = rows[id].req
        /\ ~rows[id].hot

\* Only a job that deletes or compacts has archives to compact.
TodoOfJobs ==
    \A t \in Threads : jobs[t].todo # {} => jobs[t].doing \in {"deleting", "compacting"}

\* What the flag in the row says once sizes are migrated.
Available ==
    \A id \in DOMAIN rows :
        /\ rows[id].hot \/ id \in DOMAIN archiveOf => rows[id].avail
        /\ rows[id].avail /\ id \notin hollow => rows[id].hot \/ id \in DOMAIN archiveOf

\* The flags are right from the migration of the sizes on; before it only an old
\* database's sizes are known, and its rows are either hot or without a size.
Migrated ==
    /\ version \in {-1, 0, 2}
    /\ version = 2 \/ server = "available" => Available
    /\ version # 2 =>
        /\ server \in {"down", "keyed", "measured", "available"}
        /\ hollow = {}
        /\ \A id \in DOMAIN rows : rows[id].bytes => rows[id].hot

IInv == Shape /\ Resolves /\ TodoOfJobs /\ Migrated /\ NoLeftovers

-------------------------------------------------------------------------------
\* Initial states.

LEMMA OldRow ==
    ASSUME NEW r, NEW up, NEW hot \in BOOLEAN
    PROVE  IsRow(Old(r, up, hot)) /\ Old(r, up, hot).hot = hot /\ Old(r, up, hot).bytes = FALSE
           /\ Old(r, up, hot).req = r
<1> DEFINE row == Row(r, 0, "success", up, 0, FALSE)
<1>1. IsRow(row) /\ row.bytes = FALSE /\ row.req = r
    BY DEF Row, IsRow, Columns
<1>2. Old(r, up, hot) = [row EXCEPT !.hot = hot]
    BY DEF Old
<1> HIDE DEF row
<1> QED
    BY <1>1, <1>2 DEF IsRow, Columns

LEMMA InitIInv == Init => IInv
<1> SUFFICES ASSUME Init PROVE IInv
    OBVIOUS
<1>1. /\ DOMAIN jobs = Threads
      /\ \A t \in Threads : {"doing", "todo", "parts"} \subseteq DOMAIN jobs[t] /\ jobs[t].todo = {}
    BY DEF Init, Idle
<1>2. CASE rows = <<>> /\ archiveOf = <<>> /\ archives = <<>> /\ version = 2
    <2>1. DOMAIN rows = {} /\ DOMAIN archiveOf = {} /\ DOMAIN archives = {}
        BY <1>2
    <2>2. lastRow = 0 /\ lastArchive = 0
        BY <2>1, FS_EmptySet DEF Init
    <2> QED
        BY <1>1, <1>2, <2>1, <2>2
        DEF IInv, Shape, Resolves, TodoOfJobs, Migrated, Available, NoLeftovers
<1>3. ASSUME NEW r \in WithPayload, NEW up \in Upstreams,
             /\ rows = Only(1, Old(r, up, TRUE)) /\ archiveOf = <<>> /\ archives = <<>>
             /\ version \in {-1, 0}
      PROVE  IInv
    <2>1. DOMAIN rows = {1} /\ rows[1] = Old(r, up, TRUE) /\ DOMAIN archiveOf = {} /\ DOMAIN archives = {}
        BY <1>3 DEF Only
    <2>a. IsRow(rows[1]) /\ rows[1].hot = TRUE
        <3>1. TRUE \in BOOLEAN
            OBVIOUS
        <3>2. IsRow(Old(r, up, TRUE)) /\ Old(r, up, TRUE).hot = TRUE
            BY <3>1, OldRow, Zenon
        <3> QED
            BY <2>1, <3>2, Zenon
    <2>b. version \in {-1, 0, 2} /\ version # 2
        BY <1>3
    <2>2. lastRow = 1 /\ lastArchive = 0
        BY <2>1, FS_EmptySet, FS_Singleton DEF Init
    <2>3. server = "down" /\ hollow = {}
        BY DEF Init
    <2>4. Shape
        <3>1. \A id \in DOMAIN rows : IsRow(rows[id])
            BY <2>1, <2>a, Zenon
        <3>2. lastRow \in Nat /\ DOMAIN rows \subseteq 1..lastRow
            BY <2>1, <2>2
        <3>3. lastArchive \in Nat /\ DOMAIN archives \subseteq 1..lastArchive
            BY <2>1, <2>2
        <3>4. /\ DOMAIN jobs = Threads
            /\ \A t \in Threads : {"doing", "todo", "parts"} \subseteq DOMAIN jobs[t]
            BY <1>1
        <3>5. \A a \in DOMAIN archives : "blob" \in DOMAIN archives[a]
            BY <2>1
        <3>6. DOMAIN archiveOf \subseteq DOMAIN rows
            BY <2>1
        <3> QED
            BY <3>1, <3>2, <3>3, <3>4, <3>5, <3>6 DEF Shape
    <2>5. Resolves /\ TodoOfJobs /\ NoLeftovers
        BY <1>1, <2>1 DEF Resolves, TodoOfJobs, NoLeftovers
    <2>6. Migrated
        BY <2>1, <2>3, <2>a, <2>b DEF Migrated
    <2> QED
        BY <2>4, <2>5, <2>6 DEF IInv
<1>4. ASSUME NEW r \in WithPayload, NEW up \in Upstreams,
             /\ rows = Only(1, Old(r, up, FALSE)) /\ archiveOf = Only(1, 1) /\ version \in {-1, 0}
             /\ archives = Only(1, [date |-> 0, blob |-> Only(1, r)])
      PROVE  IInv
    <2>1. DOMAIN rows = {1} /\ rows[1] = Old(r, up, FALSE) /\ DOMAIN archiveOf = {1} /\ archiveOf[1] = 1
        BY <1>4 DEF Only
    <2>a. IsRow(rows[1]) /\ rows[1].hot = FALSE /\ rows[1].bytes = FALSE /\ rows[1].req = r
        <3>1. FALSE \in BOOLEAN
            OBVIOUS
        <3>2. /\ IsRow(Old(r, up, FALSE)) /\ Old(r, up, FALSE).hot = FALSE
              /\ Old(r, up, FALSE).bytes = FALSE /\ Old(r, up, FALSE).req = r
            BY <3>1, OldRow, Zenon
        <3> QED
            BY <2>1, <3>2, Zenon
    <2>2. DOMAIN archives = {1} /\ "blob" \in DOMAIN archives[1] /\ archives[1].blob = Only(1, r)
        BY <1>4 DEF Only
    <2>3. DOMAIN archives[1].blob = {1} /\ archives[1].blob[1] = rows[1].req
        BY <2>a, <2>2 DEF Only
    <2>4. lastRow = 1 /\ lastArchive = 1
        BY <2>1, <2>2, FS_Singleton DEF Init
    <2>5. server = "down" /\ hollow = {}
        BY DEF Init
    <2>b. version \in {-1, 0, 2} /\ version # 2
        BY <1>4
    <2>6. Shape
        <3>1. \A id \in DOMAIN rows : IsRow(rows[id])
            BY <2>1, <2>a, Zenon
        <3>2. lastRow \in Nat /\ DOMAIN rows \subseteq 1..lastRow
            BY <2>1, <2>4
        <3>3. lastArchive \in Nat /\ DOMAIN archives \subseteq 1..lastArchive
            BY <2>2, <2>4
        <3>4. /\ DOMAIN jobs = Threads
            /\ \A t \in Threads : {"doing", "todo", "parts"} \subseteq DOMAIN jobs[t]
            BY <1>1
        <3>5. \A a \in DOMAIN archives : "blob" \in DOMAIN archives[a]
            BY <2>2
        <3>6. DOMAIN archiveOf \subseteq DOMAIN rows
            BY <2>1
        <3> QED
            BY <3>1, <3>2, <3>3, <3>4, <3>5, <3>6 DEF Shape
    <2>7. Resolves
        BY <2>1, <2>2, <2>3, <2>a DEF Resolves
    <2>8. TodoOfJobs /\ NoLeftovers
        BY <1>1, <2>1, <2>2, <2>3 DEF TodoOfJobs, NoLeftovers, Kept
    <2>9. Migrated
        BY <2>1, <2>5, <2>a, <2>b DEF Migrated
    <2> QED
        BY <2>6, <2>7, <2>8, <2>9 DEF IInv
<1> QED
    BY <1>2, <1>3, <1>4 DEF Init

-------------------------------------------------------------------------------
\* The event loop's writes.

LEMMA InsertKeeps ==
    ASSUME IInv, Up, NEW row, IsRow(row), Insert(row), row.hot => row.avail,
           hollow' \in {hollow, hollow \cup {lastRow + 1}},
           row.avail => row.hot \/ lastRow + 1 \in hollow'
    PROVE  IInv'
<1>1. /\ DOMAIN rows' = {lastRow + 1} \cup DOMAIN rows /\ rows'[lastRow + 1] = row
      /\ \A id \in DOMAIN rows : id # lastRow + 1 => rows'[id] = rows[id]
    <2>1. rows' = Over(Only(lastRow + 1, row), rows)
        BY DEF Insert
    <2> QED
        BY <2>1 DEF Only, Over
<1>2. lastRow + 1 \notin DOMAIN rows /\ lastRow + 1 \notin DOMAIN archiveOf
    BY DEF IInv, Shape
<1>3. /\ lastRow' = lastRow + 1
      /\ UNCHANGED <<archives, lastArchive, archiveOf, version, server, jobs, leaked>>
    BY DEF Insert
<1>4. Shape'
    BY <1>1, <1>2, <1>3 DEF IInv, Shape
<1>5. Resolves'
    BY <1>1, <1>2, <1>3 DEF IInv, Shape, Resolves
<1>6. TodoOfJobs' /\ NoLeftovers'
    BY <1>3 DEF IInv, TodoOfJobs, NoLeftovers, Kept
<1>7. version = 2
    BY DEF IInv, Migrated, Up
<1>8. Available'
    BY <1>1, <1>2, <1>3, <1>7 DEF IInv, Migrated, Available, IsRow
<1> QED
    BY <1>3, <1>4, <1>5, <1>6, <1>7, <1>8 DEF IInv, Migrated

LEMMA WriteKeeps ==
    ASSUME IInv, Up, NEW r, NEW changes, DOMAIN changes \cap Columns = {}, Write(r, changes)
    PROVE  IInv'
<1>1. UNCHANGED <<lastRow, archives, lastArchive, archiveOf, version, server, jobs, hollow, leaked>>
    BY DEF Write
<1>2. DOMAIN rows' = DOMAIN rows
    BY DEF Write
<1>3. \A id \in DOMAIN rows :
        /\ Columns \subseteq DOMAIN rows'[id]
        /\ \A c \in Columns : rows'[id][c] = rows[id][c]
    <2> TAKE id \in DOMAIN rows
    <2>1. rows'[id] \in {Over(changes, rows[id]), rows[id]}
        BY DEF Write
    <2>2. Columns \subseteq DOMAIN rows[id]
        BY DEF IInv, Shape, IsRow
    <2> QED
        BY <2>1, <2>2 DEF Over
<1>4. \A id \in DOMAIN rows :
        /\ IsRow(rows'[id]) /\ rows'[id].req = rows[id].req /\ rows'[id].hot = rows[id].hot
        /\ rows'[id].bytes = rows[id].bytes /\ rows'[id].avail = rows[id].avail
    BY <1>3 DEF IInv, Shape, IsRow, Columns
<1>5. Shape' /\ Resolves'
    BY <1>1, <1>2, <1>4 DEF IInv, Shape, Resolves
<1>6. TodoOfJobs' /\ NoLeftovers'
    BY <1>1 DEF IInv, TodoOfJobs, NoLeftovers, Kept
<1>7. Migrated'
    BY <1>1, <1>2, <1>4 DEF IInv, Migrated, Available
<1> QED
    BY <1>5, <1>6, <1>7 DEF IInv

-------------------------------------------------------------------------------
\* Jobs.

Fields == {"doing", "todo", "parts"}

LEMMA IdleJob == Fields \subseteq DOMAIN Idle /\ Idle.todo = {}
BY DEF Idle, Fields

LEMMA CompactingJob ==
    ASSUME NEW todo
    PROVE  /\ Fields \subseteq DOMAIN Compacting(todo) /\ Compacting(todo).todo = todo
           /\ todo # {} => Compacting(todo).doing = "compacting"
<1>1. CASE todo = {}
    BY <1>1, IdleJob DEF Compacting
<1>2. CASE todo # {}
    <2>1. Compacting(todo) = [Idle EXCEPT !.doing = "compacting", !.todo = todo]
        BY <1>2 DEF Compacting
    <2> QED
        BY <2>1 DEF Idle, Fields
<1> QED
    BY <1>1, <1>2

\* What a step of thread t that leaves it with a proper job does to the jobs.
JobsAfter(t, job) ==
    /\ DOMAIN jobs' = Threads /\ \A u \in Threads : Fields \subseteq DOMAIN jobs'[u]
    /\ jobs'[t] = job /\ \A u \in Threads \ {t} : jobs'[u] = jobs[u]
    /\ TodoOfJobs'

LEMMA RunKeeps ==
    ASSUME IInv, NEW t \in Threads, NEW job, Fields \subseteq DOMAIN job,
           job.todo # {} => job.doing \in {"deleting", "compacting"}, Run(t, job)
    PROVE  JobsAfter(t, job)
<1>1. DOMAIN jobs' = Threads /\ jobs'[t] = job /\ \A u \in Threads \ {t} : jobs'[u] = jobs[u]
    BY DEF Run, IInv, Shape
<1>2. \A u \in Threads : Fields \subseteq DOMAIN jobs'[u]
    BY <1>1 DEF IInv, Shape, Fields
<1>3. TodoOfJobs'
    BY <1>1 DEF IInv, TodoOfJobs
<1> QED
    BY <1>1, <1>2, <1>3 DEF JobsAfter

\* A job is started or dropped and nothing else changes.
LEMMA JobKeeps ==
    ASSUME IInv, NEW t \in Threads, NEW job, JobsAfter(t, job), jobs[t].todo \subseteq job.todo,
           UNCHANGED <<stored, version, server, hollow, leaked>>
    PROVE  IInv'
<1>1. Shape' /\ Resolves' /\ TodoOfJobs'
    BY DEF IInv, Shape, Resolves, JobsAfter, Fields, stored
<1>2. Migrated'
    BY DEF IInv, Migrated, Available, stored
<1>3. \A u \in Threads : jobs[u].todo \subseteq jobs'[u].todo
    BY DEF JobsAfter
<1>4. NoLeftovers'
    BY <1>3 DEF IInv, NoLeftovers, Kept, stored
<1> QED
    BY <1>1, <1>2, <1>4 DEF IInv

LEMMA StartArchiveKeeps ==
    ASSUME IInv, NEW t \in Threads, NEW days, StartArchive(t, days)
    PROVE  IInv'
<1>1. PICK parts : Run(t, [Idle EXCEPT !.doing = "archiving", !.parts = parts])
    BY DEF StartArchive
<1> DEFINE job == [Idle EXCEPT !.doing = "archiving", !.parts = parts]
<1>2. Fields \subseteq DOMAIN job /\ job.todo = {}
    BY DEF Idle, Fields
<1>3. jobs[t].todo = {}
    BY DEF StartArchive, Free, IInv, TodoOfJobs
<1> HIDE DEF job
<1>4. JobsAfter(t, job)
    BY <1>1, <1>2, RunKeeps DEF job
<1> QED
    BY <1>2, <1>3, <1>4, JobKeeps DEF StartArchive

LEMMA StartCleanupKeeps ==
    ASSUME IInv, NEW t \in Threads, NEW before, NEW statuses, StartCleanup(t, before, statuses)
    PROVE  IInv'
<1> DEFINE job == [Idle EXCEPT !.doing = "deleting", !.before = before, !.statuses = statuses]
<1>1. Run(t, job)
    BY DEF StartCleanup
<1>2. Fields \subseteq DOMAIN job /\ job.todo = {}
    BY DEF Idle, Fields
<1>3. jobs[t].todo = {}
    BY DEF StartCleanup, Free, IInv, TodoOfJobs
<1> HIDE DEF job
<1>4. JobsAfter(t, job)
    BY <1>1, <1>2, RunKeeps
<1> QED
    BY <1>2, <1>3, <1>4, JobKeeps DEF StartCleanup

\* Removed references are compacted by the job that removed them.
LEMMA RemovalQueued ==
    ASSUME IInv, NEW t \in Threads, NEW ids, archiveOf' = Without(archiveOf, ids),
           UNCHANGED <<archives, leaked>>, \A u \in Threads : jobs[u].todo \subseteq jobs'[u].todo,
           ArchivesOf(ids) \subseteq jobs'[t].todo
    PROVE  NoLeftovers'
<1> SUFFICES ASSUME NEW a \in DOMAIN archives, ~(DOMAIN archives[a].blob \subseteq Kept(a)'),
                    a \notin leaked, \A u \in Threads : a \notin jobs'[u].todo
             PROVE  FALSE
    BY DEF NoLeftovers
<1>1. DOMAIN archives[a].blob \subseteq Kept(a)
    BY DEF IInv, NoLeftovers
<1>2. a \notin ArchivesOf(ids)
    OBVIOUS
<1>3. Kept(a) \subseteq Kept(a)'
    BY <1>2 DEF Kept, ArchivesOf, Without
<1> QED
    BY <1>1, <1>3

LEMMA ArchivePartKeeps ==
    ASSUME IInv, NEW t \in Threads, ArchivePart(t)
    PROVE  IInv'
<1> DEFINE ids == StillDue(Head(jobs[t].parts))
           new == lastArchive + 1
           next == IF Len(jobs[t].parts) = 1 THEN Idle ELSE [jobs[t] EXCEPT !.parts = Tail(@)]
<1>1. /\ Up /\ Run(t, next)
      /\ UNCHANGED <<lastRow, version, server, hollow, leaked>>
      /\ \/ UNCHANGED stored
         \/ /\ lastArchive' = new
            /\ \E date : archives' = Over(Only(new, [date |-> date, blob |-> [i \in ids |-> rows[i].req]]), archives)
            /\ archiveOf' = Over([i \in ids |-> new], archiveOf)
            /\ rows' = [i \in DOMAIN rows |->
                          IF i \in ids THEN [rows[i] EXCEPT !.hot = FALSE, !.bytes = FALSE] ELSE rows[i]]
    BY DEF ArchivePart, stored
<1>2. /\ ids \subseteq DOMAIN rows /\ ids \cap DOMAIN archiveOf = {}
      /\ \A i \in ids : rows[i].hot /\ IsRow(rows[i])
    BY DEF StillDue, Due, IInv, Shape
<1>3. jobs[t].todo = {}
    BY DEF ArchivePart, IInv, TodoOfJobs
<1>4. Fields \subseteq DOMAIN next /\ next.todo = {}
    BY <1>3, IdleJob DEF IInv, Shape, Fields
<1> HIDE DEF ids, next
<1>5. JobsAfter(t, next)
    BY <1>1, <1>4, RunKeeps
<1>6. CASE UNCHANGED stored
    BY <1>1, <1>3, <1>4, <1>5, <1>6, JobKeeps
<1>7. CASE ~UNCHANGED stored
    <2>1. PICK date :
            archives' = Over(Only(new, [date |-> date, blob |-> [i \in ids |-> rows[i].req]]), archives)
        BY <1>1, <1>7
    <2>2. new \notin DOMAIN archives
        BY DEF IInv, Shape
    <2>3. /\ DOMAIN archives' = {new} \cup DOMAIN archives
          /\ "blob" \in DOMAIN archives'[new] /\ archives'[new].blob = [i \in ids |-> rows[i].req]
          /\ \A a \in DOMAIN archives : archives'[a] = archives[a]
        BY <2>1, <2>2 DEF Over, Only
    <2>4. /\ DOMAIN archiveOf' = ids \cup DOMAIN archiveOf
          /\ \A i \in ids : archiveOf'[i] = new
          /\ \A i \in DOMAIN archiveOf : archiveOf'[i] = archiveOf[i] /\ i \notin ids
        BY <1>1, <1>2, <1>7 DEF Over
    <2>5. /\ DOMAIN rows' = DOMAIN rows
          /\ \A i \in DOMAIN rows :
                /\ IsRow(rows'[i]) /\ rows'[i].req = rows[i].req /\ rows'[i].avail = rows[i].avail
                /\ i \notin ids => rows'[i] = rows[i]
          /\ \A i \in ids : rows'[i].hot = FALSE
        <3>1. rows' = [i \in DOMAIN rows |->
                        IF i \in ids THEN [rows[i] EXCEPT !.hot = FALSE, !.bytes = FALSE] ELSE rows[i]]
            BY <1>1, <1>7
        <3>2. \A i \in DOMAIN rows : IsRow(rows[i])
            BY DEF IInv, Shape
        <3> QED
            BY <1>2, <3>1, <3>2 DEF IsRow, Columns
    <2>6. lastArchive' = new /\ UNCHANGED <<lastRow, version, server, hollow, leaked>>
        BY <1>1, <1>7
    <2>7. Shape'
        <3>1. lastArchive' \in Nat /\ DOMAIN archives' \subseteq 1..lastArchive'
            BY <2>3, <2>6 DEF IInv, Shape
        <3> QED
            BY <1>2, <1>5, <2>3, <2>4, <2>5, <2>6, <3>1 DEF IInv, Shape, JobsAfter, Fields
    <2>8. Resolves'
        BY <1>2, <2>2, <2>3, <2>4, <2>5 DEF IInv, Shape, Resolves
    <2>9. Migrated'
        BY <1>1, <1>2, <2>4, <2>5, <2>6 DEF IInv, Migrated, Available, Up
    <2>10. NoLeftovers'
        <3> SUFFICES ASSUME NEW a \in DOMAIN archives', ~(DOMAIN archives'[a].blob \subseteq Kept(a)')
                     PROVE  a \in leaked \/ \E u \in Threads : a \in jobs'[u].todo
            BY <2>6 DEF NoLeftovers
        <3>1. DOMAIN archives'[new].blob \subseteq {i \in DOMAIN archiveOf' : archiveOf'[i] = new}
            BY <2>3, <2>4
        <3>2. a \in DOMAIN archives /\ archives'[a] = archives[a]
            BY <2>3, <3>1 DEF Kept
        <3>3. Kept(a) \subseteq Kept(a)'
            BY <2>4 DEF Kept
        <3>4. a \in leaked \/ \E u \in Threads : a \in jobs[u].todo
            BY <3>2, <3>3 DEF IInv, NoLeftovers
        <3> QED
            BY <1>3, <1>5, <3>4 DEF JobsAfter
    <2> QED
        BY <1>5, <2>7, <2>8, <2>9, <2>10 DEF IInv, JobsAfter
<1> QED
    BY <1>6, <1>7

LEMMA CleanupBatchKeeps ==
    ASSUME IInv, NEW t \in Threads, CleanupBatch(t)
    PROVE  IInv'
<1> DEFINE ids == Batch(jobs[t])
           more == [jobs[t] EXCEPT !.todo = @ \cup ArchivesOf(ids)]
<1>1. Up /\ jobs[t].doing = "deleting" /\ UNCHANGED <<version, server, leaked>>
    BY DEF CleanupBatch
<1>2. CASE ids = {}
    <2>1. Run(t, Compacting(jobs[t].todo)) /\ UNCHANGED <<stored, hollow>>
        BY <1>2 DEF CleanupBatch
    <2>2. JobsAfter(t, Compacting(jobs[t].todo))
        BY <2>1, CompactingJob, RunKeeps
    <2> QED
        BY <1>1, <2>1, <2>2, CompactingJob, JobKeeps
<1>3. CASE ids # {}
    <2>1. /\ Run(t, more) /\ rows' = Without(rows, ids) /\ archiveOf' = Without(archiveOf, ids)
          /\ hollow' = hollow \ ids /\ UNCHANGED <<lastRow, archives, lastArchive>>
        BY <1>3 DEF CleanupBatch
    <2>2. /\ Fields \subseteq DOMAIN more /\ more.doing = "deleting"
          /\ more.todo = jobs[t].todo \cup ArchivesOf(ids)
        BY <1>1 DEF IInv, Shape, Fields
    <2> HIDE DEF ids, more
    <2>3. JobsAfter(t, more)
        BY <2>1, <2>2, RunKeeps
    <2>4. Shape' /\ Resolves'
        BY <2>1, <2>3 DEF IInv, Shape, Resolves, Without, JobsAfter, Fields
    <2>5. Migrated'
        BY <1>1, <2>1 DEF IInv, Migrated, Available, Without, Up
    <2>6. NoLeftovers'
        BY <1>1, <2>1, <2>2, <2>3, RemovalQueued DEF JobsAfter
    <2> QED
        BY <2>3, <2>4, <2>5, <2>6 DEF IInv, JobsAfter
<1> QED
    BY <1>2, <1>3

LEMMA ClearPayloadsKeeps ==
    ASSUME IInv, NEW t \in Threads, NEW before, NEW sizes, ClearPayloads(t, before, sizes)
    PROVE  IInv'
<1> DEFINE ids == {id \in DOMAIN rows : id < before /\ rows[id].avail /\ rows[id].req \in sizes}
           job == Compacting(ArchivesOf(ids))
<1>1. /\ Run(t, job) /\ archiveOf' = Without(archiveOf, ids) /\ hollow' = hollow \ ids
      /\ rows' = [id \in DOMAIN rows |->
                    IF id \in ids THEN [rows[id] EXCEPT !.hot = FALSE, !.bytes = FALSE, !.avail = FALSE]
                    ELSE rows[id]]
      /\ UNCHANGED <<lastRow, archives, lastArchive, version, server, leaked>>
    BY DEF ClearPayloads
<1>2. jobs[t].todo = {} /\ Up
    BY DEF ClearPayloads, Free, IInv, TodoOfJobs
<1> HIDE DEF ids
<1>3. JobsAfter(t, job) /\ ArchivesOf(ids) = job.todo
    BY <1>1, CompactingJob, RunKeeps
<1> HIDE DEF job
<1>4. /\ DOMAIN rows' = DOMAIN rows
      /\ \A id \in DOMAIN rows :
            /\ IsRow(rows'[id]) /\ rows'[id].req = rows[id].req
            /\ id \notin ids => rows'[id] = rows[id]
            /\ id \in ids => rows'[id].hot = FALSE /\ rows'[id].avail = FALSE
    BY <1>1 DEF IsRow, Columns, IInv, Shape
<1>5. /\ DOMAIN archiveOf' = DOMAIN archiveOf \ ids
      /\ \A id \in DOMAIN archiveOf' : archiveOf'[id] = archiveOf[id]
    BY <1>1 DEF Without
<1>6. Shape' /\ Resolves'
    <2>1. Shape'
        BY <1>1, <1>3, <1>4, <1>5 DEF IInv, Shape, JobsAfter, Fields
    <2>2. Resolves'
        BY <1>1, <1>4, <1>5 DEF IInv, Shape, Resolves
    <2> QED
        BY <2>1, <2>2
<1>7. Migrated'
    BY <1>1, <1>2, <1>4, <1>5 DEF IInv, Migrated, Available, Up
<1>8. NoLeftovers'
    BY <1>1, <1>2, <1>3, RemovalQueued DEF JobsAfter
<1> QED
    BY <1>3, <1>6, <1>7, <1>8 DEF IInv, JobsAfter

\* The archive at hand keeps exactly what is referred to, or goes with the last reference.
LEMMA CompactNextKeeps ==
    ASSUME IInv, NEW t \in Threads, CompactNext(t)
    PROVE  IInv'
<1> DEFINE a == Min(jobs[t].todo)
           rest == jobs[t].todo \ {a}
<1>1. Kept(a) \subseteq DOMAIN archives[a].blob
    BY DEF IInv, Resolves, Kept
<1>2. /\ Run(t, Compacting(rest))
      /\ archives' = IF a \in DOMAIN archives THEN Compacted(a) ELSE archives
      /\ UNCHANGED <<rows, lastRow, lastArchive, archiveOf, version, server, hollow, leaked>>
    BY <1>1 DEF CompactNext
<1> HIDE DEF a
<1>3. JobsAfter(t, Compacting(rest)) /\ jobs'[t].todo = rest
    <2>1. JobsAfter(t, Compacting(rest))
        BY <1>2, CompactingJob, RunKeeps
    <2> QED
        BY <2>1, CompactingJob DEF JobsAfter
<1>4. /\ DOMAIN archives' \subseteq DOMAIN archives
      /\ \A b \in DOMAIN archives \ {a} : b \in DOMAIN archives' /\ archives'[b] = archives[b]
      /\ a \in DOMAIN archives /\ Kept(a) # {} => a \in DOMAIN archives'
      /\ a \in DOMAIN archives' => /\ "blob" \in DOMAIN archives'[a]
                                  /\ archives'[a].blob = [id \in Kept(a) |-> archives[a].blob[id]]
    <2>1. CASE a \notin DOMAIN archives
        BY <1>2, <2>1
    <2>2. CASE a \in DOMAIN archives /\ Kept(a) = {}
        BY <1>2, <2>2 DEF Compacted, Without
    <2>3. CASE a \in DOMAIN archives /\ Kept(a) # {}
        <3>1. archives' = [archives EXCEPT ![a].blob = [id \in Kept(a) |-> archives[a].blob[id]]]
            BY <1>2, <2>3 DEF Compacted
        <3>2. "blob" \in DOMAIN archives[a]
            BY <2>3 DEF IInv, Shape
        <3> QED
            BY <2>3, <3>1, <3>2
    <2> QED
        BY <2>1, <2>2, <2>3
<1>5. Shape'
    <2>1. \A b \in DOMAIN archives' : "blob" \in DOMAIN archives'[b]
        BY <1>4 DEF IInv, Shape
    <2> QED
        BY <1>2, <1>3, <1>4, <2>1 DEF IInv, Shape, JobsAfter, Fields
<1>6. Resolves'
    <2> SUFFICES ASSUME NEW id \in DOMAIN archiveOf
                 PROVE  /\ archiveOf[id] \in DOMAIN archives'
                        /\ id \in DOMAIN archives'[archiveOf[id]].blob
                        /\ archives'[archiveOf[id]].blob[id] = rows[id].req
                        /\ ~rows[id].hot
        BY <1>2 DEF Resolves
    <2>1. CASE archiveOf[id] # a
        BY <1>4, <2>1 DEF IInv, Resolves
    <2>2. CASE archiveOf[id] = a
        BY <1>4, <2>2 DEF IInv, Resolves, Kept
    <2> QED
        BY <2>1, <2>2
<1>7. Migrated'
    BY <1>2 DEF IInv, Migrated, Available
<1>8. NoLeftovers'
    <2> SUFFICES ASSUME NEW b \in DOMAIN archives', ~(DOMAIN archives'[b].blob \subseteq Kept(b))
                 PROVE  b \in leaked \/ \E u \in Threads : b \in jobs'[u].todo
        BY <1>2 DEF NoLeftovers, Kept
    <2>1. b # a
        BY <1>4
    <2>2. b \in leaked \/ \E u \in Threads : b \in jobs[u].todo
        BY <1>4, <2>1 DEF IInv, NoLeftovers
    <2> QED
        BY <1>3, <2>1, <2>2 DEF JobsAfter
<1> QED
    BY <1>3, <1>5, <1>6, <1>7, <1>8 DEF IInv, JobsAfter

-------------------------------------------------------------------------------
\* Crash and start.

LEMMA CrashKeeps ==
    ASSUME IInv, Crash
    PROVE  IInv'
<1>1. /\ UNCHANGED <<rows, lastRow, archives, lastArchive, archiveOf, version, hollow>>
      /\ server' = "down" /\ leaked' = leaked \cup UNION {jobs[t].todo : t \in Threads}
      /\ jobs' = [t \in Threads |-> Idle]
    BY DEF Crash, stored
<1>2. Shape' /\ Resolves' /\ TodoOfJobs'
    BY <1>1, IdleJob DEF IInv, Shape, Resolves, TodoOfJobs, Fields
<1>3. Migrated'
    BY <1>1 DEF IInv, Migrated, Available
<1>4. NoLeftovers'
    BY <1>1 DEF IInv, NoLeftovers, Kept
<1> QED
    BY <1>2, <1>3, <1>4 DEF IInv

\* A migration writes flags of rows only.
LEMMA FlagsKeep ==
    ASSUME IInv, UNCHANGED BootRest, DOMAIN rows' = DOMAIN rows,
           \A id \in DOMAIN rows :
               IsRow(rows'[id]) /\ rows'[id].req = rows[id].req /\ rows'[id].hot = rows[id].hot
    PROVE  Shape' /\ Resolves' /\ TodoOfJobs' /\ NoLeftovers'
<1>1. Shape'
    BY DEF IInv, Shape, BootRest
<1>2. Resolves'
    BY DEF IInv, Shape, Resolves, BootRest
<1> QED
    BY <1>1, <1>2 DEF IInv, TodoOfJobs, NoLeftovers, Kept, BootRest

LEMMA MigrateKeyKeeps == ASSUME IInv, MigrateKey PROVE IInv'
<1>1. /\ DOMAIN rows' = DOMAIN rows /\ UNCHANGED BootRest
      /\ \A id \in DOMAIN rows :
            /\ IsRow(rows'[id]) /\ rows'[id].req = rows[id].req /\ rows'[id].hot = rows[id].hot
            /\ rows'[id].bytes => rows[id].bytes \/ rows[id].hot
            /\ version # -1 => rows'[id] = rows[id]
    BY DEF MigrateKey, IInv, Shape, IsRow, Columns
<1>2. server = "down" /\ server' = "keyed" /\ version' = IF version = -1 THEN 0 ELSE version
    BY DEF MigrateKey, Booting
<1>3. Migrated'
    BY <1>1, <1>2 DEF IInv, Migrated, Available, BootRest
<1> QED
    BY <1>1, <1>3, FlagsKeep DEF IInv

LEMMA MigrateBytesKeeps == ASSUME IInv, MigrateBytes PROVE IInv'
<1>1. /\ DOMAIN rows' = DOMAIN rows /\ UNCHANGED BootRest
      /\ \A id \in DOMAIN rows :
            /\ IsRow(rows'[id]) /\ rows'[id].req = rows[id].req /\ rows'[id].hot = rows[id].hot
            /\ rows'[id].bytes => rows[id].bytes \/ rows[id].hot
            /\ version = 2 => rows'[id] = rows[id]
    <2>1. version = 2 => ~(version < 2)
        OBVIOUS
    <2> QED
        BY <2>1 DEF MigrateBytes, IInv, Shape, IsRow, Columns
<1>2. server = "keyed" /\ server' = "measured" /\ version' = version
    BY DEF MigrateBytes, Booting
<1>3. Migrated'
    BY <1>1, <1>2 DEF IInv, Migrated, Available, BootRest
<1> QED
    BY <1>1, <1>3, FlagsKeep DEF IInv

LEMMA MigrateAvailableKeeps == ASSUME IInv, MigrateAvailable PROVE IInv'
<1>1. /\ DOMAIN rows' = DOMAIN rows /\ UNCHANGED BootRest
      /\ \A id \in DOMAIN rows :
            /\ IsRow(rows'[id]) /\ rows'[id].req = rows[id].req /\ rows'[id].hot = rows[id].hot
            /\ rows'[id].bytes = rows[id].bytes
            /\ version < 2 => rows'[id].avail = (id \in DOMAIN archiveOf \/ rows[id].bytes \/ rows[id].hot)
            /\ version = 2 => rows'[id] = rows[id]
    <2> DEFINE set(id) == id \in DOMAIN archiveOf \/ rows[id].bytes \/ rows[id].hot
    <2>1. rows' = [id \in DOMAIN rows |-> IF version < 2 THEN [rows[id] EXCEPT !.avail = set(id)] ELSE rows[id]]
        BY DEF MigrateAvailable
    <2>2. UNCHANGED BootRest
        BY DEF MigrateAvailable
    <2>3. \A id \in DOMAIN rows : IsRow(rows[id]) /\ set(id) \in BOOLEAN
        BY DEF IInv, Shape
    <2>4. \A id \in DOMAIN rows, b \in BOOLEAN : \A new :
            new = [rows[id] EXCEPT !.avail = b] =>
                /\ IsRow(new) /\ new.req = rows[id].req /\ new.hot = rows[id].hot
                /\ new.bytes = rows[id].bytes /\ new.avail = b
        BY <2>3 DEF IsRow, Columns
    <2> HIDE DEF set
    <2>5. \A id \in DOMAIN rows :
            /\ IsRow(rows'[id]) /\ rows'[id].req = rows[id].req /\ rows'[id].hot = rows[id].hot
            /\ rows'[id].bytes = rows[id].bytes
            /\ version < 2 => rows'[id].avail = set(id)
            /\ version = 2 => rows'[id] = rows[id]
        <3> TAKE id \in DOMAIN rows
        <3>1. CASE version < 2
            <4>1. rows'[id] = [rows[id] EXCEPT !.avail = set(id)]
                BY <2>1, <3>1
            <4>2. version # 2
                BY <3>1
            <4> QED
                BY <2>3, <2>4, <4>1, <4>2
        <3>2. CASE ~(version < 2)
            BY <2>1, <2>3, <3>2
        <3> QED
            BY <3>1, <3>2
    <2> QED
        BY <2>1, <2>2, <2>5 DEF set
<1>2. server = "measured" /\ server' = "available" /\ version' = version
    BY DEF MigrateAvailable, Booting
<1>3. Available'
    <2>1. CASE version = 2
        BY <1>1, <2>1 DEF IInv, Migrated, Available, BootRest
    <2>2. CASE version < 2 /\ version # 2
        BY <1>1, <2>2 DEF IInv, Migrated, Available, BootRest
    <2> QED
        BY <2>1, <2>2 DEF IInv, Migrated
<1>4. Migrated'
    BY <1>1, <1>2, <1>3 DEF IInv, Migrated, BootRest
<1> QED
    BY <1>1, <1>2, <1>4, FlagsKeep DEF IInv

LEMMA BootKeeps ==
    ASSUME IInv, Boot
    PROVE  IInv'
<1>1. CASE MigrateVersion
    <2>1. UNCHANGED <<BootRest, rows>> /\ server = "available" /\ server' = "sized" /\ version' = 2
        BY <1>1 DEF MigrateVersion, Booting
    <2>2. Shape' /\ Resolves' /\ TodoOfJobs' /\ NoLeftovers'
        BY <2>1, FlagsKeep DEF IInv, Shape
    <2>3. Migrated'
        BY <2>1 DEF IInv, Migrated, Available, BootRest
    <2> QED
        BY <2>2, <2>3 DEF IInv
<1>2. CASE RebuildStep \/ Serve
    <2>1. /\ UNCHANGED <<BootRest, rows, version>> /\ server \notin {"down", "keyed", "measured", "available"}
          /\ server' # "available"
        BY <1>2 DEF RebuildStep, Serve, Booting
    <2>2. Shape' /\ Resolves' /\ TodoOfJobs' /\ NoLeftovers'
        BY <2>1, FlagsKeep DEF IInv, Shape
    <2>3. Migrated'
        BY <2>1 DEF IInv, Migrated, Available, BootRest
    <2> QED
        BY <2>2, <2>3 DEF IInv
<1> QED
    BY <1>1, <1>2, MigrateKeyKeeps, MigrateBytesKeeps, MigrateAvailableKeeps DEF Boot

-------------------------------------------------------------------------------
\* Every step.

LEMMA LoopKeeps ==
    ASSUME IInv, NEW r \in Requests,
           \/ \E status \in {"queued", "rejected"} : Log(r, status)
           \/ \E source \in Requests : Replay(r, source)
           \/ \E up \in Upstreams : MarkRunning(r, up) \/ RetryAttempt(r, up)
           \/ MarkSuccess(r) \/ MarkFailed(r) \/ MarkRejected(r) \/ RetryFailure(r)
    PROVE  IInv'
<1>1. ASSUME NEW status, Log(r, status) PROVE IInv'
    <2> DEFINE row == Row(r, 0, status, NoUpstream, hour, r \in WithPayload)
    <2>1. IsRow(row) /\ row.hot = row.avail
        BY DEF Row, IsRow, Columns
    <2>2. Up /\ Insert(row) /\ hollow' = hollow
        BY <1>1 DEF Log
    <2> HIDE DEF row
    <2> QED
        BY <2>1, <2>2, InsertKeeps
<1>2. ASSUME NEW source, Replay(r, source) PROVE IInv'
    <2> DEFINE row == Row(r, 0, "queued", NoUpstream, hour, r \in WithPayload)
    <2>1. IsRow(row) /\ row.hot = row.avail
        BY DEF Row, IsRow, Columns
    <2>2. Up /\ Insert(row) /\ hollow' = hollow
        BY <1>2 DEF Replay
    <2> HIDE DEF row
    <2> QED
        BY <2>1, <2>2, InsertKeeps
<1>3. ASSUME NEW up, MarkRunning(r, up) PROVE IInv'
    <2>1. Up /\ Write(r, [status |-> "running", upstream |-> up])
        BY <1>3 DEF MarkRunning
    <2>2. DOMAIN [status |-> "running", upstream |-> up] \cap Columns = {}
        BY DEF Columns
    <2> QED
        BY <2>1, <2>2, WriteKeeps
<1>4. ASSUME NEW up, RetryAttempt(r, up) PROVE IInv'
    <2>1. Up
        BY <1>4 DEF RetryAttempt
    <2>2. CASE RowsOf(r, 0) = {}
        BY <1>4, <2>2 DEF RetryAttempt, stored, IInv, Shape, Resolves, TodoOfJobs, Migrated,
                          Available, NoLeftovers, Kept
    <2>3. CASE RowsOf(r, 0) # {}
        <3> DEFINE first == rows[CHOOSE id \in RowsOf(r, 0) : TRUE]
                   row == [first EXCEPT !.att = 1, !.status = "running", !.upstream = up,
                                        !.retried = FALSE, !.hour = hour]
        <3>1. PICK id \in DOMAIN rows : first = rows[id]
            BY <2>3 DEF RowsOf
        <3>2. Insert(row) /\ hollow' = IF first.avail /\ ~first.hot THEN hollow \cup {lastRow + 1} ELSE hollow
            BY <1>4, <2>3 DEF RetryAttempt
        <3> HIDE DEF first
        <3>3. IsRow(first) /\ (first.hot => first.avail)
            BY <2>1, <3>1 DEF IInv, Shape, Migrated, Available, Up
        <3>4. IsRow(row) /\ row.hot = first.hot /\ row.avail = first.avail
            BY <3>3 DEF IsRow, Columns
        <3> HIDE DEF row
        <3> QED
            BY <2>1, <3>2, <3>3, <3>4, InsertKeeps DEF IsRow
    <2> QED
        BY <2>2, <2>3
<1>5. ASSUME MarkSuccess(r) PROVE IInv'
    <2> DEFINE changes == [status |-> "success", retried |-> attempt[r] > 0]
    <2>1. Up /\ Write(r, changes)
        BY <1>5 DEF MarkSuccess
    <2>2. DOMAIN changes \cap Columns = {}
        BY DEF Columns
    <2> QED
        BY <2>1, <2>2, WriteKeeps
<1>6. ASSUME NEW status, Up, Write(r, [status |-> status]) PROVE IInv'
    <2>1. DOMAIN [status |-> status] \cap Columns = {}
        BY DEF Columns
    <2> QED
        BY <1>6, <2>1, WriteKeeps
<1>7. MarkFailed(r) \/ MarkRejected(r) \/ RetryFailure(r) => IInv'
    BY <1>6 DEF MarkFailed, MarkRejected, RetryFailure
<1> QED
    BY <1>1, <1>2, <1>3, <1>4, <1>5, <1>7

LEMMA StepKeeps == IInv /\ [Next]_vars => IInv'
<1> SUFFICES ASSUME IInv, [Next]_vars PROVE IInv'
    OBVIOUS
<1>1. CASE UNCHANGED <<stored, version, server, jobs, hollow, leaked>>
    BY <1>1 DEF stored, IInv, Shape, Resolves, TodoOfJobs, Migrated, Available, NoLeftovers, Kept
<1>2. CASE NextHour \/ UNCHANGED vars
    BY <1>1, <1>2 DEF NextHour, vars, stored
<1>3. CASE \E t \in Threads :
            \/ \E days \in HotDays : StartArchive(t, days)
            \/ ArchivePart(t)
            \/ \E before \in 2..lastRow + 1, statuses \in StatusFilters : StartCleanup(t, before, statuses)
            \/ CleanupBatch(t)
            \/ \E before \in 2..lastRow + 1, sizes \in {Requests, Big} : ClearPayloads(t, before, sizes)
            \/ CompactNext(t)
    BY <1>3, StartArchiveKeeps, ArchivePartKeeps, StartCleanupKeeps, CleanupBatchKeeps,
       ClearPayloadsKeeps, CompactNextKeeps
<1> QED
    BY <1>2, <1>3, LoopKeeps, CrashKeeps, BootKeeps DEF Next

LEMMA InvariantHolds == Spec => []IInv
BY InitIInv, StepKeeps, PTL DEF Spec

\* A log that is shown with a payload has its own, a log without one keeps none: no order of
\* archiving, clearing, deleting, compacting, crashes and migrations separates the flag in the
\* row from what reading it gives.
THEOREM PayloadsReadable == Spec => []PayloadReadable
<1>1. IInv => PayloadReadable
    BY DEF IInv, Shape, IsRow, Resolves, Migrated, Available, PayloadReadable, PayloadOf, Up
<1> QED
    BY <1>1, InvariantHolds, PTL

\* A payload that was cleared, or whose log was deleted, is only still in an archive that a job
\* has to compact or that a dead job left behind.
THEOREM NothingLeftOver == Spec => []NoLeftovers
<1>1. IInv => NoLeftovers
    BY DEF IInv
<1> QED
    BY <1>1, InvariantHolds, PTL

-------------------------------------------------------------------------------
\* Sums.

Units(w) == UNION {{id} \X (1..w[id]) : id \in DOMAIN w}

LEMMA UnitsFinite ==
    ASSUME NEW w, IsFiniteSet(DOMAIN w), \A id \in DOMAIN w : w[id] \in Nat
    PROVE  IsFiniteSet(Units(w))
<1> DEFINE S == {{id} \X (1..w[id]) : id \in DOMAIN w}
           f == [id \in DOMAIN w |-> {id} \X (1..w[id])]
<1>1. f \in Surjection(DOMAIN w, S)
    BY DEF Surjection
<1>2. ASSUME NEW id \in DOMAIN w PROVE IsFiniteSet({id} \X (1..w[id]))
  <2>1. w[id] \in Int /\ 1 \in Int
      OBVIOUS
  <2>2. IsFiniteSet({id}) /\ IsFiniteSet(1..w[id])
      BY <2>1, FS_Singleton, FS_Interval
  <2> QED
      BY <2>2, FS_Product
<1>3. \A T \in S : IsFiniteSet(T)
    BY <1>2
<1> HIDE DEF S, f
<1>4. IsFiniteSet(S)
    BY <1>1, FS_Surjection
<1>5. IsFiniteSet(UNION S)
    BY <1>3, <1>4, FS_UNION
<1> QED
    BY <1>5 DEF S, Units

\* A summand more.
LEMMA TotalMore ==
    ASSUME NEW w, IsFiniteSet(DOMAIN w), \A id \in DOMAIN w : w[id] \in Nat,
           NEW x, x \notin DOMAIN w, NEW v, v[x] \in Nat,
           DOMAIN v = DOMAIN w \cup {x}, \A id \in DOMAIN w : v[id] = w[id]
    PROVE  Total(w) \in Nat /\ Total(v) = Total(w) + v[x]
<1> DEFINE new == {x} \X (1..v[x])
<1>1. Units(v) = Units(w) \cup new /\ Units(w) \cap new = {}
    BY DEF Units
<1>2. IsFiniteSet(new) /\ Cardinality(new) = v[x]
  <2>1. IsFiniteSet({x}) /\ Cardinality({x}) = 1
      BY FS_Singleton
  <2>2. IsFiniteSet(1..v[x]) /\ Cardinality(1..v[x]) = v[x]
      BY FS_Interval
  <2>3. IsFiniteSet(new) /\ Cardinality(new) = Cardinality({x}) * Cardinality(1..v[x])
      BY <2>1, <2>2, FS_Product
  <2>4. \A n \in Nat : 1 * n = n
      OBVIOUS
  <2> HIDE DEF new
  <2> QED
      BY <2>1, <2>2, <2>3, <2>4
<1>3. IsFiniteSet(Units(w)) /\ Total(w) = Cardinality(Units(w)) /\ Total(v) = Cardinality(Units(v))
    BY UnitsFinite DEF Total, Units
<1> HIDE DEF new
<1>4. Cardinality(Units(v)) = Cardinality(Units(w)) + Cardinality(new) - Cardinality({})
    BY <1>1, <1>2, <1>3, FS_Union
<1> QED
    BY <1>2, <1>3, <1>4, FS_EmptySet, FS_CardinalityType

LEMMA TotalType ==
    ASSUME NEW w, IsFiniteSet(DOMAIN w), \A id \in DOMAIN w : w[id] \in Nat
    PROVE  Total(w) \in Nat /\ (DOMAIN w = {} => Total(w) = 0)
<1>1. Total(w) = Cardinality(Units(w)) /\ (DOMAIN w = {} => Units(w) = {})
    BY DEF Total, Units
<1> QED
    BY <1>1, UnitsFinite, FS_CardinalityType, FS_EmptySet

-------------------------------------------------------------------------------
\* What a log row counts.

Attributes == {"req", "att", "status", "upstream", "retried", "hour"}

IsRecord(row) ==
    /\ Attributes \subseteq DOMAIN row
    /\ row.req \in Requests /\ row.att \in {0, 1} /\ row.status \in Statuses
    /\ row.upstream \in Upstreams \cup {NoUpstream} /\ row.retried \in BOOLEAN /\ row.hour \in Hours

IsLog(R) == IsFiniteSet(DOMAIN R) /\ \A id \in DOMAIN R : IsRecord(R[id])

Counters == {"requests", "success", "failed", "rejected", "retried", "anlas"}

LEMMA CountersOfZero == DOMAIN Zero = Counters /\ \A k \in Counters : Zero[k] = 0
BY DEF Zero, Counters

LEMMA DeltaType ==
    ASSUME NEW row, IsRecord(row)
    PROVE  \A k \in Counters \ {"requests"} : Delta(row)[k] \in Nat
<1>1. \A b : Bit(b) \in Nat
    BY DEF Bit
<1>2. Cost[row.req] \in Nat
    BY HourlyStatisticsAssumption DEF IsRecord
<1> QED
    BY <1>1, <1>2 DEF Delta, Counters

Sum(R, c, k) == Total([id \in RowsIn(R, c) |-> Delta(R[id])[k]])
Distinct(R, c) == {R[id].req : id \in RowsIn(R, c)}
Of(R, c, r) == {id \in RowsIn(R, c) : R[id].req = r}

LEMMA Counting ==
    ASSUME NEW R, NEW c
    PROVE  /\ DOMAIN Recounted(R, c) = Counters
           /\ Recounted(R, c) = [k \in Counters |-> Recounted(R, c)[k]]
           /\ Recounted(R, c)["requests"] = Cardinality(Distinct(R, c))
           /\ \A k \in Counters \ {"requests"} : Recounted(R, c)[k] = Sum(R, c, k)
           /\ Recurrences(R, c) = [r \in Requests |-> Cardinality(Of(R, c, r))]
<1>1. Recounted(R, c) = [k \in Counters |-> IF k = "requests" THEN Cardinality(Distinct(R, c)) ELSE Sum(R, c, k)]
    BY CountersOfZero DEF Recounted, Distinct, Sum
<1>2. Recurrences(R, c) = [r \in Requests |-> Cardinality(Of(R, c, r))]
    BY DEF Recurrences, Of
<1>3. "requests" \in Counters
    BY DEF Counters
<1> QED
    BY <1>1, <1>2, <1>3

LEMMA CountingType ==
    ASSUME NEW R, IsLog(R), NEW c
    PROVE  /\ IsFiniteSet(RowsIn(R, c)) /\ IsFiniteSet(Distinct(R, c))
           /\ \A r \in Requests : IsFiniteSet(Of(R, c, r)) /\ Recurrences(R, c)[r] \in Nat
           /\ \A k \in Counters : Recounted(R, c)[k] \in Nat
<1>1. RowsIn(R, c) \subseteq DOMAIN R /\ IsFiniteSet(RowsIn(R, c))
    BY FS_Subset DEF RowsIn, IsLog
<1>2. IsFiniteSet(Distinct(R, c))
  <2> DEFINE f == [id \in RowsIn(R, c) |-> R[id].req]
  <2>1. f \in Surjection(RowsIn(R, c), Distinct(R, c))
      BY DEF Surjection, Distinct
  <2> HIDE DEF f
  <2> QED
      BY <1>1, <2>1, FS_Surjection
<1>3. ASSUME NEW r \in Requests PROVE IsFiniteSet(Of(R, c, r)) /\ Recurrences(R, c)[r] \in Nat
  <2>1. IsFiniteSet(Of(R, c, r))
      BY <1>1, FS_Subset DEF Of
  <2> QED
      BY <2>1, FS_CardinalityType, Counting
<1>4. ASSUME NEW k \in Counters \ {"requests"} PROVE Sum(R, c, k) \in Nat
  <2> DEFINE w == [id \in RowsIn(R, c) |-> Delta(R[id])[k]]
  <2>1. \A id \in RowsIn(R, c) : w[id] \in Nat
      BY <1>1, DeltaType DEF IsLog
  <2>2. DOMAIN w = RowsIn(R, c) /\ Sum(R, c, k) = Total(w)
      BY DEF Sum
  <2> HIDE DEF w
  <2> QED
      BY <1>1, <2>1, <2>2, TotalType
<1>5. Cardinality(Distinct(R, c)) \in Nat
    BY <1>2, FS_CardinalityType
<1> QED
    BY <1>1, <1>2, <1>3, <1>4, <1>5, Counting

LEMMA NothingToCount ==
    ASSUME NEW R, NEW c, RowsIn(R, c) = {}
    PROVE  Recounted(R, c) = Zero /\ \A r \in Requests : Recurrences(R, c)[r] = 0
<1>1. Distinct(R, c) = {} /\ \A r : Of(R, c, r) = {}
    BY DEF Distinct, Of
<1>2. ASSUME NEW k \in Counters \ {"requests"} PROVE Sum(R, c, k) = 0
  <2> DEFINE w == [id \in RowsIn(R, c) |-> Delta(R[id])[k]]
  <2>1. DOMAIN w = {} /\ Sum(R, c, k) = Total(w)
      BY DEF Sum
  <2> HIDE DEF w
  <2> QED
      BY <2>1, TotalType, FS_EmptySet
<1>3. Recounted(R, c)["requests"] = 0
    BY <1>1, Counting, FS_EmptySet
<1>a. \A k \in Counters : Recounted(R, c)[k] = 0
    BY <1>2, <1>3, Counting
<1>4. Zero = [k \in Counters |-> 0]
    BY DEF Zero, Counters
<1> QED
    BY <1>1, <1>a, <1>4, Counting, FS_EmptySet

\* Rows that agree in what is counted count the same.
LEMMA SameCounts ==
    ASSUME NEW R, IsLog(R), NEW S, NEW c, RowsIn(S, c) = RowsIn(R, c),
           \A id \in RowsIn(R, c) : \A k \in {"req", "status", "retried"} : S[id][k] = R[id][k]
    PROVE  Recounted(S, c) = Recounted(R, c) /\ Recurrences(S, c) = Recurrences(R, c)
<1>1. \A id \in RowsIn(R, c) : S[id].req = R[id].req /\ Delta(S[id]) = Delta(R[id])
    BY DEF Delta
<1>2. Distinct(S, c) = Distinct(R, c) /\ \A r : Of(S, c, r) = Of(R, c, r)
    BY <1>1 DEF Distinct, Of
<1>3. \A k : Sum(S, c, k) = Sum(R, c, k)
    BY <1>1 DEF Sum
<1> QED
    BY <1>2, <1>3, Counting

\* A log and the same with one row more.
RowMore(R, x, S) ==
    /\ x \notin DOMAIN R /\ DOMAIN S = DOMAIN R \cup {x}
    /\ \A id \in DOMAIN R : S[id] = R[id]

LEMMA ElsewhereSame ==
    ASSUME NEW R, IsLog(R), NEW x, NEW S, RowMore(R, x, S), NEW c, c \notin CellsOf(S[x])
    PROVE  Recounted(S, c) = Recounted(R, c) /\ Recurrences(S, c) = Recurrences(R, c)
<1>1. RowsIn(S, c) = RowsIn(R, c) /\ \A id \in RowsIn(R, c) : S[id] = R[id]
    BY DEF RowsIn, RowMore
<1> QED
    BY <1>1, SameCounts

LEMMA OneMore ==
    ASSUME NEW R, IsLog(R), NEW x, NEW S, RowMore(R, x, S), IsRecord(S[x]), NEW c, c \in CellsOf(S[x])
    PROVE  /\ \A r \in Requests : Recurrences(S, c)[r] = Recurrences(R, c)[r] + IF r = S[x].req THEN 1 ELSE 0
           /\ \A k \in Counters \ {"requests"} : Recounted(S, c)[k] = Recounted(R, c)[k] + Delta(S[x])[k]
           /\ Recounted(S, c)["requests"] =
                Recounted(R, c)["requests"] + IF Recurrences(R, c)[S[x].req] = 0 THEN 1 ELSE 0
<1>1. RowsIn(S, c) = RowsIn(R, c) \cup {x} /\ x \notin RowsIn(R, c) /\ \A id \in RowsIn(R, c) : S[id] = R[id]
    BY DEF RowsIn, RowMore
<1>2. ASSUME NEW r \in Requests
      PROVE  Recurrences(S, c)[r] = Recurrences(R, c)[r] + IF r = S[x].req THEN 1 ELSE 0
  <2>1. Of(S, c, r) = IF r = S[x].req THEN Of(R, c, r) \cup {x} ELSE Of(R, c, r)
      BY <1>1 DEF Of
  <2>2. x \notin Of(R, c, r) /\ IsFiniteSet(Of(R, c, r)) /\ Cardinality(Of(R, c, r)) \in Nat
      BY <1>1, CountingType, FS_CardinalityType DEF Of
  <2>3. Cardinality(Of(R, c, r) \cup {x}) = Cardinality(Of(R, c, r)) + 1
      BY <2>2, FS_AddElement
  <2>4. Recurrences(S, c)[r] = Cardinality(Of(S, c, r)) /\ Recurrences(R, c)[r] = Cardinality(Of(R, c, r))
      BY Counting
  <2> QED
      BY <2>1, <2>2, <2>3, <2>4
<1>3. ASSUME NEW k \in Counters \ {"requests"}
      PROVE  Recounted(S, c)[k] = Recounted(R, c)[k] + Delta(S[x])[k]
  <2> DEFINE w == [id \in RowsIn(R, c) |-> Delta(R[id])[k]]
             v == [id \in RowsIn(S, c) |-> Delta(S[id])[k]]
  <2>1. IsFiniteSet(RowsIn(R, c)) /\ \A id \in RowsIn(R, c) : w[id] \in Nat
      BY CountingType, DeltaType DEF IsLog, RowsIn
  <2>2. DOMAIN w = RowsIn(R, c) /\ DOMAIN v = RowsIn(R, c) \cup {x} /\ v[x] = Delta(S[x])[k]
      BY <1>1
  <2>3. \A id \in RowsIn(R, c) : v[id] = w[id]
      BY <1>1
  <2>4. v[x] \in Nat
      BY <2>2, DeltaType
  <2>5. Sum(R, c, k) = Total(w) /\ Sum(S, c, k) = Total(v)
      BY DEF Sum
  <2>6. Recounted(S, c)[k] = Sum(S, c, k) /\ Recounted(R, c)[k] = Sum(R, c, k)
      BY Counting
  <2> HIDE DEF w, v
  <2>7. Total(v) = Total(w) + v[x]
      BY <1>1, <2>1, <2>2, <2>3, <2>4, TotalMore
  <2> QED
      BY <2>2, <2>5, <2>6, <2>7
<1>4. Recounted(S, c)["requests"] =
        Recounted(R, c)["requests"] + IF Recurrences(R, c)[S[x].req] = 0 THEN 1 ELSE 0
  <2> DEFINE r == S[x].req
  <2>1. r \in Requests
      BY DEF IsRecord
  <2>2. Distinct(S, c) = Distinct(R, c) \cup {r}
      BY <1>1 DEF Distinct
  <2>3. r \in Distinct(R, c) <=> Of(R, c, r) # {}
      BY DEF Distinct, Of
  <2> HIDE DEF r
  <2>4. IsFiniteSet(Distinct(R, c)) /\ IsFiniteSet(Of(R, c, r)) /\ Cardinality(Distinct(R, c)) \in Nat
      BY <2>1, CountingType, FS_CardinalityType
  <2>5. Cardinality(Of(R, c, r)) = 0 <=> Of(R, c, r) = {}
      BY <2>4, FS_EmptySet
  <2>a. Cardinality(Distinct(R, c) \cup {r}) =
            IF r \in Distinct(R, c) THEN Cardinality(Distinct(R, c)) ELSE Cardinality(Distinct(R, c)) + 1
      BY <2>4, FS_AddElement
  <2>6. Cardinality(Distinct(R, c) \cup {r}) = Cardinality(Distinct(R, c)) + IF r \in Distinct(R, c) THEN 0 ELSE 1
      BY <2>4, <2>a
  <2>7. /\ Recurrences(R, c)[r] = Cardinality(Of(R, c, r))
        /\ Recounted(S, c)["requests"] = Cardinality(Distinct(S, c))
        /\ Recounted(R, c)["requests"] = Cardinality(Distinct(R, c))
      BY <2>1, Counting
  <2> QED
      BY <2>2, <2>3, <2>5, <2>6, <2>7 DEF r
<1> QED
    BY <1>2, <1>3, <1>4

-------------------------------------------------------------------------------
\* A row in and out of the statistics of a cell.

\* The cell c of the statistics t says what the rows R say.
Matches(t, R, c) == Counted(t.stats[c]) = Recounted(R, c) /\ t.refs[c] = Recurrences(R, c)

LEMMA Moving ==
    ASSUME NEW cell, NEW delta, NEW sign, NEW n
    PROVE  /\ Moved(cell, delta, sign, n) = [k \in Counters |-> Moved(cell, delta, sign, n)[k]]
           /\ Moved(cell, delta, sign, n)["requests"] = cell["requests"] + n
           /\ \A k \in Counters \ {"requests"} : Moved(cell, delta, sign, n)[k] = cell[k] + sign * delta[k]
<1>1. Moved(cell, delta, sign, n) =
        [k \in Counters |-> cell[k] + IF k = "requests" THEN n ELSE sign * delta[k]]
    BY CountersOfZero DEF Moved
<1>2. "requests" \in Counters
    BY DEF Counters
<1> QED
    BY <1>1, <1>2

\* A cell with counters is not a missing one.
LEMMA RowThere ==
    ASSUME NEW R, IsLog(R), NEW c
    PROVE  Counted(Recounted(R, c)) = Recounted(R, c)
<1>1. Recounted(R, c) \in [Counters -> Int]
    BY Counting, CountingType
<1> QED
    BY <1>1, CountersOfZero, HourlyStatisticsAssumption DEF Counted

LEMMA LogMore ==
    ASSUME NEW R, IsLog(R), NEW x, NEW S, RowMore(R, x, S), IsRecord(S[x])
    PROVE  IsLog(S)
<1>1. IsFiniteSet(DOMAIN R \cup {x})
    BY FS_AddElement DEF IsLog
<1> QED
    BY <1>1 DEF IsLog, RowMore

LEMMA ApplyMatches ==
    ASSUME NEW t, NEW R, IsLog(R), NEW x, NEW S, RowMore(R, x, S), IsRecord(S[x]),
           NEW c \in Cells, Matches(t, R, c)
    PROVE  Matches(Apply(t, S[x]), S, c)
<1> DEFINE row == S[x]
           u == Apply(t, row)
<1>1. CASE c \notin CellsOf(row)
  <2>1. u.stats[c] = t.stats[c] /\ u.refs[c] = t.refs[c]
      BY <1>1 DEF Apply
  <2> HIDE DEF u
  <2>2. Recounted(S, c) = Recounted(R, c) /\ Recurrences(S, c) = Recurrences(R, c)
      BY <1>1, ElsewhereSame
  <2>3. Matches(u, S, c)
      BY <2>1, <2>2 DEF Matches
  <2> QED
      BY <2>3 DEF u
<1>2. CASE c \in CellsOf(row)
  <2> DEFINE n == Bit(t.refs[c][row.req] = 0)
  <2>1. /\ u.refs[c] = [t.refs[c] EXCEPT ![row.req] = @ + 1]
        /\ u.stats[c] = Moved(Counted(t.stats[c]), Delta(row), 1, n)
      BY <1>2 DEF Apply
  <2>2. Counted(t.stats[c]) = Recounted(R, c) /\ t.refs[c] = Recurrences(R, c)
      BY DEF Matches
  <2>3. row.req \in Requests
      BY DEF IsRecord
  <2>4. /\ \A r \in Requests : Recurrences(S, c)[r] = Recurrences(R, c)[r] + IF r = row.req THEN 1 ELSE 0
        /\ \A k \in Counters \ {"requests"} : Recounted(S, c)[k] = Recounted(R, c)[k] + Delta(row)[k]
        /\ Recounted(S, c)["requests"] =
             Recounted(R, c)["requests"] + IF Recurrences(R, c)[row.req] = 0 THEN 1 ELSE 0
      BY <1>2, OneMore
  <2>5. n = IF Recurrences(R, c)[row.req] = 0 THEN 1 ELSE 0
      BY <2>2 DEF Bit
  <2>6. \A k \in Counters \ {"requests"} : Delta(row)[k] \in Nat
      BY DeltaType
  <2>7. \A r \in Requests : Recurrences(R, c)[r] \in Nat
      BY CountingType
  <2> HIDE DEF row, u, n
  <2>8. u.refs[c] = Recurrences(S, c)
    <3>1. DOMAIN Recurrences(R, c) = Requests /\ Recurrences(S, c) = [r \in Requests |-> Recurrences(S, c)[r]]
        BY Counting
    <3>2. u.refs[c] = [r \in Requests |-> IF r = row.req THEN Recurrences(R, c)[r] + 1 ELSE Recurrences(R, c)[r]]
        BY <2>1, <2>2, <3>1
    <3> QED
        BY <2>4, <2>7, <3>1, <3>2
  <2>9. u.stats[c] = Recounted(S, c)
    <3> DEFINE m == Moved(Recounted(R, c), Delta(row), 1, n)
    <3>1. /\ m = [k \in Counters |-> m[k]]
          /\ m["requests"] = Recounted(R, c)["requests"] + n
          /\ \A k \in Counters \ {"requests"} : m[k] = Recounted(R, c)[k] + 1 * Delta(row)[k]
        BY Moving
    <3>2. \A k \in Counters \ {"requests"} : 1 * Delta(row)[k] = Delta(row)[k]
        BY <2>6
    <3>3. u.stats[c] = m
        BY <2>1, <2>2
    <3> HIDE DEF m
    <3>4. \A k \in Counters : m[k] = Recounted(S, c)[k]
        BY <2>4, <2>5, <3>1, <3>2
    <3> QED
        BY <3>1, <3>3, <3>4, Counting
  <2>a. Counted(u.stats[c]) = Recounted(S, c)
      BY <2>9, LogMore, RowThere
  <2>b. Matches(u, S, c)
      BY <2>8, <2>a DEF Matches
  <2> QED
      BY <2>b DEF u, row
<1> QED
    BY <1>1, <1>2

LEMMA RetractMatches ==
    ASSUME NEW t, NEW R, IsLog(R), NEW x, NEW S, RowMore(R, x, S), IsRecord(S[x]),
           NEW c \in Cells, Matches(t, S, c)
    PROVE  Matches(Retract(t, S[x]), R, c)
<1> DEFINE row == S[x]
           u == Retract(t, row)
<1>1. CASE c \notin CellsOf(row)
  <2>1. u.stats[c] = t.stats[c] /\ u.refs[c] = t.refs[c]
      BY <1>1 DEF Retract
  <2> HIDE DEF u
  <2>2. Recounted(S, c) = Recounted(R, c) /\ Recurrences(S, c) = Recurrences(R, c)
      BY <1>1, ElsewhereSame
  <2>3. Matches(u, R, c)
      BY <2>1, <2>2 DEF Matches
  <2> QED
      BY <2>3 DEF u
<1>2. CASE c \in CellsOf(row)
  <2> DEFINE n == Bit(t.refs[c][row.req] = 1)
  <2>2. Counted(t.stats[c]) = Recounted(S, c) /\ t.refs[c] = Recurrences(S, c)
      BY DEF Matches
  <2>3. row.req \in Requests
      BY DEF IsRecord
  <2>4. /\ \A r \in Requests : Recurrences(S, c)[r] = Recurrences(R, c)[r] + IF r = row.req THEN 1 ELSE 0
        /\ \A k \in Counters \ {"requests"} : Recounted(S, c)[k] = Recounted(R, c)[k] + Delta(row)[k]
        /\ Recounted(S, c)["requests"] =
             Recounted(R, c)["requests"] + IF Recurrences(R, c)[row.req] = 0 THEN 1 ELSE 0
      BY <1>2, OneMore
  <2>6. \A k \in Counters \ {"requests"} : Delta(row)[k] \in Nat
      BY DeltaType
  <2>7. /\ \A r \in Requests : Recurrences(R, c)[r] \in Nat
        /\ \A k \in Counters : Recounted(R, c)[k] \in Nat
      BY CountingType
  <2>c. t.refs[c][row.req] = Recurrences(R, c)[row.req] + 1
      BY <2>2, <2>3, <2>4
  <2>d. t.stats[c] # NoRow
    <3>1. Recounted(S, c)["requests"] # 0
      <4>1. Recounted(S, c)["requests"] = Cardinality(Distinct(S, c))
          BY Counting
      <4>2. IsLog(S) /\ x \in RowsIn(S, c)
          BY <1>2, LogMore DEF RowsIn, RowMore
      <4>3. IsFiniteSet(Distinct(S, c)) /\ Distinct(S, c) # {}
          BY <4>2, CountingType DEF Distinct
      <4> QED
          BY <4>1, <4>3, FS_EmptySet
    <3>2. Zero["requests"] = 0
        BY CountersOfZero DEF Counters
    <3> QED
        BY <2>2, <3>1, <3>2 DEF Counted
  <2>1. /\ u.refs[c] = [t.refs[c] EXCEPT ![row.req] = @ - 1]
        /\ u.stats[c] = Moved(t.stats[c], Delta(row), -1, -n)
    <3>1. t.refs[c][row.req] > 0
        BY <2>c, <2>3, <2>7
    <3> QED
        BY <1>2, <2>d, <3>1 DEF Retract
  <2>e. n = IF Recurrences(R, c)[row.req] = 0 THEN 1 ELSE 0
      BY <2>c, <2>3, <2>7 DEF Bit
  <2>f. t.stats[c] = Recounted(S, c)
      BY <2>2, <2>d DEF Counted
  <2> HIDE DEF row, u, n
  <2>8. u.refs[c] = Recurrences(R, c)
    <3>1. DOMAIN Recurrences(S, c) = Requests /\ Recurrences(R, c) = [r \in Requests |-> Recurrences(R, c)[r]]
        BY Counting
    <3>2. u.refs[c] = [r \in Requests |-> IF r = row.req THEN Recurrences(S, c)[r] - 1 ELSE Recurrences(S, c)[r]]
        BY <2>1, <2>2, <3>1
    <3>3. \A r \in Requests :
            (IF r = row.req THEN Recurrences(S, c)[r] - 1 ELSE Recurrences(S, c)[r]) = Recurrences(R, c)[r]
        BY <2>4, <2>7
    <3> QED
        BY <3>1, <3>2, <3>3
  <2>9. u.stats[c] = Recounted(R, c)
    <3> DEFINE sign == -1
               less == -n
               m == Moved(Recounted(S, c), Delta(row), sign, less)
    <3>0. u.stats[c] = m
        BY <2>1, <2>f
    <3> HIDE DEF sign, less
    <3>c. /\ m = [k \in Counters |-> m[k]]
          /\ m["requests"] = Recounted(S, c)["requests"] + less
          /\ \A k \in Counters \ {"requests"} : m[k] = Recounted(S, c)[k] + sign * Delta(row)[k]
        BY Moving
    <3> HIDE DEF m
    <3>1. sign = -1 /\ less = -n
        BY DEF sign, less
    <3>2. \A k \in Counters \ {"requests"} : m[k] = Recounted(R, c)[k]
      <4> TAKE k \in Counters \ {"requests"}
      <4>1. /\ m[k] = Recounted(S, c)[k] + sign * Delta(row)[k]
            /\ Recounted(S, c)[k] = Recounted(R, c)[k] + Delta(row)[k]
          BY <2>4, <3>c
      <4>2. Delta(row)[k] \in Nat /\ Recounted(R, c)[k] \in Nat
          BY <2>6, <2>7
      <4>3. sign * Delta(row)[k] = -Delta(row)[k]
          BY <3>1, <4>2
      <4> QED
          BY <4>1, <4>2, <4>3
    <3>a. "requests" \in Counters
        BY DEF Counters
    <3>b. m["requests"] = Recounted(R, c)["requests"]
      <4>1. m["requests"] = Recounted(S, c)["requests"] + less
          BY <3>c
      <4>2. Recounted(R, c)["requests"] \in Nat /\ Recounted(S, c)["requests"] = Recounted(R, c)["requests"] + n
          BY <2>4, <2>7, <2>e, <3>a
      <4> QED
          BY <2>e, <3>1, <4>1, <4>2
    <3>4. \A k \in Counters : m[k] = Recounted(R, c)[k]
        BY <3>2, <3>b
    <3> QED
        BY <3>0, <3>c, <3>4, Counting
  <2>a. Counted(u.stats[c]) = Recounted(R, c)
      BY <2>9, RowThere
  <2>b. Matches(u, R, c)
      BY <2>8, <2>a DEF Matches
  <2> QED
      BY <2>b DEF u, row
<1> QED
    BY <1>1, <1>2

\* An update is a retraction and an application.
LEMMA ReplaceMatches ==
    ASSUME NEW t, NEW R, IsLog(R), NEW x \in DOMAIN R, NEW S, DOMAIN S = DOMAIN R, IsRecord(S[x]),
           \A id \in DOMAIN R \ {x} : S[id] = R[id], NEW c \in Cells, Matches(t, R, c)
    PROVE  Matches(Replace(t, R[x], S[x]), S, c)
<1> DEFINE Q == Without(R, {x})
<1>1. RowMore(Q, x, R) /\ RowMore(Q, x, S)
    BY DEF RowMore, Without
<1>2. IsLog(Q) /\ IsRecord(R[x])
  <2>1. DOMAIN Q \subseteq DOMAIN R /\ \A id \in DOMAIN Q : Q[id] = R[id]
      BY DEF Without
  <2>2. IsFiniteSet(DOMAIN Q)
      BY <2>1, FS_Subset DEF IsLog
  <2> QED
      BY <2>1, <2>2 DEF IsLog
<1> HIDE DEF Q
<1>3. Matches(Retract(t, R[x]), Q, c)
    BY <1>1, <1>2, RetractMatches
<1>4. Matches(Apply(Retract(t, R[x]), S[x]), S, c)
    BY <1>1, <1>2, <1>3, ApplyMatches
<1> QED
    BY <1>4 DEF Replace

-------------------------------------------------------------------------------
\* The rows as records, and the attempts of the requests.

Records ==
    /\ hour \in Hours /\ lastRow <= MaxRows /\ torn \in BOOLEAN
    /\ {"stats", "refs"} \subseteq DOMAIN tables
    /\ rows = [id \in DOMAIN rows |-> rows[id]] /\ \A id \in DOMAIN rows : IsRecord(rows[id])
    /\ \A t \in Threads : jobs[t].todo \subseteq 1..lastArchive

Phases == {"new", "queued", "running", "retrying", "done"}

\* A request has at most one row for an attempt, and none for an attempt it has not made.
Attempts ==
    /\ phase \in [Requests -> Phases] /\ attempt \in [Requests -> {0, 1}]
    /\ \A r \in Requests : phase[r] = "retrying" => attempt[r] = 1
    /\ \A i, j \in DOMAIN rows : rows[i].req = rows[j].req /\ rows[i].att = rows[j].att => i = j
    /\ \A id \in DOMAIN rows :
        /\ phase[rows[id].req] # "new" /\ rows[id].att <= attempt[rows[id].req]
        /\ phase[rows[id].req] = "retrying" => rows[id].att = 0

\* The cells that are right while the server serves.
Shown == IF torn THEN Aggregate ELSE Cells
Exact == \A c \in Shown : Matches(tables, rows, c)
Unfilled == DOMAIN rows # {} /\ \A c \in Cells : tables.stats[c] = NoRow

\* The statistics are right, or empty before a refill, or at a step of it.
Statistics ==
    /\ server # "aggregated" => Exact \/ Unfilled
    /\ server = "up" => Exact
    /\ server \in {"emptied", "referred"} => Unfilled
    /\ server \in {"referred", "aggregated"} => \A c \in Cells : tables.refs[c] = Recurrences(rows, c)
    /\ server = "aggregated" => \A c \in Cells :
        tables.stats[c] = IF c \in Aggregate /\ RowsIn(rows, c) # {} THEN Recounted(rows, c) ELSE NoRow

LEMMA RowsAreLog ==
    ASSUME IInv, Records
    PROVE  IsLog(rows)
<1>1. lastRow \in Int /\ 1 \in Int /\ DOMAIN rows \subseteq 1..lastRow
    BY DEF IInv, Shape
<1>2. IsFiniteSet(1..lastRow)
    BY <1>1, FS_Interval
<1>3. IsFiniteSet(DOMAIN rows)
    BY <1>1, <1>2, FS_Subset
<1> QED
    BY <1>3 DEF IsLog, Records

LEMMA OldRecord ==
    ASSUME NEW r \in Requests, NEW up \in Upstreams, NEW hot
    PROVE  IsRecord(Old(r, up, hot)) /\ Old(r, up, hot).req = r /\ Old(r, up, hot).att = 0
<1> DEFINE row == Row(r, 0, "success", up, 0, FALSE)
<1>1. IsRecord(row) /\ row.req = r /\ row.att = 0
    BY LogStorageAssumption DEF Row, IsRecord, Attributes, Statuses
<1>2. Old(r, up, hot) = [row EXCEPT !.hot = hot]
    BY DEF Old
<1> HIDE DEF row
<1> QED
    BY <1>1, <1>2 DEF IsRecord, Attributes

LEMMA InitStatistics == Init => Records /\ Attempts /\ Statistics
<1> SUFFICES ASSUME Init PROVE Records /\ Attempts /\ Statistics
    OBVIOUS
<1>1. /\ rows = [id \in DOMAIN rows |-> rows[id]] /\ DOMAIN rows \subseteq {1}
      /\ \A id \in DOMAIN rows : IsRecord(rows[id]) /\ rows[id].att = 0
  <2>1. CASE rows = <<>>
    <3>1. DOMAIN rows = {}
        BY <2>1
    <3>2. <<>> = [id \in {} |-> 0] /\ [id \in {} |-> rows[id]] = [id \in {} |-> 0]
        OBVIOUS
    <3> QED
        BY <2>1, <3>1, <3>2
  <2>2. ASSUME NEW r \in WithPayload, NEW up \in Upstreams, NEW hot, rows = Only(1, Old(r, up, hot))
        PROVE  /\ rows = [id \in DOMAIN rows |-> rows[id]] /\ DOMAIN rows = {1}
               /\ IsRecord(rows[1]) /\ rows[1].att = 0
    <3>1. rows = [id \in DOMAIN rows |-> rows[id]] /\ DOMAIN rows = {1} /\ rows[1] = Old(r, up, hot)
        BY <2>2 DEF Only
    <3>2. r \in Requests
        BY LogStorageAssumption
    <3>3. IsRecord(Old(r, up, hot)) /\ Old(r, up, hot).att = 0
        BY <3>2, OldRecord
    <3>4. IsRecord(rows[1]) /\ rows[1].att = 0
        BY <3>1, <3>3, Zenon
    <3> QED
        BY <3>1, <3>4
  <2> QED
      BY <2>1, <2>2 DEF Init
<1>2. Records
  <2>1. \A t \in Threads : jobs[t].todo = {}
      BY DEF Init, Idle
  <2>2. hour \in Hours /\ torn \in BOOLEAN
      BY LogStorageAssumption DEF Init
  <2>3. lastRow <= MaxRows
    <3>1. lastRow = Cardinality(DOMAIN rows)
        BY DEF Init
    <3>2. DOMAIN rows = {} \/ DOMAIN rows = {1}
        BY <1>1
    <3>3. lastRow \in {0, 1}
        BY <3>1, <3>2, FS_EmptySet, FS_Singleton
    <3> QED
        BY <3>3, LogStorageAssumption
  <2>4. {"stats", "refs"} \subseteq DOMAIN tables
      BY DEF Init, NoStatistics
  <2> QED
      BY <1>1, <2>1, <2>2, <2>3, <2>4 DEF Records
<1>3. Attempts
  <2>1. /\ phase \in [Requests -> {"new", "done"}] /\ attempt = [r \in Requests |-> 0]
        /\ \A id \in DOMAIN rows : rows[id].req \in Requests => phase[rows[id].req] = "done"
      BY DEF Init
  <2>2. \A id \in DOMAIN rows : rows[id].req \in Requests
      BY <1>1 DEF IsRecord
  <2> QED
      BY <1>1, <2>1, <2>2 DEF Attempts, Phases
<1>4. Statistics
  <2>1. server = "down" /\ tables = NoStatistics
      BY DEF Init
  <2>2. \A c \in Cells : tables.stats[c] = NoRow /\ tables.refs[c] = [r \in Requests |-> 0]
      BY <2>1 DEF NoStatistics
  <2>3. ASSUME DOMAIN rows = {}, NEW c \in Cells PROVE Matches(tables, rows, c)
    <3>1. RowsIn(rows, c) = {}
        BY <2>3 DEF RowsIn
    <3>2. Recounted(rows, c) = Zero /\ Recurrences(rows, c) = [r \in Requests |-> 0]
        BY <3>1, NothingToCount, Counting
    <3> QED
        BY <2>2, <3>2 DEF Matches, Counted
  <2>4. Shown \subseteq Cells
      BY DEF Shown, Aggregate, Cells
  <2> QED
      BY <2>1, <2>2, <2>3, <2>4 DEF Statistics, Exact, Unfilled
<1> QED
    BY <1>2, <1>3, <1>4

\* A step that writes no counted column and adds no row.
Thinned ==
    /\ rows' = [id \in DOMAIN rows' |-> rows'[id]] /\ DOMAIN rows' \subseteq DOMAIN rows
    /\ \A id \in DOMAIN rows' :
        /\ Attributes \subseteq DOMAIN rows'[id]
        /\ \A k \in Attributes : rows'[id][k] = rows[id][k]

LEMMA ThinnedRecords ==
    ASSUME Records, Thinned
    PROVE  \A id \in DOMAIN rows' :
            /\ IsRecord(rows'[id])
            /\ \A k \in Attributes : rows'[id][k] = rows[id][k]
BY DEF Records, Thinned, IsRecord, Attributes

\* A step that writes flags or nothing into the rows.
LEMMA FlagsThin ==
    ASSUME Records, NEW new, rows' = [id \in DOMAIN rows |-> new[id]],
           \A id \in DOMAIN rows :
                Attributes \subseteq DOMAIN new[id] /\ \A k \in Attributes : new[id][k] = rows[id][k]
    PROVE  Thinned /\ DOMAIN rows' = DOMAIN rows
BY DEF Thinned

LEMMA SameThin ==
    ASSUME Records, rows' = rows
    PROVE  Thinned /\ DOMAIN rows' = DOMAIN rows
BY DEF Thinned, Records, IsRecord

LEMMA ArchivePartThins ==
    ASSUME Records, NEW t \in Threads, ArchivePart(t)
    PROVE  Thinned /\ DOMAIN rows' = DOMAIN rows
<1> DEFINE ids == StillDue(Head(jobs[t].parts))
<1>1. rows' = rows \/ rows' = [i \in DOMAIN rows |->
                                IF i \in ids THEN [rows[i] EXCEPT !.hot = FALSE, !.bytes = FALSE] ELSE rows[i]]
    BY DEF ArchivePart, stored
<1>2. CASE rows' = rows
    BY <1>2, SameThin
<1>3. CASE rows' # rows
  <2> HIDE DEF ids
  <2> DEFINE new == [i \in DOMAIN rows |->
                        IF i \in ids THEN [rows[i] EXCEPT !.hot = FALSE, !.bytes = FALSE] ELSE rows[i]]
  <2>1. \A i \in DOMAIN rows : Attributes \subseteq DOMAIN new[i] /\ \A k \in Attributes : new[i][k] = rows[i][k]
      BY DEF Records, IsRecord, Attributes
  <2>2. rows' = [i \in DOMAIN rows |-> new[i]]
      BY <1>1, <1>3
  <2> HIDE DEF new
  <2> QED
      BY <2>1, <2>2, FlagsThin
<1> QED
    BY <1>2, <1>3

LEMMA ClearPayloadsThins ==
    ASSUME Records, NEW t \in Threads, NEW before, NEW sizes, ClearPayloads(t, before, sizes)
    PROVE  Thinned /\ DOMAIN rows' = DOMAIN rows
<1> DEFINE ids == {id \in DOMAIN rows : id < before /\ rows[id].avail /\ rows[id].req \in sizes}
           new == [id \in DOMAIN rows |->
                    IF id \in ids THEN [rows[id] EXCEPT !.hot = FALSE, !.bytes = FALSE, !.avail = FALSE]
                    ELSE rows[id]]
<1>1. rows' = [id \in DOMAIN rows |-> new[id]]
    BY DEF ClearPayloads
<1> HIDE DEF ids
<1>2. \A i \in DOMAIN rows : Attributes \subseteq DOMAIN new[i] /\ \A k \in Attributes : new[i][k] = rows[i][k]
    BY DEF Records, IsRecord, Attributes
<1> HIDE DEF new
<1> QED
    BY <1>1, <1>2, FlagsThin

LEMMA MigrationsThin ==
    ASSUME Records, MigrateKey \/ MigrateBytes \/ MigrateAvailable
    PROVE  Thinned /\ DOMAIN rows' = DOMAIN rows
<1> DEFINE set(id) == id \in DOMAIN archiveOf \/ rows[id].bytes \/ rows[id].hot
           key == [id \in DOMAIN rows |->
                    IF version = -1 THEN [rows[id] EXCEPT !.bytes = @ \/ rows[id].hot, !.avail = rows[id].bytes \/ rows[id].hot]
                    ELSE rows[id]]
           bytes == [id \in DOMAIN rows |->
                      IF version < 2 /\ rows[id].hot THEN [rows[id] EXCEPT !.bytes = TRUE] ELSE rows[id]]
           avail == [id \in DOMAIN rows |->
                      IF version < 2 THEN [rows[id] EXCEPT !.avail = set(id)] ELSE rows[id]]
<1>1. CASE MigrateKey
  <2>1. rows' = [id \in DOMAIN rows |-> key[id]]
      BY <1>1 DEF MigrateKey
  <2>2. \A i \in DOMAIN rows : Attributes \subseteq DOMAIN key[i] /\ \A k \in Attributes : key[i][k] = rows[i][k]
      BY DEF Records, IsRecord, Attributes
  <2> HIDE DEF key
  <2> QED
      BY <2>1, <2>2, FlagsThin
<1>2. CASE MigrateBytes
  <2>1. rows' = [id \in DOMAIN rows |-> bytes[id]]
      BY <1>2 DEF MigrateBytes
  <2>2. \A i \in DOMAIN rows : Attributes \subseteq DOMAIN bytes[i] /\ \A k \in Attributes : bytes[i][k] = rows[i][k]
      BY DEF Records, IsRecord, Attributes
  <2> HIDE DEF bytes
  <2> QED
      BY <2>1, <2>2, FlagsThin
<1>3. CASE MigrateAvailable
  <2>1. rows' = [id \in DOMAIN rows |-> avail[id]]
      BY <1>3 DEF MigrateAvailable
  <2> HIDE DEF set
  <2>2. \A i \in DOMAIN rows : Attributes \subseteq DOMAIN avail[i] /\ \A k \in Attributes : avail[i][k] = rows[i][k]
      BY DEF Records, IsRecord, Attributes
  <2> HIDE DEF avail
  <2> QED
      BY <2>1, <2>2, FlagsThin
<1> QED
    BY <1>1, <1>2, <1>3

LEMMA CleanupBatchThins ==
    ASSUME Records, NEW t \in Threads, CleanupBatch(t)
    PROVE  Thinned
<1>1. rows' = rows \/ rows' = Without(rows, Batch(jobs[t]))
    BY DEF CleanupBatch, stored
<1>2. CASE rows' = rows
    BY <1>2, SameThin
<1>3. CASE rows' = Without(rows, Batch(jobs[t]))
    BY <1>3 DEF Without, Thinned, Records, IsRecord
<1> QED
    BY <1>1, <1>2, <1>3

-------------------------------------------------------------------------------
\* The event loop's writes.

LEMMA ServingExact ==
    ASSUME server' = "up", Exact'
    PROVE  Statistics'
BY DEF Statistics

\* Columns an update may name, with proper values.
IsChange(changes) ==
    /\ DOMAIN changes \subseteq {"status", "upstream", "retried"}
    /\ "status" \in DOMAIN changes => changes["status"] \in Statuses
    /\ "upstream" \in DOMAIN changes => changes["upstream"] \in Upstreams
    /\ "retried" \in DOMAIN changes => changes["retried"] \in BOOLEAN

LEMMA ChangedRecord ==
    ASSUME NEW row, IsRecord(row), NEW changes, IsChange(changes)
    PROVE  /\ IsRecord(Over(changes, row))
           /\ Over(changes, row).req = row.req /\ Over(changes, row).att = row.att
<1> DEFINE new == Over(changes, row)
<1>1. /\ Attributes \subseteq DOMAIN new
      /\ \A k \in Attributes : new[k] = IF k \in DOMAIN changes THEN changes[k] ELSE row[k]
    BY DEF Over, IsRecord
<1>2. new.req = row.req /\ new.att = row.att /\ new.hour = row.hour
    BY <1>1 DEF IsChange, Attributes
<1>3. new.status \in Statuses /\ new.upstream \in Upstreams \cup {NoUpstream} /\ new.retried \in BOOLEAN
    BY <1>1 DEF IsChange, IsRecord, Attributes
<1> HIDE DEF new
<1>4. IsRecord(new)
    BY <1>1, <1>2, <1>3 DEF IsRecord
<1> QED
    BY <1>2, <1>4 DEF new

LEMMA InsertShape ==
    ASSUME IInv, Records, NEW row, Insert(row)
    PROVE  /\ RowMore(rows, lastRow + 1, rows') /\ rows'[lastRow + 1] = row
           /\ rows' = [id \in DOMAIN rows' |-> rows'[id]] /\ lastRow' <= MaxRows
           /\ tables' = Apply(tables, rows'[lastRow + 1])
           /\ UNCHANGED <<lastArchive, server, jobs, torn>>
<1>1. /\ rows' = Over(Only(lastRow + 1, row), rows) /\ lastRow' = lastRow + 1 /\ lastRow < MaxRows
      /\ tables' = Apply(tables, row) /\ UNCHANGED <<lastArchive, server, jobs, torn>>
    BY DEF Insert
<1>2. lastRow + 1 \notin DOMAIN rows
    BY DEF IInv, Shape
<1>3. /\ DOMAIN rows' = {lastRow + 1} \cup DOMAIN rows /\ rows'[lastRow + 1] = row
      /\ \A id \in DOMAIN rows : rows'[id] = rows[id]
      /\ rows' = [id \in DOMAIN rows' |-> rows'[id]]
    BY <1>1, <1>2 DEF Over, Only
<1>4. lastRow' <= MaxRows
    BY <1>1, LogStorageAssumption DEF IInv, Shape
<1> QED
    BY <1>1, <1>2, <1>3, <1>4 DEF RowMore

LEMMA InsertCounts ==
    ASSUME IInv, Records, Attempts, Statistics, Up, NEW row, IsRecord(row), Insert(row),
           NEW p \in Phases \ {"new", "retrying"}, phase' = [phase EXCEPT ![row.req] = p],
           UNCHANGED <<hour, attempt>>, row.att <= attempt[row.req],
           \A id \in DOMAIN rows : rows[id].req = row.req => rows[id].att # row.att
    PROVE  Records' /\ Attempts' /\ Statistics'
<1> DEFINE x == lastRow + 1
<1>1. /\ RowMore(rows, x, rows') /\ rows'[x] = row
      /\ rows' = [id \in DOMAIN rows' |-> rows'[id]] /\ lastRow' <= MaxRows
      /\ tables' = Apply(tables, rows'[x])
      /\ UNCHANGED <<lastArchive, server, jobs, torn>>
    BY InsertShape
<1> HIDE DEF x
<1>2. /\ DOMAIN rows' = DOMAIN rows \cup {x} /\ x \notin DOMAIN rows
      /\ \A id \in DOMAIN rows : rows'[id] = rows[id]
    BY <1>1 DEF RowMore
<1>3. Records'
  <2>1. {"stats", "refs"} \subseteq DOMAIN tables'
      BY <1>1 DEF Apply
  <2>2. \A id \in DOMAIN rows' : IsRecord(rows'[id])
      BY <1>1, <1>2, Zenon DEF Records
  <2>3. \A t \in Threads : jobs'[t].todo \subseteq 1..lastArchive'
      BY <1>1 DEF Records
  <2> QED
      BY <1>1, <2>1, <2>2, <2>3 DEF Records
<1>4. Attempts'
  <2>1. /\ row.req \in Requests /\ row.att \in {0, 1}
        /\ \A id \in DOMAIN rows : rows[id].req \in Requests
      BY DEF IsRecord, Records
  <2>2. phase' \in [Requests -> Phases] /\ phase'[row.req] = p /\ \A r \in Requests \ {row.req} : phase'[r] = phase[r]
      BY <2>1 DEF Attempts
  <2>3. attempt' \in [Requests -> {0, 1}] /\ \A r \in Requests : phase'[r] = "retrying" => attempt'[r] = 1
      BY <2>2 DEF Attempts
  <2>4. \A i, j \in DOMAIN rows' : rows'[i].req = rows'[j].req /\ rows'[i].att = rows'[j].att => i = j
    <3> TAKE i, j \in DOMAIN rows'
    <3>1. CASE i = x \/ j = x
        BY <1>1, <1>2, <3>1
    <3>2. CASE i # x /\ j # x
        BY <1>2, <3>2 DEF Attempts
    <3> QED
        BY <3>1, <3>2
  <2>5. ASSUME NEW id \in DOMAIN rows'
        PROVE  /\ phase'[rows'[id].req] # "new" /\ rows'[id].att <= attempt'[rows'[id].req]
               /\ phase'[rows'[id].req] = "retrying" => rows'[id].att = 0
    <3>1. CASE id = x
        BY <1>1, <2>2, <3>1
    <3>2. CASE id # x
        BY <1>2, <2>1, <2>2, <3>2 DEF Attempts
    <3> QED
        BY <3>1, <3>2
  <2> QED
      BY <2>2, <2>3, <2>4, <2>5 DEF Attempts
<1>5. Exact'
  <2>1. Shown' = Shown /\ Shown \subseteq Cells
      BY <1>1 DEF Shown, Aggregate, Cells
  <2>2. ASSUME NEW c \in Shown PROVE Matches(tables', rows', c)
    <3>1. c \in Cells /\ Matches(tables, rows, c)
        BY <2>1 DEF Statistics, Exact, Up
    <3>2. IsLog(rows)
        BY RowsAreLog
    <3>3. Matches(Apply(tables, rows'[x]), rows', c)
        BY <1>1, <3>1, <3>2, ApplyMatches
    <3> QED
        BY <1>1, <3>3
  <2> QED
      BY <2>1, <2>2 DEF Exact
<1> QED
    BY <1>1, <1>3, <1>4, <1>5, ServingExact DEF Up

LEMMA WriteShape ==
    ASSUME IInv, Records, Attempts, NEW r \in Requests, NEW changes, IsChange(changes), Write(r, changes)
    PROVE  /\ rows' = [id \in DOMAIN rows' |-> rows'[id]] /\ DOMAIN rows' = DOMAIN rows
           /\ \A id \in DOMAIN rows :
                IsRecord(rows'[id]) /\ rows'[id].req = rows[id].req /\ rows'[id].att = rows[id].att
           /\ \/ rows' = rows /\ tables' = tables
              \/ \E id \in DOMAIN rows :
                    /\ \A j \in DOMAIN rows \ {id} : rows'[j] = rows[j]
                    /\ tables' = Replace(tables, rows[id], rows'[id])
           /\ UNCHANGED <<lastRow, lastArchive, server, jobs, torn>>
<1> DEFINE mine == RowsOf(r, attempt[r])
           the == CHOOSE x \in mine : TRUE
<1>1. rows' = [id \in DOMAIN rows |-> IF id \in mine THEN Over(changes, rows[id]) ELSE rows[id]]
    BY DEF Write
<1>2. tables' = IF mine = {} THEN tables ELSE Replace(tables, rows[the], Over(changes, rows[the]))
    BY DEF Write
<1>3. \A i, j \in mine : i = j
    BY DEF RowsOf, Attempts
<1>4. mine \subseteq DOMAIN rows /\ (mine # {} => the \in mine)
    BY DEF RowsOf
<1> HIDE DEF mine, the
<1>5. \A id \in DOMAIN rows :
        IsRecord(rows'[id]) /\ rows'[id].req = rows[id].req /\ rows'[id].att = rows[id].att
    BY <1>1, ChangedRecord DEF Records
<1>6. rows' = [id \in DOMAIN rows' |-> rows'[id]] /\ DOMAIN rows' = DOMAIN rows
    BY <1>1
<1>7. CASE mine = {}
  <2>1. rows' = [id \in DOMAIN rows |-> rows[id]]
      BY <1>1, <1>7
  <2>2. rows' = rows /\ tables' = tables
      BY <1>2, <1>7, <2>1 DEF Records
  <2> QED
      BY <1>5, <1>6, <2>2 DEF Write
<1>8. CASE mine # {}
  <2>1. the \in DOMAIN rows /\ \A j \in DOMAIN rows \ {the} : rows'[j] = rows[j]
      BY <1>1, <1>3, <1>4, <1>8
  <2>2. rows'[the] = Over(changes, rows[the])
      BY <1>1, <1>4, <1>8
  <2>3. tables' = Replace(tables, rows[the], rows'[the])
      BY <1>2, <1>8, <2>2
  <2> QED
      BY <1>5, <1>6, <2>1, <2>3 DEF Write
<1> QED
    BY <1>7, <1>8

LEMMA WriteCounts ==
    ASSUME IInv, Records, Attempts, Statistics, Up, NEW r \in Requests,
           NEW changes, IsChange(changes), Write(r, changes),
           NEW p \in Phases \ {"new"}, phase' = [phase EXCEPT ![r] = p], UNCHANGED hour,
           \/ p # "retrying" /\ attempt' = attempt
           \/ attempt' = [attempt EXCEPT ![r] = 1] /\ attempt[r] = 0
    PROVE  Records' /\ Attempts' /\ Statistics'
<1>1. /\ rows' = [id \in DOMAIN rows' |-> rows'[id]] /\ DOMAIN rows' = DOMAIN rows
      /\ \A id \in DOMAIN rows :
            IsRecord(rows'[id]) /\ rows'[id].req = rows[id].req /\ rows'[id].att = rows[id].att
      /\ UNCHANGED <<lastRow, lastArchive, server, jobs, torn>>
    BY WriteShape
<1>2. \/ rows' = rows /\ tables' = tables
      \/ \E id \in DOMAIN rows :
            /\ \A j \in DOMAIN rows \ {id} : rows'[j] = rows[j]
            /\ tables' = Replace(tables, rows[id], rows'[id])
    BY WriteShape
<1>3. Records'
  <2>1. {"stats", "refs"} \subseteq DOMAIN tables'
      BY <1>2 DEF Records, Replace, Apply
  <2>2. \A t \in Threads : jobs'[t].todo \subseteq 1..lastArchive'
      BY <1>1 DEF Records
  <2>3. hour' \in Hours /\ lastRow' <= MaxRows /\ torn' \in BOOLEAN
      BY <1>1 DEF Records
  <2> QED
      BY <1>1, <2>1, <2>2, <2>3 DEF Records
<1>4. Attempts'
  <2>1. \A id \in DOMAIN rows : rows[id].req \in Requests /\ rows[id].att \in {0, 1}
      BY DEF IsRecord, Records
  <2>2. phase' \in [Requests -> Phases] /\ phase'[r] = p /\ \A s \in Requests \ {r} : phase'[s] = phase[s]
      BY DEF Attempts
  <2>3. attempt' \in [Requests -> {0, 1}] /\ \A s \in Requests \ {r} : attempt'[s] = attempt[s]
      BY DEF Attempts
  <2>4. attempt'[r] >= attempt[r] /\ (p = "retrying" => attempt[r] = 0 /\ attempt'[r] = 1)
      BY DEF Attempts
  <2>5. \A i, j \in DOMAIN rows' : rows'[i].req = rows'[j].req /\ rows'[i].att = rows'[j].att => i = j
      BY <1>1 DEF Attempts
  <2>6. ASSUME NEW id \in DOMAIN rows'
        PROVE  /\ phase'[rows'[id].req] # "new" /\ rows'[id].att <= attempt'[rows'[id].req]
               /\ phase'[rows'[id].req] = "retrying" => rows'[id].att = 0
    <3>1. /\ id \in DOMAIN rows /\ rows'[id].req = rows[id].req /\ rows'[id].att = rows[id].att
          /\ rows[id].req \in Requests /\ rows[id].att \in {0, 1}
          /\ phase[rows[id].req] # "new" /\ rows[id].att <= attempt[rows[id].req]
          /\ phase[rows[id].req] = "retrying" => rows[id].att = 0
        BY <1>1, <2>1 DEF Attempts
    <3>2. CASE rows[id].req = r
        BY <2>2, <2>3, <2>4, <3>1, <3>2 DEF Attempts
    <3>3. CASE rows[id].req # r
        BY <2>2, <2>3, <3>1, <3>3
    <3> QED
        BY <3>2, <3>3
  <2>7. \A s \in Requests : phase'[s] = "retrying" => attempt'[s] = 1
      BY <2>2, <2>3, <2>4 DEF Attempts
  <2> QED
      BY <2>2, <2>3, <2>5, <2>6, <2>7 DEF Attempts
<1>5. Exact'
  <2>1. Shown' = Shown /\ Shown \subseteq Cells
      BY <1>1 DEF Shown, Aggregate, Cells
  <2>2. ASSUME NEW c \in Shown PROVE Matches(tables', rows', c)
    <3>1. c \in Cells /\ Matches(tables, rows, c)
        BY <2>1 DEF Statistics, Exact, Up
    <3>2. CASE rows' = rows /\ tables' = tables
        BY <3>1, <3>2
    <3>3. CASE ~(rows' = rows /\ tables' = tables)
      <4>1. PICK id \in DOMAIN rows :
                /\ \A j \in DOMAIN rows \ {id} : rows'[j] = rows[j]
                /\ tables' = Replace(tables, rows[id], rows'[id])
          BY <1>2, <3>3
      <4>2. IsLog(rows) /\ IsRecord(rows'[id]) /\ DOMAIN rows' = DOMAIN rows
          BY <1>1, RowsAreLog
      <4>3. Matches(Replace(tables, rows[id], rows'[id]), rows', c)
          BY <3>1, <4>1, <4>2, ReplaceMatches
      <4> QED
          BY <4>1, <4>3
    <3> QED
        BY <3>2, <3>3
  <2> QED
      BY <2>1, <2>2 DEF Exact
<1> QED
    BY <1>1, <1>3, <1>4, <1>5, ServingExact DEF Up

LEMMA NewRow ==
    ASSUME IInv, Records, Attempts, Statistics, Up, NEW r \in Requests, phase[r] = "new",
           NEW status \in {"queued", "rejected"},
           Insert(Row(r, 0, status, NoUpstream, hour, r \in WithPayload)),
           NEW p \in {"queued", "done"}, phase' = [phase EXCEPT ![r] = p], UNCHANGED <<hour, attempt>>
    PROVE  Records' /\ Attempts' /\ Statistics'
<1> DEFINE row == Row(r, 0, status, NoUpstream, hour, r \in WithPayload)
<1>1. IsRecord(row) /\ row.req = r /\ row.att = 0
    BY DEF Row, IsRecord, Attributes, Statuses, Records
<1>2. \A id \in DOMAIN rows : rows[id].req # r
    BY DEF Attempts
<1>3. row.att <= attempt[r]
    BY <1>1 DEF Attempts
<1>4. Insert(row) /\ p \in Phases \ {"new", "retrying"}
    BY DEF Phases
<1> HIDE DEF row
<1> QED
    BY <1>1, <1>2, <1>3, <1>4, InsertCounts

LEMMA LoopCounts ==
    ASSUME IInv, Records, Attempts, Statistics, NEW r \in Requests,
           \/ \E status \in {"queued", "rejected"} : Log(r, status)
           \/ \E source \in Requests : Replay(r, source)
           \/ \E up \in Upstreams : MarkRunning(r, up) \/ RetryAttempt(r, up)
           \/ MarkSuccess(r) \/ MarkFailed(r) \/ MarkRejected(r) \/ RetryFailure(r)
    PROVE  Records' /\ Attempts' /\ Statistics'
<1> DEFINE Goal == Records' /\ Attempts' /\ Statistics'
<1>1. ASSUME NEW status \in {"queued", "rejected"}, Log(r, status) PROVE Goal
  <2>1. PICK p \in {"queued", "done"} : phase' = [phase EXCEPT ![r] = p]
      BY <1>1 DEF Log
  <2>2. /\ Up /\ phase[r] = "new" /\ Insert(Row(r, 0, status, NoUpstream, hour, r \in WithPayload))
        /\ UNCHANGED <<hour, attempt>>
      BY <1>1 DEF Log
  <2> QED
      BY <2>1, <2>2, NewRow
<1>2. ASSUME NEW source, Replay(r, source) PROVE Goal
  <2>1. /\ Up /\ phase[r] = "new" /\ Insert(Row(r, 0, "queued", NoUpstream, hour, r \in WithPayload))
        /\ phase' = [phase EXCEPT ![r] = "queued"] /\ UNCHANGED <<hour, attempt>>
      BY <1>2 DEF Replay
  <2> QED
      BY <2>1, NewRow
<1>3. ASSUME NEW up \in Upstreams, MarkRunning(r, up) PROVE Goal
  <2> DEFINE changes == [status |-> "running", upstream |-> up]
  <2>1. /\ Up /\ Write(r, changes) /\ phase' = [phase EXCEPT ![r] = "running"] /\ UNCHANGED <<hour, attempt>>
      BY <1>3 DEF MarkRunning
  <2>2. IsChange(changes) /\ "running" \in Phases \ {"new"}
      BY DEF IsChange, Statuses, Phases
  <2> HIDE DEF changes
  <2> QED
      BY <2>1, <2>2, WriteCounts
<1>4. ASSUME NEW up \in Upstreams, RetryAttempt(r, up) PROVE Goal
  <2>1. /\ Up /\ phase[r] = "retrying" /\ phase' = [phase EXCEPT ![r] = "queued"]
        /\ UNCHANGED <<hour, attempt>>
      BY <1>4 DEF RetryAttempt
  <2>2. CASE RowsOf(r, 0) = {}
    <3>1. UNCHANGED <<rows, lastRow, lastArchive, tables, server, jobs, torn>>
        BY <1>4, <2>2 DEF RetryAttempt, stored
    <3>2. Records' /\ Exact'
        BY <2>1, <3>1 DEF Records, Statistics, Exact, Shown, Matches, Up
    <3>3. Attempts'
      <4>1. phase' \in [Requests -> Phases] /\ \A s \in Requests : phase'[s] = IF s = r THEN "queued" ELSE phase[s]
          BY <2>1 DEF Attempts, Phases
      <4>2. \A id \in DOMAIN rows : rows[id].req \in Requests
          BY DEF Records, IsRecord
      <4> QED
          BY <2>1, <3>1, <4>1, <4>2 DEF Attempts
    <3> QED
        BY <2>1, <3>1, <3>2, <3>3, ServingExact DEF Up
  <2>3. CASE RowsOf(r, 0) # {}
    <3> DEFINE first == rows[CHOOSE id \in RowsOf(r, 0) : TRUE]
               row == [first EXCEPT !.att = 1, !.status = "running", !.upstream = up,
                                    !.retried = FALSE, !.hour = hour]
    <3>1. PICK id \in DOMAIN rows : first = rows[id] /\ rows[id].req = r
        BY <2>3 DEF RowsOf
    <3>2. Insert(row)
        BY <1>4, <2>3 DEF RetryAttempt
    <3>3. IsRecord(first) /\ first.req = r
        BY <3>1, Zenon DEF Records
    <3> HIDE DEF first
    <3>4. IsRecord(row) /\ row.req = r /\ row.att = 1
        BY <3>3 DEF IsRecord, Attributes, Statuses, Records
    <3> HIDE DEF row
    <3>5. attempt[r] = 1 /\ \A j \in DOMAIN rows : rows[j].req = r => rows[j].att # 1
        BY <2>1 DEF Attempts
    <3>6. "queued" \in Phases \ {"new", "retrying"}
        BY DEF Phases
    <3>7. /\ row.att <= attempt[row.req] /\ phase' = [phase EXCEPT ![row.req] = "queued"]
          /\ \A j \in DOMAIN rows : rows[j].req = row.req => rows[j].att # row.att
        BY <2>1, <3>4, <3>5
    <3> QED
        BY <2>1, <3>2, <3>4, <3>6, <3>7, InsertCounts
  <2> QED
      BY <2>2, <2>3
<1>5. ASSUME MarkSuccess(r) PROVE Goal
  <2> DEFINE changes == [status |-> "success", retried |-> attempt[r] > 0]
  <2>1. /\ Up /\ Write(r, changes) /\ phase' = [phase EXCEPT ![r] = "done"] /\ UNCHANGED <<hour, attempt>>
      BY <1>5 DEF MarkSuccess
  <2>2. IsChange(changes)
    <3>1. (attempt[r] > 0) \in BOOLEAN
        OBVIOUS
    <3> QED
        BY <3>1 DEF IsChange, Statuses
  <2>3. "done" \in Phases \ {"new"}
      BY DEF Phases
  <2> HIDE DEF changes
  <2> QED
      BY <2>1, <2>2, <2>3, WriteCounts
<1>6. ASSUME MarkFailed(r) \/ MarkRejected(r) PROVE Goal
  <2>1. PICK status \in {"failed", "rejected"} : Write(r, [status |-> status])
      BY <1>6 DEF MarkFailed, MarkRejected
  <2> DEFINE changes == [status |-> status]
  <2>2. Up /\ Write(r, changes) /\ phase' = [phase EXCEPT ![r] = "done"] /\ UNCHANGED <<hour, attempt>>
      BY <1>6, <2>1 DEF MarkFailed, MarkRejected
  <2>3. IsChange(changes) /\ "done" \in Phases \ {"new"}
      BY DEF IsChange, Statuses, Phases
  <2> HIDE DEF changes
  <2> QED
      BY <2>2, <2>3, WriteCounts
<1>7. ASSUME RetryFailure(r) PROVE Goal
  <2> DEFINE changes == [status |-> "failed"]
  <2>1. /\ Up /\ Write(r, changes) /\ phase' = [phase EXCEPT ![r] = "retrying"] /\ UNCHANGED hour
        /\ attempt' = [attempt EXCEPT ![r] = 1] /\ attempt[r] = 0
      BY <1>7 DEF RetryFailure
  <2>2. IsChange(changes) /\ "retrying" \in Phases \ {"new"}
      BY DEF IsChange, Statuses, Phases
  <2> HIDE DEF changes
  <2> QED
      BY <2>1, <2>2, WriteCounts
<1> QED
    BY <1>1, <1>2, <1>3, <1>4, <1>5, <1>6, <1>7

-------------------------------------------------------------------------------
\* The delete triggers of a batch.

\* Induction on the first n numbers, for a set of them.
LEMMA UpTo ==
    ASSUME NEW n \in Nat, NEW S, 0 \in S, \A k \in 0..n - 1 : k \in S => k + 1 \in S
    PROVE  \A k \in 0..n : k \in S
<1> SUFFICES ASSUME NEW k \in 0..n, k \notin S PROVE FALSE
    OBVIOUS
<1> DEFINE T == {m \in 0..n : m \notin S}
           R == OpToRel(<, Nat)
<1>1. T \subseteq Nat /\ T # {}
    OBVIOUS
<1>2. PICK m \in T : \A j \in T : ~(<<j, m>> \in R)
    BY <1>1, NatLessThanWellFounded, WFMin
<1>3. m # 0 /\ m - 1 \in 0..n - 1 /\ m - 1 \notin T
  <2>1. m \in 0..n /\ m \notin S
      OBVIOUS
  <2>2. m # 0 /\ m - 1 \in 0..n - 1 /\ m - 1 \in Nat /\ m \in Nat /\ m - 1 < m
      BY <2>1
  <2>3. <<m - 1, m>> \in R
      BY <2>2 DEF OpToRel
  <2> QED
      BY <1>2, <2>2, <2>3
<1>4. m - 1 \in S
    BY <1>3
<1> QED
    BY <1>3, <1>4

\* One run of the trigger per row that goes.
LEMMA Triggers ==
    ASSUME NEW ids, lastRow \in Nat
    PROVE  \E after :
            /\ after[0] = tables /\ Retracted(ids) = after[lastRow]
            /\ \A k \in 1..lastRow :
                after[k] = IF k \in ids THEN Retract(after[k - 1], rows[k]) ELSE after[k - 1]
<1> DEFINE n == lastRow
           Grows(f, m) == f = [k \in 0..m |-> IF k = 0 THEN tables
                                              ELSE IF k \in ids THEN Retract(f[k - 1], rows[k]) ELSE f[k - 1]]
           S == {m \in 0..n : \E f : Grows(f, m)}
<1>1. 0 \in S
  <2>1. Grows([k \in 0..0 |-> tables], 0)
      OBVIOUS
  <2> HIDE DEF Grows
  <2>2. 0 \in 0..n
      OBVIOUS
  <2> QED
      BY <2>1, <2>2
<1>2. ASSUME NEW m \in 0..n - 1, m \in S PROVE m + 1 \in S
  <2>1. PICK f : Grows(f, m)
      BY <1>2
  <2> DEFINE next == IF m + 1 \in ids THEN Retract(f[m], rows[m + 1]) ELSE f[m]
             g == [k \in 0..m + 1 |-> IF k = m + 1 THEN next ELSE f[k]]
  <2>2. ASSUME NEW k \in 0..m + 1
        PROVE  g[k] = IF k = 0 THEN tables ELSE IF k \in ids THEN Retract(g[k - 1], rows[k]) ELSE g[k - 1]
    <3>1. CASE k = m + 1
      <4>1. k # 0 /\ k - 1 = m /\ m \in 0..m + 1 /\ m # m + 1
          BY <3>1
      <4>2. g[m] = f[m] /\ g[k] = next
          BY <3>1, <4>1
      <4> HIDE DEF g
      <4> QED
          BY <3>1, <4>1, <4>2
    <3>2. CASE k # m + 1
      <4>1. k \in 0..m /\ g[k] = f[k]
          BY <3>2
      <4>2. f[k] = IF k = 0 THEN tables ELSE IF k \in ids THEN Retract(f[k - 1], rows[k]) ELSE f[k - 1]
          BY <2>1, <4>1
      <4>3. k # 0 => g[k - 1] = f[k - 1]
          BY <4>1
      <4> HIDE DEF g
      <4> QED
          BY <4>1, <4>2, <4>3
    <3> QED
        BY <3>1, <3>2
  <2>3. Grows(g, m + 1)
    <3>1. g = [k \in 0..m + 1 |-> g[k]]
        OBVIOUS
    <3> HIDE DEF g
    <3> QED
        BY <2>2, <3>1
  <2>4. m + 1 \in 0..n
      OBVIOUS
  <2> QED
      BY <2>3, <2>4
<1>3. \E f : Grows(f, n)
  <2>1. n \in Nat
      OBVIOUS
  <2> HIDE DEF n, S, Grows
  <2>2. n \in 0..n /\ \A k \in 0..n : k \in S
      BY <1>1, <1>2, <2>1, UpTo
  <2> QED
      BY <2>2 DEF S
<1> DEFINE after == CHOOSE f : Grows(f, n)
<1>4. Grows(after, n)
    BY <1>3
<1>5. Retracted(ids) = after[n]
    BY DEF Retracted
<1> HIDE DEF after
<1>6. \A k \in 0..n : after[k] = IF k = 0 THEN tables
                                 ELSE IF k \in ids THEN Retract(after[k - 1], rows[k]) ELSE after[k - 1]
    BY <1>4
<1>7. 0 \in 0..n /\ \A k \in 1..n : k \in 0..n /\ k # 0
    OBVIOUS
<1> HIDE DEF n, Grows
<1>8. /\ after[0] = tables
      /\ \A k \in 1..n : after[k] = IF k \in ids THEN Retract(after[k - 1], rows[k]) ELSE after[k - 1]
    BY <1>6, <1>7
<1> QED
    BY <1>5, <1>8 DEF n

LEMMA RetractedMatches ==
    ASSUME IInv, Records, NEW ids \in SUBSET DOMAIN rows, NEW c \in Cells, Matches(tables, rows, c)
    PROVE  Matches(Retracted(ids), Without(rows, ids), c)
<1>1. lastRow \in Nat /\ DOMAIN rows \subseteq 1..lastRow
    BY DEF IInv, Shape
<1>2. PICK after :
        /\ after[0] = tables /\ Retracted(ids) = after[lastRow]
        /\ \A k \in 1..lastRow :
            after[k] = IF k \in ids THEN Retract(after[k - 1], rows[k]) ELSE after[k - 1]
    BY <1>1, Triggers
<1> DEFINE Gone(k) == {id \in ids : id <= k}
           S == {k \in 0..lastRow : Matches(after[k], Without(rows, Gone(k)), c)}
<1>3. 0 \in S
  <2>1. Gone(0) = {} /\ 0 \in 0..lastRow
      BY <1>1
  <2>2. Without(rows, {}) = rows
      BY DEF Without, Records
  <2> QED
      BY <1>2, <2>1, <2>2
<1>4. ASSUME NEW k \in 0..lastRow - 1, k \in S PROVE k + 1 \in S
  <2>1. /\ k + 1 \in 1..lastRow /\ k + 1 \in 0..lastRow /\ (k + 1) - 1 = k
        /\ Matches(after[k], Without(rows, Gone(k)), c)
      BY <1>1, <1>4
  <2>2. after[k + 1] = IF k + 1 \in ids THEN Retract(after[k], rows[k + 1]) ELSE after[k]
      BY <1>2, <2>1
  <2>3. CASE k + 1 \notin ids
    <3>1. Gone(k + 1) = Gone(k)
        BY <1>1, <2>3
    <3> QED
        BY <2>1, <2>2, <2>3, <3>1
  <2>4. CASE k + 1 \in ids
    <3> DEFINE T == Without(rows, Gone(k))
               R == Without(rows, Gone(k + 1))
    <3>1. Gone(k + 1) = Gone(k) \cup {k + 1} /\ k + 1 \notin Gone(k) /\ k + 1 \in DOMAIN rows
        BY <1>1, <2>4
    <3> HIDE DEF Gone
    <3>2. RowMore(R, k + 1, T) /\ T[k + 1] = rows[k + 1]
        BY <3>1 DEF RowMore, Without
    <3>3. IsLog(R) /\ IsRecord(T[k + 1])
      <4>1. DOMAIN R \subseteq DOMAIN rows /\ \A id \in DOMAIN R : R[id] = rows[id]
          BY DEF Without
      <4>2. IsLog(rows)
          BY RowsAreLog
      <4>3. IsFiniteSet(DOMAIN R)
          BY <4>1, <4>2, FS_Subset DEF IsLog
      <4>4. \A id \in DOMAIN R : IsRecord(R[id])
          BY <4>1, <4>2 DEF IsLog
      <4>5. IsRecord(T[k + 1])
          BY <3>1, <3>2, <4>2 DEF IsLog
      <4> QED
          BY <4>3, <4>4, <4>5 DEF IsLog
    <3> HIDE DEF T, R
    <3>4. Matches(after[k], T, c)
        BY <2>1 DEF T
    <3>5. Matches(Retract(after[k], T[k + 1]), R, c)
        BY <3>2, <3>3, <3>4, RetractMatches
    <3>6. Matches(after[k + 1], R, c)
        BY <2>2, <2>4, <3>2, <3>5
    <3> QED
        BY <2>1, <3>6 DEF R
  <2> QED
      BY <2>3, <2>4
<1> HIDE DEF S
<1>5. lastRow \in 0..lastRow /\ \A k \in 0..lastRow : k \in S
    BY <1>1, <1>3, <1>4, UpTo
<1>6. Gone(lastRow) = ids
    BY <1>1
<1> QED
    BY <1>2, <1>5, <1>6 DEF S

-------------------------------------------------------------------------------
\* Jobs, crash and start.

LEMMA ThinnedAttempts ==
    ASSUME Records, Attempts, Thinned, UNCHANGED <<phase, attempt>>
    PROVE  Attempts'
<1>1. \A id \in DOMAIN rows' : id \in DOMAIN rows /\ rows'[id].req = rows[id].req /\ rows'[id].att = rows[id].att
    BY DEF Thinned, Attributes
<1> QED
    BY <1>1 DEF Attempts

LEMMA ThinnedCounts ==
    ASSUME IInv, Records, Thinned, DOMAIN rows' = DOMAIN rows, NEW c
    PROVE  /\ Recounted(rows', c) = Recounted(rows, c) /\ Recurrences(rows', c) = Recurrences(rows, c)
           /\ RowsIn(rows', c) = RowsIn(rows, c)
<1>1. \A id \in DOMAIN rows : \A k \in Attributes : rows'[id][k] = rows[id][k]
    BY DEF Thinned
<1>2. \A id \in DOMAIN rows : CellsOf(rows'[id]) = CellsOf(rows[id])
    BY <1>1 DEF CellsOf, Attributes
<1>3. RowsIn(rows', c) = RowsIn(rows, c)
    BY <1>2 DEF RowsIn
<1>4. \A id \in RowsIn(rows, c) : \A k \in {"req", "status", "retried"} : rows'[id][k] = rows[id][k]
    BY <1>1 DEF RowsIn, Attributes
<1> QED
    BY <1>3, <1>4, RowsAreLog, SameCounts

\* The refill has not begun before the step and not after it.
Refill == {"up", "emptied", "referred", "aggregated"}

LEMMA UncountedStatistics ==
    ASSUME IInv, Records, Statistics, Thinned, DOMAIN rows' = DOMAIN rows, UNCHANGED <<tables, torn>>,
           server' = server \/ (server # "aggregated" /\ server' \notin Refill)
    PROVE  Statistics'
<1>1. \A c : /\ Recounted(rows', c) = Recounted(rows, c) /\ Recurrences(rows', c) = Recurrences(rows, c)
             /\ RowsIn(rows', c) = RowsIn(rows, c)
    BY ThinnedCounts
<1>2. /\ Exact' <=> Exact
      /\ Unfilled' <=> Unfilled
    BY <1>1 DEF Exact, Unfilled, Shown, Matches
<1>3. CASE server' = server
    BY <1>1, <1>2, <1>3 DEF Statistics
<1>4. CASE server # "aggregated" /\ server' \notin Refill
    BY <1>2, <1>4 DEF Statistics, Refill
<1> QED
    BY <1>3, <1>4

LEMMA TodoOfRemoval ==
    ASSUME IInv, NEW ids
    PROVE  ArchivesOf(ids) \subseteq 1..lastArchive
BY DEF IInv, Shape, Resolves, ArchivesOf

\* A job names archives there have been.
LEMMA JobTodo ==
    ASSUME IInv, Records, NEW t \in Threads,
           \/ \E days \in HotDays : StartArchive(t, days)
           \/ ArchivePart(t)
           \/ \E before \in 2..lastRow + 1, statuses \in StatusFilters : StartCleanup(t, before, statuses)
           \/ CleanupBatch(t)
           \/ \E before \in 2..lastRow + 1, sizes \in {Requests, Big} : ClearPayloads(t, before, sizes)
           \/ CompactNext(t)
    PROVE  \A u \in Threads : jobs'[u].todo \subseteq 1..lastArchive'
<1> DEFINE Fine(job) == job.todo \subseteq 1..lastArchive
<1>0. \A job : Run(t, job) /\ Fine(job) => \A u \in Threads : jobs'[u].todo \subseteq 1..lastArchive
    BY DEF Run, Records, IInv, Shape
<1>1. Fine(Idle) /\ Fine(jobs[t]) /\ \A todo : todo \subseteq 1..lastArchive => Fine(Compacting(todo))
    BY IdleJob, CompactingJob DEF Records
<1>2. ASSUME NEW days \in HotDays, StartArchive(t, days)
      PROVE  \A u \in Threads : jobs'[u].todo \subseteq 1..lastArchive'
  <2>1. PICK parts : Run(t, [Idle EXCEPT !.doing = "archiving", !.parts = parts])
      BY <1>2 DEF StartArchive
  <2>2. Fine([Idle EXCEPT !.doing = "archiving", !.parts = parts])
      BY DEF Idle
  <2>3. lastArchive' = lastArchive
      BY <1>2 DEF StartArchive, stored
  <2> HIDE DEF Fine
  <2> QED
      BY <1>0, <2>1, <2>2, <2>3
<1>3. ASSUME ArchivePart(t)
      PROVE  \A u \in Threads : jobs'[u].todo \subseteq 1..lastArchive'
  <2> DEFINE next == IF Len(jobs[t].parts) = 1 THEN Idle ELSE [jobs[t] EXCEPT !.parts = Tail(@)]
  <2>1. Run(t, next) /\ lastArchive' \in {lastArchive, lastArchive + 1}
      BY <1>3 DEF ArchivePart, stored
  <2>2. Fine(next)
      BY <1>1 DEF IInv, Shape
  <2>3. 1..lastArchive \subseteq 1..lastArchive'
      BY <2>1 DEF IInv, Shape
  <2> HIDE DEF Fine, next
  <2>4. \A u \in Threads : jobs'[u].todo \subseteq 1..lastArchive
      BY <1>0, <2>1, <2>2
  <2> QED
      BY <2>3, <2>4
<1>4. ASSUME NEW before, NEW statuses, StartCleanup(t, before, statuses)
      PROVE  \A u \in Threads : jobs'[u].todo \subseteq 1..lastArchive'
  <2> DEFINE job == [Idle EXCEPT !.doing = "deleting", !.before = before, !.statuses = statuses]
  <2>1. Run(t, job) /\ lastArchive' = lastArchive
      BY <1>4 DEF StartCleanup, stored
  <2>2. Fine(job)
      BY DEF Idle
  <2> HIDE DEF Fine, job
  <2> QED
      BY <1>0, <2>1, <2>2
<1>5. ASSUME CleanupBatch(t)
      PROVE  \A u \in Threads : jobs'[u].todo \subseteq 1..lastArchive'
  <2> DEFINE ids == Batch(jobs[t])
             more == [jobs[t] EXCEPT !.todo = @ \cup ArchivesOf(ids)]
  <2>1. (Run(t, Compacting(jobs[t].todo)) \/ Run(t, more)) /\ lastArchive' = lastArchive
      BY <1>5 DEF CleanupBatch, stored
  <2> HIDE DEF ids
  <2>2. ArchivesOf(ids) \subseteq 1..lastArchive
      BY TodoOfRemoval
  <2>3. Fine(more)
      BY <1>1, <2>2 DEF IInv, Shape
  <2>4. Fine(Compacting(jobs[t].todo))
      BY <1>1
  <2> HIDE DEF Fine, more
  <2> QED
      BY <1>0, <2>1, <2>3, <2>4
<1>6. ASSUME NEW before, NEW sizes, ClearPayloads(t, before, sizes)
      PROVE  \A u \in Threads : jobs'[u].todo \subseteq 1..lastArchive'
  <2>1. PICK ids : Run(t, Compacting(ArchivesOf(ids))) /\ lastArchive' = lastArchive
      BY <1>6 DEF ClearPayloads
  <2>2. Fine(Compacting(ArchivesOf(ids)))
      BY <1>1, TodoOfRemoval
  <2> HIDE DEF Fine
  <2> QED
      BY <1>0, <2>1, <2>2
<1>7. ASSUME CompactNext(t)
      PROVE  \A u \in Threads : jobs'[u].todo \subseteq 1..lastArchive'
  <2> DEFINE a == Min(jobs[t].todo)
  <2>1. (Run(t, Idle) \/ Run(t, Compacting(jobs[t].todo \ {a}))) /\ lastArchive' = lastArchive
      BY <1>7 DEF CompactNext
  <2> HIDE DEF a
  <2>2. Fine(Compacting(jobs[t].todo \ {a}))
      BY <1>1
  <2> HIDE DEF Fine
  <2> QED
      BY <1>0, <1>1, <2>1, <2>2
<1> QED
    BY <1>2, <1>3, <1>4, <1>5, <1>6, <1>7

LEMMA JobCounts ==
    ASSUME IInv, Records, Attempts, Statistics, NEW t \in Threads,
           \/ \E days \in HotDays : StartArchive(t, days)
           \/ ArchivePart(t)
           \/ \E before \in 2..lastRow + 1, statuses \in StatusFilters : StartCleanup(t, before, statuses)
           \/ CleanupBatch(t)
           \/ \E before \in 2..lastRow + 1, sizes \in {Requests, Big} : ClearPayloads(t, before, sizes)
           \/ CompactNext(t)
    PROVE  Records' /\ Attempts' /\ Statistics'
<1>1. UNCHANGED <<hour, lastRow, phase, attempt, server, torn>> /\ Up
    BY DEF StartArchive, ArchivePart, StartCleanup, CleanupBatch, ClearPayloads, CompactNext, live, stored, Free
<1>2. \/ Thinned /\ DOMAIN rows' = DOMAIN rows /\ tables' = tables
      \/ CleanupBatch(t)
  <2>1. ASSUME NEW days, StartArchive(t, days) PROVE rows' = rows /\ tables' = tables
      BY <2>1 DEF StartArchive, stored
  <2>2. ASSUME NEW before, NEW statuses, StartCleanup(t, before, statuses) PROVE rows' = rows /\ tables' = tables
      BY <2>2 DEF StartCleanup, stored
  <2>3. CompactNext(t) => rows' = rows /\ tables' = tables
      BY DEF CompactNext
  <2>4. ArchivePart(t) => tables' = tables
      BY DEF ArchivePart
  <2>5. ASSUME NEW before, NEW sizes, ClearPayloads(t, before, sizes) PROVE tables' = tables
      BY <2>5 DEF ClearPayloads
  <2> QED
      BY <2>1, <2>2, <2>3, <2>4, <2>5, SameThin, ArchivePartThins, ClearPayloadsThins
<1>3. Thinned
    BY <1>2, CleanupBatchThins
<1>4. tables' = tables \/ \E ids : tables' = Retracted(ids)
    BY <1>2 DEF CleanupBatch
<1>5. Attempts'
    BY <1>1, <1>3, ThinnedAttempts
<1>6. CASE Thinned /\ DOMAIN rows' = DOMAIN rows /\ tables' = tables
  <2>1. Statistics'
      BY <1>1, <1>6, UncountedStatistics
  <2>2. Records'
    <3>1. \A id \in DOMAIN rows' : IsRecord(rows'[id])
        BY <1>3, ThinnedRecords
    <3>2. \A u \in Threads : jobs'[u].todo \subseteq 1..lastArchive'
        BY JobTodo
    <3>3. rows' = [id \in DOMAIN rows' |-> rows'[id]]
        BY <1>3 DEF Thinned
    <3> QED
        BY <1>1, <1>6, <3>1, <3>2, <3>3 DEF Records
  <2> QED
      BY <1>5, <2>1, <2>2
<1>7. CASE CleanupBatch(t) /\ ~(Thinned /\ DOMAIN rows' = DOMAIN rows /\ tables' = tables)
  <2> DEFINE ids == Batch(jobs[t])
  <2>1. rows' = Without(rows, ids) /\ tables' = Retracted(ids)
    <3>1. CASE ids = {}
      <4>1. rows' = rows /\ tables' = tables
          BY <1>7, <3>1 DEF CleanupBatch, stored
      <4> QED
          BY <1>7, <4>1, SameThin
    <3>2. CASE ids # {}
        BY <1>7, <3>2 DEF CleanupBatch
    <3> QED
        BY <3>1, <3>2
  <2>2. ids \in SUBSET DOMAIN rows
      BY DEF Batch
  <2> HIDE DEF ids
  <2>3. Shown' = Shown /\ Shown \subseteq Cells
      BY <1>1 DEF Shown, Aggregate, Cells
  <2>4. \A c \in Cells : Matches(tables, rows, c) => Matches(tables', rows', c)
      BY <2>1, <2>2, RetractedMatches
  <2>5. Exact'
      BY <1>1, <2>3, <2>4 DEF Exact, Statistics, Up
  <2>6. {"stats", "refs"} \subseteq DOMAIN tables'
    <3>1. lastRow \in Nat
        BY DEF IInv, Shape
    <3>2. PICK after :
            /\ after[0] = tables /\ Retracted(ids) = after[lastRow]
            /\ \A k \in 1..lastRow :
                after[k] = IF k \in ids THEN Retract(after[k - 1], rows[k]) ELSE after[k - 1]
        BY <3>1, Triggers
    <3> DEFINE S == {k \in 0..lastRow : {"stats", "refs"} \subseteq DOMAIN after[k]}
    <3>3. 0 \in S
        BY <3>1, <3>2 DEF Records
    <3>4. ASSUME NEW k \in 0..lastRow - 1, k \in S PROVE k + 1 \in S
      <4>1. k + 1 \in 0..lastRow /\ k + 1 \in 1..lastRow /\ (k + 1) - 1 = k
          BY <3>1
      <4>2. after[k + 1] = IF k + 1 \in ids THEN Retract(after[k], rows[k + 1]) ELSE after[k]
          BY <3>2, <4>1
      <4>3. \A t0, row : {"stats", "refs"} \subseteq DOMAIN Retract(t0, row)
          BY DEF Retract
      <4> QED
          BY <3>4, <4>1, <4>2, <4>3
    <3> HIDE DEF S
    <3>5. lastRow \in 0..lastRow /\ \A k \in 0..lastRow : k \in S
        BY <3>1, <3>3, <3>4, UpTo
    <3> QED
        BY <2>1, <3>2, <3>5 DEF S
  <2>7. Records'
    <3>1. \A id \in DOMAIN rows' : IsRecord(rows'[id])
        BY <1>3, ThinnedRecords
    <3>2. \A u \in Threads : jobs'[u].todo \subseteq 1..lastArchive'
        BY JobTodo
    <3>3. rows' = [id \in DOMAIN rows' |-> rows'[id]]
        BY <1>3 DEF Thinned
    <3> QED
        BY <1>1, <2>6, <3>1, <3>2, <3>3 DEF Records
  <2> QED
      BY <1>1, <1>5, <2>5, <2>7, ServingExact DEF Up
<1> QED
    BY <1>2, <1>6, <1>7

LEMMA CrashCounts ==
    ASSUME IInv, Records, Attempts, Statistics, Crash
    PROVE  Records' /\ Attempts' /\ Statistics'
<1>1. /\ UNCHANGED <<hour, attempt, rows, lastRow, lastArchive, tables>>
      /\ server' = "down" /\ torn' = (torn \/ server = "aggregated")
      /\ phase' = [r \in Requests |-> IF phase[r] = "new" THEN "new" ELSE "done"]
      /\ jobs' = [t \in Threads |-> Idle]
    BY DEF Crash, stored
<1>2. torn \in BOOLEAN
    BY DEF Records
<1>3. Records'
    BY <1>1, <1>2, IdleJob DEF Records
<1>4. Attempts'
  <2>1. \A id \in DOMAIN rows : rows[id].req \in Requests
      BY DEF Records, IsRecord
  <2> QED
      BY <1>1, <2>1 DEF Attempts, Phases
<1>5. CASE server # "aggregated"
  <2>1. torn' = torn
      BY <1>1, <1>2, <1>5
  <2>2. (Exact' <=> Exact) /\ (Unfilled' <=> Unfilled)
      BY <1>1, <2>1 DEF Exact, Unfilled, Shown, Matches
  <2> QED
      BY <1>1, <1>3, <1>4, <1>5, <2>2 DEF Statistics
<1>6. CASE server = "aggregated"
  <2>1. Shown' = Aggregate /\ Aggregate \subseteq Cells
      BY <1>1, <1>6 DEF Shown, Aggregate, Cells
  <2>2. ASSUME NEW c \in Aggregate PROVE Matches(tables, rows, c)
    <3>1. /\ c \in Cells /\ tables.refs[c] = Recurrences(rows, c)
          /\ tables.stats[c] = IF RowsIn(rows, c) # {} THEN Recounted(rows, c) ELSE NoRow
        BY <1>6, <2>1 DEF Statistics
    <3>2. CASE RowsIn(rows, c) = {}
        BY <3>1, <3>2, NothingToCount DEF Matches, Counted
    <3>3. CASE RowsIn(rows, c) # {}
        BY <3>1, <3>3, RowsAreLog, RowThere DEF Matches
    <3> QED
        BY <3>2, <3>3
  <2>3. Exact'
      BY <1>1, <2>1, <2>2 DEF Exact, Matches
  <2> QED
      BY <1>1, <1>3, <1>4, <2>3 DEF Statistics
<1> QED
    BY <1>5, <1>6

LEMMA ServeCounts ==
    ASSUME IInv, Records, Statistics, Serve
    PROVE  Statistics' /\ {"stats", "refs"} \subseteq DOMAIN tables'
<1>1. server' = "up" /\ rows' = rows /\ torn' = torn
    BY DEF Serve, Booting, BootRest
<1>2. Shown' = Shown /\ Shown \subseteq Cells
    BY <1>1 DEF Shown, Aggregate, Cells
<1>3. CASE server = "sized"
  <2>1. tables' = tables /\ (rows = <<>> \/ \E c \in Cells : tables.stats[c] # NoRow)
      BY <1>3 DEF Serve, Booting
  <2>2. ~Unfilled
      BY <2>1 DEF Unfilled
  <2>3. Exact
      BY <1>3, <2>2 DEF Statistics
  <2>4. Exact'
      BY <1>1, <1>2, <2>1, <2>3 DEF Exact, Matches
  <2> QED
      BY <1>1, <2>1, <2>4, ServingExact DEF Records
<1>4. CASE server # "sized"
  <2>1. /\ server = "aggregated"
        /\ tables' = [tables EXCEPT !.stats = [c \in Cells |->
                IF c \in Aggregate \/ RowsIn(rows, c) = {} THEN tables.stats[c] ELSE Recounted(rows, c)]]
      BY <1>4 DEF Serve, Booting
  <2>2. /\ {"stats", "refs"} \subseteq DOMAIN tables' /\ tables'.refs = tables.refs
        /\ \A c \in Cells : tables'.stats[c] =
              IF c \in Aggregate \/ RowsIn(rows, c) = {} THEN tables.stats[c] ELSE Recounted(rows, c)
    <3> DEFINE new == [c \in Cells |->
                IF c \in Aggregate \/ RowsIn(rows, c) = {} THEN tables.stats[c] ELSE Recounted(rows, c)]
    <3>1. tables' = [tables EXCEPT !.stats = new]
        BY <2>1
    <3>2. \A c \in Cells : new[c] = IF c \in Aggregate \/ RowsIn(rows, c) = {} THEN tables.stats[c] ELSE Recounted(rows, c)
        OBVIOUS
    <3> HIDE DEF new
    <3>3. {"stats", "refs"} \subseteq DOMAIN tables' /\ tables'.refs = tables.refs /\ tables'.stats = new
        BY <3>1 DEF Records
    <3> QED
        BY <3>2, <3>3
  <2>3. ASSUME NEW c \in Cells PROVE Matches(tables', rows, c)
    <3>1. /\ tables'.refs[c] = Recurrences(rows, c)
          /\ tables.stats[c] = IF c \in Aggregate /\ RowsIn(rows, c) # {} THEN Recounted(rows, c) ELSE NoRow
        BY <2>1, <2>2 DEF Statistics
    <3>2. CASE RowsIn(rows, c) = {}
      <4>1. Counted(tables'.stats[c]) = Zero
          BY <2>2, <3>1, <3>2 DEF Counted
      <4> QED
          BY <3>1, <3>2, <4>1, NothingToCount DEF Matches
    <3>3. CASE RowsIn(rows, c) # {}
      <4>1. tables'.stats[c] = Recounted(rows, c)
          BY <2>2, <3>1, <3>3
      <4> QED
          BY <3>1, <4>1, RowsAreLog, RowThere DEF Matches
    <3> QED
        BY <3>2, <3>3
  <2>4. Exact'
      BY <1>1, <1>2, <2>3 DEF Exact
  <2> QED
      BY <1>1, <2>2, <2>4, ServingExact
<1> QED
    BY <1>3, <1>4

LEMMA RebuildCounts ==
    ASSUME IInv, Records, Statistics, RebuildStep
    PROVE  Statistics' /\ {"stats", "refs"} \subseteq DOMAIN tables'
<1>1. rows' = rows /\ torn' = torn
    BY DEF RebuildStep, BootRest
<1>2. CASE server = "sized"
  <2>1. /\ server' = "emptied" /\ tables' = NoStatistics /\ rows # <<>>
      BY <1>2 DEF RebuildStep, Booting
  <2>2. DOMAIN rows # {}
    <3>1. <<>> = [id \in {} |-> 0]
        OBVIOUS
    <3>2. DOMAIN rows = {} => rows = [id \in {} |-> 0]
        BY DEF Records
    <3> QED
        BY <2>1, <3>1, <3>2
  <2>3. {"stats", "refs"} \subseteq DOMAIN tables' /\ \A c \in Cells : tables'.stats[c] = NoRow
      BY <2>1 DEF NoStatistics
  <2>4. Unfilled'
      BY <1>1, <2>2, <2>3 DEF Unfilled
  <2> QED
      BY <2>1, <2>3, <2>4 DEF Statistics
<1>3. CASE server = "emptied"
  <2> DEFINE new == [c \in Cells |-> Recurrences(rows, c)]
  <2>1. server' = "referred" /\ tables' = [tables EXCEPT !.refs = new] /\ Unfilled
      BY <1>3 DEF RebuildStep, Booting, Statistics
  <2>2. \A c \in Cells : new[c] = Recurrences(rows, c)
      OBVIOUS
  <2> HIDE DEF new
  <2>3. {"stats", "refs"} \subseteq DOMAIN tables' /\ tables'.stats = tables.stats /\ tables'.refs = new
      BY <2>1 DEF Records
  <2>4. Unfilled'
      BY <1>1, <2>1, <2>3 DEF Unfilled
  <2> QED
      BY <1>1, <2>1, <2>2, <2>3, <2>4 DEF Statistics
<1>4. CASE server = "referred"
  <2> DEFINE new == [c \in Cells |-> IF c \in Aggregate /\ RowsIn(rows, c) # {} THEN Recounted(rows, c) ELSE NoRow]
  <2>1. server' = "aggregated" /\ tables' = [tables EXCEPT !.stats = new]
      BY <1>4 DEF RebuildStep, Booting
  <2>2. \A c \in Cells : new[c] = IF c \in Aggregate /\ RowsIn(rows, c) # {} THEN Recounted(rows, c) ELSE NoRow
      OBVIOUS
  <2> HIDE DEF new
  <2>3. {"stats", "refs"} \subseteq DOMAIN tables' /\ tables'.refs = tables.refs /\ tables'.stats = new
      BY <2>1 DEF Records
  <2>4. \A c \in Cells : tables'.refs[c] = Recurrences(rows, c)
      BY <1>4, <2>3 DEF Statistics
  <2> QED
      BY <1>1, <2>1, <2>2, <2>3, <2>4 DEF Statistics
<1> QED
    BY <1>2, <1>3, <1>4 DEF RebuildStep, Booting

LEMMA BootCounts ==
    ASSUME IInv, Records, Attempts, Statistics, Boot
    PROVE  Records' /\ Attempts' /\ Statistics'
<1>1. UNCHANGED <<hour, phase, attempt, lastRow, lastArchive, jobs, torn>>
    BY DEF Boot, MigrateKey, MigrateBytes, MigrateAvailable, MigrateVersion, RebuildStep, Serve, BootRest, live
<1>2. Thinned /\ DOMAIN rows' = DOMAIN rows
  <2>1. MigrateVersion \/ RebuildStep \/ Serve => rows' = rows
      BY DEF MigrateVersion, RebuildStep, Serve
  <2> QED
      BY <2>1, MigrationsThin, SameThin DEF Boot
<1>3. Statistics' /\ {"stats", "refs"} \subseteq DOMAIN tables'
  <2>1. CASE RebuildStep \/ Serve
      BY <2>1, RebuildCounts, ServeCounts
  <2>2. CASE MigrateKey \/ MigrateBytes \/ MigrateAvailable \/ MigrateVersion
    <3>1. tables' = tables /\ server # "aggregated" /\ server' \notin Refill
        BY <2>2 DEF MigrateKey, MigrateBytes, MigrateAvailable, MigrateVersion, Booting, Refill
    <3> QED
        BY <1>1, <1>2, <3>1, UncountedStatistics DEF Records
  <2> QED
      BY <2>1, <2>2 DEF Boot
<1>4. Attempts'
    BY <1>1, <1>2, ThinnedAttempts
<1>5. Records'
  <2>1. \A id \in DOMAIN rows' : IsRecord(rows'[id])
      BY <1>2, ThinnedRecords
  <2>2. rows' = [id \in DOMAIN rows' |-> rows'[id]]
      BY <1>2 DEF Thinned
  <2>3. hour' \in Hours /\ lastRow' <= MaxRows /\ torn' \in BOOLEAN
        /\ \A t \in Threads : jobs'[t].todo \subseteq 1..lastArchive'
      BY <1>1 DEF Records
  <2> QED
      BY <1>3, <2>1, <2>2, <2>3 DEF Records
<1> QED
    BY <1>3, <1>4, <1>5

\* Nothing but the hour passes.
LEMMA HourCounts ==
    ASSUME IInv, Records, Attempts, Statistics, NextHour \/ UNCHANGED vars
    PROVE  Records' /\ Attempts' /\ Statistics'
<1>1. /\ UNCHANGED <<rows, lastRow, lastArchive, tables, server, phase, attempt, jobs, torn>>
      /\ hour' \in Hours
    BY DEF NextHour, vars, stored, Records
<1>2. Records' /\ Attempts'
    BY <1>1 DEF Records, Attempts
<1>3. Statistics'
    BY <1>1, SameThin, UncountedStatistics
<1> QED
    BY <1>2, <1>3

-------------------------------------------------------------------------------
\* Every step.

SInv == IInv /\ Records /\ Attempts /\ Statistics

LEMMA SInvHolds == Spec => []SInv
<1>1. Init => SInv
    BY InitIInv, InitStatistics DEF SInv
<1>2. SInv /\ [Next]_vars => SInv'
  <2> SUFFICES ASSUME SInv, [Next]_vars PROVE SInv'
      OBVIOUS
  <2>1. IInv /\ Records /\ Attempts /\ Statistics
      BY DEF SInv
  <2>2. IInv'
      BY <2>1, StepKeeps
  <2>3. Records' /\ Attempts' /\ Statistics'
    <3>1. CASE NextHour \/ UNCHANGED vars
        BY <2>1, <3>1, HourCounts
    <3>2. CASE Crash
        BY <2>1, <3>2, CrashCounts
    <3>3. CASE Boot
        BY <2>1, <3>3, BootCounts
    <3>4. CASE \E t \in Threads :
                \/ \E days \in HotDays : StartArchive(t, days)
                \/ ArchivePart(t)
                \/ \E before \in 2..lastRow + 1, statuses \in StatusFilters : StartCleanup(t, before, statuses)
                \/ CleanupBatch(t)
                \/ \E before \in 2..lastRow + 1, sizes \in {Requests, Big} : ClearPayloads(t, before, sizes)
                \/ CompactNext(t)
        BY <2>1, <3>4, JobCounts
    <3>5. CASE \E r \in Requests :
                \/ \E status \in {"queued", "rejected"} : Log(r, status)
                \/ \E source \in Requests : Replay(r, source)
                \/ \E up \in Upstreams : MarkRunning(r, up) \/ RetryAttempt(r, up)
                \/ MarkSuccess(r) \/ MarkFailed(r) \/ MarkRejected(r) \/ RetryFailure(r)
        BY <2>1, <3>5, LoopCounts
    <3> QED
        BY <3>1, <3>2, <3>3, <3>4, <3>5 DEF Next
  <2> QED
      BY <2>2, <2>3 DEF SInv
<1> QED
    BY <1>1, <1>2, PTL DEF Spec

\* Rows are proper records of requests, ids only grow, references lead to archives that exist,
\* and jobs name archives there have been.
THEOREM TypeCorrect == Spec => []TypeOK
<1>1. SInv => TypeOK
  <2> SUFFICES ASSUME SInv PROVE TypeOK
      OBVIOUS
  <2>1. /\ hour \in Hours /\ lastRow \in 0..MaxRows /\ DOMAIN rows \subseteq 1..lastRow
        /\ DOMAIN archives \subseteq 1..lastArchive /\ DOMAIN archiveOf \subseteq DOMAIN rows
        /\ version \in {-1, 0, 2} /\ torn \in BOOLEAN
        /\ \A t \in Threads : jobs[t].todo \subseteq 1..lastArchive
      BY LogStorageAssumption DEF SInv, IInv, Shape, Migrated, Records
  <2>2. \A id \in DOMAIN rows :
            /\ rows[id].req \in Requests /\ rows[id].status \in Statuses /\ rows[id].hour \in Hours
            /\ rows[id].upstream \in Upstreams \cup {NoUpstream}
      BY DEF SInv, Records, IsRecord
  <2>3. \A id \in DOMAIN archiveOf : archiveOf[id] \in DOMAIN archives
      BY DEF SInv, IInv, Resolves
  <2> QED
      BY <2>1, <2>2, <2>3 DEF TypeOK
<1> QED
    BY <1>1, SInvHolds, PTL

\* The counters the dashboard shows are those of the rows, whatever the triggers of the event
\* loop's writes, of the jobs' batches and the refill of an old database interleave with; after
\* a start that died between the aggregate and the upstreams, the aggregate only.
THEOREM StatisticsExact == Spec => []StatsExact
<1>1. SInv => StatsExact
    BY DEF SInv, Statistics, Exact, Shown, Matches, StatsExact, Up
<1> QED
    BY <1>1, SInvHolds, PTL

=============================================================================
