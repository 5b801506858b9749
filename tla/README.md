# Formal model of novelai_proxy

TLA+ specifications of the request path of the proxy, of what it stores and of how
accounts and upstreams are administered, TLC configurations that check them on small
instances, and TLAPS proofs: every safety and action property that a passing run checks is also
a theorem, for every value of the constants. Liveness is model-checked.
Source paths below are relative to `src/app/`.

## 1. The system

The proxy is one Python process, one asyncio event loop, one SQLite file. A client request is
priced, admitted against several ledgers, queued, routed to an upstream account, executed by
that account's single worker, and settled. Code between two `await`s runs without interruption;
everything hard happens across them, or in the threads that archive images and payloads.

| Component (files) | State | Operations | Interacts with |
|---|---|---|---|
| Request accounting (`request_accounting.py`) | per request: `_reservation_settled`, `_log_finalized`, grants | `settle_success/failure/rejected/released`, `record_retry_failure`, `record_retry_attempt` | called by queue, routing, retry, service; writes ledgers and log rows |
| Ledgers (`quota_manager.py`, `free_small_daily_limit.py`, `idle_free_small_daily_limit.py`, `daily_windows.py`) | rows with `used`, `reserved`, a limit, a window | reserve, confirm, release, reset, reclaim at start | accounting, admin pages, lifespan |
| Proxy service (`proxy/service.py`, `proxy/routes.py`) | the coroutine of a request | admit, enqueue, await, answer | ledgers, routing queue |
| Routing queue (`routing_queue.py`, `queue_tiers.py`, `retry_policy.py`) | dispatch queue, set of upstream queues, active futures | enqueue, dispatch, completion callback, retry, reroute, `sync_targets`, stop | service, upstream queues, runtime |
| Upstream queue (`upstream_queue.py`) | pending items, one worker, running item, execution lock shared by generations | enqueue, take, interval, execute, time out, archive, drain | routing queue, client of the upstream |
| Work queue (`queue_work_queue.py`) | heap, getter futures, unfinished count, event | put, get, remove_matching, task_done, join | dispatcher, workers, stop |
| Idle tracker (`idle_free_small.py`) | running flags and samples per upstream | start/finish, is_idle | admission, routing, worker |
| Upstream runtime (`upstreams.py`, `upstream_auto_disable.py`, `self_service/upstreams.py`, `admin/upstream_probe.py`, `admin_notifications.py`) | table, client map, queue targets, notices, tests in flight | create, update, delete, disable, sync, notify, dismiss, test | admin pages, owners, handlers that fail, whitelists |
| Usage logs (`usage_logs.py`), statistics (`dashboard_stats/`), payload archive (`payload_archive.py`) | log rows per attempt, hourly counters, archived payloads | insert, close, archive, compact, delete, rebuild | accounting, admin pages, background loop |
| Database (`database/`) | the file, its schema version | transactions, migrations at start | every component |
| Rate limiter (`rate_limiter.py`, `rate_limit_rules.py`) | rules; it counts log rows | check | service, usage logs |
| Users, groups, self service (`users/`, `self_service/`, `admin/users.py`, `admin/groups.py`) | user and group rows, rules, quotas, the flag of a failed verification | register, log in, edit by API or page, propagate, synchronise, delete | everything that asks for a user |
| Dashboard events (`dashboard_events.py`) | version and condition | notify, wait | logs, queues, web sockets |
| Sessions, CSRF, key flash, image hosts, costing, policies, admin pages, `anlas_sync/` | see PROJECT.json | | |

Hard behaviours, each listed at its line in PROJECT.json `hazards`:

* several layers settle the same request: queue, retry, reroute, stop and service;
* clients that go away before, during and just after the answer;
* upstreams disabled and enabled again while their worker holds a request;
* retries that keep the reservation while the log row is closed and opened anew;
* administrators who reset a ledger, or a day that ends, under requests in flight;
* failing writes, crashes, restarts;
* queues at their limit, VIPs that overflow them, a stop that waits for work that moves;
* maintenance jobs in threads, one transaction after another, with every other write in between;
* a start that migrates and refills in steps that are committed one by one;
* handlers of several transactions that a failing write cuts, and edit pages saved later.

What makes each component correct, in one line: accounting - each grant is charged or returned
once, to the account it came from; ledgers - nothing leaks, nobody exceeds a limit; routing and
upstream queues - a waiting request is in exactly one place, gets one answer, and the answer
agrees with its account and its log; work queue - no lost wake-up; runtime - table, clients and
targets agree after every handler, whitelists name upstreams that exist, and administrators hear
of each switch-off once; logs and archive - no payload or count is lost or doubled, and nothing
deleted stays in an archive; users and groups - who is active is exactly what administrators and
verifications last said, and who follows a group follows it through every change; rate limiter -
never more than the limit in any window.

## 2. Modules

```
Settlement                         the promise: held, then charged or refunded once
   ^ implemented by                ^ implemented by
RequestAccounting                RoutingQueue ---- uses as an atomic object ----> PriorityWorkQueue
   ^ EXTENDS                       ^ EXTENDS                                        ^ EXTENDS
MCRequestAccounting              MCRoutingQueue                          MCPriorityWorkQueue
RequestAccountingProofs          RoutingQueueProofs                      PriorityWorkQueueProofs
                                 RoutingPlacesProofs
                                 RoutingLedgerProofs

HourlyStatistics <-EXTENDS- LogStorage    UpstreamAdministration           UserAdministration
                               ^               ^                                ^ EXTENDS
                          MCLogStorage    MCUpstreamAdministration         MCUserAdministration
                      LogStorageProofs    UpstreamAdministrationProofs     UserAdministrationProofs
```

**Settlement** is the abstract specification: the fate of each reservation.
`RequestAccounting` implements it with a fate computed from `phase` and `settled`;
`RoutingQueue` with the `settled` field of each accounting object.

**RequestAccounting** is `request_accounting.py` with the three ledgers behind it. `used` and
`reserved` are the columns of the rows `<<pool, user, day>>`; `hold[r]` is what the object was
granted, `settled` and `final` its two flags, `row` the status of the current attempt's log row.
The methods of an object are enabled in any order, any number of times, because five layers call
them: `RecordRetryAttempt` too asks for nothing but a process that is up and an admitted request,
so that it may open the row of a next attempt after the object was settled, as the code lets it
(the callers that never do are in RoutingQueue, where RowsFinal is stricter). `Admit`, `Reject`
and their failing variants are `_check_before_queue` and the first half of `submit_binary`, which
never await and so are one step. A write may fail wherever the code writes: `FailSets` says which
of the three ledger writes of a settlement are then skipped (the quota write raises and skips the
daily one; the daily and idle writes are guarded on their own). `ResetUsage`, `SetLimit`,
`NextDay`, `Crash` and `Restart` are the environment. History variables: `orphan` (grants no
living object will settle), `spent` (grants charged since the last reset), `skewed` (accounts
reset under a request in flight), `cap` (highest limit since).

**RoutingQueue** is the path from `enqueue` to the answer. One action is what runs between two
awaits: `Submit`/`SubmitRefused` (service), `Dispatch` (one turn of the dispatcher), `Take`,
`LockGranted`, `StartHandler` (after the wait for the interval),
`HandlerSucceeds`/`HandlerRaises`/`HandlerTimesOut`, `Archived`, `HandlerExits`/`GiveUp` (worker),
`Complete` (the done callback, a loop turn later), `ServiceResume` (the coroutine, later still),
`ClientCancels`, `UserGone`, `Enable`, `Disable`, and the steps of a drained stop. A *slot* is an
upstream and a generation: an upstream that is disabled and enabled again has a new queue and
worker while the old one drains, and both share the execution lock `lockQ`. `client[r]` is the
future the caller awaits, `task[r]` the coroutine: they are separate because a client may go away
between the two. `paced` holds the slots that have had an answer (`_last_upstream_completed_at`):
only there may the worker wait for the interval with a request in hand, of any length or none; on
a fresh queue the client is looked up in the step that takes the request. The lookup raises
exactly for a disabled upstream: every change of the enabled set goes through
`_replace_state_clients`, which makes the first enabled upstream, or none, the default, so a
disabled one never is. An upstream may also be enabled while a stop waits for the active futures;
after the dispatcher has stopped the new queue would get no work, and that is left out. That
`dispatchQ` is empty when `StopDispatcher` fires is not tested by the code: one turn of the
dispatcher empties the queue before any future in it leaves the active set. Left open (any outcome
the code can produce): the order in which candidate upstreams are tried, whether an idle request
finds the upstreams idle, and whether an error disables the upstream.

**PriorityWorkQueue** is the queue class under both: getter futures, hand-made wake-ups, the
unfinished count and its event. Which of several waiting getters is woken is left open.

**LogStorage** is the log table and what hangs on it. A row has its attempt, status, upstream and
hour, and three facts about its payload: `hot` (it is in the row), `bytes` (its stored size is not
0) and `avail` (pages show it as having one). `archives` and `archiveOf` are the two archive
tables. An UPDATE of an attempt writes the row the unique key `(request_id, attempt)` names, and
fires the update trigger once; a DELETE of several rows fires the delete trigger once for each
(`Retracted`). The event loop's writes (`Log`, `Replay`, `MarkRunning`, ..., `RetryAttempt`) are single
steps; a job in `jobs[t]` does one transaction per step: `StartArchive`/`ArchivePart`,
`StartCleanup`/`CleanupBatch`, `ClearPayloads`, and the `CompactNext` that ends the last two.
What a job read in an earlier transaction (`parts`, `todo`, `before`) may be stale by then.
`Crash` may come anywhere, also in the middle of a start, whose steps are the migrations
(`MigrateKey`, `MigrateBytes`, `MigrateAvailable`, `MigrateVersion`) and, when the statistics are
empty, the refill (`RebuildStep`, `Serve`). `Init` starts from a new database or from two old ones.
History: `hollow`, `leaked` and `torn` mark what three known gaps leave behind (section 4).

**HourlyStatistics** holds the pure part of the dashboard counters: what the insert, update and
delete triggers do to the cells `(hour, upstream)` (`Apply`, `Replace`, `Retract`) and, as the
reference they are checked against, what the rebuild script counts (`Recounted`, `Recurrences`;
`Total` is SQL's sum, as the number of units it adds up).

**UpstreamAdministration** has the table, the clients (whose ids are the queue's targets), the
whitelists, the open notices, the requests in flight and the connection tests. Every handler runs
to its end without an await, so it is one step, with a second disjunct for a write that fails on
the way (`UpdateOwned`, `DeleteOwned`, `LandWithError`). Requests in flight carry nothing of the
row they were sent under, as in the code: a late error switches off whatever the row is by then.
The check that a self-service user may act runs in a thread before the handler and so guards
nothing.

**UserAdministration** has the groups, the accounts, one edit page that an administrator has open,
and the three kinds of settings a member takes from its group by where they are kept (columns of
the row, rate limit rules, quota), because each kind is written by a transaction of its own.
`Save` is `update_user`, whole or cut after one of its transactions; `PatchGroup` is
`update_group_with_propagation` with its scopes; `SavePage` decides as `update_user_form` does,
from the page's fields and the account as it is now. History: `banned` (the administrator's last
word), `following` (settings that are the group's and were not changed since).

## 3. Runs

| Run | Instance | Shows |
|---|---|---|
| AccountingDays | 2 requests (one that only the daily or idle pool can grant, one paid that also counts as a daily image), 2 days, 1 failing write, a daily limit of 1 that may be raised to 2 | TypeOK, NoLeak, WithinCap, LedgerExact, SpentExact, Bookkeeping, RowTerminalOnce, implements Settlement |
| RoutingUpstreams | 2 requests (VIP tied to one upstream), 2 upstreams, queues of 1, 2 attempts | TypeOK, OnePlace, NothingLost, RetryRows, RowsFinal |
| RoutingCrowded | 3 requests, 1 upstream with a queue of 1, dispatch queue of 2 | AnswerMatchesCharge, RowsClosed, QueueBounds, StopLosesNothing |
| RoutingLive | idle request and VIP, 1 upstream, 2 generations, with fairness | OneHandler, implements Settlement, Answered, StopTerminates |
| WorkQueue | 4 items, 3 consumers, size 2, with fairness | TypeOK, WakeupsSuffice, UnfinishedExact, JoinMeansDone, Served, JoinReturns |
| LogStorage | 2 requests, 3 rows, 2 hours of 2 days, 1 upstream, 2 threads, parts of 2, batches of 1, 3 initial databases | TypeOK, PayloadReadable, NoLeftovers, StatsExact |
| UpstreamAdministration | 1 user with at most 1 upstream of 2 labels, 1 group, 2 keys, 2 tests, 2 notices, 1 failing write | TypeOK, TargetsAgree, ReferencesResolve, ProbeSlots, NoticeOnce |
| UserAdministration | a Discord and a local account, 1 group, 2 values, 2 edits, 1 cut handler | TypeOK, StandingExact, FollowersFollow, DeletedFrozen |
| UsersStaleForm | a Discord account, 1 edit, no cuts; a page that showed a recovered account as kept out | UntouchedBoxKeepsRecovery is violated (finding) |
| AccountingReset | 2 paid requests | NeverOverspent is violated (finding) |
| RoutingInterval | 2 requests, 2 upstreams, 2 attempts | NoInternalError is violated (finding) |
| RoutingLateCancel | 2 upstreams | EveryRowClosed is violated (finding) |

Bounds. Two requests are what it takes to steal units from each other, overtake each other or
fill a queue of one; a third lets two compete while one is in flight. Two days are what a late
settlement needs, two attempts what a retry needs, two generations what an overlap needs; one
failing write is already enough to leave an orphan, and each further one adds the same set.
Three log rows are a request with a retry beside another one; parts of two payloads and batches of
one row split a job into several transactions; a third thread would only repeat what two do to each
other. Two keys and two labels are what a stale client and a label taken twice need, two tests what
an abandoned one beside a new one needs. Two edits let one administrator undo another's. Threads,
keys and values are interchangeable and are symmetry sets of their runs (safety only).
`LastDay`, `MaxFaults`, `MaxGen`, `MaxAttempts`, `MaxRows`, `HoursPerDay`, `Hours`, `MaxOpen`,
`MaxTests`, `Numbers`, `MaxEdits`, `Requests`, `GroupRequests` and `Paged` are the only bounds on
otherwise unbounded behaviour (`MaxAttempts` is a configuration value of the code).

Deadlock checking is off in the accounting, routing and work queue runs: a request that is answered
and a proxy that has stopped do nothing more, and nobody has to send the next request. It is on in
LogStorage, UpstreamAdministration and UserAdministration, which always have a next step.

Fairness. `RoutingQueue!FairSpec` and `PriorityWorkQueue!FairSpec` use weak fairness only: a
ready coroutine or callback is run by the event loop; an interval sleep, an archive thread and a
handler end (the handler by `upstream_request_timeout`), its cleanup by its grace. In a run with
`Grace = FALSE` the code waits for a cancelled handler without bound, so weak fairness of
`HandlerExits` is then an assumption about the handler; the liveness run has `Grace = TRUE`.
No fairness for arrivals, cancellations, enabling, disabling or the beginning of a stop, and none for
`ServiceResume`, which no liveness property needs. The two later steps of a stop are run by one
coroutine and share one condition.

## 4. Findings

* **AccountingReset.** A reset of a quota zeroes the reservations of requests in flight. When
  they are confirmed later, the clamped subtraction takes their units off newer reservations, and
  the user can spend more than any limit in force. `WithinCap` states exactly what remains true.
* **RoutingInterval.** A request that a worker already holds when its upstream is disabled is neither
  rerouted nor completed: the client lookup raises `KeyError` and the caller gets an internal error.
  It takes a queue that has had an answer, or a request that waited for the lock: the trace is a first
  attempt that gets a 429, its retry taken by the same worker, the wait for the interval, and
  the upstream disabled during it.
* **RoutingLateCancel.** A client that goes away between the routing rejection and the
  resumption of its coroutine leaves its log row `queued`. `RowsClosed` states what remains true.
* **UsersStaleForm.** An edit page is opened while a failed Discord verification keeps the account
  inactive; the user recovers by logging in; the page is saved with another field changed. The
  untouched box ("off") differs from the account as it is now and counts as a manual deactivation,
  which no later login undoes. REQUIREMENTS.md:156 says that such a save does not harm the recovery.
  The property is about this case only; the mirror case, a page that showed an active
  account and brings one back that was rejected meanwhile, follows from the same comparison.

Gaps that are stated as exceptions of a property rather than as runs of their own:

* `hollow` (PayloadReadable): a retry copies row 0 after its payload was archived, and its own row
  claims a size with nothing to read.
* `leaked` (NoLeftovers): a clean-up or clearing that dies before its compaction leaves payloads
  of deleted logs in their archive; no later start or job looks for them.
* `torn` (StatsExact): a start that dies between the last two statements of the refill leaves the
  aggregate filled and the upstreams empty; later starts find statistics that are not empty.
* `stale` (TargetsAgree): an owner's switch-off whose notice cannot be written is committed but not
  taken over by the runtime, which keeps using the upstream.

## 5. Proofs

`RequestAccountingProofs` proves for every set of users and requests, every cost, limit, number of
days and faults, from `AccountingAssumption` only: TypeOK, Bookkeeping, NoLeak, LedgerExact,
SpentExact, WithinCap, RowTerminalOnce and that the accounting implements Settlement.

* The inductive invariant is TypeOK, Bookkeeping and a ledger part. The ledger properties are not
  inductive alone: whether a settlement lowers `reserved` by units that are really there depends
  on the flags of the object (an open, unsettled object is the only one that settles) and on an
  orphan never being in flight as well.
* Units are counted with tokens `<<r, k>>`, `k` in `1 .. hold[r][a]`, so that sums become
  cardinalities of finite sets: a settlement removes the tokens of one request, a crash moves them
  from in flight to orphaned, a reset drops the orphaned ones and marks the account skewed.
* RowTerminalOnce says that a closed row changes only by giving way to the running row of a next
  attempt, with an open log; that a terminal write never hits a closed row follows from Bookkeeping
  (a closed row has a finalized object), whichever method is called and after whichever settlement.
* LedgerExact gives NoLeak on accounts that are not skewed; on the others the clamped
  subtraction only keeps the inequality, which is why it is proved as a part of its own.

`PriorityWorkQueueProofs` proves, from `WorkQueueAssumption`: TypeOK, WakeupsSuffice,
UnfinishedExact and JoinMeansDone. That a sleeper implies *some* woken consumer is not inductive
(one wake-up can be used up while two items are queued); WakeupsSuffice counts: as many
consumers on their way as there are items.

`UpstreamAdministrationProofs` proves, for any users, groups, keys, labels and bounds,
TargetsAgree, ReferencesResolve, ProbeSlots, TypeOK and NoticeOnce. TargetsAgree rests on one lemma
about a reload: whatever the row became, the client of that upstream agrees with it afterwards and
no other client changes; the invariant adds that the table and the clients are functions over the
known ids. ReferencesResolve and ProbeSlots are inductive once the shape of the state is known.

* TypeOK holds the upload limit: `Owned` says that an owner's rows are a finite set within its
  limit, and a step leaves the table alone, drops a row, writes one that takes nobody's share, or
  gives one to an owner who has a share left (`TableStep`).
* NoticeOnce needs that the notice of an owner's action is open at most once per upstream and kind
  (`Told`) and what a step may do to the notices (`NoticeStep`): dismiss one, open the one of an
  error together with its switch-off, or open one of an owner's that is not open yet. `Owned`,
  `Told` and the bounds (`Limits`) are inductive together with the first invariant.

`UserAdministrationProofs` proves TypeOK, StandingExact, FollowersFollow and DeletedFrozen, for any
accounts, groups, values and requests. The inductive invariant joins the shape of the state with
StandingExact and FollowersFollow; the lemmas say what the members' settings are after any subset of
a propagation's transactions (`WrittenRows`), so that a cut handler and a whole one are one case.

Three modules prove the routing queue, for any requests, tiers, whitelists, upstreams, generations and
queue sizes, from `RoutingAssumption`: OneHandler, OnePlace, NothingLost, AnswerMatchesCharge,
RowsClosed, RetryRows, RowsFinal, StopLosesNothing, QueueBounds, TypeOK, and that RoutingQueue
implements Settlement. The inductive invariant is `RoutingInv` == `LockInv`, `Booked` and `Life`.

* `RoutingQueueProofs`, `LockInv`: a worker is in the queue of its upstream's execution lock exactly
  while it waits for the lock or works under it, nobody is in it twice, who works is at its head,
  and a generation to come has no worker. Three lemmas say what entering, leaving and leaving alone
  that queue does; each action is one of them. OneHandler follows.
* `RoutingPlacesProofs`, the places: `Boxes(where, ...)` says that an assignment of a place to every
  request (dispatch queue, queue of a slot, hand of a worker, callback, nowhere) is the one that the
  queues, workers and callbacks show. A request is in at most one box because `where` is a
  function; OnePlace, which counts, is read off at the end and never has to be preserved.
  The lemmas say what entering and leaving each box does, including `Put`, which inserts a VIP
  before the others.
* `RoutingLedgerProofs`, `Booked`: there is a `where` that fits the boxes and with which the books of
  every request agree (`Entry`): the future, the coroutine, the reservation and the row of
  each attempt are what the place says. A settled request under way is the hard case: its
  reservation says which answer is still to come with the callback, so AnswerMatchesCharge and
  RowsClosed need to know the callback, and the callback needs to know the rows of earlier attempts.
  A step is either the arrival of one request (`Comes`) or `Orderly`: closed rows stay closed,
  a reservation leaves `held` once, an answer is final, for all requests at once. RowsFinal and
  Settlement follow from that alone.
* Rerouting the queue of a disabled upstream is one step that treats any number of requests. It is a
  recursive function over the queue, and the proof is an induction over how much of it has been
  treated: the set of lengths up to which the books agree contains 0 and is closed under one more
  request (`RerouteWalk`). The induction is over that set, not over an operator.
* `Life`: the worker of a target works until the dispatcher has stopped, nothing is pending where no
  worker is, the dispatcher stops only when nobody waits, and the queue stops only when no
  worker and no callback is left. StopLosesNothing rests on it.
* QueueBounds counts the requests that are no VIPs by injections between positions of the old and the
  new queue (VIPs pass a full upstream queue, so that queue's length has no bound); TypeOK needs
  in addition that the books are functions written one entry at a time.

`LogStorageProofs` proves PayloadReadable, NoLeftovers, StatsExact and TypeOK, for any requests, threads,
filters, costs, upstreams, days, part and batch sizes, from `LogStorageAssumption` and
`HourlyStatisticsAssumption` (the names for "no upstream" and "all upstreams" are no upstream's).
The invariant for the payloads adds to PayloadReadable and NoLeftovers that a reference leads to the
payload of its own log, which is not hot (`Resolves`); that only a deleting or compacting job has
archives to compact (`TodoOfJobs`), so that no other step can drop one; and how far a start has come
(`Migrated`): before the flags are migrated a row with a size is hot, from then on `Available`
holds, and a server that is up has migrated. A compaction never meets the error that would end its
job early. For the statistics, `SInv` joins three parts to it:

* `Attempts`: a request has one row for an attempt and none for an attempt it has not made, so an
  UPDATE hits one row and an insert a new key. Without it the triggers could count a row twice.
* `Statistics`: while the server serves every cell is what the rebuild script would count (only the
  aggregate after a torn refill); during a start the cells are exact or empty, and then as far
  as the statement of the refill that ran last.
* Lemmas on one cell and one row: a sum over one row more is the sum plus its value (`TotalMore`), an
  insert trigger keeps a matching cell matching, a delete trigger likewise, an update is both in turn.
  The delete of a batch is an induction over the trigger's runs, in set form as above.

Only model-checked: every liveness property (Answered, StopTerminates, Served, JoinReturns), which
the prover cannot treat, and the four properties that are violated. `PriorityWorkQueue` enters
`RoutingQueue` as an atomic object; that the one may stand for the other is argued by its
properties, not proved as a refinement.

## 6. What is left out

Worth doing next: probes through the queue, the replay tier, a failing write during a reroute and
a worker killed by its handler in RoutingQueue; the rate limiter over a model of time, with the
interval between two requests of an upstream and the samples of the idle tracker; key resets and
the limits a group shares in UserAdministration.

Not modelled, and why: pricing, request validation and policies (pure functions whose results,
cost and free-small count, are constants here); cookies, tokens, CSRF (cryptography); lists,
charts, exports and snapshots (read-only); the dashboard's event bus (it refreshes pages that reread
everything anyway); compression and checksums of archives (a payload is the request it
belongs to); image uploads (I/O in a thread); adaptive scores of upstreams (they only choose among
candidates, which is left open); interval lengths and time-outs as durations (time is abstracted to
"may happen now"); a forced stop, `stop(drain=False)`, which only tests ask for; `anlas_sync/`
(offline tooling). RoutingQueue assumes that database writes succeed; RequestAccounting covers
failing ones.
