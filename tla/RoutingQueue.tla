----------------------------- MODULE RoutingQueue -----------------------------
(***************************************************************************)
(* The life of a proxy request between admission and answer: the dispatch  *)
(* queue and its dispatcher (routing_queue.py), one queue and worker per   *)
(* enabled upstream (upstream_queue.py), the service coroutine that waits  *)
(* for the answer (proxy/service.py), and the accounting they drive.       *)
(*                                                                         *)
(* Everything runs on one event loop, so an action is what runs between    *)
(* two awaits.  An upstream that is disabled and enabled again gets a new  *)
(* queue and worker, a generation, while the old one drains; a slot is     *)
(* an upstream and a generation.  Database writes succeed here: what a     *)
(* failing one does to an accounting object is in RequestAccounting.       *)
(***************************************************************************)
EXTENDS Integers, Sequences, FiniteSets, FiniteSetsExt

CONSTANTS
    Requests,
    Tier,            \* "normal" or "vip"
    IdleRequests,    \* requests admitted on the idle free-small pool
    Deletable,       \* requests whose user may be disabled meanwhile
    Upstreams,
    Allowed,         \* the upstreams a request may use; {} for any
    MaxDispatch,     \* dispatch_max_queue_size, 0 for no bound
    MaxQueue,        \* max_queue_size, 0 for no bound
    MaxAttempts,
    RetryThreshold,  \* retry_429_queue_length_threshold
    Grace,           \* whether upstream_timeout_cleanup_grace_seconds > 0
    MaxGen           \* bound: how often an upstream is enabled

ASSUME RoutingAssumption ==
    /\ IsFiniteSet(Requests) /\ IsFiniteSet(Upstreams)
    /\ Tier \in [Requests -> {"normal", "vip"}]
    /\ IdleRequests \subseteq Requests /\ Deletable \subseteq Requests
    /\ Allowed \in [Requests -> SUBSET Upstreams]
    /\ MaxDispatch \in Nat /\ MaxQueue \in Nat
    /\ MaxAttempts \in Nat \ {0} /\ MaxGen \in Nat \ {0}
    /\ RetryThreshold \in Int
    /\ Grace \in BOOLEAN

VARIABLES
    mode,        \* life of the routing queue
    dispatchQ,
    target,      \* generation an upstream is routed to, 0 when disabled
    born,        \* generations an upstream has had
    queue,       \* pending attempts of each slot
    worker,      \* what the worker of each slot is doing, and with which item
    lockQ,       \* execution lock of each upstream: holder first, then waiters
    abandoned,   \* timed-out handlers of an upstream nobody waits for any more
    paced,       \* slots with a _last_upstream_completed_at: the next call may have to wait
    callbacks,   \* attempt futures that are done, whose callback has not run
    client,      \* the future the caller of a request awaits
    task,        \* the service coroutine of a request
    gone,        \* requests whose user was disabled
    acct         \* accounting object and usage_logs rows of a request

routing == <<dispatchQ, target, born, queue>>
execution == <<worker, lockQ, abandoned, paced>>
caller == <<client, task, gone>>
vars == <<mode, routing, execution, callbacks, caller, acct>>

Attempts == 0 .. MaxAttempts - 1
Slots == Upstreams \X (1 .. MaxGen)
Items == [r : Requests, n : Attempts, logged : BOOLEAN]

None == [pc |-> "none"]
Idling == [pc |-> "idle"]
Stopped == [pc |-> "stopped"]
Holding(pc, i) == [pc |-> pc, item |-> i]

Answers == {"ok", "error", "crashed", "user_gone", "idle_rejected", "full", "unavailable"}
TerminalRow == {"success", "failed", "rejected"}

Waiting(r) == client[r] = "waiting"

-------------------------------------------------------------------------------
\* The accounting calls, on one object a and the row of attempt n.

SettleUnguarded(a, how) == [a EXCEPT !.settled = IF @ = "held" THEN how ELSE "twice"]
Settle(a, how) == IF a.settled = "held" THEN [a EXCEPT !.settled = how] ELSE a

CloseAlways(a, n, status) == [a EXCEPT !.final = TRUE, !.row[n] = status]
Close(a, n, status) == IF a.final THEN a ELSE [a EXCEPT !.final = TRUE, !.row[n] = status]

Released(a) == Settle(a, "refunded")
Succeeded(a, n) == Close(Settle(a, "charged"), n, "success")
FailedUnreleased(a, n) == Close(a, n, "failed")
Failed(a, n) == Close(Released(a), n, "failed")
Rejected(a, n) == Close(Released(a), n, "rejected")

RetryFailedSilently(a, n) == a
RetryFailed(a, n) == Close(a, n, "failed")
RetryAttemptUnopened(a, n) == [a EXCEPT !.row[n] = "running"]
RetryAttempt(a, n) == [a EXCEPT !.row[n] = "running", !.final = FALSE]

MarkRunning(a, n) == [a EXCEPT !.row[n] = "running"]

RoutingRejectionLogged(a, i) == IF i.n > 0 /\ i.logged THEN Rejected(a, i.n) ELSE a

\* _settle_routing_rejection: the row of a first attempt is left to the service.
RoutingRejection(a, i) == IF i.n > 0 /\ i.logged THEN Rejected(a, i.n) ELSE Released(a)

-------------------------------------------------------------------------------
\* The queues: by priority, and in arrival order within one.  That is the order of the
\* sequence numbers, except between two VIP retries one of which was rerouted.

Prio(i) == IF Tier[i.r] = "vip" THEN (IF i.n > 0 THEN -1 ELSE 0) ELSE 10

Put(q, i) ==
    LET p == Cardinality({k \in DOMAIN q : Prio(q[k]) <= Prio(i)})
    IN SubSeq(q, 1, p) \o <<i>> \o SubSeq(q, p + 1, Len(q))

Full(q, max) == max > 0 /\ Len(q) >= max

Targets == {u \in Upstreams : target[u] # 0}
Current(u) == <<u, target[u]>>
Candidates(r) == {u \in Targets : Allowed[r] = {} \/ u \in Allowed[r]}

\* VIP attempts overflow an upstream queue, the dispatch queue never overflows.
RoomyAnyTier(r) == Candidates(r)
Roomy(r) == {u \in Candidates(r) : Tier[r] = "vip" \/ ~Full(queue[Current(u)], MaxQueue)}

\* _get_total_queue_length over the targets T
TotalLength(T) == MapThenSumSet(LAMBDA u : Len(queue[Current(u)]), T)

-------------------------------------------------------------------------------
\* The caller's side.

Opened == [settled |-> "held", final |-> FALSE,
           row |-> [n \in Attempts |-> IF n = 0 THEN "queued" ELSE "none"]]

\* submit_binary up to its await: reserved, logged as queued, put in the queue.
Submit(r) ==
    /\ task[r] = "none" /\ mode = "run" /\ ~Full(dispatchQ, MaxDispatch)
    /\ dispatchQ' = Put(dispatchQ, [r |-> r, n |-> 0, logged |-> FALSE])
    /\ client' = [client EXCEPT ![r] = "waiting"]
    /\ task' = [task EXCEPT ![r] = "awaiting"]
    /\ acct' = [acct EXCEPT ![r] = Opened]
    /\ UNCHANGED <<mode, target, born, queue, execution, callbacks, gone>>

\* enqueue raises QueueFull or QueueClosed: the reservation is returned at once.
SubmitRefused(r) ==
    /\ task[r] = "none" /\ (mode # "run" \/ Full(dispatchQ, MaxDispatch))
    /\ client' = [client EXCEPT ![r] = "refused"]
    /\ task' = [task EXCEPT ![r] = "answered"]
    /\ acct' = [acct EXCEPT ![r] = Rejected(Opened, 0)]
    /\ UNCHANGED <<mode, routing, execution, callbacks, gone>>

\* The service resumes with the answer; for these two it closes the first row.
ServiceResume(r) ==
    /\ task[r] = "awaiting" /\ ~Waiting(r)
    /\ task' = [task EXCEPT ![r] = "answered"]
    /\ acct' = IF client[r] \in {"full", "unavailable"}
               THEN [acct EXCEPT ![r] = Rejected(acct[r], 0)] ELSE acct
    /\ UNCHANGED <<mode, routing, execution, callbacks, client, gone>>

\* The client goes away: its coroutine is cancelled at the await, which cancels the
\* future unless that is done already.  Nothing is settled or logged here.
ClientCancels(r) ==
    /\ task[r] = "awaiting"
    /\ task' = [task EXCEPT ![r] = "cancelled"]
    /\ client' = IF Waiting(r) THEN [client EXCEPT ![r] = "cancelled"] ELSE client
    /\ UNCHANGED <<mode, routing, execution, callbacks, gone, acct>>

UserGone(r) ==
    /\ r \in Deletable \ gone
    /\ gone' = gone \cup {r}
    /\ UNCHANGED <<mode, routing, execution, callbacks, client, task, acct>>

-------------------------------------------------------------------------------
\* _dispatch_to_upstream, for the dispatcher and for the immediate retry of a VIP.
\* The order in which the candidates are tried is left open.

Routed(i) ==
    /\ \E u \in Roomy(i.r) :
        queue' = [queue EXCEPT ![Current(u)] = Put(@, [i EXCEPT !.logged = i.n > 0])]
    /\ acct' = IF i.n > 0 /\ ~i.logged THEN [acct EXCEPT ![i.r] = RetryAttempt(acct[i.r], i.n)] ELSE acct
    /\ UNCHANGED client

\* No upstream takes it: an idle request counts as over its limit, a retry gets its
\* 429, a first attempt learns that the queues are full or that there is no upstream.
Unroutable(i) ==
    /\ Roomy(i.r) = {}
    /\ LET overLimit == Candidates(i.r) = {} /\ i.r \in IdleRequests IN
        /\ acct' = [acct EXCEPT ![i.r] =
                        IF overLimit /\ ~(i.n > 0 /\ ~i.logged) THEN Rejected(@, i.n)
                        ELSE RoutingRejection(@, i)]
        /\ client' = [client EXCEPT ![i.r] =
                        CASE overLimit -> "idle_rejected"
                          [] ~overLimit /\ i.n > 0 -> "error"
                          [] ~overLimit /\ i.n = 0 /\ Candidates(i.r) # {} -> "full"
                          [] OTHER -> "unavailable"]
    /\ UNCHANGED queue

DispatchTo(i) == Routed(i) \/ Unroutable(i)

\* One turn of _run_dispatcher.
Dispatch ==
    /\ mode \in {"run", "draining"} /\ dispatchQ # <<>>
    /\ dispatchQ' = Tail(dispatchQ)
    /\ LET i == Head(dispatchQ) IN
        \/ /\ ~Waiting(i.r)
           /\ acct' = [acct EXCEPT ![i.r] = Failed(@, i.n)]
           /\ UNCHANGED <<queue, client>>
        \/ /\ Waiting(i.r) /\ i.r \in gone
           /\ acct' = [acct EXCEPT ![i.r] = Rejected(@, i.n)]
           /\ client' = [client EXCEPT ![i.r] = "user_gone"]
           /\ UNCHANGED queue
        \/ Waiting(i.r) /\ i.r \notin gone /\ DispatchTo(i)
    /\ UNCHANGED <<mode, target, born, execution, callbacks, task, gone>>

\* _requeue_429_retry
Requeue(i) ==
    \/ Tier[i.r] = "vip" /\ DispatchTo(i) /\ UNCHANGED dispatchQ
    \/ /\ Tier[i.r] # "vip" /\ ~Full(dispatchQ, MaxDispatch)
       /\ dispatchQ' = Put(dispatchQ, i)
       /\ UNCHANGED <<queue, client, acct>>
    \/ /\ Tier[i.r] # "vip" /\ Full(dispatchQ, MaxDispatch)
       /\ acct' = [acct EXCEPT ![i.r] = Released(@)]
       /\ client' = [client EXCEPT ![i.r] = "error"]
       /\ UNCHANGED <<dispatchQ, queue>>

NextAttempt(i) == [r |-> i.r, n |-> i.n + 1, logged |-> FALSE]

LastAttemptLate(i) == i.n + 1 > MaxAttempts
LastAttempt(i) == i.n + 1 >= MaxAttempts

\* _handle_upstream_completion for an attempt that ended with a retryable 429: the
\* caller is gone, the attempts are used up, an idle request finds the upstreams
\* busy (left open), or it is tried again.
Retry(i) ==
    \/ /\ ~Waiting(i.r)
       /\ acct' = [acct EXCEPT ![i.r] = Released(@)]
       /\ UNCHANGED <<dispatchQ, queue, client>>
    \/ /\ Waiting(i.r) /\ LastAttempt(i)
       /\ acct' = [acct EXCEPT ![i.r] = Released(@)]
       /\ client' = [client EXCEPT ![i.r] = "error"]
       /\ UNCHANGED <<dispatchQ, queue>>
    \/ /\ Waiting(i.r) /\ ~LastAttempt(i) /\ i.r \in IdleRequests
       /\ acct' = [acct EXCEPT ![i.r] = Released(@)]
       /\ client' = [client EXCEPT ![i.r] = "idle_rejected"]
       /\ UNCHANGED <<dispatchQ, queue>>
    \/ Waiting(i.r) /\ ~LastAttempt(i) /\ Requeue(NextAttempt(i))

\* The done callback of an attempt future passes its outcome on, unless the caller's
\* future is done already.
Complete(r) ==
    /\ \E c \in callbacks :
        /\ c.item.r = r
        /\ callbacks' = callbacks \ {c}
        /\ \/ c.result = "retry" /\ Retry(c.item)
           \/ /\ c.result # "retry"
              /\ client' = IF Waiting(r) THEN [client EXCEPT ![r] = c.result] ELSE client
              /\ UNCHANGED <<dispatchQ, queue, acct>>
    /\ UNCHANGED <<mode, target, born, execution, task, gone>>

DoneUnheard(i, result) == UNCHANGED callbacks
Done(i, result) == callbacks' = callbacks \cup {[item |-> i, result |-> result]}

-------------------------------------------------------------------------------
\* The worker of a slot.

Free(s) == worker' = [worker EXCEPT ![s] = Idling]
Keep(s, pc, i) == worker' = [worker EXCEPT ![s] = Holding(pc, i)]
Account(r, a) == acct' = [acct EXCEPT ![r] = a]
Pace(s) == paced' = paced \cup {s}

\* _process_item up to its first await, once the lock is held; locks is the lock
\* queue of the upstream with this slot at its head.  A queue that has seen a call to
\* its upstream end may wait for the interval.  Otherwise the client of the upstream
\* is looked up in the same step; see StartHandler.
Process(s, i, locks) ==
    LET running == MarkRunning(acct[i.r], i.n)
        skip(a, result) ==
            /\ Account(i.r, a) /\ Done(i, result) /\ Free(s)
            /\ lockQ' = [lockQ EXCEPT ![s[1]] = Tail(locks)]
        go(pc) ==
            /\ Account(i.r, running) /\ Keep(s, pc, i)
            /\ lockQ' = [lockQ EXCEPT ![s[1]] = locks]
            /\ UNCHANGED <<callbacks, paced>>
    IN
    \/ ~Waiting(i.r) /\ skip(Failed(acct[i.r], i.n), "cancelled") /\ UNCHANGED paced
    \/ Waiting(i.r) /\ i.r \in gone /\ skip(Rejected(acct[i.r], i.n), "user_gone") /\ UNCHANGED paced
    \/ Waiting(i.r) /\ i.r \notin gone /\ s \in paced /\ go("interval")
    \/ Waiting(i.r) /\ i.r \notin gone /\ target[s[1]] # 0 /\ go("exec")
    \/ /\ Waiting(i.r) /\ i.r \notin gone /\ target[s[1]] = 0
       /\ skip(Failed(running, i.n), "crashed") /\ Pace(s)

LockFreeOwn(s) == \A k \in 1 .. Len(lockQ[s[1]]) : lockQ[s[1]][k] # s[2]
LockFree(s) == lockQ[s[1]] = <<>>

\* One item from the queue to the lock.  An idle request is looked at first: it may
\* not run on a queue that was replaced, nor when its upstreams are busy (left open).
Begin(s, i) ==
    \/ /\ LockFree(s) /\ Process(s, i, <<s[2]>>)
    \/ /\ ~LockFree(s)
       /\ Keep(s, "lock", i)
       /\ lockQ' = [lockQ EXCEPT ![s[1]] = Append(@, s[2])]
       /\ UNCHANGED <<acct, callbacks, paced>>

TurnAway(s, i, a, result) ==
    Account(i.r, a) /\ Done(i, result) /\ UNCHANGED <<worker, lockQ, paced>>

Take(s) ==
    /\ worker[s].pc = "idle" /\ queue[s] # <<>>
    /\ queue' = [queue EXCEPT ![s] = Tail(@)]
    /\ LET i == Head(queue[s])
           a == acct[i.r]
       IN
       \/ i.r \notin IdleRequests /\ Begin(s, i)
       \/ i.r \in IdleRequests /\ ~Waiting(i.r) /\ TurnAway(s, i, Failed(a, i.n), "cancelled")
       \/ /\ i.r \in IdleRequests /\ Waiting(i.r) /\ i.r \in gone
          /\ TurnAway(s, i, Rejected(a, i.n), "user_gone")
       \/ /\ i.r \in IdleRequests /\ Waiting(i.r) /\ i.r \notin gone
          /\ TurnAway(s, i, Rejected(a, i.n), "idle_rejected")
       \/ /\ i.r \in IdleRequests /\ Waiting(i.r) /\ i.r \notin gone /\ target[s[1]] = s[2]
          /\ Begin(s, i)
    /\ UNCHANGED <<mode, dispatchQ, target, born, abandoned, caller>>

\* The lock is handed over to the first waiter.
LockGranted(s) ==
    /\ worker[s].pc = "lock" /\ Head(lockQ[s[1]]) = s[2]
    /\ Process(s, worker[s].item, lockQ[s[1]])
    /\ UNCHANGED <<mode, routing, abandoned, caller>>

Unlock(s) == lockQ' = [lockQ EXCEPT ![s[1]] = Tail(@)]

\* The interval is over.  The client of the upstream is looked up by id, which
\* raises KeyError while the upstream is disabled.  The default upstream is no
\* exception: every change of the enabled set makes the first enabled one, or none,
\* the default (_replace_state_clients), so a disabled upstream never is it.
StartHandler(s) ==
    /\ worker[s].pc = "interval"
    /\ LET i == worker[s].item IN
        \/ /\ ~Waiting(i.r)
           /\ Account(i.r, Failed(acct[i.r], i.n)) /\ Done(i, "cancelled") /\ Free(s) /\ Unlock(s)
           /\ UNCHANGED paced
        \/ /\ Waiting(i.r) /\ target[s[1]] = 0
           /\ Account(i.r, Failed(acct[i.r], i.n)) /\ Done(i, "crashed") /\ Free(s) /\ Unlock(s)
           /\ Pace(s)
        \/ /\ Waiting(i.r) /\ target[s[1]] # 0
           /\ Keep(s, "exec", i)
           /\ UNCHANGED <<lockQ, callbacks, acct, paced>>
    /\ UNCHANGED <<mode, routing, abandoned, caller>>

\* The upstream answers; the images are archived in a thread.
HandlerSucceeds(s) ==
    /\ worker[s].pc = "exec"
    /\ Keep(s, "archive", worker[s].item)
    /\ Pace(s)
    /\ UNCHANGED <<mode, routing, lockQ, abandoned, callbacks, caller, acct>>

Archived(s) ==
    /\ worker[s].pc = "archive"
    /\ LET i == worker[s].item IN
        Account(i.r, Succeeded(acct[i.r], i.n)) /\ Done(i, "ok") /\ Free(s) /\ Unlock(s)
    /\ UNCHANGED <<mode, routing, abandoned, paced, caller>>

\* The handler is cancelled; the caller is answered before it has exited.
HandlerTimesOut(s) ==
    /\ worker[s].pc = "exec"
    /\ LET i == worker[s].item IN
        Account(i.r, Failed(acct[i.r], i.n)) /\ Done(i, "error") /\ Keep(s, "cleanup", i)
    /\ Pace(s)
    /\ UNCHANGED <<mode, routing, lockQ, abandoned, caller>>

HandlerExits(s) ==
    /\ worker[s].pc = "cleanup"
    /\ Free(s) /\ Unlock(s)
    /\ UNCHANGED <<mode, routing, abandoned, paced, callbacks, caller, acct>>

\* The grace period is over: the handler may still be talking to the upstream.
GiveUp(s) ==
    /\ Grace /\ worker[s].pc = "cleanup"
    /\ Free(s) /\ Unlock(s)
    /\ abandoned' = [abandoned EXCEPT ![s[1]] = @ + 1]
    /\ UNCHANGED <<mode, routing, paced, callbacks, caller, acct>>

AbandonedExits(u) ==
    /\ abandoned[u] > 0
    /\ abandoned' = [abandoned EXCEPT ![u] = @ - 1]
    /\ UNCHANGED <<mode, routing, worker, lockQ, paced, callbacks, caller, acct>>

-------------------------------------------------------------------------------
\* sync_targets: an upstream leaves or joins the targets.

\* One pending attempt i of a disabled upstream: an attempt whose caller is gone is
\* closed, the others go back to the dispatch queue as far as it has room.
RerouteOne(d, i) ==
    IF d.client[i.r] # "waiting"
    THEN [dispatchQ |-> d.dispatchQ, client |-> d.client,
          acct |-> [d.acct EXCEPT ![i.r] = Failed(@, i.n)]]
    ELSE IF Full(d.dispatchQ, MaxDispatch)
    THEN [dispatchQ |-> d.dispatchQ, client |-> [d.client EXCEPT ![i.r] = "full"],
          acct |-> [d.acct EXCEPT ![i.r] = RoutingRejection(@, i)]]
    ELSE [dispatchQ |-> Put(d.dispatchQ, i), client |-> d.client, acct |-> d.acct]

\* _reroute_pending_from_disabled_upstream, one attempt after the other.
Rerouted(u) ==
    LET pending == queue[Current(u)]
        after[k \in 0 .. Len(pending)] ==
            IF k = 0 THEN [dispatchQ |-> dispatchQ, client |-> client, acct |-> acct]
            ELSE RerouteOne(after[k - 1], pending[k])
    IN after[Len(pending)]

\* By an administrator, or by the owner of the upstream.
Disable(u) ==
    /\ target[u] # 0
    /\ target' = [target EXCEPT ![u] = 0]
    /\ queue' = [queue EXCEPT ![Current(u)] = <<>>]
    /\ LET d == Rerouted(u) IN dispatchQ' = d.dispatchQ /\ client' = d.client /\ acct' = d.acct
    /\ UNCHANGED <<mode, born, execution, callbacks, task, gone>>

\* Also while a stop drains, when the new queue is among those the stop then waits for.
\* Once the dispatcher is stopped a new queue would get no work: left out.
Enable(u) ==
    /\ mode \in {"run", "draining"} /\ target[u] = 0 /\ born[u] < MaxGen
    /\ born' = [born EXCEPT ![u] = @ + 1]
    /\ target' = [target EXCEPT ![u] = born[u] + 1]
    /\ worker' = [worker EXCEPT ![<<u, born[u] + 1>>] = Idling]
    /\ UNCHANGED <<mode, dispatchQ, queue, lockQ, abandoned, paced, callbacks, caller, acct>>

\* The upstream answers with an error, which may disable it at once (whatever
\* generation ran the request).  A 429 is retried while little is pending.
HandlerRaises(s) ==
    /\ worker[s].pc = "exec"
    /\ \E disables, is429 \in BOOLEAN :
        LET i == worker[s].item
            u == s[1]
            d == IF disables THEN Rerouted(u)
                 ELSE [dispatchQ |-> dispatchQ, client |-> client, acct |-> acct]
            retried == is429 /\ RetryThreshold >= 0
                       /\ TotalLength(IF disables THEN Targets \ {u} ELSE Targets) <= RetryThreshold
            a == d.acct[i.r]
        IN
        /\ disables => target[u] # 0
        /\ target' = IF disables THEN [target EXCEPT ![u] = 0] ELSE target
        /\ queue' = IF disables THEN [queue EXCEPT ![Current(u)] = <<>>] ELSE queue
        /\ dispatchQ' = d.dispatchQ /\ client' = d.client
        /\ acct' = [d.acct EXCEPT ![i.r] = IF retried THEN RetryFailed(a, i.n) ELSE Failed(a, i.n)]
        /\ Done(i, IF retried THEN "retry" ELSE "error")
        /\ Free(s) /\ Unlock(s) /\ Pace(s)
    /\ UNCHANGED <<mode, born, abandoned, task, gone>>

-------------------------------------------------------------------------------
\* stop(drain=True), and the drain of a queue that was removed.

Drained(s) == worker[s].pc = "idle" /\ queue[s] = <<>>

BeginStop ==
    /\ mode = "run"
    /\ mode' = "draining"
    /\ UNCHANGED <<routing, execution, callbacks, caller, acct>>

StopDispatcherAtOnce ==
    /\ mode = "draining"
    /\ mode' = "dispatcher_stopped"
    /\ UNCHANGED <<routing, execution, callbacks, caller, acct>>

StopDispatcherWaitsForAnswers ==
    /\ mode = "draining"
    /\ \A r \in Requests : ~Waiting(r) /\ client[r] # "cancelled"
    /\ dispatchQ = <<>>
    /\ mode' = "dispatcher_stopped"
    /\ UNCHANGED <<routing, execution, callbacks, caller, acct>>

\* Every active future is done.  That the dispatch queue is empty then is not tested:
\* a request whose future is done was queued before, which woke the dispatcher, and
\* that empties the queue in one turn, before the future leaves the active set.
StopDispatcher ==
    /\ mode = "draining"
    /\ \A r \in Requests : ~Waiting(r)
    /\ dispatchQ = <<>>
    /\ mode' = "dispatcher_stopped"
    /\ UNCHANGED <<routing, execution, callbacks, caller, acct>>

\* Its queue is never used again, so what it remembers of its calls is dropped.
StopWorker(s) ==
    /\ Drained(s)
    /\ target[s[1]] = s[2] => mode = "dispatcher_stopped"
    /\ worker' = [worker EXCEPT ![s] = Stopped]
    /\ paced' = paced \ {s}
    /\ UNCHANGED <<mode, routing, lockQ, abandoned, callbacks, caller, acct>>

\* The callbacks of the last attempts were scheduled before the joins returned.
FinishStop ==
    /\ mode = "dispatcher_stopped"
    /\ callbacks = {}
    /\ \A s \in Slots : worker[s].pc \in {"none", "stopped"}
    /\ mode' = "stopped"
    /\ UNCHANGED <<routing, execution, callbacks, caller, acct>>

-------------------------------------------------------------------------------
Unsubmitted == [settled |-> "none", final |-> FALSE, row |-> [n \in Attempts |-> "none"]]

Init ==
    /\ mode = "run"
    /\ dispatchQ = <<>>
    /\ target = [u \in Upstreams |-> 1]
    /\ born = [u \in Upstreams |-> 1]
    /\ queue = [s \in Slots |-> <<>>]
    /\ worker = [s \in Slots |-> IF s[2] = 1 THEN Idling ELSE None]
    /\ lockQ = [u \in Upstreams |-> <<>>]
    /\ abandoned = [u \in Upstreams |-> 0]
    /\ paced = {}
    /\ callbacks = {}
    /\ client = [r \in Requests |-> "none"]
    /\ task = [r \in Requests |-> "none"]
    /\ gone = {}
    /\ acct = [r \in Requests |-> Unsubmitted]

Caller(r) == Submit(r) \/ SubmitRefused(r) \/ ServiceResume(r) \/ ClientCancels(r) \/ UserGone(r)

Handler(s) == HandlerSucceeds(s) \/ HandlerRaises(s) \/ HandlerTimesOut(s)
Cleanup(s) == HandlerExits(s) \/ GiveUp(s)
Worker(s) == Take(s) \/ LockGranted(s) \/ StartHandler(s) \/ Handler(s) \/ Archived(s) \/ Cleanup(s)

Next ==
    \/ \E r \in Requests : Caller(r) \/ Complete(r)
    \/ Dispatch
    \/ \E s \in Slots : Worker(s) \/ StopWorker(s)
    \/ \E u \in Upstreams : Disable(u) \/ Enable(u) \/ AbandonedExits(u)
    \/ BeginStop \/ StopDispatcher \/ FinishStop

Spec == Init /\ [][Next]_vars

\* What is ready on the event loop runs; an interval, an archive thread and, by its
\* timeout, a handler end, and so does a cleanup, by its grace.  Nobody has to send,
\* cancel, enable, disable or shut down anything, and nothing below waits for the
\* service coroutines to resume.
Fairness ==
    /\ WF_vars(Dispatch)
    /\ \A r \in Requests : WF_vars(Complete(r))
    /\ \A s \in Slots : WF_vars(Worker(s)) /\ WF_vars(StopWorker(s))
    /\ WF_vars(StopDispatcher \/ FinishStop)

FairSpec == Spec /\ Fairness
-------------------------------------------------------------------------------
\* Properties.

RowStatus == {"none", "queued", "running"} \cup TerminalRow

\* Every variable keeps its shape; no item is an attempt beyond the last.
TypeOK ==
    /\ mode \in {"run", "draining", "dispatcher_stopped", "stopped"}
    /\ dispatchQ \in Seq(Items)
    /\ target \in [Upstreams -> 0 .. MaxGen]
    /\ born \in [Upstreams -> 1 .. MaxGen]
    /\ queue \in [Slots -> Seq(Items)]
    /\ worker \in [Slots -> {None, Idling, Stopped}
                        \cup [pc : {"lock", "interval", "exec", "archive", "cleanup"}, item : Items]]
    /\ lockQ \in [Upstreams -> Seq(1 .. MaxGen)]
    /\ abandoned \in [Upstreams -> Nat]
    /\ paced \subseteq Slots
    /\ callbacks \subseteq [item : Items, result : Answers \cup {"retry", "cancelled"}]
    /\ client \in [Requests -> Answers \cup {"none", "waiting", "refused", "cancelled"}]
    /\ task \in [Requests -> {"none", "awaiting", "answered", "cancelled"}]
    /\ gone \subseteq Deletable
    /\ acct \in [Requests -> [settled : {"none", "held", "charged", "refunded"}, final : BOOLEAN,
                              row : [Attempts -> RowStatus]]]

\* Where a request is: in the dispatch queue, pending in a slot, in the hand of a
\* worker, or on its way back.
Of(r, q) == {k \in 1 .. Len(q) : q[k].r = r}
Pending(r) == UNION {{s} \X Of(r, queue[s]) : s \in Slots}
InHand(r) == {s \in Slots : worker[s].pc \in {"lock", "interval", "exec", "archive"} /\ worker[s].item.r = r}
ComingBack(r) == {c \in callbacks : c.item.r = r}
Places(r) ==
    Cardinality(Of(r, dispatchQ)) + Cardinality(Pending(r)) + Cardinality(InHand(r)) + Cardinality(ComingBack(r))

\* A request whose caller waits is in exactly one place, whatever it was retried,
\* rerouted and queued through; afterwards it is in no two places.
OnePlace ==
    \A r \in Requests :
        /\ Places(r) <= 1
        /\ Waiting(r) => Places(r) = 1
        /\ client[r] \in {"none", "refused"} => Places(r) = 0

\* A reservation is only held for a request that still is somewhere: nothing that
\* left the queues, answered or abandoned by its caller, keeps units reserved.
NothingLost == \A r \in Requests : acct[r].settled = "held" => Places(r) = 1

\* What the caller is told agrees with its account: an image is charged, any other
\* answer is not, and by the time it is given the reservation is back.
AnswerMatchesCharge ==
    \A r \in Requests :
        /\ client[r] = "ok" => acct[r].settled = "charged"
        /\ client[r] \in (Answers \ {"ok"}) \cup {"refused"} => acct[r].settled = "refunded"

Closed(r) == \A n \in Attempts : acct[r].row[n] \in {"none"} \cup TerminalRow
Over(r) == Places(r) = 0 /\ task[r] \in {"answered", "cancelled"}

\* When a request is over the log has no open row of it, unless its coroutine was
\* cancelled before it could log that the queues were full or no upstream was there.
RowsClosed ==
    \A r \in Requests :
        Over(r) => Closed(r) \/ (task[r] = "cancelled" /\ client[r] \in {"full", "unavailable"})

\* "The queue layer releases first, the service layer then writes the rejected row
\* (queue full, no upstream): the final row is still written" - without exception.
EveryRowClosed == \A r \in Requests : Over(r) => Closed(r)

\* A next attempt is logged only when all earlier ones are logged as failed.
RetryRows ==
    \A r \in Requests, n \in Attempts :
        acct[r].row[n] # "none" => \A m \in 0 .. n - 1 : acct[r].row[m] = "failed"

\* A closed row is never written again, whichever layer thinks it should.
RowsFinal ==
    [][\A r \in Requests, n \in Attempts :
            acct[r].row[n] \in TerminalRow => acct'[r].row[n] = acct[r].row[n]]_vars

\* One worker at a time deals with an upstream, also while the worker of a replaced
\* queue still drains; a handler that outlived its grace is not counted.
OneHandler ==
    \A u \in Upstreams :
        Cardinality({g \in 1 .. MaxGen : worker[<<u, g>>].pc \in {"interval", "exec", "archive", "cleanup"}}) <= 1

\* Queues keep to their size, but for VIP attempts, also when retries and reroutes
\* come back to a queue that new requests have filled meanwhile.
QueueBounds ==
    /\ MaxDispatch > 0 => Len(dispatchQ) <= MaxDispatch
    /\ MaxQueue > 0 => \A s \in Slots :
            Cardinality({k \in DOMAIN queue[s] : Tier[queue[s][k].r] # "vip"}) <= MaxQueue

\* A drained stop leaves nothing behind: no item anywhere, no reservation held.
StopLosesNothing ==
    mode = "stopped" => \A r \in Requests : Places(r) = 0 /\ acct[r].settled # "held"

\* Disabling an upstream moves its requests elsewhere and lets the running ones
\* complete: nobody is answered with an internal error.
NoInternalError == \A r \in Requests : client[r] # "crashed"

\* Every caller that waits is answered, and every reservation settled, that of a caller
\* who went away too, though workers, upstreams and other callers fail, are replaced or
\* leave.
Answered ==
    \A r \in Requests :
        Waiting(r) \/ acct[r].settled = "held" ~> ~Waiting(r) /\ acct[r].settled # "held"

\* A stop that waits for the queues to drain comes to an end.
StopTerminates == mode = "draining" ~> mode = "stopped"

\* Each reservation lives the life Settlement promises.
Fate == [r \in Requests |-> IF client[r] = "refused" THEN "none" ELSE acct[r].settled]
Abstract == INSTANCE Settlement WITH fate <- Fate
SettledOnce == Abstract!Spec
===============================================================================
