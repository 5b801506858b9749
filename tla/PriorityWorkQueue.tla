--------------------------- MODULE PriorityWorkQueue ---------------------------
(***************************************************************************)
(* The queue under the dispatcher and under every upstream worker          *)
(* (queue_work_queue.py): consumers that find it empty wait on a future,   *)
(* a put wakes one of them by hand, pending items can be taken out, and a  *)
(* stop joins it.  RoutingQueue uses the queue as one atomic object; this  *)
(* module is what lies between a put and the get that answers it.          *)
(***************************************************************************)
EXTENDS Integers, FiniteSets

CONSTANTS
    Items,
    Rank,          \* position of an item in the heap order (priority, sequence)
    Overflowing,   \* items put with allow_overflow
    MaxSize,       \* 0 for no bound
    Consumers

ASSUME WorkQueueAssumption ==
    /\ IsFiniteSet(Items) /\ IsFiniteSet(Consumers)
    /\ Rank \in [Items -> Int]
    /\ \A i, j \in Items : Rank[i] = Rank[j] => i = j
    /\ Overflowing \subseteq Items
    /\ MaxSize \in Nat

VARIABLES
    fate,         \* life of an item
    pc,           \* where a consumer is
    unfinished,   \* _unfinished_tasks
    finished,     \* the event _finished
    joiner        \* the caller of join

vars == <<fate, pc, unfinished, finished, joiner>>

Queued == {i \in Items : fate[i] = "queued"}
At(p, where) == {c \in Consumers : p[c] = where}

-------------------------------------------------------------------------------
\* _wake_next_getter: resolves a pending getter future, if there is one, passing over
\* those that were cancelled.  The one that waits longest is taken; here any.

WakeNextOnce(p) ==
    LET inLine == At(p, "waiting") \cup At(p, "cancelled") IN
    IF inLine = {} THEN {p}
    ELSE {[p EXCEPT ![c] = IF @ = "waiting" THEN "woken" ELSE @] : c \in inLine}

WakeNext(p) ==
    IF At(p, "waiting") = {} THEN {p} ELSE {[p EXCEPT ![c] = "woken"] : c \in At(p, "waiting")}

SilentlyCounting(n) == unfinished' = n /\ UNCHANGED <<finished, joiner>>

\* Setting the event wakes the joiner.
Counting(n) ==
    /\ unfinished' = n
    /\ finished' = IF n = 0 THEN TRUE ELSE finished
    /\ joiner' = IF n = 0 /\ joiner = "waiting" THEN "woken" ELSE joiner

PutWithoutClear(i) ==
    /\ fate[i] = "new" /\ joiner = "none"
    /\ MaxSize = 0 \/ Cardinality(Queued) < MaxSize \/ i \in Overflowing
    /\ fate' = [fate EXCEPT ![i] = "queued"]
    /\ pc' \in WakeNext(pc)
    /\ unfinished' = unfinished + 1
    /\ UNCHANGED <<finished, joiner>>

\* put_nowait.  Whoever joins a queue has taken care that nothing is put any more:
\* the dispatcher is stopped, or the upstream is no target.
Put(i) ==
    /\ fate[i] = "new" /\ joiner = "none"
    /\ MaxSize = 0 \/ Cardinality(Queued) < MaxSize \/ i \in Overflowing
    /\ fate' = [fate EXCEPT ![i] = "queued"]
    /\ pc' \in WakeNext(pc)
    /\ unfinished' = unfinished + 1
    /\ finished' = FALSE
    /\ UNCHANGED joiner

RemovedAll(S) == unfinished - Cardinality(Queued)
Removed(S) == unfinished - Cardinality(S)

\* remove_matching: the items of S leave the queue; what remains is announced.
RemoveMatching(S) ==
    /\ S # {} /\ S \subseteq Queued
    /\ fate' = [i \in Items |-> IF i \in S THEN "removed" ELSE fate[i]]
    /\ pc' \in IF S = Queued THEN {pc} ELSE WakeNext(pc)
    /\ Counting(Removed(S))

Best(i) == i \in Queued /\ \A j \in Queued : Rank[i] <= Rank[j]

\* The loop of get, at its start and after every wake-up: an item may be there, or
\* another consumer was faster.
Look(c) ==
    \/ /\ \E i \in Items : Best(i) /\ fate' = [fate EXCEPT ![i] = "taken"]
       /\ pc' = [pc EXCEPT ![c] = "busy"]
    \/ /\ Queued = {}
       /\ pc' = [pc EXCEPT ![c] = "waiting"]
       /\ UNCHANGED fate

Get(c) == pc[c] = "idle" /\ Look(c) /\ UNCHANGED <<unfinished, finished, joiner>>

Resume(c) == pc[c] = "woken" /\ Look(c) /\ UNCHANGED <<unfinished, finished, joiner>>

\* The consumer is cancelled in get, before or after it was woken.
Cancel(c) ==
    /\ pc[c] \in {"waiting", "woken"}
    /\ pc' = [pc EXCEPT ![c] = "cancelled"]
    /\ UNCHANGED <<fate, unfinished, finished, joiner>>

UnwindSilently(c) ==
    /\ pc[c] = "cancelled"
    /\ pc' = [pc EXCEPT ![c] = "gone"]
    /\ UNCHANGED <<fate, unfinished, finished, joiner>>

\* Its except block passes on a wake-up it may have used up.
Unwind(c) ==
    /\ pc[c] = "cancelled"
    /\ LET left == [pc EXCEPT ![c] = "gone"] IN
        pc' \in IF Queued = {} THEN {left} ELSE WakeNext(left)
    /\ UNCHANGED <<fate, unfinished, finished, joiner>>

\* task_done, and the consumer comes back or ends.
TaskDone(c) ==
    /\ pc[c] = "busy"
    /\ \E next \in {"idle", "gone"} : pc' = [pc EXCEPT ![c] = next]
    /\ Counting(unfinished - 1)
    /\ UNCHANGED fate

\* A worker or dispatcher that ended is started again.
Respawn(c) ==
    /\ pc[c] = "gone"
    /\ pc' = [pc EXCEPT ![c] = "idle"]
    /\ UNCHANGED <<fate, unfinished, finished, joiner>>

Join ==
    /\ joiner = "none"
    /\ joiner' = IF unfinished > 0 /\ ~finished THEN "waiting" ELSE "returned"
    /\ UNCHANGED <<fate, pc, unfinished, finished>>

JoinResumes ==
    /\ joiner = "woken"
    /\ joiner' = "returned"
    /\ UNCHANGED <<fate, pc, unfinished, finished>>

-------------------------------------------------------------------------------
Init ==
    /\ fate = [i \in Items |-> "new"]
    /\ pc = [c \in Consumers |-> "idle"]
    /\ unfinished = 0
    /\ finished = TRUE
    /\ joiner = "none"

Consumer(c) == Get(c) \/ Resume(c) \/ Unwind(c) \/ TaskDone(c)

Next ==
    \/ \E i \in Items : Put(i)
    \/ \E S \in SUBSET Items : RemoveMatching(S)
    \/ \E c \in Consumers : Consumer(c) \/ Cancel(c) \/ Respawn(c)
    \/ Join \/ JoinResumes

Spec == Init /\ [][Next]_vars

\* What is ready on the event loop runs, and what a consumer holds it finishes.
\* Nobody has to put, remove, cancel or respawn anything.
FairSpec == Spec /\ WF_vars(JoinResumes) /\ \A c \in Consumers : WF_vars(Consumer(c))
-------------------------------------------------------------------------------
\* Properties.

\* Every variable keeps its shape; the count of unfinished items is never negative.
TypeOK ==
    /\ fate \in [Items -> {"new", "queued", "taken", "removed"}]
    /\ pc \in [Consumers -> {"idle", "waiting", "woken", "cancelled", "busy", "gone"}]
    /\ unfinished \in Nat
    /\ finished \in BOOLEAN
    /\ joiner \in {"none", "waiting", "woken", "returned"}

\* No wake-up is lost: while a consumer sleeps, each queued item has a consumer on its
\* way to the queue, or a cancelled one that will pass its wake-up on.
WakeupsSuffice ==
    At(pc, "waiting") # {} =>
        Cardinality(Queued) <= Cardinality(At(pc, "woken") \cup At(pc, "cancelled"))

\* The count is what is queued or worked on, and the event tells when that is nothing,
\* also when items are taken out instead of finished.
UnfinishedExact ==
    /\ unfinished = Cardinality(Queued) + Cardinality(At(pc, "busy"))
    /\ finished <=> unfinished = 0

\* A join comes back to a queue that is empty and worked off.
JoinMeansDone == joiner = "returned" => Queued = {} /\ At(pc, "busy") = {}

\* An item does not stay in the queue while there are consumers, whichever of them are
\* cancelled on the way.
Served ==
    \A i \in Items :
        fate[i] = "queued" ~> fate[i] # "queued" \/ At(pc, "gone") = Consumers

\* A join ends, unless all consumers are gone.
JoinReturns == joiner = "waiting" ~> joiner = "returned" \/ At(pc, "gone") = Consumers
===============================================================================
