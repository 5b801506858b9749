-------------------------- MODULE RoutingQueueProofs --------------------------
(***************************************************************************)
(* The execution locks of the routing queue, for any requests, upstreams,  *)
(* generations and bounds: one worker at a time deals with an upstream.    *)
(* This does not depend on what the queues hold, only on who is in the     *)
(* queue of a lock.                                                        *)
(***************************************************************************)
EXTENDS RoutingQueue, FiniteSetTheorems, TLAPS

-------------------------------------------------------------------------------
\* The execution locks.

Handling == {"interval", "exec", "archive", "cleanup"}
Busy == Handling \cup {"lock"}

In(g, q) == \E k \in 1 .. Len(q) : q[k] = g
Distinct(q) == \A j, k \in 1 .. Len(q) : q[j] = q[k] => j = k

\* A worker is in the queue of its upstream's lock exactly while it needs the lock, and
\* deals with the upstream only at its head; a generation to come has no worker.
LockShape ==
    /\ DOMAIN worker = Slots
    /\ lockQ \in [Upstreams -> Seq(1 .. MaxGen)]
    /\ born \in [Upstreams -> Nat]

LockOf(u, g) ==
    /\ worker[<<u, g>>].pc \in Busy <=> In(g, lockQ[u])
    /\ worker[<<u, g>>].pc \in Handling => Head(lockQ[u]) = g
    /\ g > born[u] => worker[<<u, g>>].pc = "none"

LockInv ==
    /\ LockShape
    /\ \A u \in Upstreams : Distinct(lockQ[u])
    /\ \A u \in Upstreams, g \in 1 .. MaxGen : LockOf(u, g)

\* Queues of a lock.

LEMMA TailOf ==
    ASSUME NEW q \in Seq(1 .. MaxGen), Distinct(q), q # <<>>
    PROVE  /\ Tail(q) \in Seq(1 .. MaxGen) /\ Distinct(Tail(q)) /\ In(Head(q), q) /\ ~In(Head(q), Tail(q))
           /\ \A g : g # Head(q) => (In(g, Tail(q)) <=> In(g, q))
<1>1. /\ Tail(q) \in Seq(1 .. MaxGen) /\ Len(q) \in Nat /\ Len(q) > 0 /\ Len(Tail(q)) = Len(q) - 1
      /\ \A k \in 1 .. Len(q) - 1 : Tail(q)[k] = q[k + 1]
      /\ Head(q) = q[1]
    OBVIOUS
<1>2. Distinct(Tail(q))
    BY <1>1 DEF Distinct
<1>3. In(Head(q), q)
    BY <1>1 DEF In
<1>4. ~In(Head(q), Tail(q))
    BY <1>1 DEF In, Distinct
<1>5. ASSUME NEW g, g # Head(q) PROVE In(g, Tail(q)) <=> In(g, q)
    <2>1. ASSUME NEW k \in 1 .. Len(q), q[k] = g PROVE In(g, Tail(q))
        <3>1. k - 1 \in 1 .. Len(q) - 1 /\ Tail(q)[k - 1] = q[k]
            BY <1>1, <1>5, <2>1
        <3> QED
            BY <1>1, <2>1, <3>1 DEF In
    <2>2. ASSUME NEW k \in 1 .. Len(Tail(q)), Tail(q)[k] = g PROVE In(g, q)
        BY <1>1, <2>2 DEF In
    <2> QED
        BY <2>1, <2>2 DEF In
<1> QED
    BY <1>1, <1>2, <1>3, <1>4, <1>5

LEMMA AppendTo ==
    ASSUME NEW q \in Seq(1 .. MaxGen), Distinct(q), NEW h \in 1 .. MaxGen, ~In(h, q)
    PROVE  /\ Append(q, h) \in Seq(1 .. MaxGen) /\ Distinct(Append(q, h)) /\ In(h, Append(q, h))
           /\ \A g : g # h => (In(g, Append(q, h)) <=> In(g, q))
           /\ q # <<>> => Head(Append(q, h)) = Head(q)
           /\ q = <<>> => Head(Append(q, h)) = h
<1>1. /\ Append(q, h) \in Seq(1 .. MaxGen) /\ Len(q) \in Nat /\ Len(Append(q, h)) = Len(q) + 1
      /\ \A k \in 1 .. Len(q) : Append(q, h)[k] = q[k]
      /\ Append(q, h)[Len(q) + 1] = h
    OBVIOUS
<1>2. Distinct(Append(q, h))
    BY <1>1 DEF Distinct, In
<1>3. In(h, Append(q, h))
    BY <1>1 DEF In
<1>4. ASSUME NEW g, g # h PROVE In(g, Append(q, h)) <=> In(g, q)
    BY <1>1, <1>4 DEF In
<1>5. q # <<>> => Head(Append(q, h)) = Head(q)
    BY <1>1
<1>6. q = <<>> => Head(Append(q, h)) = h
    BY <1>1
<1> QED
    BY <1>1, <1>2, <1>3, <1>4, <1>5, <1>6

LEMMA OneEntry ==
    ASSUME NEW h \in 1 .. MaxGen
    PROVE  /\ <<h>> = Append(<<>>, h) /\ Tail(<<h>>) = <<>>
           /\ <<>> \in Seq(1 .. MaxGen) /\ Distinct(<<>>) /\ ~In(h, <<>>)
BY DEF Distinct, In

\* A step of one worker that leaves the locks alone.
LEMMA WorkerKeeps ==
    ASSUME LockInv, NEW s \in Slots, NEW state, worker' = [worker EXCEPT ![s] = state],
           UNCHANGED <<lockQ, born>>,
           state.pc \in Busy <=> worker[s].pc \in Busy,
           state.pc \in Handling => worker[s].pc \in Handling \/ Head(lockQ[s[1]]) = s[2],
           worker[s].pc # "none"
    PROVE  LockInv'
<1>1. LockShape'
    BY DEF LockInv, LockShape
<1>2. ASSUME NEW u \in Upstreams, NEW g \in 1 .. MaxGen PROVE LockOf(u, g)'
    <2>1. CASE <<u, g>> = s
        BY <2>1 DEF LockInv, LockShape, LockOf
    <2>2. CASE <<u, g>> # s
        BY <2>2 DEF LockInv, LockShape, LockOf, Slots
    <2> QED
        BY <2>1, <2>2
<1> QED
    BY <1>1, <1>2 DEF LockInv

\* A step of one worker that enters the lock's queue.
LEMMA EnterKeeps ==
    ASSUME LockInv, NEW s \in Slots, NEW state, worker' = [worker EXCEPT ![s] = state],
           lockQ' = [lockQ EXCEPT ![s[1]] = Append(lockQ[s[1]], s[2])], UNCHANGED born,
           worker[s].pc = "idle",
           state.pc = "lock" \/ (state.pc \in Handling /\ lockQ[s[1]] = <<>>)
    PROVE  LockInv'
<1> DEFINE u == s[1]
           g == s[2]
           q == lockQ[u]
<1>1. u \in Upstreams /\ g \in 1 .. MaxGen /\ s = <<u, g>> /\ q \in Seq(1 .. MaxGen) /\ Distinct(q)
    BY DEF Slots, LockInv, LockShape
<1>2. "idle" \notin Busy /\ ~In(g, q)
    BY <1>1 DEF LockInv, LockOf, Busy, Handling
<1>3. /\ Append(q, g) \in Seq(1 .. MaxGen) /\ Distinct(Append(q, g)) /\ In(g, Append(q, g))
      /\ \A h : h # g => (In(h, Append(q, g)) <=> In(h, q))
      /\ q # <<>> => Head(Append(q, g)) = Head(q)
      /\ q = <<>> => Head(Append(q, g)) = g
    BY <1>1, <1>2, AppendTo
<1>4. /\ lockQ'[u] = Append(q, g) /\ \A v \in Upstreams \ {u} : lockQ'[v] = lockQ[v]
      /\ worker'[s] = state /\ \A x \in Slots \ {s} : worker'[x] = worker[x]
    BY <1>1 DEF LockInv, LockShape
<1>5. LockShape' /\ \A v \in Upstreams : Distinct(lockQ'[v])
    BY <1>1, <1>3, <1>4 DEF LockInv, LockShape
<1>6. ASSUME NEW v \in Upstreams, NEW h \in 1 .. MaxGen PROVE LockOf(v, h)'
    <2>0. <<v, h>> \in Slots /\ LockOf(v, h) /\ UNCHANGED born
        BY DEF LockInv, Slots
    <2> HIDE DEF u, g, q
    <2>1. CASE v # u
        BY <1>1, <1>4, <2>0, <2>1 DEF LockOf
    <2>2. CASE v = u /\ h = g
        <3>1. worker'[<<v, h>>] = state /\ lockQ'[v] = Append(q, g)
            BY <1>1, <1>4, <2>2
        <3>2. state.pc \in Busy /\ (state.pc \in Handling => q = <<>>)
            BY DEF Busy, Handling, q, u
        <3>3. ~(h > born[v])
            BY <1>1, <2>0, <2>2 DEF LockOf
        <3> QED
            BY <1>3, <2>0, <2>2, <3>1, <3>2, <3>3 DEF LockOf
    <2>3. CASE v = u /\ h # g
        <3>1. worker'[<<v, h>>] = worker[<<v, h>>] /\ lockQ'[v] = Append(q, g) /\ lockQ[v] = q
            BY <1>1, <1>4, <2>0, <2>3 DEF q
        <3>2. In(h, q) => q # <<>>
            BY DEF In
        <3>3. Handling \subseteq Busy
            BY DEF Busy
        <3> QED
            BY <1>3, <2>0, <2>3, <3>1, <3>2, <3>3 DEF LockOf
    <2> QED
        BY <2>1, <2>2, <2>3
<1> QED
    BY <1>5, <1>6 DEF LockInv

\* A step of the holder's worker that hands the lock over.
LEMMA LeaveKeeps ==
    ASSUME LockInv, NEW s \in Slots, NEW state, worker' = [worker EXCEPT ![s] = state],
           lockQ' = [lockQ EXCEPT ![s[1]] = Tail(lockQ[s[1]])], UNCHANGED born,
           worker[s].pc \in Busy, Head(lockQ[s[1]]) = s[2], state.pc \notin Busy
    PROVE  LockInv'
<1> DEFINE u == s[1]
           g == s[2]
           q == lockQ[u]
<1>1. u \in Upstreams /\ g \in 1 .. MaxGen /\ s = <<u, g>> /\ q \in Seq(1 .. MaxGen) /\ Distinct(q)
    BY DEF Slots, LockInv, LockShape
<1>2. In(g, q) /\ q # <<>> /\ Head(q) = g
    BY <1>1 DEF LockInv, LockOf, In
<1>3. /\ Tail(q) \in Seq(1 .. MaxGen) /\ Distinct(Tail(q)) /\ ~In(g, Tail(q))
      /\ \A h : h # g => (In(h, Tail(q)) <=> In(h, q))
    BY <1>1, <1>2, TailOf
<1>4. /\ lockQ'[u] = Tail(q) /\ \A v \in Upstreams \ {u} : lockQ'[v] = lockQ[v]
      /\ worker'[s] = state /\ \A x \in Slots \ {s} : worker'[x] = worker[x]
    BY <1>1 DEF LockInv, LockShape
<1>5. LockShape' /\ \A v \in Upstreams : Distinct(lockQ'[v])
    BY <1>1, <1>3, <1>4 DEF LockInv, LockShape
<1>6. ASSUME NEW v \in Upstreams, NEW h \in 1 .. MaxGen PROVE LockOf(v, h)'
    <2>0. <<v, h>> \in Slots /\ LockOf(v, h) /\ UNCHANGED born /\ Handling \subseteq Busy /\ "none" \notin Busy
        BY DEF LockInv, Slots, Busy, Handling
    <2>1. worker[s].pc # "none"
        BY <2>0
    <2> HIDE DEF u, g, q
    <2>2. CASE v # u
        BY <1>1, <1>4, <2>0, <2>2 DEF LockOf
    <2>3. CASE v = u /\ h = g
        <3>1. worker'[<<v, h>>] = state /\ lockQ'[v] = Tail(q)
            BY <1>1, <1>4, <2>3
        <3>2. ~(h > born[v])
            BY <1>1, <2>0, <2>1, <2>3 DEF LockOf
        <3> QED
            BY <1>3, <2>0, <2>3, <3>1, <3>2 DEF LockOf
    <2>4. CASE v = u /\ h # g
        <3>1. worker'[<<v, h>>] = worker[<<v, h>>] /\ lockQ'[v] = Tail(q) /\ lockQ[v] = q
            BY <1>1, <1>4, <2>0, <2>4 DEF q
        <3>2. worker[<<v, h>>].pc \notin Handling
            BY <1>2, <2>0, <2>4, <3>1 DEF LockOf
        <3> QED
            BY <1>3, <2>0, <2>4, <3>1, <3>2 DEF LockOf
    <2> QED
        BY <2>2, <2>3, <2>4
<1> QED
    BY <1>5, <1>6 DEF LockInv

LEMMA LockInit == Init => LockInv
<1> SUFFICES ASSUME Init PROVE LockInv
    OBVIOUS
<1>1. LockShape
    BY DEF Init, LockShape
<1>2. \A u \in Upstreams : lockQ[u] = <<>>
    BY DEF Init
<1>3. \A q : q = <<>> => Distinct(q) /\ \A g : ~In(g, q)
    BY DEF Distinct, In
<1>4. ASSUME NEW u \in Upstreams, NEW g \in 1 .. MaxGen PROVE LockOf(u, g)
    <2>1. worker[<<u, g>>] = IF g = 1 THEN Idling ELSE None
        BY DEF Init, Slots
    <2>2. worker[<<u, g>>].pc \notin Busy /\ (g > 1 => worker[<<u, g>>].pc = "none")
        BY <2>1 DEF Idling, None, Busy, Handling
    <2>3. born[u] = 1
        BY DEF Init
    <2> QED
        BY <1>2, <1>3, <2>2, <2>3 DEF LockOf, Busy
<1> QED
    BY <1>1, <1>2, <1>3, <1>4 DEF LockInv

\* The actions of a worker.

LEMMA HeadWhileHandling ==
    ASSUME LockInv, NEW s \in Slots, worker[s].pc \in Handling
    PROVE  Head(lockQ[s[1]]) = s[2] /\ worker[s].pc \in Busy /\ worker[s].pc # "none"
<1>1. s = <<s[1], s[2]>> /\ s[1] \in Upstreams /\ s[2] \in 1 .. MaxGen
    BY DEF Slots
<1> QED
    BY <1>1 DEF LockInv, LockOf, Busy, Handling

LEMMA ReleaseKeeps ==
    ASSUME LockInv, NEW s \in Slots, worker[s].pc \in Handling, Free(s), Unlock(s), UNCHANGED born
    PROVE  LockInv'
<1>1. Idling.pc \notin Busy
    BY DEF Idling, Busy, Handling
<1> QED
    BY <1>1, HeadWhileHandling, LeaveKeeps DEF Free, Unlock

LEMMA HoldKeeps ==
    ASSUME LockInv, NEW s \in Slots, worker[s].pc \in Handling, NEW pc \in Handling, NEW i,
           Keep(s, pc, i), UNCHANGED <<lockQ, born>>
    PROVE  LockInv'
<1>1. Holding(pc, i).pc = pc /\ pc \in Busy
    BY DEF Holding, Busy
<1> QED
    BY <1>1, HeadWhileHandling, WorkerKeeps DEF Keep

LEMMA ProcessCases ==
    ASSUME NEW s, NEW i, NEW locks, Process(s, i, locks)
    PROVE  \/ worker' = [worker EXCEPT ![s] = Idling] /\ lockQ' = [lockQ EXCEPT ![s[1]] = Tail(locks)]
           \/ \E pc \in {"interval", "exec"} :
                /\ worker' = [worker EXCEPT ![s] = Holding(pc, i)]
                /\ lockQ' = [lockQ EXCEPT ![s[1]] = locks]
BY DEF Process, Free, Keep

LEMMA BeginKeeps ==
    ASSUME LockInv, NEW s \in Slots, NEW i, worker[s].pc = "idle", Begin(s, i), UNCHANGED born
    PROVE  LockInv'
<1>1. s[1] \in Upstreams /\ s[2] \in 1 .. MaxGen
    BY DEF Slots
<1>2. /\ Idling.pc \notin Busy /\ worker[s].pc \notin Busy /\ Idling.pc \notin Handling
      /\ \A pc \in {"interval", "exec"} : Holding(pc, i).pc \in Handling
      /\ Holding("lock", i).pc = "lock"
    BY DEF Idling, Holding, Busy, Handling
<1>3. CASE LockFree(s) /\ Process(s, i, <<s[2]>>)
    <2>1. lockQ[s[1]] = <<>> /\ lockQ \in [Upstreams -> Seq(1 .. MaxGen)]
        BY <1>3 DEF LockFree, LockInv, LockShape
    <2>2. CASE worker' = [worker EXCEPT ![s] = Idling] /\ lockQ' = [lockQ EXCEPT ![s[1]] = Tail(<<s[2]>>)]
        <3>1. UNCHANGED lockQ
            BY <1>1, <2>1, <2>2, OneEntry
        <3> QED
            BY <1>2, <2>2, <3>1, WorkerKeeps
    <2>3. ASSUME NEW pc \in {"interval", "exec"}, worker' = [worker EXCEPT ![s] = Holding(pc, i)],
                 lockQ' = [lockQ EXCEPT ![s[1]] = <<s[2]>>]
          PROVE  LockInv'
        <3>1. lockQ' = [lockQ EXCEPT ![s[1]] = Append(lockQ[s[1]], s[2])]
            BY <1>1, <2>1, <2>3, OneEntry
        <3> QED
            BY <1>2, <2>1, <2>3, <3>1, EnterKeeps
    <2>4. \/ worker' = [worker EXCEPT ![s] = Idling] /\ lockQ' = [lockQ EXCEPT ![s[1]] = Tail(<<s[2]>>)]
          \/ \E pc \in {"interval", "exec"} :
                /\ worker' = [worker EXCEPT ![s] = Holding(pc, i)]
                /\ lockQ' = [lockQ EXCEPT ![s[1]] = <<s[2]>>]
        <3> DEFINE locks == <<s[2]>>
        <3>1. Process(s, i, locks)
            BY <1>3
        <3> HIDE DEF locks
        <3>2. \/ worker' = [worker EXCEPT ![s] = Idling] /\ lockQ' = [lockQ EXCEPT ![s[1]] = Tail(locks)]
              \/ \E pc \in {"interval", "exec"} :
                    /\ worker' = [worker EXCEPT ![s] = Holding(pc, i)]
                    /\ lockQ' = [lockQ EXCEPT ![s[1]] = locks]
            BY <3>1, ProcessCases
        <3> QED
            BY <3>2 DEF locks
    <2>5. CASE \E pc \in {"interval", "exec"} :
                /\ worker' = [worker EXCEPT ![s] = Holding(pc, i)]
                /\ lockQ' = [lockQ EXCEPT ![s[1]] = <<s[2]>>]
        <3>1. PICK pc \in {"interval", "exec"} :
                /\ worker' = [worker EXCEPT ![s] = Holding(pc, i)]
                /\ lockQ' = [lockQ EXCEPT ![s[1]] = <<s[2]>>]
            BY <2>5
        <3> QED
            BY <2>3, <3>1
    <2> QED
        BY <2>2, <2>4, <2>5
<1>4. CASE ~LockFree(s) /\ Keep(s, "lock", i) /\ lockQ' = [lockQ EXCEPT ![s[1]] = Append(@, s[2])]
    BY <1>2, <1>4, EnterKeeps DEF Keep
<1> QED
    BY <1>3, <1>4 DEF Begin

LEMMA LockGrantedKeeps ==
    ASSUME LockInv, NEW s \in Slots, LockGranted(s)
    PROVE  LockInv'
<1> DEFINE i == worker[s].item
           q == lockQ[s[1]]
<1>1. /\ worker[s].pc = "lock" /\ Head(q) = s[2] /\ UNCHANGED born /\ Process(s, i, q)
      /\ lockQ \in [Upstreams -> Seq(1 .. MaxGen)]
    BY DEF LockGranted, routing, LockInv, LockShape
<1>2. /\ Idling.pc \notin Busy /\ worker[s].pc \in Busy /\ worker[s].pc # "none"
      /\ \A pc \in {"interval", "exec"} : Holding(pc, i).pc \in Busy
    BY <1>1 DEF Idling, Holding, Busy, Handling
<1>3. CASE worker' = [worker EXCEPT ![s] = Idling] /\ lockQ' = [lockQ EXCEPT ![s[1]] = Tail(q)]
    BY <1>1, <1>2, <1>3, LeaveKeeps
<1>4. ASSUME NEW pc \in {"interval", "exec"}, worker' = [worker EXCEPT ![s] = Holding(pc, i)],
             lockQ' = [lockQ EXCEPT ![s[1]] = q]
      PROVE  LockInv'
    <2>1. UNCHANGED lockQ
        BY <1>1, <1>4 DEF Slots
    <2> QED
        BY <1>1, <1>2, <1>4, <2>1, WorkerKeeps
<1>5. CASE \E pc \in {"interval", "exec"} :
                /\ worker' = [worker EXCEPT ![s] = Holding(pc, i)]
                /\ lockQ' = [lockQ EXCEPT ![s[1]] = q]
    <2>1. PICK pc \in {"interval", "exec"} :
            /\ worker' = [worker EXCEPT ![s] = Holding(pc, i)]
            /\ lockQ' = [lockQ EXCEPT ![s[1]] = q]
        BY <1>5
    <2> QED
        BY <1>4, <2>1
<1> QED
    BY <1>1, <1>3, <1>5, ProcessCases

LEMMA LocksUntouched == LockInv /\ UNCHANGED <<worker, lockQ, born>> => LockInv'
BY DEF LockInv, LockShape, LockOf

LEMMA WorkerStepKeeps ==
    ASSUME LockInv, NEW s \in Slots, Worker(s)
    PROVE  LockInv'
<1>1. ASSUME Take(s) PROVE LockInv'
    <2>1. worker[s].pc = "idle" /\ UNCHANGED born
        BY <1>1 DEF Take
    <2>2. \/ \E i : Begin(s, i)
          \/ UNCHANGED <<worker, lockQ>>
        BY <1>1 DEF Take, TurnAway
    <2> QED
        BY <2>1, <2>2, BeginKeeps, LocksUntouched
<1>2. ASSUME StartHandler(s) PROVE LockInv'
    <2>1. worker[s].pc = "interval" /\ UNCHANGED born
        BY <1>2 DEF StartHandler, routing
    <2>2. (Free(s) /\ Unlock(s)) \/ (Keep(s, "exec", worker[s].item) /\ UNCHANGED lockQ)
        BY <1>2 DEF StartHandler
    <2> QED
        BY <2>1, <2>2, ReleaseKeeps, HoldKeeps DEF Handling
<1>3. ASSUME HandlerSucceeds(s) \/ HandlerTimesOut(s) PROVE LockInv'
    <2>1. worker[s].pc = "exec" /\ UNCHANGED <<born, lockQ>>
        BY <1>3 DEF HandlerSucceeds, HandlerTimesOut, routing
    <2>2. Keep(s, "archive", worker[s].item) \/ Keep(s, "cleanup", worker[s].item)
        BY <1>3 DEF HandlerSucceeds, HandlerTimesOut
    <2> QED
        BY <2>1, <2>2, HoldKeeps DEF Handling
<1>4. ASSUME HandlerRaises(s) \/ Archived(s) \/ HandlerExits(s) \/ GiveUp(s) PROVE LockInv'
    <2>1. worker[s].pc \in Handling /\ Free(s) /\ Unlock(s)
        BY <1>4 DEF HandlerRaises, Archived, HandlerExits, GiveUp, Handling
    <2>2. UNCHANGED born
        BY <1>4 DEF HandlerRaises, Archived, HandlerExits, GiveUp, routing
    <2> QED
        BY <2>1, <2>2, ReleaseKeeps
<1> QED
    BY <1>1, <1>2, <1>3, <1>4, LockGrantedKeeps DEF Worker, Handler, Cleanup

LEMMA EnableKeeps ==
    ASSUME LockInv, NEW u \in Upstreams, Enable(u)
    PROVE  LockInv'
<1> DEFINE new == born[u] + 1
<1>1. /\ born[u] \in Nat /\ new \in 1 .. MaxGen /\ <<u, new>> \in Slots
      /\ born' = [born EXCEPT ![u] = new] /\ UNCHANGED lockQ
      /\ worker' = [worker EXCEPT ![<<u, new>>] = Idling]
    <2>1. born[u] \in Nat /\ born[u] < MaxGen /\ MaxGen \in Nat
        BY RoutingAssumption DEF Enable, LockInv, LockShape
    <2> QED
        BY <2>1 DEF Enable, Slots
<1>2. worker[<<u, new>>].pc = "none"
    BY <1>1 DEF LockInv, LockOf
<1>3. LockShape'
    BY <1>1 DEF LockInv, LockShape
<1>4. ASSUME NEW v \in Upstreams, NEW g \in 1 .. MaxGen PROVE LockOf(v, g)'
    <2>1. LockOf(v, g) /\ <<v, g>> \in Slots /\ DOMAIN worker = Slots /\ born \in [Upstreams -> Nat]
        BY DEF LockInv, LockShape, Slots
    <2>2. CASE <<v, g>> = <<u, new>>
        <3>1. worker'[<<v, g>>] = Idling /\ ~(g > born'[v])
            BY <1>1, <2>1, <2>2
        <3>2. worker[<<v, g>>].pc \notin Busy /\ Idling.pc \notin Busy /\ Idling.pc \notin Handling
            BY <1>2, <2>2 DEF Idling, Busy, Handling
        <3> QED
            BY <1>1, <2>1, <3>1, <3>2 DEF LockOf
    <2>3. CASE <<v, g>> # <<u, new>>
        <3>1. worker'[<<v, g>>] = worker[<<v, g>>] /\ (g > born'[v] => g > born[v])
            BY <1>1, <2>1, <2>3
        <3> QED
            BY <1>1, <2>1, <3>1 DEF LockOf
    <2> QED
        BY <2>2, <2>3
<1> QED
    BY <1>1, <1>3, <1>4 DEF LockInv

LEMMA LockStep == LockInv /\ [Next]_vars => LockInv'
<1> SUFFICES ASSUME LockInv, [Next]_vars PROVE LockInv'
    OBVIOUS
<1>1. CASE \E r \in Requests : Caller(r) \/ Complete(r)
    <2>1. UNCHANGED <<worker, lockQ, born>>
        BY <1>1 DEF Caller, Complete, Submit, SubmitRefused, ServiceResume, ClientCancels, UserGone,
                    routing, execution
    <2> QED
        BY <2>1, LocksUntouched
<1>2. CASE \/ Dispatch \/ BeginStop \/ StopDispatcher \/ FinishStop \/ UNCHANGED vars
           \/ \E u \in Upstreams : Disable(u) \/ AbandonedExits(u)
    <2>1. UNCHANGED <<worker, lockQ, born>>
        BY <1>2 DEF Dispatch, BeginStop, StopDispatcher, FinishStop, Disable, AbandonedExits, vars,
                    routing, execution
    <2> QED
        BY <2>1, LocksUntouched
<1>3. ASSUME NEW s \in Slots, StopWorker(s) PROVE LockInv'
    <2>1. Stopped.pc \notin Busy /\ Stopped.pc \notin Handling /\ "idle" \notin Busy
        BY DEF Stopped, Busy, Handling
    <2> QED
        BY <1>3, <2>1, WorkerKeeps DEF StopWorker, Drained, routing
<1> QED
    BY <1>1, <1>2, <1>3, WorkerStepKeeps, EnableKeeps DEF Next

\* One worker at a time deals with an upstream, also while the worker of a replaced queue
\* still drains: who deals with it is at the head of the lock's queue.
THEOREM OneHandlerCorrect == Spec => []OneHandler
<1>1. LockInv => OneHandler
    <2> SUFFICES ASSUME LockInv, NEW u \in Upstreams
                 PROVE  Cardinality({g \in 1 .. MaxGen : worker[<<u, g>>].pc \in Handling}) <= 1
        BY DEF OneHandler, Handling
    <2> DEFINE H == {g \in 1 .. MaxGen : worker[<<u, g>>].pc \in Handling}
    <2>1. H \subseteq {Head(lockQ[u])}
        BY DEF LockInv, LockOf
    <2>2. /\ IsFiniteSet({Head(lockQ[u])}) /\ Cardinality({Head(lockQ[u])}) = 1
        BY FS_Singleton
    <2> HIDE DEF H
    <2>3. Cardinality(H) <= 1
        BY <2>1, <2>2, FS_Subset
    <2> QED
        BY <2>3 DEF H
<1> QED
    BY <1>1, LockInit, LockStep, PTL DEF Spec

===============================================================================
