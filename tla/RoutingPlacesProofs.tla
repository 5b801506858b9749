------------------------- MODULE RoutingPlacesProofs -------------------------
(***************************************************************************)
(* Where the requests of the routing queue are.  Each is in one box, the   *)
(* dispatch queue, the queue of a slot, the hand of a worker or a callback *)
(* that has not run, or nowhere; the lemmas say how a step of the code     *)
(* moves it from one to another.                                           *)
(***************************************************************************)
EXTENDS RoutingQueueProofs, SequenceTheorems, WellFoundedInduction

-------------------------------------------------------------------------------
\* Induction on the first n numbers, for a set of them.
LEMMA UpTo ==
    ASSUME NEW n \in Nat, NEW S, 0 \in S, \A k \in 0 .. n - 1 : k \in S => k + 1 \in S
    PROVE  \A k \in 0 .. n : k \in S
<1> SUFFICES ASSUME NEW k \in 0 .. n, k \notin S PROVE FALSE
    OBVIOUS
<1> DEFINE T == {m \in 0 .. n : m \notin S}
           R == OpToRel(<, Nat)
<1>1. T \subseteq Nat /\ T # {}
    OBVIOUS
<1>2. PICK m \in T : \A j \in T : ~(<<j, m>> \in R)
    BY <1>1, NatLessThanWellFounded, WFMin
<1>3. m # 0 /\ m - 1 \in 0 .. n - 1 /\ m - 1 \notin T
    <2>1. m \in 0 .. n /\ m \notin S
        OBVIOUS
    <2>2. m # 0 /\ m - 1 \in 0 .. n - 1 /\ m - 1 \in Nat /\ m \in Nat /\ m - 1 < m
        BY <2>1
    <2>3. <<m - 1, m>> \in R
        BY <2>2 DEF OpToRel
    <2> QED
        BY <1>2, <2>2, <2>3
<1>4. m - 1 \in S
    BY <1>3
<1> QED
    BY <1>3, <1>4

-------------------------------------------------------------------------------
\* The queues.

\* Put finds a place p of the queue and moves what is behind it up by one.
LEMMA PutShape ==
    ASSUME NEW q \in Seq(Items), NEW i \in Items
    PROVE  /\ Put(q, i) \in Seq(Items) /\ Len(Put(q, i)) = Len(q) + 1
           /\ \E p \in 0 .. Len(q) :
                \A k \in 1 .. Len(q) + 1 :
                    Put(q, i)[k] = IF k <= p THEN q[k] ELSE IF k = p + 1 THEN i ELSE q[k - 1]
<1> DEFINE B == {k \in DOMAIN q : Prio(q[k]) <= Prio(i)}
           p == Cardinality(B)
           n == Len(q)
<1>1. n \in Nat /\ DOMAIN q = 1 .. n
    OBVIOUS
<1>2. p \in 0 .. n
    <2>0. 1 \in Int /\ n \in Int
        BY <1>1
    <2>a. IsFiniteSet(1 .. n) /\ Cardinality(1 .. n) = IF 1 > n THEN 0 ELSE n - 1 + 1
        BY <2>0, FS_Interval
    <2>1. IsFiniteSet(1 .. n) /\ Cardinality(1 .. n) = n
        BY <1>1, <2>a
    <2>2. IsFiniteSet(B) /\ p <= n
        BY <1>1, <2>1, FS_Subset
    <2>3. p \in Nat
        BY <2>2, FS_CardinalityType
    <2> QED
        BY <1>1, <2>2, <2>3
<1>3. Put(q, i) = SubSeq(q, 1, p) \o <<i>> \o SubSeq(q, p + 1, Len(q))
    BY Zenon DEF Put
<1> HIDE DEF p
<1> DEFINE before == SubSeq(q, 1, p)
           behind == SubSeq(q, p + 1, n)
<1>4. /\ before \in Seq(Items) /\ Len(before) = p /\ \A k \in 1 .. p : before[k] = q[k]
      /\ behind \in Seq(Items) /\ Len(behind) = n - p /\ \A k \in 1 .. n - p : behind[k] = q[p + k]
    <2>1. /\ \A k \in 1 .. p : q[k] \in Items
          /\ \A k \in p + 1 .. n : q[k] \in Items
        BY <1>1, <1>2
    <2>2. /\ before \in Seq(Items) /\ Len(before) = IF 1 <= p THEN p - 1 + 1 ELSE 0
          /\ \A k \in 1 .. p - 1 + 1 : before[k] = q[1 + k - 1]
        BY <1>1, <1>2, <2>1, SubSeqProperties
    <2>3. /\ behind \in Seq(Items) /\ Len(behind) = IF p + 1 <= n THEN n - (p + 1) + 1 ELSE 0
          /\ \A k \in 1 .. n - (p + 1) + 1 : behind[k] = q[p + 1 + k - 1]
        BY <1>1, <1>2, <2>1, SubSeqProperties
    <2> HIDE DEF before, behind, n
    <2>4. \A k \in 1 .. p : k \in 1 .. p - 1 + 1 /\ 1 + k - 1 = k
        BY <1>1, <1>2
    <2>5. \A k \in 1 .. n - p : k \in 1 .. n - (p + 1) + 1 /\ p + 1 + k - 1 = p + k
        BY <1>1, <1>2
    <2>6. Len(before) = p
        BY <1>1, <1>2, <2>2
    <2>7. ASSUME NEW k \in 1 .. p PROVE before[k] = q[k]
        BY <2>2, <2>4, <2>7
    <2>8. Len(behind) = n - p
        BY <1>1, <1>2, <2>3
    <2>9. ASSUME NEW k \in 1 .. n - p PROVE behind[k] = q[p + k]
        <3>1. k \in 1 .. n - (p + 1) + 1 /\ p + 1 + k - 1 = p + k
            BY <2>5, <2>9
        <3>2. behind[k] = q[p + 1 + k - 1]
            BY <2>3, <3>1
        <3> QED
            BY <3>1, <3>2
    <2> QED
        BY <2>2, <2>3, <2>6, <2>7, <2>8, <2>9
<1> HIDE DEF before, behind, n
<1>5. /\ before \o <<i>> \in Seq(Items) /\ Len(before \o <<i>>) = p + 1
      /\ \A k \in 1 .. p + 1 : (before \o <<i>>)[k] = IF k <= p THEN q[k] ELSE i
    BY <1>1, <1>2, <1>4
<1> DEFINE front == before \o <<i>>
<1> HIDE DEF front
<1>6. /\ front \o behind \in Seq(Items) /\ Len(front \o behind) = n + 1
      /\ \A k \in 1 .. n + 1 : (front \o behind)[k] = IF k <= p + 1 THEN front[k] ELSE behind[k - (p + 1)]
    <2>1. front \in Seq(Items) /\ Len(front) = p + 1
        BY <1>5 DEF front
    <2>2. behind \in Seq(Items) /\ Len(behind) = n - p
        BY <1>4
    <2>3. /\ front \o behind \in Seq(Items) /\ Len(front \o behind) = Len(front) + Len(behind)
          /\ \A k \in 1 .. Len(front) + Len(behind) :
                (front \o behind)[k] = IF k <= Len(front) THEN front[k] ELSE behind[k - Len(front)]
        BY <2>1, <2>2, ConcatProperties
    <2>4. p + 1 + (n - p) = n + 1
        BY <1>1, <1>2
    <2> QED
        BY <2>1, <2>2, <2>3, <2>4
<1>7. Put(q, i) = front \o behind
    BY <1>3 DEF front, before, behind, n
<1>8. ASSUME NEW k \in 1 .. n + 1
      PROVE  Put(q, i)[k] = IF k <= p THEN q[k] ELSE IF k = p + 1 THEN i ELSE q[k - 1]
    <2>1. CASE k <= p + 1
        BY <1>1, <1>2, <1>5, <1>6, <1>7, <2>1 DEF front
    <2>2. CASE k > p + 1
        <3>1. k - (p + 1) \in 1 .. n - p /\ p + (k - (p + 1)) = k - 1 /\ ~(k <= p)
            BY <1>1, <1>2, <2>2
        <3>2. Put(q, i)[k] = behind[k - (p + 1)]
            BY <1>1, <1>2, <1>6, <1>7, <2>2, <3>1
        <3>3. behind[k - (p + 1)] = q[k - 1]
            BY <1>4, <3>1
        <3> QED
            BY <1>2, <2>2, <3>1, <3>2, <3>3
    <2> QED
        BY <1>1, <1>2, <2>1, <2>2
<1> QED
    BY <1>2, <1>6, <1>7, <1>8 DEF n

LEMMA PutHolds ==
    ASSUME NEW q \in Seq(Items), NEW i \in Items
    PROVE  /\ \A j : In(j, Put(q, i)) <=> In(j, q) \/ j = i
           /\ Distinct(q) /\ ~In(i, q) => Distinct(Put(q, i))
<1> DEFINE n == Len(q)
           new == Put(q, i)
<1>1. n \in Nat /\ Len(new) = n + 1
    BY PutShape
<1>2. PICK p \in 0 .. n :
        \A k \in 1 .. n + 1 : new[k] = IF k <= p THEN q[k] ELSE IF k = p + 1 THEN i ELSE q[k - 1]
    BY PutShape
<1> HIDE DEF new
<1>3. ASSUME NEW j PROVE In(j, new) <=> In(j, q) \/ j = i
    <2>1. ASSUME NEW k \in 1 .. n, q[k] = j PROVE In(j, new)
        <3>1. CASE k <= p
            <4>1. k \in 1 .. n + 1 /\ new[k] = j
                BY <1>1, <1>2, <2>1, <3>1
            <4> QED
                BY <1>1, <4>1 DEF In
        <3>2. CASE k > p
            <4>1. k + 1 \in 1 .. n + 1 /\ ~(k + 1 <= p) /\ k + 1 # p + 1 /\ k + 1 - 1 = k
                BY <1>1, <3>2
            <4>2. new[k + 1] = j
                BY <1>2, <2>1, <4>1
            <4> QED
                BY <1>1, <4>1, <4>2 DEF In
        <3> QED
            BY <1>1, <3>1, <3>2
    <2>2. In(i, new)
        <3>1. p + 1 \in 1 .. n + 1 /\ new[p + 1] = i
            BY <1>1, <1>2
        <3> QED
            BY <1>1, <3>1 DEF In
    <2>3. ASSUME NEW k \in 1 .. n + 1, new[k] = j, j # i PROVE In(j, q)
        <3>1. CASE k <= p
            BY <1>1, <1>2, <2>3, <3>1 DEF In
        <3>2. CASE k > p
            <4>1. k # p + 1 /\ k - 1 \in 1 .. n /\ q[k - 1] = j
                BY <1>1, <1>2, <2>3, <3>2
            <4> QED
                BY <4>1 DEF In
        <3> QED
            BY <1>1, <3>1, <3>2
    <2> QED
        BY <1>1, <2>1, <2>2, <2>3 DEF In
<1>4. ASSUME Distinct(q), ~In(i, q), NEW j \in 1 .. n + 1, NEW k \in 1 .. n + 1, new[j] = new[k] PROVE j = k
    <2> DEFINE back(m) == IF m <= p THEN m ELSE m - 1
    <2>1. ASSUME NEW m \in 1 .. n + 1, m # p + 1 PROVE back(m) \in 1 .. n /\ new[m] = q[back(m)] /\ new[m] # i
        <3>1. back(m) \in 1 .. n /\ new[m] = q[back(m)]
            BY <1>1, <1>2, <2>1
        <3> QED
            BY <1>4, <3>1 DEF In
    <2>2. new[p + 1] = i /\ p + 1 \in 1 .. n + 1
        BY <1>1, <1>2
    <2>3. CASE j = p + 1 \/ k = p + 1
        <3>1. \A m \in 1 .. n + 1 : new[m] = i => m = p + 1
            BY <2>1
        <3> HIDE DEF n
        <3> QED
            BY <1>4, <2>2, <2>3, <3>1
    <2>4. CASE j # p + 1 /\ k # p + 1
        <3>1. back(j) = back(k)
            BY <1>4, <2>1, <2>4 DEF Distinct
        <3>2. CASE j <= p /\ k > p
            BY <1>1, <1>2, <2>4, <3>1, <3>2
        <3>3. CASE j > p /\ k <= p
            BY <1>1, <1>2, <2>4, <3>1, <3>3
        <3>4. CASE (j <= p /\ k <= p) \/ (j > p /\ k > p)
            BY <1>1, <1>2, <2>4, <3>1, <3>4
        <3> QED
            BY <1>1, <1>2, <3>2, <3>3, <3>4
    <2> QED
        BY <2>3, <2>4
<1> QED
    BY <1>1, <1>3, <1>4 DEF Distinct, new

LEMMA TailHolds ==
    ASSUME NEW q \in Seq(Items), q # <<>>
    PROVE  /\ Head(q) \in Items /\ In(Head(q), q) /\ Tail(q) \in Seq(Items)
           /\ Distinct(q) => Distinct(Tail(q)) /\ \A j : In(j, Tail(q)) <=> In(j, q) /\ j # Head(q)
<1>1. /\ Tail(q) \in Seq(Items) /\ Len(q) \in Nat /\ Len(q) > 0 /\ Len(Tail(q)) = Len(q) - 1
      /\ \A k \in 1 .. Len(q) - 1 : Tail(q)[k] = q[k + 1]
      /\ Head(q) = q[1] /\ q[1] \in Items
    OBVIOUS
<1>2. In(Head(q), q)
    BY <1>1 DEF In
<1>3. ASSUME Distinct(q) PROVE Distinct(Tail(q))
    BY <1>1, <1>3 DEF Distinct
<1>4. ASSUME Distinct(q), NEW j PROVE In(j, Tail(q)) <=> In(j, q) /\ j # Head(q)
    <2>1. ASSUME NEW k \in 1 .. Len(q), q[k] = j, j # Head(q) PROVE In(j, Tail(q))
        <3>1. k - 1 \in 1 .. Len(q) - 1 /\ Tail(q)[k - 1] = q[k]
            BY <1>1, <2>1
        <3> QED
            BY <1>1, <2>1, <3>1 DEF In
    <2>2. ASSUME NEW k \in 1 .. Len(Tail(q)), Tail(q)[k] = j PROVE In(j, q) /\ j # Head(q)
        <3>1. k + 1 \in 1 .. Len(q) /\ k + 1 # 1 /\ q[k + 1] = j /\ 1 \in 1 .. Len(q)
            BY <1>1, <2>2
        <3> QED
            BY <1>1, <1>4, <3>1 DEF In, Distinct
    <2> QED
        BY <2>1, <2>2 DEF In
<1> QED
    BY <1>1, <1>2, <1>3, <1>4

-------------------------------------------------------------------------------
\* The places.

At(box, slot, item, mark) == <<box, slot, item, mark>>
BoxOf(place) == place[1]
Nowhere == At("nowhere", "-", "-", "-")

Hands == {"lock", "interval", "exec", "archive"}
Results == Answers \cup {"retry", "cancelled"}

\* The queue q of a slot, or the dispatch queue, holds the attempts that are there.
InBox(where, box, slot, q) ==
    /\ q \in Seq(Items) /\ Distinct(q)
    /\ \A i \in Items : In(i, q) <=> where[i.r] = At(box, slot, i, "-")

\* The worker w of slot s has in its hand the attempt that is there.
InTheHand(where, s, w) ==
    \A i \in Items, pc \in Hands : (w.pc = pc /\ w.item = i) <=> where[i.r] = At("hand", s, i, pc)

\* The callbacks that have not run are those of the attempts on their way back.
OnWayBack(where, back) ==
    /\ back \subseteq [item : Items, result : Results]
    /\ \A i \in Items, result \in Results :
        [item |-> i, result |-> result] \in back <=> where[i.r] = At("back", "-", i, result)

WorkerStates ==
    {None, Idling, Stopped} \cup [pc : {"lock", "interval", "exec", "archive", "cleanup"}, item : Items]

Boxes(where, dq, qs, ws, back) ==
    /\ DOMAIN where = Requests
    /\ InBox(where, "dispatch", "-", dq)
    /\ qs \in [Slots -> Seq(Items)] /\ \A s \in Slots : InBox(where, "pending", s, qs[s])
    /\ ws \in [Slots -> WorkerStates] /\ \A s \in Slots : InTheHand(where, s, ws[s])
    /\ OnWayBack(where, back)

\* From place to place, the request r alone moves.
Moves(from, to, r) == DOMAIN to = Requests /\ \A q \in Requests \ {r} : to[q] = from[q]

LEMMA OnePlaceEach ==
    /\ \A box, slot, item, mark : BoxOf(At(box, slot, item, mark)) = box
    /\ \A b1, s1, i1, m1, b2, s2, i2, m2 :
        At(b1, s1, i1, m1) = At(b2, s2, i2, m2) => b1 = b2 /\ s1 = s2 /\ i1 = i2 /\ m1 = m2
    /\ BoxOf(Nowhere) = "nowhere"
BY DEF At, BoxOf, Nowhere

LEMMA ItemOf == \A i \in Items : i.r \in Requests /\ i.n \in Attempts /\ i.logged \in BOOLEAN
BY DEF Items

\* A box r is in neither before nor after the move.
LEMMA BoxAside ==
    ASSUME NEW from, NEW to, NEW r \in Requests, Moves(from, to, r), NEW box, NEW slot, NEW q,
           InBox(from, box, slot, q),
           \A i \in Items : from[r] # At(box, slot, i, "-") /\ to[r] # At(box, slot, i, "-")
    PROVE  InBox(to, box, slot, q)
BY ItemOf DEF InBox, Moves

LEMMA HandAside ==
    ASSUME NEW from, NEW to, NEW r \in Requests, Moves(from, to, r), NEW s, NEW w, InTheHand(from, s, w),
           \A i \in Items, pc \in Hands : from[r] # At("hand", s, i, pc) /\ to[r] # At("hand", s, i, pc)
    PROVE  InTheHand(to, s, w)
BY ItemOf DEF InTheHand, Moves

LEMMA BackAside ==
    ASSUME NEW from, NEW to, NEW r \in Requests, Moves(from, to, r), NEW back, OnWayBack(from, back),
           BoxOf(from[r]) # "back", BoxOf(to[r]) # "back"
    PROVE  OnWayBack(to, back)
BY ItemOf, OnePlaceEach DEF OnWayBack, Moves

\* What is at the head of a box leaves it.
LEMMA BoxLeave ==
    ASSUME NEW from, NEW box, NEW slot, NEW q, InBox(from, box, slot, q), q # <<>>
    PROVE  /\ Head(q) \in Items /\ from[Head(q).r] = At(box, slot, Head(q), "-")
           /\ \A to : Moves(from, to, Head(q).r) /\ BoxOf(to[Head(q).r]) # box => InBox(to, box, slot, Tail(q))
<1> DEFINE i == Head(q)
<1>1. /\ i \in Items /\ In(i, q) /\ Tail(q) \in Seq(Items) /\ Distinct(Tail(q))
      /\ \A j : In(j, Tail(q)) <=> In(j, q) /\ j # i
    BY TailHolds DEF InBox
<1> HIDE DEF i
<1>2. from[i.r] = At(box, slot, i, "-")
    BY <1>1 DEF InBox
<1>3. ASSUME NEW to, Moves(from, to, i.r), BoxOf(to[i.r]) # box PROVE InBox(to, box, slot, Tail(q))
    <2>1. ASSUME NEW j \in Items PROVE In(j, Tail(q)) <=> to[j.r] = At(box, slot, j, "-")
        <3>1. CASE j.r = i.r
            BY <1>1, <1>2, <1>3, <2>1, <3>1, OnePlaceEach DEF InBox
        <3>2. CASE j.r # i.r
            BY <1>1, <1>3, <2>1, <3>2, ItemOf DEF InBox, Moves
        <3> QED
            BY <3>1, <3>2
    <2> QED
        BY <1>1, <2>1 DEF InBox
<1> QED
    BY <1>1, <1>2, <1>3 DEF i

\* An attempt is put in a box.
LEMMA BoxEnter ==
    ASSUME NEW from, NEW to, NEW i \in Items, NEW box, NEW slot, NEW q, InBox(from, box, slot, q),
           BoxOf(from[i.r]) # box, Moves(from, to, i.r), to[i.r] = At(box, slot, i, "-")
    PROVE  InBox(to, box, slot, Put(q, i))
<1>1. ~In(i, q)
    BY OnePlaceEach DEF InBox
<1>2. /\ Put(q, i) \in Seq(Items) /\ Distinct(Put(q, i))
      /\ \A j : In(j, Put(q, i)) <=> In(j, q) \/ j = i
    BY <1>1, PutShape, PutHolds DEF InBox
<1>3. ASSUME NEW j \in Items PROVE In(j, Put(q, i)) <=> to[j.r] = At(box, slot, j, "-")
    <2>1. CASE j.r = i.r
        BY <1>2, <2>1, OnePlaceEach DEF InBox
    <2>2. CASE j.r # i.r
        BY <1>2, <2>2, ItemOf DEF InBox, Moves
    <2> QED
        BY <2>1, <2>2
<1> QED
    BY <1>2, <1>3 DEF InBox

\* All boxes r is not in before and is not in after the move; of the others the caller of
\* the lemma knows better.
LEMMA Aside ==
    ASSUME NEW from, NEW to, NEW r \in Requests, Moves(from, to, r),
           NEW dq, NEW qs, NEW ws, NEW back, Boxes(from, dq, qs, ws, back)
    PROVE  /\ BoxOf(from[r]) # "dispatch" /\ BoxOf(to[r]) # "dispatch" => InBox(to, "dispatch", "-", dq)
           /\ \A s \in Slots :
                (\A i \in Items : from[r] # At("pending", s, i, "-") /\ to[r] # At("pending", s, i, "-"))
                    => InBox(to, "pending", s, qs[s])
           /\ \A s \in Slots :
                (\A i \in Items, pc \in Hands : from[r] # At("hand", s, i, pc) /\ to[r] # At("hand", s, i, pc))
                    => InTheHand(to, s, ws[s])
           /\ BoxOf(from[r]) # "back" /\ BoxOf(to[r]) # "back" => OnWayBack(to, back)
<1>1. ASSUME BoxOf(from[r]) # "dispatch", BoxOf(to[r]) # "dispatch" PROVE InBox(to, "dispatch", "-", dq)
    <2>1. \A i \in Items : from[r] # At("dispatch", "-", i, "-") /\ to[r] # At("dispatch", "-", i, "-")
        BY <1>1, OnePlaceEach
    <2> QED
        BY <2>1, BoxAside DEF Boxes
<1>2. ASSUME NEW s \in Slots,
             \A i \in Items : from[r] # At("pending", s, i, "-") /\ to[r] # At("pending", s, i, "-")
      PROVE  InBox(to, "pending", s, qs[s])
    BY <1>2, BoxAside DEF Boxes
<1>3. ASSUME NEW s \in Slots,
             \A i \in Items, pc \in Hands : from[r] # At("hand", s, i, pc) /\ to[r] # At("hand", s, i, pc)
      PROVE  InTheHand(to, s, ws[s])
    BY <1>3, HandAside DEF Boxes
<1>4. ASSUME BoxOf(from[r]) # "back", BoxOf(to[r]) # "back" PROVE OnWayBack(to, back)
    BY <1>4, BackAside DEF Boxes
<1> QED
    BY <1>1, <1>2, <1>3, <1>4

\* An attempt leaves the box it is in, and its request is nowhere.

LEMMA LeaveDispatch ==
    ASSUME NEW from, NEW dq, NEW qs, NEW ws, NEW back, Boxes(from, dq, qs, ws, back), dq # <<>>
    PROVE  /\ Head(dq) \in Items /\ from[Head(dq).r] = At("dispatch", "-", Head(dq), "-")
           /\ \A to : Moves(from, to, Head(dq).r) /\ to[Head(dq).r] = Nowhere => Boxes(to, Tail(dq), qs, ws, back)
<1> DEFINE i == Head(dq)
<1>1. /\ i \in Items /\ from[i.r] = At("dispatch", "-", i, "-")
      /\ \A to : Moves(from, to, i.r) /\ BoxOf(to[i.r]) # "dispatch" => InBox(to, "dispatch", "-", Tail(dq))
    BY BoxLeave DEF Boxes
<1> HIDE DEF i
<1> SUFFICES ASSUME NEW to, Moves(from, to, i.r), to[i.r] = Nowhere PROVE Boxes(to, Tail(dq), qs, ws, back)
    BY <1>1 DEF i
<1>2. BoxOf(from[i.r]) = "dispatch" /\ BoxOf(to[i.r]) = "nowhere"
    BY <1>1, OnePlaceEach
<1>3. InBox(to, "dispatch", "-", Tail(dq))
    BY <1>1, <1>2
<1>4. OnWayBack(to, back) /\ \A s \in Slots : InBox(to, "pending", s, qs[s]) /\ InTheHand(to, s, ws[s])
    <2>1. \A box, slot, j, mark : box \notin {"dispatch", "nowhere"} =>
            from[i.r] # At(box, slot, j, mark) /\ to[i.r] # At(box, slot, j, mark)
        BY <1>2, OnePlaceEach
    <2> QED
        BY <1>1, <1>2, <2>1, Aside, ItemOf
<1> QED
    BY <1>3, <1>4 DEF Boxes, Moves

LEMMA LeaveQueue ==
    ASSUME NEW from, NEW dq, NEW qs, NEW ws, NEW back, Boxes(from, dq, qs, ws, back),
           NEW s \in Slots, qs[s] # <<>>
    PROVE  /\ Head(qs[s]) \in Items /\ from[Head(qs[s]).r] = At("pending", s, Head(qs[s]), "-")
           /\ \A to : Moves(from, to, Head(qs[s]).r) /\ to[Head(qs[s]).r] = Nowhere
                        => Boxes(to, dq, [qs EXCEPT ![s] = Tail(qs[s])], ws, back)
<1> DEFINE i == Head(qs[s])
           new == [qs EXCEPT ![s] = Tail(qs[s])]
<1>1. /\ i \in Items /\ from[i.r] = At("pending", s, i, "-")
      /\ \A to : Moves(from, to, i.r) /\ BoxOf(to[i.r]) # "pending" => InBox(to, "pending", s, Tail(qs[s]))
    BY BoxLeave DEF Boxes
<1>2. new \in [Slots -> Seq(Items)] /\ new[s] = Tail(qs[s]) /\ \A t \in Slots \ {s} : new[t] = qs[t]
    BY TailHolds DEF Boxes
<1> HIDE DEF i, new
<1> SUFFICES ASSUME NEW to, Moves(from, to, i.r), to[i.r] = Nowhere PROVE Boxes(to, dq, new, ws, back)
    BY <1>1 DEF i, new
<1>3. BoxOf(from[i.r]) = "pending" /\ BoxOf(to[i.r]) = "nowhere"
    BY <1>1, OnePlaceEach
<1>4. InBox(to, "pending", s, new[s])
    BY <1>1, <1>2, <1>3
<1>5. \A slot, j, mark : to[i.r] # At("pending", slot, j, mark)
    BY <1>3, OnePlaceEach
<1>6. /\ InBox(to, "dispatch", "-", dq) /\ OnWayBack(to, back) /\ \A t \in Slots : InTheHand(to, t, ws[t])
      /\ \A t \in Slots \ {s} : InBox(to, "pending", t, qs[t])
    <2>1. \A slot, j, mark : from[i.r] # At("hand", slot, j, mark) /\ to[i.r] # At("hand", slot, j, mark)
        BY <1>3, OnePlaceEach
    <2>2. \A t \in Slots \ {s} : \A j, mark : from[i.r] # At("pending", t, j, mark)
        BY <1>1, OnePlaceEach
    <2> QED
        BY <1>1, <1>3, <1>5, <2>1, <2>2, Aside, ItemOf
<1> QED
    BY <1>2, <1>4, <1>6 DEF Boxes, Moves

\* Whatever the worker of s has in its hand, r is the request, and the worker turns to w.
LEMMA LeaveHand ==
    ASSUME NEW from, NEW dq, NEW qs, NEW ws, NEW back, Boxes(from, dq, qs, ws, back),
           NEW s \in Slots, ws[s].pc \in Hands, NEW w \in WorkerStates, w.pc \notin Hands
    PROVE  /\ ws[s].item \in Items /\ from[ws[s].item.r] = At("hand", s, ws[s].item, ws[s].pc)
           /\ \A to : Moves(from, to, ws[s].item.r) /\ to[ws[s].item.r] = Nowhere
                        => Boxes(to, dq, qs, [ws EXCEPT ![s] = w], back)
<1> DEFINE i == ws[s].item
           pc == ws[s].pc
           new == [ws EXCEPT ![s] = w]
<1>1. i \in Items
    <2>1. ws[s] \in WorkerStates
        BY DEF Boxes
    <2>2. pc \notin {"none", "idle", "stopped"}
        BY DEF Hands
    <2> QED
        BY <2>1, <2>2 DEF WorkerStates, None, Idling, Stopped
<1>2. from[i.r] = At("hand", s, i, pc)
    BY <1>1 DEF Boxes, InTheHand
<1>3. new \in [Slots -> WorkerStates] /\ new[s] = w /\ \A t \in Slots \ {s} : new[t] = ws[t]
    BY DEF Boxes
<1> HIDE DEF i, pc, new
<1> SUFFICES ASSUME NEW to, Moves(from, to, i.r), to[i.r] = Nowhere PROVE Boxes(to, dq, qs, new, back)
    BY <1>1, <1>2 DEF i, new, pc
<1>4. BoxOf(from[i.r]) = "hand" /\ BoxOf(to[i.r]) = "nowhere"
    BY <1>2, OnePlaceEach
<1>5. ASSUME NEW j \in Items, NEW x \in Hands PROVE to[j.r] # At("hand", s, j, x)
    <2>1. CASE j.r = i.r
        BY <1>4, <2>1, OnePlaceEach
    <2>2. CASE j.r # i.r
        <3>1. from[j.r] = At("hand", s, j, x) => ws[s].item = j
            BY DEF Boxes, InTheHand
        <3>2. to[j.r] = from[j.r]
            BY <2>2, ItemOf DEF Moves
        <3> QED
            BY <2>2, <3>1, <3>2 DEF i
    <2> QED
        BY <2>1, <2>2
<1>6. InTheHand(to, s, new[s])
    BY <1>3, <1>5 DEF InTheHand
<1>7. /\ InBox(to, "dispatch", "-", dq) /\ OnWayBack(to, back) /\ \A t \in Slots : InBox(to, "pending", t, qs[t])
      /\ \A t \in Slots \ {s} : InTheHand(to, t, ws[t])
    <2>1. \A slot, j, mark : from[i.r] # At("pending", slot, j, mark) /\ to[i.r] # At("pending", slot, j, mark)
        BY <1>4, OnePlaceEach
    <2>2. \A t \in Slots \ {s} : \A j, mark : from[i.r] # At("hand", t, j, mark) /\ to[i.r] # At("hand", t, j, mark)
        BY <1>2, <1>4, OnePlaceEach
    <2> QED
        BY <1>1, <1>4, <2>1, <2>2, Aside, ItemOf
<1> QED
    BY <1>3, <1>6, <1>7 DEF Boxes, Moves

LEMMA LeaveBack ==
    ASSUME NEW from, NEW dq, NEW qs, NEW ws, NEW back, Boxes(from, dq, qs, ws, back), NEW c \in back
    PROVE  /\ c.item \in Items /\ c.result \in Results /\ from[c.item.r] = At("back", "-", c.item, c.result)
           /\ \A to : Moves(from, to, c.item.r) /\ to[c.item.r] = Nowhere => Boxes(to, dq, qs, ws, back \ {c})
<1> DEFINE i == c.item
           x == c.result
<1>1. c = [item |-> i, result |-> x] /\ i \in Items /\ x \in Results
    BY DEF Boxes, OnWayBack
<1>2. from[i.r] = At("back", "-", i, x)
    BY <1>1 DEF Boxes, OnWayBack
<1> HIDE DEF i, x
<1> SUFFICES ASSUME NEW to, Moves(from, to, i.r), to[i.r] = Nowhere PROVE Boxes(to, dq, qs, ws, back \ {c})
    BY <1>1, <1>2 DEF i, x
<1>3. BoxOf(from[i.r]) = "back" /\ BoxOf(to[i.r]) = "nowhere"
    BY <1>2, OnePlaceEach
<1>4. ASSUME NEW j \in Items, NEW y \in Results
      PROVE  [item |-> j, result |-> y] \in back \ {c} <=> to[j.r] = At("back", "-", j, y)
    <2> DEFINE d == [item |-> j, result |-> y]
    <2>1. d \in back <=> from[j.r] = At("back", "-", j, y)
        BY DEF Boxes, OnWayBack
    <2>2. CASE j.r = i.r
        <3>1. to[j.r] # At("back", "-", j, y)
            BY <1>3, <2>2, OnePlaceEach
        <3>2. d \in back => j = i /\ y = x
            BY <1>2, <2>1, <2>2, OnePlaceEach
        <3> QED
            BY <1>1, <3>1, <3>2
    <2>3. CASE j.r # i.r
        <3>1. to[j.r] = from[j.r]
            BY <2>3, ItemOf DEF Moves
        <3>2. d # c
            BY <2>3 DEF i
        <3> QED
            BY <2>1, <3>1, <3>2
    <2> QED
        BY <2>2, <2>3
<1>5. OnWayBack(to, back \ {c})
    BY <1>4 DEF Boxes, OnWayBack
<1>6. /\ InBox(to, "dispatch", "-", dq)
      /\ \A s \in Slots : InBox(to, "pending", s, qs[s]) /\ InTheHand(to, s, ws[s])
    <2>1. \A box, slot, j, mark : box \notin {"back", "nowhere"} =>
            from[i.r] # At(box, slot, j, mark) /\ to[i.r] # At(box, slot, j, mark)
        BY <1>3, OnePlaceEach
    <2> QED
        BY <1>1, <1>3, <2>1, Aside, ItemOf
<1> QED
    BY <1>5, <1>6 DEF Boxes, Moves

\* An attempt whose request is nowhere is put in a box.

LEMMA EnterDispatch ==
    ASSUME NEW from, NEW to, NEW dq, NEW qs, NEW ws, NEW back, Boxes(from, dq, qs, ws, back),
           NEW i \in Items, from[i.r] = Nowhere, Moves(from, to, i.r), to[i.r] = At("dispatch", "-", i, "-")
    PROVE  Boxes(to, Put(dq, i), qs, ws, back)
<1>1. BoxOf(from[i.r]) = "nowhere" /\ BoxOf(to[i.r]) = "dispatch"
    BY OnePlaceEach
<1>2. InBox(to, "dispatch", "-", Put(dq, i))
    BY <1>1, BoxEnter DEF Boxes
<1>3. OnWayBack(to, back) /\ \A s \in Slots : InBox(to, "pending", s, qs[s]) /\ InTheHand(to, s, ws[s])
    <2>1. \A box, slot, j, mark : box \notin {"dispatch", "nowhere"} =>
            from[i.r] # At(box, slot, j, mark) /\ to[i.r] # At(box, slot, j, mark)
        BY <1>1, OnePlaceEach
    <2> QED
        BY <1>1, <2>1, Aside, ItemOf
<1> QED
    BY <1>2, <1>3 DEF Boxes, Moves

LEMMA EnterQueue ==
    ASSUME NEW from, NEW to, NEW dq, NEW qs, NEW ws, NEW back, Boxes(from, dq, qs, ws, back), NEW s \in Slots,
           NEW i \in Items, from[i.r] = Nowhere, Moves(from, to, i.r), to[i.r] = At("pending", s, i, "-")
    PROVE  Boxes(to, dq, [qs EXCEPT ![s] = Put(qs[s], i)], ws, back)
<1> DEFINE new == [qs EXCEPT ![s] = Put(qs[s], i)]
<1>1. BoxOf(from[i.r]) = "nowhere" /\ BoxOf(to[i.r]) = "pending"
    BY OnePlaceEach
<1>2. new \in [Slots -> Seq(Items)] /\ new[s] = Put(qs[s], i) /\ \A t \in Slots \ {s} : new[t] = qs[t]
    BY PutShape DEF Boxes
<1> HIDE DEF new
<1>3. InBox(to, "pending", s, new[s])
    <2>1. BoxOf(from[i.r]) # "pending" /\ InBox(from, "pending", s, qs[s])
        BY <1>1 DEF Boxes
    <2>2. InBox(to, "pending", s, Put(qs[s], i))
        BY <2>1, BoxEnter
    <2> QED
        BY <1>2, <2>2
<1>4. /\ InBox(to, "dispatch", "-", dq) /\ OnWayBack(to, back) /\ \A t \in Slots : InTheHand(to, t, ws[t])
      /\ \A t \in Slots \ {s} : InBox(to, "pending", t, qs[t])
    <2>1. \A slot, j, mark : from[i.r] # At("hand", slot, j, mark) /\ to[i.r] # At("hand", slot, j, mark)
        BY <1>1, OnePlaceEach
    <2>2. \A t \in Slots \ {s} : \A j, mark :
            from[i.r] # At("pending", t, j, mark) /\ to[i.r] # At("pending", t, j, mark)
        BY <1>1, OnePlaceEach
    <2> QED
        BY <1>1, <2>1, <2>2, Aside, ItemOf
<1> QED
    BY <1>2, <1>3, <1>4 DEF Boxes, Moves, new

LEMMA EnterHand ==
    ASSUME NEW from, NEW to, NEW dq, NEW qs, NEW ws, NEW back, Boxes(from, dq, qs, ws, back), NEW s \in Slots,
           ws[s].pc \notin Hands, NEW pc \in Hands,
           NEW i \in Items, from[i.r] = Nowhere, Moves(from, to, i.r), to[i.r] = At("hand", s, i, pc)
    PROVE  Boxes(to, dq, qs, [ws EXCEPT ![s] = Holding(pc, i)], back)
<1> DEFINE new == [ws EXCEPT ![s] = Holding(pc, i)]
<1>1. BoxOf(from[i.r]) = "nowhere" /\ BoxOf(to[i.r]) = "hand"
    BY OnePlaceEach
<1>2. Holding(pc, i) \in WorkerStates /\ Holding(pc, i).pc = pc /\ Holding(pc, i).item = i
    BY DEF Holding, WorkerStates, Hands
<1>3. new \in [Slots -> WorkerStates] /\ new[s] = Holding(pc, i) /\ \A t \in Slots \ {s} : new[t] = ws[t]
    BY <1>2 DEF Boxes
<1> HIDE DEF new
<1>4. ASSUME NEW j \in Items, NEW x \in Hands PROVE (x = pc /\ j = i) <=> to[j.r] = At("hand", s, j, x)
    <2>1. CASE j.r = i.r
        BY <2>1, OnePlaceEach
    <2>2. CASE j.r # i.r
        <3>1. from[j.r] # At("hand", s, j, x)
            BY DEF Boxes, InTheHand
        <3>2. to[j.r] = from[j.r]
            BY <2>2, ItemOf DEF Moves
        <3> QED
            BY <2>2, <3>1, <3>2
    <2> QED
        BY <2>1, <2>2
<1>5. InTheHand(to, s, new[s])
    BY <1>2, <1>3, <1>4 DEF InTheHand
<1>6. /\ InBox(to, "dispatch", "-", dq) /\ OnWayBack(to, back) /\ \A t \in Slots : InBox(to, "pending", t, qs[t])
      /\ \A t \in Slots \ {s} : InTheHand(to, t, ws[t])
    <2>1. \A slot, j, mark : from[i.r] # At("pending", slot, j, mark) /\ to[i.r] # At("pending", slot, j, mark)
        BY <1>1, OnePlaceEach
    <2>2. \A t \in Slots \ {s} : \A j, mark : from[i.r] # At("hand", t, j, mark) /\ to[i.r] # At("hand", t, j, mark)
        BY <1>1, OnePlaceEach
    <2> QED
        BY <1>1, <2>1, <2>2, Aside, ItemOf
<1> QED
    BY <1>3, <1>5, <1>6 DEF Boxes, Moves, new

LEMMA EnterBack ==
    ASSUME NEW from, NEW to, NEW dq, NEW qs, NEW ws, NEW back, Boxes(from, dq, qs, ws, back), NEW x \in Results,
           NEW i \in Items, from[i.r] = Nowhere, Moves(from, to, i.r), to[i.r] = At("back", "-", i, x)
    PROVE  Boxes(to, dq, qs, ws, back \cup {[item |-> i, result |-> x]})
<1> DEFINE c == [item |-> i, result |-> x]
<1>1. BoxOf(from[i.r]) = "nowhere" /\ BoxOf(to[i.r]) = "back"
    BY OnePlaceEach
<1>2. ASSUME NEW j \in Items, NEW y \in Results
      PROVE  [item |-> j, result |-> y] \in back \cup {c} <=> to[j.r] = At("back", "-", j, y)
    <2> DEFINE d == [item |-> j, result |-> y]
    <2>1. /\ d \in back <=> from[j.r] = At("back", "-", j, y)
          /\ d = c <=> j = i /\ y = x
        BY DEF Boxes, OnWayBack
    <2> HIDE DEF d, c
    <2>2. CASE j.r = i.r
        <3>1. d \notin back
            BY <1>1, <2>1, <2>2, OnePlaceEach
        <3>2. to[j.r] = At("back", "-", j, y) <=> j = i /\ y = x
            BY <2>2, OnePlaceEach
        <3> QED
            BY <2>1, <3>1, <3>2 DEF d
    <2>3. CASE j.r # i.r
        <3>1. to[j.r] = from[j.r]
            BY <2>3, ItemOf DEF Moves
        <3> QED
            BY <2>1, <2>3, <3>1 DEF d
    <2> QED
        BY <2>2, <2>3
<1>3. OnWayBack(to, back \cup {c})
    BY <1>2 DEF Boxes, OnWayBack
<1>4. /\ InBox(to, "dispatch", "-", dq)
      /\ \A s \in Slots : InBox(to, "pending", s, qs[s]) /\ InTheHand(to, s, ws[s])
    <2>1. \A box, slot, j, mark : box \notin {"back", "nowhere"} =>
            from[i.r] # At(box, slot, j, mark) /\ to[i.r] # At(box, slot, j, mark)
        BY <1>1, OnePlaceEach
    <2> QED
        BY <1>1, <2>1, Aside, ItemOf
<1> QED
    BY <1>3, <1>4 DEF Boxes, Moves

\* A worker with nothing in its hand changes its state.
LEMMA HandEmpty ==
    ASSUME NEW where, NEW dq, NEW qs, NEW ws, NEW back, Boxes(where, dq, qs, ws, back),
           NEW s \in Slots, ws[s].pc \notin Hands, NEW w \in WorkerStates, w.pc \notin Hands
    PROVE  Boxes(where, dq, qs, [ws EXCEPT ![s] = w], back)
<1> DEFINE new == [ws EXCEPT ![s] = w]
<1>1. new \in [Slots -> WorkerStates] /\ new[s] = w /\ \A t \in Slots \ {s} : new[t] = ws[t]
    BY DEF Boxes
<1> HIDE DEF new
<1>2. InTheHand(where, s, ws[s]) => InTheHand(where, s, new[s])
    BY <1>1 DEF InTheHand
<1>3. \A t \in Slots : InTheHand(where, t, new[t])
    BY <1>1, <1>2 DEF Boxes
<1> QED
    BY <1>1, <1>3 DEF Boxes, new

-------------------------------------------------------------------------------
\* Counting the places.

LEMMA Singles ==
    /\ Cardinality({}) = 0
    /\ \A x : Cardinality({x}) = 1
BY FS_EmptySet, FS_Singleton

\* A request is counted once if it is somewhere, and not at all if it is nowhere.
LEMMA PlacesCounted ==
    ASSUME NEW where, Boxes(where, dispatchQ, queue, worker, callbacks), NEW r \in Requests,
           NEW box, NEW slot, NEW i, NEW mark, where[r] = At(box, slot, i, mark),
           \/ where[r] = Nowhere
           \/ /\ i \in Items /\ i.r = r
              /\ \/ box = "dispatch" /\ slot = "-" /\ mark = "-"
                 \/ box = "pending" /\ slot \in Slots /\ mark = "-"
                 \/ box = "hand" /\ slot \in Slots /\ mark \in Hands
                 \/ box = "back" /\ slot = "-" /\ mark \in Results
    PROVE  Places(r) = IF where[r] = Nowhere THEN 0 ELSE 1
<1>1. ASSUME NEW b, NEW s, NEW q, InBox(where, b, s, q)
      PROVE  /\ b # box \/ s # slot => Of(r, q) = {}
             /\ i \in Items /\ i.r = r /\ b = box /\ s = slot /\ mark = "-" => \E k : Of(r, q) = {k}
    <2>1. q \in Seq(Items) /\ Distinct(q)
        BY <1>1 DEF InBox
    <2>2. ASSUME NEW k \in 1 .. Len(q), q[k].r = r PROVE At(b, s, q[k], "-") = At(box, slot, i, mark)
        <3>1. q[k] \in Items /\ In(q[k], q)
            BY <2>1, ElementOfSeq DEF In
        <3> QED
            BY <1>1, <2>2, <3>1 DEF InBox
    <2>3. ASSUME NEW k \in 1 .. Len(q), q[k].r = r PROVE b = box /\ s = slot /\ q[k] = i
        BY <2>2, <2>3, OnePlaceEach
    <2>4. b # box \/ s # slot => Of(r, q) = {}
        BY <2>3 DEF Of
    <2>5. ASSUME i \in Items, i.r = r, b = box, s = slot, mark = "-" PROVE \E k : Of(r, q) = {k}
        <3>1. In(i, q)
            BY <1>1, <2>5 DEF InBox
        <3>2. PICK k \in 1 .. Len(q) : q[k] = i
            BY <3>1 DEF In
        <3>3. \A j \in 1 .. Len(q) : q[j].r = r => j = k
            BY <2>1, <2>3, <3>2 DEF Distinct
        <3>4. Of(r, q) = {k}
            BY <2>5, <3>2, <3>3 DEF Of
        <3> QED
            BY <3>4
    <2> QED
        BY <2>4, <2>5
<1>2. /\ box # "dispatch" => Of(r, dispatchQ) = {}
      /\ box = "dispatch" /\ slot = "-" /\ mark = "-" /\ i \in Items /\ i.r = r => \E k : Of(r, dispatchQ) = {k}
    BY <1>1 DEF Boxes
<1>3. ASSUME NEW s \in Slots
      PROVE  /\ box # "pending" \/ s # slot => Of(r, queue[s]) = {}
             /\ box = "pending" /\ s = slot /\ mark = "-" /\ i \in Items /\ i.r = r => \E k : Of(r, queue[s]) = {k}
    BY <1>1 DEF Boxes
<1>4. box # "pending" => Pending(r) = {}
    BY <1>3 DEF Pending
<1>5. ASSUME box = "pending", slot \in Slots, mark = "-", i \in Items, i.r = r PROVE \E p : Pending(r) = {p}
    <2>1. PICK k : Of(r, queue[slot]) = {k}
        BY <1>3, <1>5
    <2>2. \A s \in Slots \ {slot} : Of(r, queue[s]) = {}
        BY <1>3, <1>5
    <2>3. Pending(r) = {<<slot, k>>}
        BY <1>5, <2>1, <2>2 DEF Pending
    <2> QED
        BY <2>3
<1>6. ASSUME NEW s \in Slots, worker[s].pc \in Hands, worker[s].item.r = r
      PROVE  box = "hand" /\ s = slot
    <2>1. worker[s] \in WorkerStates /\ worker[s].pc \notin {"none", "idle", "stopped"}
        BY <1>6 DEF Boxes, Hands
    <2>2. worker[s].item \in Items
        BY <2>1 DEF WorkerStates, None, Idling, Stopped
    <2>3. At(box, slot, i, mark) = At("hand", s, worker[s].item, worker[s].pc)
        BY <1>6, <2>2 DEF Boxes, InTheHand
    <2> QED
        BY <2>3, OnePlaceEach
<1>7. InHand(r) = {s \in Slots : worker[s].pc \in Hands /\ worker[s].item.r = r}
    BY DEF InHand, Hands
<1>8. box # "hand" => InHand(r) = {}
    BY <1>6, <1>7
<1>9. ASSUME box = "hand", slot \in Slots, mark \in Hands, i \in Items, i.r = r PROVE \E s : InHand(r) = {s}
    <2>1. worker[slot].pc = mark /\ worker[slot].item = i
        BY <1>9 DEF Boxes, InTheHand
    <2>2. InHand(r) = {slot}
        BY <1>6, <1>7, <1>9, <2>1
    <2> QED
        BY <2>2
<1>10. ASSUME NEW c \in callbacks, c.item.r = r PROVE box = "back" /\ c = [item |-> i, result |-> mark]
    <2>1. c = [item |-> c.item, result |-> c.result] /\ c.item \in Items /\ c.result \in Results
        BY DEF Boxes, OnWayBack
    <2>2. At(box, slot, i, mark) = At("back", "-", c.item, c.result)
        BY <1>10, <2>1 DEF Boxes, OnWayBack
    <2>3. box = "back" /\ c.item = i /\ c.result = mark
        BY <2>2, OnePlaceEach
    <2> QED
        BY <2>1, <2>3
<1>11. box # "back" => ComingBack(r) = {}
    BY <1>10 DEF ComingBack
<1>12. ASSUME box = "back", slot = "-", mark \in Results, i \in Items, i.r = r PROVE \E c : ComingBack(r) = {c}
    <2>1. [item |-> i, result |-> mark] \in callbacks
        BY <1>12 DEF Boxes, OnWayBack
    <2>2. ComingBack(r) = {[item |-> i, result |-> mark]}
        BY <1>10, <1>12, <2>1 DEF ComingBack
    <2> QED
        BY <2>2
<1>13. where[r] = Nowhere <=> box = "nowhere"
    BY OnePlaceEach
<1>14. CASE where[r] = Nowhere
    <2>1. Of(r, dispatchQ) = {} /\ Pending(r) = {} /\ InHand(r) = {} /\ ComingBack(r) = {}
        BY <1>2, <1>4, <1>8, <1>11, <1>13, <1>14
    <2> QED
        BY <1>14, <2>1, Singles DEF Places
<1>15. CASE where[r] # Nowhere
    <2>1. CASE box = "dispatch"
        <3>1. PICK k : Of(r, dispatchQ) = {k}
            BY <1>2, <1>15, <2>1
        <3>2. Pending(r) = {} /\ InHand(r) = {} /\ ComingBack(r) = {}
            BY <1>4, <1>8, <1>11, <2>1
        <3>3. Cardinality(Of(r, dispatchQ)) = 1
            BY <3>1, Singles
        <3> QED
            BY <1>15, <3>2, <3>3, Singles DEF Places
    <2>2. CASE box = "pending"
        <3>1. PICK k : Pending(r) = {k}
            BY <1>5, <1>15, <2>2
        <3>2. Of(r, dispatchQ) = {} /\ InHand(r) = {} /\ ComingBack(r) = {}
            BY <1>2, <1>8, <1>11, <2>2
        <3>3. Cardinality(Pending(r)) = 1
            BY <3>1, Singles
        <3> QED
            BY <1>15, <3>2, <3>3, Singles DEF Places
    <2>3. CASE box = "hand"
        <3>1. PICK s : InHand(r) = {s}
            BY <1>9, <1>15, <2>3
        <3>2. Of(r, dispatchQ) = {} /\ Pending(r) = {} /\ ComingBack(r) = {}
            BY <1>2, <1>4, <1>11, <2>3
        <3>3. Cardinality(InHand(r)) = 1
            BY <3>1, Singles
        <3> QED
            BY <1>15, <3>2, <3>3, Singles DEF Places
    <2>4. CASE box = "back"
        <3>1. PICK c : ComingBack(r) = {c}
            BY <1>12, <1>15, <2>4
        <3>2. Of(r, dispatchQ) = {} /\ Pending(r) = {} /\ InHand(r) = {}
            BY <1>2, <1>4, <1>8, <2>4
        <3>3. Cardinality(ComingBack(r)) = 1
            BY <3>1, Singles
        <3> QED
            BY <1>15, <3>2, <3>3, Singles DEF Places
    <2> QED
        BY <1>15, <2>1, <2>2, <2>3, <2>4
<1> QED
    BY <1>14, <1>15

-------------------------------------------------------------------------------
\* The reroute, attempt by attempt.

RerouteStart == [dispatchQ |-> dispatchQ, client |-> client, acct |-> acct]

LEMMA RerouteWalk ==
    ASSUME NEW u, Len(queue[Current(u)]) \in Nat
    PROVE  \E walk :
            /\ walk[0] = RerouteStart
            /\ \A k \in 1 .. Len(queue[Current(u)]) : walk[k] = RerouteOne(walk[k - 1], queue[Current(u)][k])
            /\ Rerouted(u) = walk[Len(queue[Current(u)])]
<1> DEFINE q == queue[Current(u)]
           n == Len(q)
           Grows(f, m) == f = [k \in 0 .. m |-> IF k = 0 THEN RerouteStart ELSE RerouteOne(f[k - 1], q[k])]
           S == {m \in 0 .. n : \E f : Grows(f, m)}
<1>1. 0 \in S
    <2>1. Grows([k \in 0 .. 0 |-> RerouteStart], 0)
        OBVIOUS
    <2> HIDE DEF Grows
    <2>2. 0 \in 0 .. n
        OBVIOUS
    <2> QED
        BY <2>1, <2>2
<1>2. ASSUME NEW m \in 0 .. n - 1, m \in S PROVE m + 1 \in S
    <2>1. PICK f : Grows(f, m)
        BY <1>2
    <2> DEFINE g == [k \in 0 .. m + 1 |-> IF k = m + 1 THEN RerouteOne(f[m], q[m + 1]) ELSE f[k]]
    <2>2. ASSUME NEW k \in 0 .. m + 1 PROVE g[k] = IF k = 0 THEN RerouteStart ELSE RerouteOne(g[k - 1], q[k])
        <3>1. CASE k = m + 1
            <4>1. k # 0 /\ k - 1 = m /\ m \in 0 .. m + 1 /\ m # m + 1
                BY <3>1
            <4>2. g[m] = f[m] /\ g[k] = RerouteOne(f[m], q[m + 1])
                BY <3>1, <4>1
            <4> HIDE DEF g
            <4> QED
                BY <3>1, <4>1, <4>2
        <3>2. CASE k # m + 1
            <4>1. k \in 0 .. m /\ g[k] = f[k]
                BY <3>2
            <4>2. f[k] = IF k = 0 THEN RerouteStart ELSE RerouteOne(f[k - 1], q[k])
                BY <2>1, <4>1
            <4>3. k # 0 => g[k - 1] = f[k - 1]
                BY <4>1
            <4> HIDE DEF g
            <4> QED
                BY <4>1, <4>2, <4>3
        <3> QED
            BY <3>1, <3>2
    <2>3. Grows(g, m + 1)
        <3>1. DOMAIN g = 0 .. m + 1 /\ g = [k \in 0 .. m + 1 |-> g[k]]
            OBVIOUS
        <3> HIDE DEF g
        <3> QED
            BY <2>2, <3>1
    <2>4. m + 1 \in 0 .. n
        OBVIOUS
    <2> QED
        BY <2>3, <2>4
<1>3. \E f : Grows(f, n)
    <2>1. n \in Nat
        OBVIOUS
    <2> HIDE DEF n, S, Grows
    <2>2. n \in 0 .. n /\ \A k \in 0 .. n : k \in S
        BY <1>1, <1>2, <2>1, UpTo
    <2> QED
        BY <2>2 DEF S
<1> DEFINE walk == CHOOSE f : Grows(f, n)
<1>4. Grows(walk, n)
    BY <1>3
<1>5. Rerouted(u) = walk[n]
    BY DEF Rerouted, RerouteStart
<1> HIDE DEF walk
<1>6. walk[0] = RerouteStart /\ \A k \in 1 .. n : walk[k] = RerouteOne(walk[k - 1], q[k])
    <2>1. \A k \in 0 .. n : walk[k] = IF k = 0 THEN RerouteStart ELSE RerouteOne(walk[k - 1], q[k])
        BY <1>4
    <2>2. 0 \in 0 .. n /\ \A k \in 1 .. n : k \in 0 .. n /\ k # 0
        OBVIOUS
    <2> HIDE DEF n, Grows, q
    <2> QED
        BY <2>1, <2>2
<1> QED
    BY <1>5, <1>6

=============================================================================
