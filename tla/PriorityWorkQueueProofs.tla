------------------------ MODULE PriorityWorkQueueProofs ------------------------
(***************************************************************************)
(* Proofs about PriorityWorkQueue, for any items, consumers and bound: the *)
(* count of unfinished items is exact, no wake-up is lost, and a join      *)
(* comes back to a queue that is worked off.                               *)
(***************************************************************************)
EXTENDS PriorityWorkQueue, FiniteSetTheorems, TLAPS

Places == {"idle", "waiting", "woken", "cancelled", "busy", "gone"}
ItemFates == {"new", "queued", "taken", "removed"}

\* Consumers on their way to the queue, or about to pass their wake-up on.
Coming(p) == At(p, "woken") \cup At(p, "cancelled")
QueuedIn(f) == {i \in Items : f[i] = "queued"}

\* WakeupsSuffice of a state given by its values.
Suffice(f, p) == At(p, "waiting") # {} => Cardinality(QueuedIn(f)) <= Cardinality(Coming(p))

-------------------------------------------------------------------------------
\* Cardinalities of the sets counted here.

LEMMA AtFinite ==
    ASSUME NEW p, NEW where
    PROVE  /\ IsFiniteSet(At(p, where))
           /\ Cardinality(At(p, where)) \in Nat
<1>1. At(p, where) \in SUBSET Consumers
    BY DEF At
<1>2. IsFiniteSet(At(p, where))
    BY <1>1, FS_Subset, WorkQueueAssumption
<1> QED
    BY <1>2, FS_CardinalityType

LEMMA ComingFinite ==
    ASSUME NEW p
    PROVE  /\ IsFiniteSet(Coming(p))
           /\ Cardinality(Coming(p)) \in Nat
<1>1. Coming(p) \in SUBSET Consumers
    BY DEF Coming, At
<1>2. IsFiniteSet(Coming(p))
    BY <1>1, FS_Subset, WorkQueueAssumption
<1> QED
    BY <1>2, FS_CardinalityType

LEMMA QueuedFinite ==
    ASSUME NEW f
    PROVE  /\ IsFiniteSet(QueuedIn(f))
           /\ Cardinality(QueuedIn(f)) \in Nat
<1>1. QueuedIn(f) \in SUBSET Items
    BY DEF QueuedIn
<1>2. IsFiniteSet(QueuedIn(f))
    BY <1>1, FS_Subset, WorkQueueAssumption
<1> QED
    BY <1>2, FS_CardinalityType

\* Waking leaves who works alone; whenever somebody slept, one more is coming.
LEMMA Waking ==
    ASSUME NEW p \in [Consumers -> Places], NEW q \in WakeNext(p)
    PROVE  /\ q \in [Consumers -> Places]
           /\ At(q, "busy") = At(p, "busy")
           /\ At(q, "waiting") # {} => At(p, "waiting") # {}
           /\ Cardinality(Coming(q)) >= Cardinality(Coming(p))
           /\ At(p, "waiting") # {} => Cardinality(Coming(q)) = Cardinality(Coming(p)) + 1
<1>1. CASE At(p, "waiting") = {}
    BY <1>1, ComingFinite DEF WakeNext
<1>2. CASE At(p, "waiting") # {}
    <2>1. PICK c \in At(p, "waiting") : q = [p EXCEPT ![c] = "woken"]
        BY <1>2 DEF WakeNext
    <2>2. c \in Consumers /\ p[c] = "waiting"
        BY <2>1 DEF At
    <2>3. q \in [Consumers -> Places]
        BY <2>1, <2>2 DEF Places
    <2>4. Coming(q) = Coming(p) \cup {c} /\ c \notin Coming(p)
        BY <2>1, <2>2 DEF Coming, At
    <2>5. Cardinality(Coming(q)) = Cardinality(Coming(p)) + 1
        BY <2>4, ComingFinite, FS_AddElement
    <2>6. At(q, "busy") = At(p, "busy")
        BY <2>1, <2>2 DEF At
    <2> QED
        BY <1>2, <2>3, <2>5, <2>6, ComingFinite
<1> QED
    BY <1>1, <1>2

-------------------------------------------------------------------------------
\* The inductive invariant: the wake-ups suffice, the count is exact, and what a join
\* waited for stays true because nothing is put any more.

Joined == joiner \in {"woken", "returned"} => unfinished = 0

IInv == TypeOK /\ UnfinishedExact /\ WakeupsSuffice /\ Joined

LEMMA InitIInv == Init => IInv
<1> SUFFICES ASSUME Init PROVE IInv
    OBVIOUS
<1>1. TypeOK
    BY DEF Init, TypeOK
<1>2. Queued = {} /\ At(pc, "busy") = {} /\ At(pc, "waiting") = {}
    BY DEF Init, Queued, At
<1>3. UnfinishedExact
    BY <1>2, FS_EmptySet DEF Init, UnfinishedExact
<1> QED
    BY <1>1, <1>2, <1>3 DEF IInv, WakeupsSuffice, Joined, Init

\* What IInv says, with the counts as numbers.
LEMMA Counts ==
    ASSUME IInv
    PROVE  /\ fate \in [Items -> ItemFates] /\ pc \in [Consumers -> Places]
           /\ unfinished = Cardinality(QueuedIn(fate)) + Cardinality(At(pc, "busy"))
           /\ finished <=> unfinished = 0
           /\ Suffice(fate, pc)
           /\ Cardinality(QueuedIn(fate)) \in Nat
           /\ Cardinality(At(pc, "busy")) \in Nat
           /\ unfinished \in Nat /\ finished \in BOOLEAN
           /\ joiner \in {"none", "waiting", "woken", "returned"}
           /\ Joined
BY QueuedFinite, AtFinite
   DEF IInv, TypeOK, UnfinishedExact, WakeupsSuffice, Suffice, Coming, Queued, QueuedIn, Places, ItemFates

\* How to show IInv of the next state.
LEMMA NextCounts ==
    ASSUME fate' \in [Items -> ItemFates], pc' \in [Consumers -> Places],
           unfinished' \in Nat, finished' \in BOOLEAN,
           joiner' \in {"none", "waiting", "woken", "returned"},
           unfinished' = Cardinality(QueuedIn(fate')) + Cardinality(At(pc', "busy")),
           finished' <=> unfinished' = 0,
           Suffice(fate', pc'),
           Joined'
    PROVE  IInv'
BY DEF IInv, TypeOK, UnfinishedExact, WakeupsSuffice, Suffice, Coming, Queued, QueuedIn, Places, ItemFates, At

-------------------------------------------------------------------------------
\* Each action preserves it.

LEMMA PutIInv ==
    ASSUME IInv, NEW i \in Items, Put(i)
    PROVE  IInv'
<1> USE Counts
<1>1. QueuedIn(fate') = QueuedIn(fate) \cup {i} /\ i \notin QueuedIn(fate)
    BY DEF Put, QueuedIn, ItemFates
<1>2. Cardinality(QueuedIn(fate')) = Cardinality(QueuedIn(fate)) + 1
    BY <1>1, QueuedFinite, FS_AddElement
<1>3. pc' \in WakeNext(pc)
    BY DEF Put
<1>4. At(pc', "busy") = At(pc, "busy") /\ pc' \in [Consumers -> Places]
    BY <1>3, Waking
<1>5. Suffice(fate', pc')
    BY <1>2, <1>3, Waking, ComingFinite DEF Suffice
<1>6. fate' \in [Items -> ItemFates] /\ joiner' = joiner /\ finished' = FALSE
      /\ unfinished' = unfinished + 1 /\ joiner = "none"
    BY DEF Put, ItemFates
<1>7. unfinished' = Cardinality(QueuedIn(fate')) + Cardinality(At(pc', "busy"))
    BY <1>2, <1>4, <1>6
<1>8. unfinished' \in Nat /\ unfinished' # 0
    BY <1>6
<1>9. finished' \in BOOLEAN /\ (finished' <=> unfinished' = 0)
    BY <1>6, <1>8
<1>10. Joined' /\ joiner' \in {"none", "waiting", "woken", "returned"}
    BY <1>6 DEF Joined
<1> QED
    BY <1>4, <1>5, <1>6, <1>7, <1>8, <1>9, <1>10, NextCounts

\* The event and the joiner follow the count, whatever lowers it.
LEMMA CountingIInv ==
    ASSUME IInv, NEW n \in Nat, Counting(n),
           fate' \in [Items -> ItemFates], pc' \in [Consumers -> Places],
           n = Cardinality(QueuedIn(fate')) + Cardinality(At(pc', "busy")),
           n <= unfinished,
           Suffice(fate', pc')
    PROVE  IInv'
<1>1. unfinished' = n
    BY DEF Counting
<1>2. finished' \in BOOLEAN /\ (finished' <=> unfinished' = 0)
    <2>1. finished' = IF n = 0 THEN TRUE ELSE finished
        BY DEF Counting
    <2>2. finished \in BOOLEAN /\ (finished <=> unfinished = 0) /\ unfinished \in Nat
        BY Counts
    <2>3. CASE n = 0
        BY <1>1, <2>1, <2>3
    <2>4. CASE n # 0
        <3>1. unfinished # 0
            BY <2>2, <2>4
        <3>2. finished' = finished
            BY <2>1, <2>4
        <3> QED
            BY <1>1, <2>2, <2>4, <3>1, <3>2
    <2> QED
        BY <2>3, <2>4
<1>3. joiner' = IF n = 0 /\ joiner = "waiting" THEN "woken" ELSE joiner
    BY DEF Counting
<1>4. joiner \in {"none", "waiting", "woken", "returned"} /\ Joined /\ unfinished \in Nat
    BY Counts
<1>5. joiner' \in {"none", "waiting", "woken", "returned"}
    BY <1>3, <1>4
<1>6. Joined'
    <2>1. CASE n = 0
        BY <1>1, <2>1 DEF Joined
    <2>2. CASE n # 0
        <3>1. unfinished # 0
            BY <1>4, <2>2
        <3>2. joiner' = joiner
            BY <1>3, <2>2
        <3> QED
            BY <1>4, <3>1, <3>2 DEF Joined
    <2> QED
        BY <2>1, <2>2
<1> QED
    BY <1>1, <1>2, <1>5, <1>6, NextCounts

LEMMA RemoveIInv ==
    ASSUME IInv, NEW S \in SUBSET Items, RemoveMatching(S)
    PROVE  IInv'
<1> USE Counts
<1>1. S \subseteq QueuedIn(fate)
    BY DEF RemoveMatching, Queued, QueuedIn
<1>2. QueuedIn(fate') = QueuedIn(fate) \ S
    BY <1>1 DEF RemoveMatching, QueuedIn
<1>3. QueuedIn(fate) \cap S = S
    BY <1>1
<1>4. Cardinality(QueuedIn(fate')) = Cardinality(QueuedIn(fate)) - Cardinality(S)
    <2>1. IsFiniteSet(QueuedIn(fate))
        BY QueuedFinite
    <2>2. Cardinality(QueuedIn(fate) \ S) = Cardinality(QueuedIn(fate)) - Cardinality(QueuedIn(fate) \cap S)
        BY <2>1, FS_Difference
    <2> QED
        BY <1>2, <1>3, <2>2
<1>5. IsFiniteSet(S) /\ Cardinality(S) \in Nat
    <2>1. IsFiniteSet(QueuedIn(fate)) /\ S \in SUBSET QueuedIn(fate)
        BY <1>1, QueuedFinite
    <2>2. IsFiniteSet(S)
        BY <2>1, FS_Subset
    <2> QED
        BY <2>2, FS_CardinalityType
<1>6. Cardinality(QueuedIn(fate')) \in Nat
    BY QueuedFinite
<1>7. /\ pc' \in [Consumers -> Places]
      /\ At(pc', "busy") = At(pc, "busy")
      /\ At(pc', "waiting") # {} => At(pc, "waiting") # {}
      /\ Cardinality(Coming(pc')) >= Cardinality(Coming(pc))
    <2>1. CASE pc' = pc
        BY <2>1, ComingFinite
    <2>2. CASE pc' \in WakeNext(pc)
        BY <2>2, Waking
    <2> QED
        BY <2>1, <2>2 DEF RemoveMatching
<1>8. Suffice(fate', pc')
    BY <1>4, <1>5, <1>6, <1>7, ComingFinite DEF Suffice
<1>9. fate' \in [Items -> ItemFates]
    BY DEF RemoveMatching, ItemFates
<1>10. Counting(unfinished - Cardinality(S))
    BY DEF RemoveMatching, Removed
<1>11. /\ unfinished - Cardinality(S) = Cardinality(QueuedIn(fate')) + Cardinality(At(pc', "busy"))
       /\ unfinished - Cardinality(S) \in Nat
       /\ unfinished - Cardinality(S) <= unfinished
    BY <1>4, <1>5, <1>6, <1>7
<1> QED
    BY <1>7, <1>8, <1>9, <1>10, <1>11, CountingIInv

\* A look at the queue moves an item to the consumer, or finds nothing.
LEMMA LookIInv ==
    ASSUME IInv, NEW c \in Consumers, pc[c] \in {"idle", "woken"}, Look(c),
           UNCHANGED <<unfinished, finished, joiner>>
    PROVE  IInv'
<1> USE Counts
<1>1. CASE /\ \E i \in Items : Best(i) /\ fate' = [fate EXCEPT ![i] = "taken"]
           /\ pc' = [pc EXCEPT ![c] = "busy"]
    <2>1. PICK i \in Items : Best(i) /\ fate' = [fate EXCEPT ![i] = "taken"]
        BY <1>1
    <2>2. i \in QueuedIn(fate) /\ QueuedIn(fate') = QueuedIn(fate) \ {i}
        BY <2>1 DEF Best, Queued, QueuedIn, ItemFates
    <2>3. Cardinality(QueuedIn(fate')) = Cardinality(QueuedIn(fate)) - 1
        BY <2>2, QueuedFinite, FS_RemoveElement
    <2>4. /\ pc' \in [Consumers -> Places]
          /\ At(pc', "busy") = At(pc, "busy") \cup {c}
          /\ At(pc', "waiting") = At(pc, "waiting") \ {c}
          /\ Coming(pc') = Coming(pc) \ {c}
        BY <1>1 DEF At, Coming, Places
    <2>5. c \notin At(pc, "busy")
        BY DEF At
    <2>6. Cardinality(At(pc', "busy")) = Cardinality(At(pc, "busy")) + 1
        BY <2>4, <2>5, AtFinite, FS_AddElement
    <2>7. Cardinality(Coming(pc')) >= Cardinality(Coming(pc)) - 1
        <3>1. IsFiniteSet(Coming(pc)) /\ Cardinality(Coming(pc)) \in Nat
            BY ComingFinite
        <3>2. Cardinality(Coming(pc) \ {c}) =
                IF c \in Coming(pc) THEN Cardinality(Coming(pc)) - 1 ELSE Cardinality(Coming(pc))
            BY <3>1, FS_RemoveElement
        <3> QED
            BY <2>4, <3>1, <3>2
    <2>8. Suffice(fate', pc')
        <3>1. At(pc', "waiting") # {} => At(pc, "waiting") # {}
            BY <2>4
        <3>2. Cardinality(Coming(pc)) \in Nat /\ Cardinality(Coming(pc')) \in Nat
            BY ComingFinite
        <3> QED
            BY <2>3, <2>7, <3>1, <3>2 DEF Suffice
    <2>9. fate' \in [Items -> ItemFates]
        BY <2>1 DEF ItemFates
    <2>10. Joined'
        BY DEF Joined
    <2> QED
        BY <2>3, <2>4, <2>6, <2>8, <2>9, <2>10, NextCounts
<1>2. CASE Queued = {} /\ pc' = [pc EXCEPT ![c] = "waiting"] /\ UNCHANGED fate
    <2>1. QueuedIn(fate') = {} /\ Cardinality(QueuedIn(fate')) = 0
        BY <1>2, FS_EmptySet DEF Queued, QueuedIn
    <2>2. Suffice(fate', pc')
        BY <2>1, ComingFinite DEF Suffice
    <2>3. pc' \in [Consumers -> Places] /\ At(pc', "busy") = At(pc, "busy") \ {c}
        BY <1>2 DEF At, Places
    <2>4. At(pc', "busy") = At(pc, "busy")
        BY <2>3 DEF At
    <2>5. Joined'
        BY DEF Joined
    <2> QED
        BY <1>2, <2>2, <2>3, <2>4, <2>5, NextCounts
<1> QED
    BY <1>1, <1>2 DEF Look

LEMMA CancelIInv ==
    ASSUME IInv, NEW c \in Consumers, Cancel(c)
    PROVE  IInv'
<1> USE Counts
<1>1. /\ pc' = [pc EXCEPT ![c] = "cancelled"]
      /\ pc[c] \in {"waiting", "woken"}
      /\ UNCHANGED <<fate, unfinished, finished, joiner>>
    BY DEF Cancel
<1>2. /\ pc' \in [Consumers -> Places]
      /\ At(pc', "busy") = At(pc, "busy") \ {c}
      /\ At(pc', "waiting") = At(pc, "waiting") \ {c}
      /\ Coming(pc') = Coming(pc) \cup {c}
    BY <1>1 DEF At, Coming, Places
<1>3. At(pc', "busy") = At(pc, "busy")
    BY <1>1, <1>2 DEF At
<1>4. Cardinality(Coming(pc')) >= Cardinality(Coming(pc))
    <2>1. IsFiniteSet(Coming(pc)) /\ Cardinality(Coming(pc)) \in Nat
        BY ComingFinite
    <2>2. Cardinality(Coming(pc) \cup {c}) =
            IF c \in Coming(pc) THEN Cardinality(Coming(pc)) ELSE Cardinality(Coming(pc)) + 1
        BY <2>1, FS_AddElement
    <2> QED
        BY <1>2, <2>1, <2>2
<1>5. Suffice(fate', pc')
    <2>1. At(pc', "waiting") # {} => At(pc, "waiting") # {}
        BY <1>2
    <2>2. Cardinality(Coming(pc)) \in Nat /\ Cardinality(Coming(pc')) \in Nat
        BY ComingFinite
    <2>3. fate' = fate /\ Suffice(fate, pc)
        BY <1>1
    <2>4. Cardinality(QueuedIn(fate)) \in Nat
        BY QueuedFinite
    <2> QED
        BY <1>4, <2>1, <2>2, <2>3, <2>4 DEF Suffice
<1>6. Joined'
    BY <1>1 DEF Joined
<1> QED
    BY <1>1, <1>2, <1>3, <1>5, <1>6, NextCounts

LEMMA UnwindIInv ==
    ASSUME IInv, NEW c \in Consumers, Unwind(c)
    PROVE  IInv'
<1> USE Counts
<1> DEFINE left == [pc EXCEPT ![c] = "gone"]
<1>1. pc[c] = "cancelled" /\ UNCHANGED <<fate, unfinished, finished, joiner>>
    BY DEF Unwind
<1>2. /\ left \in [Consumers -> Places]
      /\ At(left, "busy") = At(pc, "busy") \ {c}
      /\ At(left, "waiting") = At(pc, "waiting") \ {c}
      /\ Coming(left) = Coming(pc) \ {c}
    BY DEF At, Coming, Places
<1>3. At(left, "busy") = At(pc, "busy") /\ At(left, "waiting") = At(pc, "waiting")
    BY <1>1, <1>2 DEF At
<1>4. Cardinality(Coming(left)) = Cardinality(Coming(pc)) - 1
    <2>1. c \in Coming(pc)
        BY <1>1 DEF Coming, At
    <2> QED
        BY <1>2, <2>1, ComingFinite, FS_RemoveElement
<1>5. Joined'
    BY <1>1 DEF Joined
<1> HIDE DEF left
<1>6. CASE Queued = {} /\ pc' = left
    <2>1. Cardinality(QueuedIn(fate')) = 0
        BY <1>1, <1>6, FS_EmptySet DEF Queued, QueuedIn
    <2>2. Suffice(fate', pc')
        BY <2>1, ComingFinite DEF Suffice
    <2> QED
        BY <1>1, <1>2, <1>3, <1>5, <1>6, <2>2, NextCounts
<1>7. CASE pc' \in WakeNext(left)
    <2>1. /\ pc' \in [Consumers -> Places]
          /\ At(pc', "busy") = At(pc, "busy")
          /\ At(pc', "waiting") # {} => At(pc, "waiting") # {}
          /\ At(pc, "waiting") # {} => Cardinality(Coming(pc')) = Cardinality(Coming(left)) + 1
        BY <1>2, <1>3, <1>7, Waking
    <2>2. Suffice(fate', pc')
        BY <1>1, <1>4, <2>1, ComingFinite DEF Suffice
    <2> QED
        BY <1>1, <1>5, <2>1, <2>2, NextCounts
<1> QED
    BY <1>6, <1>7 DEF Unwind, left

LEMMA TaskDoneIInv ==
    ASSUME IInv, NEW c \in Consumers, TaskDone(c)
    PROVE  IInv'
<1> USE Counts
<1>1. PICK next \in {"idle", "gone"} : pc' = [pc EXCEPT ![c] = next]
    BY DEF TaskDone
<1>2. pc[c] = "busy" /\ Counting(unfinished - 1) /\ fate' = fate
    BY DEF TaskDone
<1>3. /\ pc' \in [Consumers -> Places]
      /\ At(pc', "busy") = At(pc, "busy") \ {c}
      /\ At(pc', "waiting") = At(pc, "waiting") \ {c}
      /\ Coming(pc') = Coming(pc) \ {c}
    BY <1>1 DEF At, Coming, Places
<1>4. c \in At(pc, "busy") /\ Coming(pc') = Coming(pc)
    BY <1>2, <1>3 DEF At, Coming
<1>5. Cardinality(At(pc', "busy")) = Cardinality(At(pc, "busy")) - 1
    BY <1>3, <1>4, AtFinite, FS_RemoveElement
<1>6. Cardinality(At(pc', "busy")) \in Nat
    BY AtFinite
<1>7. Suffice(fate', pc')
    BY <1>2, <1>3, <1>4 DEF Suffice
<1>8. /\ unfinished - 1 \in Nat /\ unfinished - 1 <= unfinished
      /\ unfinished - 1 = Cardinality(QueuedIn(fate')) + Cardinality(At(pc', "busy"))
    BY <1>2, <1>5, <1>6
<1> QED
    BY <1>2, <1>3, <1>7, <1>8, CountingIInv

LEMMA RespawnIInv ==
    ASSUME IInv, NEW c \in Consumers, Respawn(c)
    PROVE  IInv'
<1> USE Counts
<1>1. /\ pc' = [pc EXCEPT ![c] = "idle"] /\ pc[c] = "gone"
      /\ UNCHANGED <<fate, unfinished, finished, joiner>>
    BY DEF Respawn
<1>2. /\ pc' \in [Consumers -> Places]
      /\ At(pc', "busy") = At(pc, "busy") \ {c}
      /\ At(pc', "waiting") = At(pc, "waiting") \ {c}
      /\ Coming(pc') = Coming(pc) \ {c}
    BY <1>1 DEF At, Coming, Places
<1>3. At(pc', "busy") = At(pc, "busy") /\ Coming(pc') = Coming(pc)
    BY <1>1, <1>2 DEF At, Coming
<1>4. Suffice(fate', pc')
    BY <1>1, <1>2, <1>3 DEF Suffice
<1>5. Joined'
    BY <1>1 DEF Joined
<1> QED
    BY <1>1, <1>2, <1>3, <1>4, <1>5, NextCounts

LEMMA JoinIInv ==
    ASSUME IInv, Join \/ JoinResumes
    PROVE  IInv'
<1> USE Counts
<1>1. UNCHANGED <<fate, pc, unfinished, finished>>
    BY DEF Join, JoinResumes
<1>2. joiner' \in {"waiting", "returned"} /\ Joined'
    <2>1. CASE Join
        BY <2>1 DEF Join, Joined
    <2>2. CASE JoinResumes
        BY <2>2 DEF JoinResumes, Joined
    <2> QED
        BY <2>1, <2>2
<1> QED
    BY <1>1, <1>2, NextCounts

LEMMA NextIInv == IInv /\ [Next]_vars => IInv'
<1> SUFFICES ASSUME IInv, [Next]_vars PROVE IInv'
    OBVIOUS
<1>1. CASE \E i \in Items : Put(i)
    BY <1>1, PutIInv
<1>2. CASE \E S \in SUBSET Items : RemoveMatching(S)
    BY <1>2, RemoveIInv
<1>3. ASSUME NEW c \in Consumers, Get(c) PROVE IInv'
    BY <1>3, LookIInv DEF Get
<1>4. ASSUME NEW c \in Consumers, Resume(c) PROVE IInv'
    BY <1>4, LookIInv DEF Resume
<1>5. CASE \E c \in Consumers : Unwind(c)
    BY <1>5, UnwindIInv
<1>6. CASE \E c \in Consumers : TaskDone(c)
    BY <1>6, TaskDoneIInv
<1>7. CASE \E c \in Consumers : Cancel(c)
    BY <1>7, CancelIInv
<1>8. CASE \E c \in Consumers : Respawn(c)
    BY <1>8, RespawnIInv
<1>9. CASE Join \/ JoinResumes
    BY <1>9, JoinIInv
<1>10. CASE UNCHANGED vars
    BY <1>10 DEF vars, IInv, TypeOK, UnfinishedExact, WakeupsSuffice, Joined, Queued, At
<1> QED
    BY <1>1, <1>2, <1>3, <1>4, <1>5, <1>6, <1>7, <1>8, <1>9, <1>10 DEF Next, Consumer

-------------------------------------------------------------------------------
LEMMA Inductive == Spec => []IInv
BY InitIInv, NextIInv, PTL DEF Spec

\* The queue keeps its shape, and task_done or remove_matching never make the count
\* negative (the code raises ValueError then).
THEOREM TypeCorrect == Spec => []TypeOK
<1>1. IInv => TypeOK
    BY DEF IInv
<1> QED
    BY Inductive, <1>1, PTL

\* No wake-up is lost, however puts, removals and cancellations interleave.
THEOREM WakeupsSufficeCorrect == Spec => []WakeupsSuffice
<1>1. IInv => WakeupsSuffice
    BY DEF IInv
<1> QED
    BY Inductive, <1>1, PTL

\* The count of unfinished items, and the event behind join, are exact.
THEOREM UnfinishedExactCorrect == Spec => []UnfinishedExact
<1>1. IInv => UnfinishedExact
    BY DEF IInv
<1> QED
    BY Inductive, <1>1, PTL

\* A join comes back to a queue that is empty and worked off.
THEOREM JoinMeansDoneCorrect == Spec => []JoinMeansDone
<1>1. ASSUME IInv PROVE JoinMeansDone
    <2> SUFFICES ASSUME joiner = "returned" PROVE Queued = {} /\ At(pc, "busy") = {}
        BY DEF JoinMeansDone
    <2>1. Cardinality(QueuedIn(fate)) = 0 /\ Cardinality(At(pc, "busy")) = 0
        BY <1>1, Counts DEF Joined
    <2>2. QueuedIn(fate) = {} /\ At(pc, "busy") = {}
        BY <2>1, FS_EmptySet, QueuedFinite, AtFinite
    <2> QED
        BY <2>2 DEF Queued, QueuedIn
<1> QED
    BY Inductive, <1>1, PTL
===============================================================================
