--------------------- MODULE UpstreamAdministrationProofs ---------------------
(***************************************************************************)
(* The copies of the set of upstreams agree, for any upstreams, users,     *)
(* groups and bounds: table and runtime, whitelists and table, connection  *)
(* tests and the slots that keep them apart.                               *)
(***************************************************************************)
EXTENDS UpstreamAdministration, FiniteSetTheorems, TLAPS

Row == [key : Keys, on : BOOLEAN, owner : Users \cup {NoOwner}]

Shape ==
    /\ table \in [DOMAIN table -> Row] /\ DOMAIN table \subseteq Ids
    /\ refs \in [Holders -> SUBSET Ids]
    /\ tests \in [Ids -> Nat] /\ inFlight \subseteq Ids

IInv == Shape /\ TargetsAgree /\ ReferencesResolve /\ ProbeSlots

-------------------------------------------------------------------------------
\* One row is written or dropped.

LEMMA PutKeepsShape ==
    ASSUME Shape, NEW id \in Ids, NEW row \in Row, Put(id, row)
    PROVE  /\ table' \in [DOMAIN table' -> Row] /\ DOMAIN table' \subseteq Ids
           /\ DOMAIN table' = DOMAIN table \cup {id} /\ table'[id] = row
           /\ \A x \in DOMAIN table : x # id => table'[x] = table[x]
<1>1. table' = [y \in DOMAIN table \cup {id} |-> IF y = id THEN row ELSE table[y]]
    BY DEF Put, With
<1>2. \A y \in DOMAIN table : table[y] \in Row
    BY DEF Shape
<1>3. DOMAIN table \subseteq Ids
    BY DEF Shape
<1> QED
    BY <1>1, <1>2, <1>3

LEMMA DropKeepsShape ==
    ASSUME Shape, NEW id \in Ids, Drop(id)
    PROVE  /\ table' \in [DOMAIN table' -> Row] /\ DOMAIN table' \subseteq Ids
           /\ DOMAIN table' = DOMAIN table \ {id}
           /\ \A x \in DOMAIN table : x # id => table'[x] = table[x]
<1>1. table' = [y \in DOMAIN table \ {id} |-> table[y]]
    BY DEF Drop, Without
<1>2. \A y \in DOMAIN table : table[y] \in Row
    BY DEF Shape
<1>3. DOMAIN table \subseteq Ids
    BY DEF Shape
<1> QED
    BY <1>1, <1>2, <1>3

\* Whatever was done to one row, reloading its upstream makes table and runtime agree again.
LEMMA ReloadAgrees ==
    ASSUME TargetsAgree, NEW id \in Ids, Reload(id),
           \A x \in Ids : x # id =>
                /\ x \in DOMAIN table' <=> x \in DOMAIN table
                /\ x \in DOMAIN table => table'[x] = table[x]
    PROVE  TargetsAgree'
<1> SUFFICES ASSUME NEW x \in Ids, x \notin stale'
             PROVE  /\ x \in DOMAIN clients' <=> (x \in DOMAIN table' /\ table'[x].on)
                    /\ x \in DOMAIN clients' => clients'[x] = table'[x].key
    BY DEF TargetsAgree
<1>1. clients' = IF id \in DOMAIN table' /\ table'[id].on THEN With(clients, id, table'[id].key)
                 ELSE Without(clients, id)
    BY DEF Reload, Reloaded
<1>2. CASE x = id
  <2>1. CASE id \in DOMAIN table' /\ table'[id].on
      BY <1>1, <1>2, <2>1 DEF With
  <2>2. CASE ~(id \in DOMAIN table' /\ table'[id].on)
    <3>1. id \notin DOMAIN clients'
        BY <1>1, <2>2 DEF Without
    <3> QED
        BY <1>2, <2>2, <3>1
  <2> QED
      BY <2>1, <2>2
<1>3. CASE x # id
  <2>1. /\ x \in DOMAIN clients <=> (x \in DOMAIN table /\ table[x].on)
        /\ x \in DOMAIN clients => clients[x] = table[x].key
      BY <1>3 DEF Reload, TargetsAgree
  <2>2. /\ x \in DOMAIN clients' <=> x \in DOMAIN clients
        /\ x \in DOMAIN clients => clients'[x] = clients[x]
    <3>1. CASE id \in DOMAIN table' /\ table'[id].on
        BY <1>1, <1>3, <3>1 DEF With
    <3>2. CASE ~(id \in DOMAIN table' /\ table'[id].on)
        BY <1>1, <1>3, <3>2 DEF Without
    <3> QED
        BY <3>1, <3>2
  <2> QED
      BY <1>3, <2>1, <2>2
<1> QED
    BY <1>2, <1>3

\* A row is written and its upstream reloaded.
LEMMA PutKeeps ==
    ASSUME IInv, NEW id \in Ids, NEW row \in Row, Put(id, row), Reload(id), UNCHANGED <<refs, deleted, tests, inFlight>>
    PROVE  IInv'
<1>1. Shape
    BY DEF IInv
<1>2. Shape'
    BY <1>1, PutKeepsShape DEF Shape
<1>3. TargetsAgree'
    BY <1>1, PutKeepsShape, ReloadAgrees DEF IInv
<1>4. ReferencesResolve'
    BY <1>1, PutKeepsShape DEF IInv, ReferencesResolve
<1> QED
    BY <1>2, <1>3, <1>4 DEF IInv, ProbeSlots

\* A row no whitelist names is dropped and its upstream reloaded.
LEMMA DropKeeps ==
    ASSUME IInv, NEW id \in Ids, Referrers(id) = {}, Drop(id), Reload(id), UNCHANGED <<refs, deleted, tests, inFlight>>
    PROVE  IInv'
<1>1. Shape
    BY DEF IInv
<1>2. Shape'
    BY <1>1, DropKeepsShape DEF Shape
<1>3. TargetsAgree'
    BY <1>1, DropKeepsShape, ReloadAgrees DEF IInv
<1>4. \A h \in Holders : h \notin deleted => id \notin refs[h]
    BY DEF Referrers
<1>5. ReferencesResolve'
    BY <1>1, <1>4, DropKeepsShape DEF IInv, ReferencesResolve
<1> QED
    BY <1>2, <1>3, <1>5 DEF IInv, ProbeSlots

-------------------------------------------------------------------------------
LEMMA InitKeeps == Init => IInv
BY DEF Init, IInv, Shape, TargetsAgree, ReferencesResolve, ProbeSlots

LEMMA CreateKeeps ==
    ASSUME IInv, NEW id \in Ids, NEW key \in Keys, NEW on \in BOOLEAN, NEW owner \in Users \cup {NoOwner},
           Put(id, [key |-> key, on |-> on, owner |-> owner]), Reload(id),
           UNCHANGED <<people, traffic>>
    PROVE  IInv'
<1>1. [key |-> key, on |-> on, owner |-> owner] \in Row
    BY DEF Row
<1> QED
    BY <1>1, PutKeeps DEF people, traffic

LEMMA PatchKeeps ==
    ASSUME IInv, NEW id \in DOMAIN table, NEW key \in Keys, NEW on \in BOOLEAN,
           Put(id, [table[id] EXCEPT !.key = key, !.on = on]), Reload(id),
           UNCHANGED <<people, tests, inFlight>>
    PROVE  IInv'
<1>1. id \in Ids /\ [table[id] EXCEPT !.key = key, !.on = on] \in Row
    BY DEF IInv, Shape, Row
<1> QED
    BY <1>1, PutKeeps DEF people

\* A patch whose notice could not be written: the upstream is noted as stale.
LEMMA CutPatchKeeps ==
    ASSUME IInv, NEW id \in DOMAIN table, NEW key \in Keys, NEW on \in BOOLEAN,
           Put(id, [table[id] EXCEPT !.key = key, !.on = on]),
           stale' = stale \cup {id}, UNCHANGED <<people, traffic, clients>>
    PROVE  IInv'
<1>1. id \in Ids /\ [table[id] EXCEPT !.key = key, !.on = on] \in Row /\ Shape
    BY DEF IInv, Shape, Row
<1>2. Shape'
    BY <1>1, PutKeepsShape DEF Shape, people, traffic
<1>3. TargetsAgree'
    BY <1>1, PutKeepsShape, ZenonT(60) DEF IInv, TargetsAgree
<1>4. ReferencesResolve'
    BY <1>1, PutKeepsShape DEF IInv, ReferencesResolve, people
<1> QED
    BY <1>2, <1>3, <1>4 DEF IInv, ProbeSlots, traffic

\* Actions that leave rows and runtime alone.
LEMMA TestsKeep ==
    ASSUME IInv, UNCHANGED <<table, clients, refs, deleted, stale>>,
           tests' \in [Ids -> Nat], inFlight' \subseteq Ids, ProbeSlots'
    PROVE  IInv'
BY DEF IInv, Shape, TargetsAgree, ReferencesResolve

LEMMA StartProbeKeeps ==
    ASSUME IInv, NEW id \in Ids, StartProbe(id)
    PROVE  IInv'
<1>1. tests \in [Ids -> Nat] /\ inFlight \subseteq Ids
    BY DEF IInv, Shape
<1>2. tests[id] = 0
    BY <1>1 DEF IInv, ProbeSlots, StartProbe
<1>3. tests' = [tests EXCEPT ![id] = 1] /\ inFlight' = inFlight \cup {id}
    BY <1>1, <1>2 DEF StartProbe
<1>4. ProbeSlots'
    BY <1>1, <1>3 DEF IInv, ProbeSlots
<1> QED
    BY <1>1, <1>3, <1>4, TestsKeep DEF StartProbe, people

LEMMA EndProbeKeeps ==
    ASSUME IInv, NEW id \in Ids, EndProbe(id)
    PROVE  IInv'
<1>1. tests \in [Ids -> Nat] /\ inFlight \subseteq Ids
    BY DEF IInv, Shape
<1>2. tests[id] = 1
    BY <1>1 DEF IInv, ProbeSlots, EndProbe
<1>3. tests' = [tests EXCEPT ![id] = 0] /\ inFlight' = inFlight \ {id}
    BY <1>1, <1>2 DEF EndProbe, Released
<1>4. ProbeSlots'
    BY <1>1, <1>3 DEF IInv, ProbeSlots
<1> QED
    BY <1>1, <1>3, <1>4, TestsKeep DEF EndProbe, people

LEMMA RestartKeeps ==
    ASSUME IInv, Restart
    PROVE  IInv'
<1>1. Shape'
    BY DEF IInv, Shape, Restart
<1>2. TargetsAgree' /\ ProbeSlots'
    BY DEF Restart, TargetsAgree, ProbeSlots
<1>3. ReferencesResolve'
    BY DEF IInv, ReferencesResolve, Restart
<1> QED
    BY <1>1, <1>2, <1>3 DEF IInv

LEMMA AllowKeeps ==
    ASSUME IInv, NEW h \in Holders, NEW ids \in SUBSET DOMAIN table, Allow(h, ids)
    PROVE  IInv'
<1>1. Shape'
    BY DEF IInv, Shape, Allow, traffic
<1>2. TargetsAgree' /\ ProbeSlots'
    BY DEF IInv, TargetsAgree, ProbeSlots, Allow, traffic
<1>3. ReferencesResolve'
    BY DEF IInv, Shape, ReferencesResolve, Allow
<1> QED
    BY <1>1, <1>2, <1>3 DEF IInv

LEMMA DeleteUserKeeps ==
    ASSUME IInv, NEW u \in Users, DeleteUser(u)
    PROVE  IInv'
<1>1. Shape' /\ TargetsAgree' /\ ProbeSlots'
    BY DEF IInv, Shape, TargetsAgree, ProbeSlots, DeleteUser, traffic
<1>2. ReferencesResolve'
    BY DEF IInv, ReferencesResolve, DeleteUser
<1> QED
    BY <1>1, <1>2 DEF IInv

\* The owner's patch and deletion, whole or cut short.
LEMMA UpdateOwnedKeeps ==
    ASSUME IInv, NEW u \in Users, NEW id \in Ids, NEW key \in Keys, NEW on \in BOOLEAN, UpdateOwned(u, id, key, on)
    PROVE  IInv'
<1>1. id \in DOMAIN table /\ Put(id, [table[id] EXCEPT !.key = key, !.on = on])
    BY DEF UpdateOwned, OwnedBy
<1>2. CASE Reload(id)
    BY <1>1, <1>2, PatchKeeps DEF UpdateOwned, traffic
<1>3. CASE stale' = stale \cup {id} /\ UNCHANGED clients
    BY <1>1, <1>3, CutPatchKeeps DEF UpdateOwned
<1> QED
    BY <1>2, <1>3 DEF UpdateOwned

LEMMA DeleteOwnedKeeps ==
    ASSUME IInv, NEW u \in Users, NEW id \in Ids, DeleteOwned(u, id)
    PROVE  IInv'
<1>1. CASE Referrers(id) = {}
    BY <1>1, DropKeeps DEF DeleteOwned, people, traffic
<1>2. CASE Referrers(id) # {}
    BY <1>2, TestsKeep DEF DeleteOwned, people, traffic, IInv, Shape, ProbeSlots
<1> QED
    BY <1>1, <1>2

LEMMA LandWithErrorKeeps ==
    ASSUME IInv, NEW id \in Ids, LandWithError(id)
    PROVE  IInv'
<1>1. CASE UNCHANGED <<table, clients, stale>>
    BY <1>1, TestsKeep DEF LandWithError, people, IInv, Shape, ProbeSlots
<1>2. CASE Disables(id) /\ Put(id, [table[id] EXCEPT !.on = FALSE]) /\ Reload(id)
  <2>1. id \in DOMAIN table /\ table[id] \in Row
      BY <1>2 DEF Disables, IInv, Shape
  <2>2. [table[id] EXCEPT !.on = FALSE] \in Row
      BY <2>1 DEF Row
  <2> QED
      BY <1>2, <2>2, PutKeeps DEF LandWithError, people
<1> QED
    BY <1>1, <1>2 DEF LandWithError

LEMMA StepKeeps == IInv /\ [Next]_vars => IInv'
<1> SUFFICES ASSUME IInv, [Next]_vars PROVE IInv'
    OBVIOUS
<1>1. ASSUME NEW id \in Ids, NEW key \in Keys, NEW on \in BOOLEAN, Create(id, key, on)
      PROVE  IInv'
    BY <1>1, CreateKeeps DEF Create
<1>2. ASSUME NEW id \in Ids, NEW key \in Keys, NEW on \in BOOLEAN, Update(id, key, on)
      PROVE  IInv'
    BY <1>2, PatchKeeps DEF Update, traffic
<1>3. ASSUME NEW id \in Ids, Delete(id)
      PROVE  IInv'
    BY <1>3, DropKeeps DEF Delete, people, traffic
<1>4. ASSUME NEW id \in Ids, Send(id) \/ Land(id) \/ \E kind \in Kinds : Dismiss(kind, id)
      PROVE  IInv'
    BY <1>4, TestsKeep DEF Send, Land, Dismiss, people, traffic, IInv, Shape, ProbeSlots
<1>5. ASSUME NEW id \in Ids, LandWithError(id) \/ StartProbe(id) \/ EndProbe(id)
      PROVE  IInv'
    BY <1>5, LandWithErrorKeeps, StartProbeKeeps, EndProbeKeeps
<1>6. ASSUME NEW h \in Holders, NEW ids \in SUBSET DOMAIN table, Allow(h, ids)
      PROVE  IInv'
    BY <1>6, AllowKeeps
<1>7. ASSUME NEW u \in Users, DeleteUser(u) \/ \E id \in Ids : DeleteOwned(u, id)
      PROVE  IInv'
    BY <1>7, DeleteUserKeeps, DeleteOwnedKeeps
<1>8. ASSUME NEW u \in Users, NEW id \in Ids, NEW key \in Keys, NEW on \in BOOLEAN, CreateOwned(u, id, key, on)
      PROVE  IInv'
    BY <1>8, CreateKeeps DEF CreateOwned
<1>9. ASSUME NEW u \in Users, NEW id \in Ids, NEW key \in Keys, NEW on \in BOOLEAN, UpdateOwned(u, id, key, on)
      PROVE  IInv'
    BY <1>9, UpdateOwnedKeeps
<1>10. ASSUME NEW u \in Users, NEW key \in Keys, NEW on \in BOOLEAN, CreateNumbered(u, key, on)
       PROVE  IInv'
    BY <1>8, <1>10 DEF CreateNumbered, NumbersFree, Ids
<1>11. CASE Restart
    BY <1>11, RestartKeeps
<1>12. CASE UNCHANGED vars
    BY <1>12, TestsKeep DEF vars, IInv, Shape, ProbeSlots
<1>13. \A u \in Users : OwnIds(u) \subseteq Ids
    BY DEF OwnIds, Ids
<1> QED
    BY <1>1, <1>2, <1>3, <1>4, <1>5, <1>6, <1>7, <1>8, <1>9, <1>10, <1>11, <1>12, <1>13 DEF Next

LEMMA Invariant == Spec => []IInv
BY InitKeeps, StepKeeps, PTL DEF Spec

\* The upstreams in service are the enabled rows with their current keys, whoever creates,
\* patches, switches off or deletes upstreams, whatever fails and however often the process
\* starts anew (upstreams.py reload_upstream and sync, upstream_auto_disable.py).
THEOREM CopiesAgree == Spec => []TargetsAgree
<1>1. IInv => TargetsAgree
    BY DEF IInv
<1> QED
    BY <1>1, Invariant, PTL

\* No whitelist in force names a missing upstream (upstreams.py delete and
\* find_allowed_upstream_references, self_service/upstreams.py).
THEOREM WhitelistsResolve == Spec => []ReferencesResolve
<1>1. IInv => ReferencesResolve
    BY DEF IInv
<1> QED
    BY <1>1, Invariant, PTL

\* Connection tests outside the queue exclude each other per upstream, and the slot is free
\* when the test is over, given up or lost in a restart (admin/upstream_probe.py run).
THEOREM ProbesExclude == Spec => []ProbeSlots
<1>1. IInv => ProbeSlots
    BY DEF IInv
<1> QED
    BY <1>1, Invariant, PTL

-------------------------------------------------------------------------------
\* The limits: what an owner has, and how often administrators are told.

\* Rows are few, and of each owner no more than may be uploaded.
Owned ==
    /\ IsFiniteSet(DOMAIN table)
    /\ \A u \in Users : Cardinality(OwnedBy(u)) <= MaxPerUser

Served == DOMAIN clients \subseteq Ids /\ \A id \in DOMAIN clients : clients[id] \in Keys

\* The notices of an owner's actions are not repeated while they are open.
Told ==
    /\ open \in [Kinds -> [Ids -> 0..MaxOpen]]
    /\ IsFiniteSet(Notices)
    /\ \A kind \in {"disable", "delete"}, id \in Ids : open[kind][id] <= 1

Bounds ==
    /\ deleted \subseteq Users /\ flights \subseteq Ids /\ stale \subseteq Ids
    /\ tests \in [Ids -> 0..MaxTests] /\ faults \in 0..MaxFaults

Limits == Owned /\ Served /\ Told /\ Bounds

\* What a step may do to the table: nothing, drop a row, write one that takes nobody's share,
\* or give one to an owner who has a share left.
TableStep ==
    \/ UNCHANGED table
    \/ \E id \in Ids : Drop(id)
    \/ \E id \in Ids : \E row \in Row :
        /\ Put(id, row)
        /\ \/ row.owner = NoOwner
           \/ id \in DOMAIN table /\ row.owner = table[id].owner
           \/ \E u \in Users : row.owner = u /\ MayCreate(u)

ClientStep ==
    \/ UNCHANGED <<clients, stale>>
    \/ \E id \in Ids : Reload(id)
    \/ \E id \in Ids : UNCHANGED clients /\ stale' = stale \cup {id}
    \/ clients' = [id \in {x \in DOMAIN table : table[x].on} |-> table[id].key] /\ stale' = {} /\ UNCHANGED table

SwitchedOff(id) ==
    /\ id \in DOMAIN table /\ table[id].on
    /\ id \in DOMAIN table' /\ ~table'[id].on /\ id \notin DOMAIN clients'

NoticeStep ==
    \/ UNCHANGED open
    \/ \E kind \in Kinds, id \in Ids : open[kind][id] > 0 /\ open' = [open EXCEPT ![kind][id] = @ - 1]
    \/ \E id \in Ids : Open("auto", id) /\ SwitchedOff(id)
    \/ \E kind \in Kinds \ {"auto"}, id \in Ids : Open(kind, id) /\ open[kind][id] = 0

LEMMA TableStepKeeps ==
    ASSUME IInv, Owned, TableStep
    PROVE  Owned'
<1>1. Shape /\ IsFiniteSet(DOMAIN table)
    BY DEF IInv, Owned
<1>2. CASE UNCHANGED table
    BY <1>2 DEF Owned, OwnedBy
<1>3. ASSUME NEW id \in Ids, Drop(id) PROVE Owned'
  <2>1. DOMAIN table' = DOMAIN table \ {id} /\ \A x \in DOMAIN table : x # id => table'[x] = table[x]
      BY <1>1, <1>3, DropKeepsShape
  <2>2. IsFiniteSet(DOMAIN table')
      BY <1>1, <2>1, FS_Subset
  <2>3. ASSUME NEW u \in Users PROVE Cardinality(OwnedBy(u)') <= MaxPerUser
    <3>1. OwnedBy(u)' \subseteq OwnedBy(u) /\ IsFiniteSet(OwnedBy(u))
        BY <1>1, <2>1, FS_Subset DEF OwnedBy
    <3>2. Cardinality(OwnedBy(u)') <= Cardinality(OwnedBy(u)) /\ IsFiniteSet(OwnedBy(u)')
        BY <3>1, FS_Subset
    <3>3. Cardinality(OwnedBy(u)) \in Nat /\ Cardinality(OwnedBy(u)') \in Nat
        BY <3>1, <3>2, FS_CardinalityType
    <3> QED
        BY <3>2, <3>3, UpstreamAdministrationAssumption DEF Owned
  <2> QED
      BY <2>2, <2>3 DEF Owned
<1>4. ASSUME NEW id \in Ids, NEW row \in Row, Put(id, row),
             \/ row.owner = NoOwner
             \/ id \in DOMAIN table /\ row.owner = table[id].owner
             \/ \E u \in Users : row.owner = u /\ MayCreate(u)
      PROVE  Owned'
  <2>1. /\ DOMAIN table' = DOMAIN table \cup {id} /\ table'[id] = row
        /\ \A x \in DOMAIN table : x # id => table'[x] = table[x]
      BY <1>1, <1>4, PutKeepsShape
  <2>2. IsFiniteSet(DOMAIN table')
      BY <1>1, <2>1, FS_AddElement
  <2>3. ASSUME NEW u \in Users PROVE Cardinality(OwnedBy(u)') <= MaxPerUser
    <3>1. IsFiniteSet(OwnedBy(u)) /\ IsFiniteSet(OwnedBy(u)')
        BY <1>1, <2>2, FS_Subset DEF OwnedBy
    <3>2. Cardinality(OwnedBy(u)) \in Nat /\ Cardinality(OwnedBy(u)') \in Nat
        BY <3>1, FS_CardinalityType
    <3>3. CASE OwnedBy(u)' \subseteq OwnedBy(u)
      <4>1. Cardinality(OwnedBy(u)') <= Cardinality(OwnedBy(u))
          BY <3>1, <3>3, FS_Subset
      <4> QED
          BY <3>2, <4>1, UpstreamAdministrationAssumption DEF Owned
    <3>4. CASE ~(OwnedBy(u)' \subseteq OwnedBy(u))
      <4>1. OwnedBy(u)' \subseteq OwnedBy(u) \cup {id}
          BY <2>1 DEF OwnedBy
      <4>2. row.owner = u /\ id \notin OwnedBy(u)
          BY <2>1, <3>4, <4>1 DEF OwnedBy
      <4>3. MayCreate(u)
          BY <1>4, <4>2, UpstreamAdministrationAssumption DEF OwnedBy
      <4>4. /\ Cardinality(OwnedBy(u) \cup {id}) = Cardinality(OwnedBy(u)) + 1
            /\ IsFiniteSet(OwnedBy(u) \cup {id})
          BY <3>1, <4>2, FS_AddElement
      <4>5. Cardinality(OwnedBy(u)') <= Cardinality(OwnedBy(u) \cup {id})
          BY <4>1, <4>4, FS_Subset
      <4> QED
          BY <3>2, <4>3, <4>4, <4>5, UpstreamAdministrationAssumption DEF MayCreate
    <3> QED
        BY <3>3, <3>4
  <2> QED
      BY <2>2, <2>3 DEF Owned
<1> QED
    BY <1>2, <1>3, <1>4 DEF TableStep

LEMMA ClientStepKeeps ==
    ASSUME IInv, IInv', Served, stale \subseteq Ids, ClientStep
    PROVE  Served' /\ stale' \subseteq Ids
<1>1. /\ \A id \in DOMAIN table : id \in Ids /\ table[id].key \in Keys
      /\ \A id \in DOMAIN table' : id \in Ids /\ table'[id].key \in Keys
    BY DEF IInv, Shape, Row
<1>2. CASE UNCHANGED clients /\ (UNCHANGED stale \/ \E id \in Ids : stale' = stale \cup {id})
    BY <1>2 DEF Served
<1>3. ASSUME NEW id \in Ids, Reload(id) PROVE Served' /\ stale' \subseteq Ids
  <2>1. \/ id \in DOMAIN table' /\ clients' = With(clients, id, table'[id].key)
        \/ clients' = Without(clients, id)
      BY <1>3 DEF Reload, Reloaded
  <2>2. CASE id \in DOMAIN table' /\ clients' = With(clients, id, table'[id].key)
      BY <1>1, <1>3, <2>2 DEF Served, With, Reload
  <2>3. CASE clients' = Without(clients, id)
      BY <1>3, <2>3 DEF Served, Without, Reload
  <2> QED
      BY <2>1, <2>2, <2>3
<1>4. CASE clients' = [id \in {x \in DOMAIN table : table[x].on} |-> table[id].key] /\ stale' = {}
    BY <1>1, <1>4 DEF Served
<1> QED
    BY <1>2, <1>3, <1>4 DEF ClientStep

\* A notice more is one of few: the one counter it raises has not reached the bound.
LEMMA RoomForOneMore ==
    ASSUME Told, NEW kind \in Kinds, NEW id \in Ids, Cardinality(Notices) < MaxOpen
    PROVE  open[kind][id] + 1 \in 0..MaxOpen
<1> DEFINE mine == {<<kind, id, n>> : n \in 1..MaxOpen}
           f == [n \in 1..MaxOpen |-> <<kind, id, n>>]
<1>1. open[kind][id] \in 0..MaxOpen /\ IsFiniteSet(Notices) /\ MaxOpen \in Nat
    BY UpstreamAdministrationAssumption DEF Told
<1> SUFFICES ASSUME open[kind][id] = MaxOpen PROVE FALSE
    BY <1>1
<1>2. mine \subseteq Notices
    BY <1>1 DEF Notices
<1>3. f \in Bijection(1..MaxOpen, mine)
  <2>1. f \in [1..MaxOpen -> mine]
      OBVIOUS
  <2>2. \A m, n \in 1..MaxOpen : f[m] = f[n] => m = n
      OBVIOUS
  <2>3. \A x \in mine : \E n \in 1..MaxOpen : f[n] = x
      OBVIOUS
  <2> HIDE DEF mine, f
  <2> QED
      BY <2>1, <2>2, <2>3 DEF Bijection, Injection, Surjection, IsInjective
<1>4. Cardinality(mine) = MaxOpen
  <2>1. IsFiniteSet(1..MaxOpen) /\ Cardinality(1..MaxOpen) = MaxOpen
      BY <1>1, FS_Interval
  <2>2. ExistsBijection(1..MaxOpen, mine)
      BY <1>3 DEF ExistsBijection
  <2> HIDE DEF mine
  <2>3. Cardinality(mine) = Cardinality(1..MaxOpen)
      BY <2>1, <2>2, FS_Bijection
  <2> QED
      BY <2>1, <2>3
<1> HIDE DEF mine, f
<1>5. Cardinality(mine) <= Cardinality(Notices) /\ Cardinality(Notices) \in Nat
    BY <1>1, <1>2, FS_Subset, FS_CardinalityType
<1> QED
    BY <1>1, <1>4, <1>5

LEMMA NoticeStepKeeps ==
    ASSUME Told, NoticeStep
    PROVE  Told'
<1>1. open \in [Kinds -> [Ids -> 0..MaxOpen]] /\ IsFiniteSet(Notices) /\ MaxOpen \in Nat
    BY UpstreamAdministrationAssumption DEF Told
<1>2. CASE UNCHANGED open
    BY <1>2 DEF Told, Notices
<1>3. ASSUME NEW kind \in Kinds, NEW id \in Ids, NEW n \in 0..MaxOpen,
             open' = [open EXCEPT ![kind][id] = n],
             n <= open[kind][id] \/ n = open[kind][id] + 1,
             kind # "auto" => n <= 1
      PROVE  Told'
  <2>1. /\ open' \in [Kinds -> [Ids -> 0..MaxOpen]] /\ open'[kind][id] = n
        /\ \A k \in Kinds, x \in Ids : <<k, x>> # <<kind, id>> => open'[k][x] = open[k][x]
      BY <1>1, <1>3
  <2>2. open[kind][id] \in 0..MaxOpen
      BY <1>1
  <2>3. Notices' \subseteq Notices \cup {<<kind, id, open[kind][id] + 1>>}
    <3> SUFFICES ASSUME NEW x \in Notices', x \notin Notices PROVE x = <<kind, id, open[kind][id] + 1>>
        OBVIOUS
    <3>1. PICK k \in Kinds, y \in Ids, m \in 1..MaxOpen : x = <<k, y, m>> /\ m <= open'[k][y] /\ ~(m <= open[k][y])
        BY DEF Notices
    <3>2. k = kind /\ y = id
        BY <2>1, <3>1
    <3> QED
        BY <1>3, <2>1, <2>2, <3>1, <3>2
  <2>4. IsFiniteSet(Notices')
      BY <1>1, <2>3, FS_AddElement, FS_Subset
  <2>5. ASSUME NEW k \in {"disable", "delete"}, NEW x \in Ids PROVE open'[k][x] <= 1
    <3>1. k \in Kinds /\ k # "auto" /\ open[k][x] <= 1
        BY DEF Told, Kinds
    <3> QED
        BY <1>3, <2>1, <3>1
  <2> QED
      BY <2>1, <2>4, <2>5 DEF Told
<1>4. ASSUME NEW kind \in Kinds, NEW id \in Ids, open[kind][id] > 0, open' = [open EXCEPT ![kind][id] = @ - 1]
      PROVE  Told'
  <2>1. open[kind][id] \in 0..MaxOpen /\ (kind # "auto" => open[kind][id] <= 1)
      BY <1>1 DEF Told, Kinds
  <2>a. open[kind][id] - 1 \in 0..MaxOpen
      BY <1>1, <1>4, <2>1
  <2>2. PICK n \in 0..MaxOpen : n = open[kind][id] - 1
      BY <2>a
  <2>3. open' = [open EXCEPT ![kind][id] = n]
      BY <1>1, <1>4, <2>2
  <2>4. n <= open[kind][id] /\ (kind # "auto" => n <= 1)
      BY <2>1, <2>2
  <2> QED
      BY <1>3, <2>3, <2>4
<1>5. ASSUME NEW kind \in Kinds, NEW id \in Ids, Open(kind, id), kind = "auto" \/ open[kind][id] = 0
      PROVE  Told'
  <2>1. open[kind][id] \in 0..MaxOpen /\ open[kind][id] + 1 \in 0..MaxOpen
      BY <1>1, <1>5, RoomForOneMore DEF Open
  <2>2. PICK n \in 0..MaxOpen : n = open[kind][id] + 1
      BY <2>1
  <2>3. open' = [open EXCEPT ![kind][id] = n]
      BY <1>1, <1>5, <2>2 DEF Open
  <2>4. kind # "auto" => n <= 1
      BY <1>5, <2>2
  <2> QED
      BY <1>3, <2>2, <2>3, <2>4
<1> QED
    BY <1>2, <1>4, <1>5 DEF NoticeStep, Kinds

\* An automatic notice comes with its switch-off.
LEMMA AutoNotice ==
    ASSUME Told, NoticeStep, NEW id \in Ids, open'["auto"][id] > open["auto"][id]
    PROVE  SwitchedOff(id)
<1>1. open["auto"][id] \in Nat /\ open \in [Kinds -> [Ids -> 0..MaxOpen]] /\ "auto" \in Kinds
    BY DEF Told, Kinds
<1>2. ~UNCHANGED open
    BY <1>1
<1>3. ASSUME NEW kind \in Kinds, NEW x \in Ids, open[kind][x] > 0, open' = [open EXCEPT ![kind][x] = @ - 1]
      PROVE  FALSE
  <2>1. open[kind][x] \in Nat /\ open'["auto"][id] \in {open["auto"][id], open[kind][x] - 1}
      BY <1>1, <1>3
  <2>2. kind = "auto" /\ x = id
      BY <1>1, <1>3
  <2> QED
      BY <1>1, <2>1, <2>2
<1>4. ASSUME NEW kind \in Kinds, NEW x \in Ids, Open(kind, x)
      PROVE  kind = "auto" /\ x = id
    BY <1>1, <1>4 DEF Open
<1> QED
    BY <1>2, <1>3, <1>4 DEF NoticeStep, Kinds

\* Every action is such a step.
LEMMA StepShape ==
    ASSUME IInv, [Next]_vars
    PROVE  TableStep /\ ClientStep /\ NoticeStep
<1>1. ASSUME NEW id \in Ids, NEW key \in Keys, NEW on \in BOOLEAN, Create(id, key, on)
      PROVE  TableStep /\ ClientStep /\ NoticeStep
  <2> DEFINE row == [key |-> key, on |-> on, owner |-> NoOwner]
  <2>1. Put(id, row) /\ Reload(id) /\ UNCHANGED open
      BY <1>1 DEF Create
  <2>2. row \in Row /\ row.owner = NoOwner
      BY DEF Row
  <2> HIDE DEF row
  <2> QED
      BY <2>1, <2>2 DEF TableStep, ClientStep, NoticeStep
<1>2. ASSUME NEW id \in DOMAIN table, NEW key \in Keys, NEW on \in BOOLEAN,
             Put(id, [table[id] EXCEPT !.key = key, !.on = on])
      PROVE  TableStep
  <2> DEFINE row == [table[id] EXCEPT !.key = key, !.on = on]
  <2>1. id \in Ids /\ row \in Row /\ row.owner = table[id].owner
      BY DEF IInv, Shape, Row
  <2> HIDE DEF row
  <2> QED
      BY <1>2, <2>1 DEF TableStep, row
<1>3. ASSUME NEW id \in Ids, NEW key \in Keys, NEW on \in BOOLEAN, Update(id, key, on)
      PROVE  TableStep /\ ClientStep /\ NoticeStep
    BY <1>2, <1>3 DEF Update, ClientStep, NoticeStep
<1>4. ASSUME NEW id \in Ids, Delete(id)
      PROVE  TableStep /\ ClientStep /\ NoticeStep
    BY <1>4 DEF Delete, TableStep, ClientStep, NoticeStep
<1>5. ASSUME NEW id \in Ids, Send(id) \/ Land(id) \/ StartProbe(id) \/ EndProbe(id)
      PROVE  TableStep /\ ClientStep /\ NoticeStep
    BY <1>5 DEF Send, Land, StartProbe, EndProbe, TableStep, ClientStep, NoticeStep
<1>6. ASSUME NEW id \in Ids, NEW kind \in Kinds, Dismiss(kind, id)
      PROVE  TableStep /\ ClientStep /\ NoticeStep
    BY <1>6 DEF Dismiss, TableStep, ClientStep, NoticeStep
<1>7. ASSUME NEW id \in Ids, LandWithError(id)
      PROVE  TableStep /\ ClientStep /\ NoticeStep
  <2>1. CASE UNCHANGED <<table, clients, open, stale>>
      BY <2>1 DEF TableStep, ClientStep, NoticeStep
  <2>2. ASSUME Disables(id), Put(id, [table[id] EXCEPT !.on = FALSE]), Reload(id),
               Open("auto", id) \/ UNCHANGED open
        PROVE  TableStep /\ ClientStep /\ NoticeStep
    <3> DEFINE row == [table[id] EXCEPT !.on = FALSE]
    <3>1. row \in Row /\ row.owner = table[id].owner /\ row.on = FALSE /\ id \in DOMAIN table /\ table[id].on
        BY <2>2 DEF IInv, Shape, Row, Disables
    <3> HIDE DEF row
    <3>2. Put(id, row) /\ id \in DOMAIN table' /\ table'[id] = row
        BY <2>2, <3>1, PutKeepsShape DEF IInv, row
    <3>3. id \notin DOMAIN clients'
        BY <2>2, <3>1, <3>2 DEF Reload, Reloaded, Without
    <3>4. SwitchedOff(id)
        BY <3>1, <3>2, <3>3 DEF SwitchedOff
    <3> QED
        BY <2>2, <3>1, <3>2, <3>4 DEF TableStep, ClientStep, NoticeStep
  <2> QED
      BY <1>7, <2>1, <2>2 DEF LandWithError
<1>8. ASSUME NEW h \in Holders, NEW ids \in SUBSET DOMAIN table, Allow(h, ids)
      PROVE  TableStep /\ ClientStep /\ NoticeStep
    BY <1>8 DEF Allow, TableStep, ClientStep, NoticeStep
<1>9. ASSUME NEW u \in Users, DeleteUser(u)
      PROVE  TableStep /\ ClientStep /\ NoticeStep
    BY <1>9 DEF DeleteUser, TableStep, ClientStep, NoticeStep
<1>10. ASSUME NEW u \in Users, NEW id \in Ids, DeleteOwned(u, id)
       PROVE  TableStep /\ ClientStep /\ NoticeStep
    BY <1>10 DEF DeleteOwned, Announces, TableStep, ClientStep, NoticeStep, Kinds
<1>11. ASSUME NEW u \in Users, NEW id \in Ids, NEW key \in Keys, NEW on \in BOOLEAN, CreateOwned(u, id, key, on)
       PROVE  TableStep /\ ClientStep /\ NoticeStep
  <2> DEFINE row == [key |-> key, on |-> on, owner |-> u]
  <2>1. Put(id, row) /\ Reload(id) /\ UNCHANGED open /\ MayCreate(u)
      BY <1>11 DEF CreateOwned
  <2>2. row \in Row /\ row.owner = u
      BY DEF Row
  <2> HIDE DEF row
  <2> QED
      BY <2>1, <2>2 DEF TableStep, ClientStep, NoticeStep
<1>12. ASSUME NEW u \in Users, NEW id \in Ids, NEW key \in Keys, NEW on \in BOOLEAN, UpdateOwned(u, id, key, on)
       PROVE  TableStep /\ ClientStep /\ NoticeStep
  <2>1. id \in DOMAIN table /\ Put(id, [table[id] EXCEPT !.key = key, !.on = on])
      BY <1>12 DEF UpdateOwned, OwnedBy
  <2>2. TableStep
      BY <1>2, <2>1
  <2>3. ClientStep
      BY <1>12 DEF UpdateOwned, ClientStep
  <2>4. NoticeStep
      BY <1>12 DEF UpdateOwned, Announces, NoticeStep, Kinds
  <2> QED
      BY <2>2, <2>3, <2>4
<1>13. ASSUME NEW u \in Users, NEW key \in Keys, NEW on \in BOOLEAN, CreateNumbered(u, key, on)
       PROVE  TableStep /\ ClientStep /\ NoticeStep
    BY <1>11, <1>13 DEF CreateNumbered, NumbersFree, Ids
<1>14. CASE Restart
    BY <1>14 DEF Restart, TableStep, ClientStep, NoticeStep
<1>15. CASE UNCHANGED vars
    BY <1>15 DEF vars, TableStep, ClientStep, NoticeStep
<1>16. \A u \in Users : OwnIds(u) \subseteq Ids
    BY DEF OwnIds, Ids
<1> QED
    BY <1>1, <1>3, <1>4, <1>5, <1>6, <1>7, <1>8, <1>9, <1>10, <1>11, <1>12, <1>13, <1>14, <1>15, <1>16
    DEF Next

LEMMA BoundsKept ==
    ASSUME IInv, Bounds, Served, stale' \subseteq Ids, [Next]_vars
    PROVE  Bounds'
<1>1. deleted' \subseteq Users
  <2>1. UNCHANGED deleted \/ \E u \in Users : deleted' = deleted \cup {u}
      BY ZenonT(60)
      DEF Next, Create, Update, Delete, Send, Land, LandWithError, Dismiss, StartProbe, EndProbe, Allow,
          DeleteUser, CreateNumbered, CreateOwned, UpdateOwned, DeleteOwned, Restart, vars, people
  <2> QED
      BY <2>1 DEF Bounds
<1>2. flights' \subseteq Ids
  <2>1. flights' \subseteq flights \/ \E id \in Ids : flights' = flights \cup {id}
      BY ZenonT(60)
      DEF Next, Create, Update, Delete, Send, Land, LandWithError, Dismiss, StartProbe, EndProbe, Allow,
          DeleteUser, CreateNumbered, CreateOwned, UpdateOwned, DeleteOwned, Restart, vars, traffic
  <2> QED
      BY <2>1 DEF Bounds
<1>3. tests' \in [Ids -> 0..MaxTests]
  <2>1. \/ UNCHANGED tests
        \/ \E id \in Ids : tests[id] < MaxTests /\ tests' = [tests EXCEPT ![id] = @ + 1]
        \/ \E id \in Ids : tests[id] > 0 /\ tests' = [tests EXCEPT ![id] = @ - 1]
        \/ tests' = [id \in Ids |-> 0]
      BY ZenonT(60)
      DEF Next, Create, Update, Delete, Send, Land, LandWithError, Dismiss, StartProbe, EndProbe, Allow,
          DeleteUser, CreateNumbered, CreateOwned, UpdateOwned, DeleteOwned, Restart, vars, traffic
  <2>2. tests \in [Ids -> 0..MaxTests] /\ MaxTests \in Nat
      BY UpstreamAdministrationAssumption DEF Bounds
  <2>3. ASSUME NEW id \in Ids, tests[id] < MaxTests, tests' = [tests EXCEPT ![id] = @ + 1]
        PROVE  tests' \in [Ids -> 0..MaxTests]
    <3>1. tests[id] + 1 \in 0..MaxTests
        BY <2>2, <2>3
    <3> QED
        BY <2>2, <2>3, <3>1
  <2>4. ASSUME NEW id \in Ids, tests[id] > 0, tests' = [tests EXCEPT ![id] = @ - 1]
        PROVE  tests' \in [Ids -> 0..MaxTests]
    <3>1. tests[id] - 1 \in 0..MaxTests
        BY <2>2, <2>4
    <3> QED
        BY <2>2, <2>4, <3>1
  <2> QED
      BY <2>1, <2>2, <2>3, <2>4
<1>4. faults' \in 0..MaxFaults
  <2>1. UNCHANGED faults \/ Fault
      BY ZenonT(60) DEF Next, Create, Update, Delete, Send, Land, LandWithError, Dismiss, StartProbe, EndProbe, Allow,
         DeleteUser, CreateNumbered, CreateOwned, UpdateOwned, DeleteOwned, Restart, vars
  <2> QED
      BY <2>1, UpstreamAdministrationAssumption DEF Bounds, Fault
<1> QED
    BY <1>1, <1>2, <1>3, <1>4 DEF Bounds

LEMMA LimitsInit == Init => Limits
<1> SUFFICES ASSUME Init PROVE Limits
    OBVIOUS
<1>1. DOMAIN table = {} /\ DOMAIN clients = {} /\ \A u : OwnedBy(u) = {}
  <2>1. DOMAIN table = {} /\ DOMAIN clients = {}
      BY DEF Init
  <2> QED
      BY <2>1 DEF OwnedBy
<1>2. Owned
  <2>1. IsFiniteSet(DOMAIN table)
      BY <1>1, FS_EmptySet
  <2>2. Cardinality({}) = 0 /\ 0 <= MaxPerUser
      BY FS_EmptySet, UpstreamAdministrationAssumption
  <2>3. \A u \in Users : Cardinality(OwnedBy(u)) <= MaxPerUser
      BY <1>1, <2>2
  <2> QED
      BY <2>1, <2>3 DEF Owned
<1>3. \A k \in Kinds, id \in Ids : open[k][id] = 0
    BY DEF Init
<1>4. Notices = {}
    BY <1>3 DEF Notices
<1>5. Told
  <2>1. open \in [Kinds -> [Ids -> 0..MaxOpen]]
      BY UpstreamAdministrationAssumption DEF Init
  <2> QED
      BY <1>3, <1>4, <2>1, FS_EmptySet DEF Told, Kinds
<1>6. Served /\ Bounds
    BY <1>1, UpstreamAdministrationAssumption DEF Init, Served, Bounds
<1> QED
    BY <1>2, <1>5, <1>6 DEF Limits

LEMMA LimitsKept == IInv /\ Limits /\ [Next]_vars => Limits'
<1> SUFFICES ASSUME IInv, Limits, [Next]_vars PROVE Limits'
    OBVIOUS
<1>1. IInv' /\ TableStep /\ ClientStep /\ NoticeStep
    BY StepKeeps, StepShape
<1>2. Owned' /\ Told'
    BY <1>1, TableStepKeeps, NoticeStepKeeps DEF Limits
<1>3. Served' /\ stale' \subseteq Ids
    BY <1>1, ClientStepKeeps DEF Limits, Bounds
<1> QED
    BY <1>2, <1>3, BoundsKept DEF Limits

LEMMA LimitsHold == Spec => []Limits
BY Invariant, LimitsInit, LimitsKept, PTL DEF Spec

\* Types and bounds; above all nobody owns more upstreams than may be uploaded, whichever way
\* the label is chosen and whatever administrators create and patch (self_service/upstreams.py
\* create_upstream checks the count in the transaction that inserts).
THEOREM TypesAndLimits == Spec => []TypeOK
<1>1. IInv /\ Limits => TypeOK
    BY DEF IInv, Shape, Row, Limits, Owned, Served, Told, Bounds, TypeOK
<1> QED
    BY <1>1, Invariant, LimitsHold, PTL

\* Administrators are told of each switch-off once, together with it (upstream_auto_disable.py
\* handle_api_error, self_service/upstreams.py _notify_if_referenced).
THEOREM ToldOnce == Spec => NoticeOnce
<1>1. IInv /\ Limits /\ Limits' /\ [Next]_vars =>
        [open' # open => \A id \in Ids :
            /\ open'["auto"][id] > open["auto"][id] =>
                /\ id \in DOMAIN table /\ table[id].on
                /\ id \in DOMAIN table' /\ ~table'[id].on /\ id \notin DOMAIN clients'
            /\ \A kind \in {"disable", "delete"} : open'[kind][id] <= 1]_vars
  <2> SUFFICES ASSUME IInv, Limits, Limits', [Next]_vars, NEW id \in Ids
               PROVE  /\ open'["auto"][id] > open["auto"][id] => SwitchedOff(id)
                      /\ \A kind \in {"disable", "delete"} : open'[kind][id] <= 1
      BY DEF SwitchedOff
  <2>1. Told /\ Told' /\ NoticeStep
      BY StepShape DEF Limits
  <2> QED
      BY <2>1, AutoNotice DEF Told
<1> QED
    BY <1>1, Invariant, LimitsHold, PTL DEF Spec, NoticeOnce

=============================================================================
