------------------------ MODULE UpstreamAdministration ------------------------
(***************************************************************************)
(* Upstream accounts and who may change them: administrators, the users    *)
(* that uploaded them and the service that switches an account off after   *)
(* an error.  The table of upstreams, the runtime clients (which are also  *)
(* the queue's targets), the whitelists that name upstreams, the notices   *)
(* to administrators and the connection tests are separate pieces of       *)
(* state; handlers run to their end on the event loop, but a write may     *)
(* fail between two of their transactions.                                 *)
(***************************************************************************)
EXTENDS Integers, FiniteSets

CONSTANTS
    AdminIds,     \* ids of administrators' upstreams
    Users,
    Groups,
    NoOwner,
    Numbers,      \* bound: numbers an uploaded upstream may be given
    Keys,
    MaxPerUser,   \* self_service.upstreams.max_per_user
    MaxTests,     \* bound: connection tests of one upstream at a time
    MaxFaults,    \* bound: failing writes
    MaxOpen       \* bound: notices open at a time

ASSUME UpstreamAdministrationAssumption ==
    /\ MaxPerUser \in Nat /\ MaxTests \in Nat /\ MaxFaults \in Nat /\ MaxOpen \in Nat
    /\ Numbers \subseteq Nat \ {0} /\ NoOwner \notin Users

VARIABLES
    table,     \* novelai_upstreams: id -> key, enabled, owner
    clients,   \* app.state.upstream_clients: id -> key; its ids are the queue's targets
    refs,      \* whitelist of a user or group
    deleted,   \* users that were deleted
    flights,   \* upstreams that work on a request
    open,      \* notices not dismissed, per kind and upstream
    tests,     \* connection tests outside the queue: how many run on an upstream
    inFlight,  \* DirectUpstreamProbe._in_flight
    stale,     \* history: switched off by their owner, with the notice about it failing
    faults

vars == <<table, clients, refs, deleted, flights, open, tests, inFlight, stale, faults>>
traffic == <<flights, tests, inFlight>>
people == <<refs, deleted>>

OwnIds(u) == {u} \X Numbers
Ids == AdminIds \cup (Users \X Numbers)
Holders == Users \cup Groups
Kinds == {"auto", "disable", "delete"}

Init ==
    /\ table = <<>> /\ clients = <<>>
    /\ refs = [h \in Holders |-> {}]
    /\ deleted = {}
    /\ flights = {}
    /\ open = [k \in Kinds |-> [id \in Ids |-> 0]]
    /\ tests = [id \in Ids |-> 0] /\ inFlight = {}
    /\ stale = {} /\ faults = 0

-------------------------------------------------------------------------------
Without(f, x) == [y \in DOMAIN f \ {x} |-> f[y]]
With(f, x, v) == [y \in DOMAIN f \cup {x} |-> IF y = x THEN v ELSE f[y]]

Put(id, row) == table' = With(table, id, row)
Drop(id) == table' = Without(table, id)

ReloadedKeepingClient(id) ==
    IF id \in DOMAIN table' /\ table'[id].on
    THEN IF id \in DOMAIN clients THEN clients ELSE With(clients, id, table'[id].key)
    ELSE Without(clients, id)

\* reload_upstream: the client of one upstream follows its row as it is now, and the
\* targets follow the clients.
Reloaded(id) ==
    IF id \in DOMAIN table' /\ table'[id].on
    THEN With(clients, id, table'[id].key)
    ELSE Without(clients, id)

Reload(id) == clients' = Reloaded(id) /\ stale' = stale \ {id}

ReferrersAmongUsers(id) == {h \in Users : id \in refs[h] /\ h \notin deleted}

\* find_allowed_upstream_references: a deleted user's whitelist does not count.
Referrers(id) == {h \in Holders : id \in refs[h] /\ h \notin deleted}

Fault == faults < MaxFaults /\ faults' = faults + 1

\* The notices that are open, one by one.
Notices == {n \in Kinds \X Ids \X (1..MaxOpen) : n[3] <= open[n[1]][n[2]]}

\* A notice more; all of them together stay within the bound.
Open(kind, id) ==
    /\ Cardinality(Notices) < MaxOpen
    /\ open' = [open EXCEPT ![kind][id] = @ + 1]

\* _notify_if_referenced: once per upstream and action as long as the notice is open.
Announces(kind, id) == Referrers(id) # {} /\ open[kind][id] = 0

-------------------------------------------------------------------------------
\* Administrators.

Create(id, key, on) ==
    /\ id \notin DOMAIN table
    /\ Put(id, [key |-> key, on |-> on, owner |-> NoOwner])
    /\ Reload(id)
    /\ UNCHANGED <<people, traffic, open, faults>>

\* A patch may name either field, both or none; every patch reloads the upstream.
Update(id, key, on) ==
    /\ id \in DOMAIN table
    /\ Put(id, [table[id] EXCEPT !.key = key, !.on = on])
    /\ Reload(id)
    /\ UNCHANGED <<people, traffic, open, faults>>

Delete(id) ==
    /\ id \in DOMAIN table /\ Referrers(id) = {}
    /\ Drop(id)
    /\ Reload(id)
    /\ UNCHANGED <<people, traffic, open, faults>>

\* A whitelist is saved with upstreams that exist at that moment, enabled or not.
Allow(h, ids) ==
    /\ h \notin deleted
    /\ refs' = [refs EXCEPT ![h] = ids]
    /\ UNCHANGED <<table, clients, deleted, traffic, open, stale, faults>>

DeleteUser(u) ==
    /\ u \notin deleted
    /\ deleted' = deleted \cup {u}
    /\ UNCHANGED <<table, clients, refs, traffic, open, stale, faults>>

Dismiss(kind, id) ==
    /\ open[kind][id] > 0
    /\ open' = [open EXCEPT ![kind][id] = @ - 1]
    /\ UNCHANGED <<table, clients, people, traffic, stale, faults>>

-------------------------------------------------------------------------------
\* Users and the upstreams they uploaded.

\* The account check is a plain function and runs in a thread before the handler does: any
\* number of requests may have passed it when the user is deactivated or deleted, so it guards
\* nothing here.  The cooldown only refuses.
OwnedBy(u) == {id \in DOMAIN table : table[id].owner = u}

MayCreateOneMore(u) == Cardinality(OwnedBy(u)) <= MaxPerUser
MayCreate(u) == Cardinality(OwnedBy(u)) < MaxPerUser

CreateOwned(u, id, key, on) ==
    /\ UNCHANGED <<people, traffic>>
    /\ MayCreate(u)
    /\ id \notin DOMAIN table
    /\ Put(id, [key |-> key, on |-> on, owner |-> u])
    /\ Reload(id)
    /\ UNCHANGED <<open, faults>>

\* An empty label takes the smallest number free, whoever holds the others.
NumbersFree(u) == {n \in Numbers : <<u, n>> \notin DOMAIN table}

CreateNumbered(u, key, on) ==
    \E n \in NumbersFree(u) :
        /\ \A m \in NumbersFree(u) : n <= m
        /\ CreateOwned(u, <<u, n>>, key, on)

\* The row is written first, then the notice, then the runtime: a notice that cannot be
\* written leaves the runtime as it was.
UpdateOwned(u, id, key, on) ==
    /\ UNCHANGED <<people, traffic>>
    /\ id \in OwnedBy(u)
    /\ Put(id, [table[id] EXCEPT !.key = key, !.on = on])
    /\ LET announces == table[id].on /\ ~on /\ Announces("disable", id) IN
       \/ /\ IF announces THEN Open("disable", id) ELSE UNCHANGED open
          /\ Reload(id)
          /\ UNCHANGED faults
       \/ /\ announces /\ Fault
          /\ stale' = stale \cup {id}
          /\ UNCHANGED <<open, clients>>

DeleteOwned(u, id) ==
    /\ UNCHANGED <<people, traffic>>
    /\ id \in OwnedBy(u)
    /\ IF Referrers(id) = {}
       THEN Drop(id) /\ Reload(id) /\ UNCHANGED <<open, faults>>
       ELSE /\ UNCHANGED <<table, clients, stale>>
            /\ \/ (IF Announces("delete", id) THEN Open("delete", id) ELSE UNCHANGED open) /\ UNCHANGED faults
               \/ Announces("delete", id) /\ Fault /\ UNCHANGED open

-------------------------------------------------------------------------------
\* The queue's side.

\* A worker looks its client up when it starts a handler; connection tests of enabled
\* upstreams are requests like others.
Send(id) ==
    /\ id \in DOMAIN clients \ flights
    /\ flights' = flights \cup {id}
    /\ UNCHANGED <<table, clients, people, open, tests, inFlight, stale, faults>>

Land(id) ==
    /\ id \in flights
    /\ flights' = flights \ {id}
    /\ UNCHANGED <<table, clients, people, open, tests, inFlight, stale, faults>>

DisablesAgain(id) == id \in DOMAIN table

\* disable_upstream returns without effect unless the row is there and enabled.
Disables(id) == id \in DOMAIN table /\ table[id].on

\* handle_api_error for an error of a kind the configuration lists: row, runtime, notice.
\* A failing write is logged and swallowed.
LandWithError(id) ==
    /\ id \in flights
    /\ flights' = flights \ {id}
    /\ IF ~Disables(id) THEN UNCHANGED <<table, clients, open, stale, faults>>
       ELSE \/ /\ Fault /\ UNCHANGED <<table, clients, open, stale>>
            \/ /\ Put(id, [table[id] EXCEPT !.on = FALSE])
               /\ Reload(id)
               /\ \/ Open("auto", id) /\ UNCHANGED faults
                  \/ Fault /\ UNCHANGED open
    /\ UNCHANGED <<people, tests, inFlight>>

\* test_upstream of an upstream that is no target of the queue.
StartProbe(id) ==
    /\ tests[id] < MaxTests
    /\ id \in DOMAIN table \ DOMAIN clients
    /\ id \notin inFlight
    /\ tests' = [tests EXCEPT ![id] = @ + 1]
    /\ inFlight' = inFlight \cup {id}
    /\ UNCHANGED <<table, clients, people, flights, open, stale, faults>>

ReleasedNever(id) == inFlight
Released(id) == inFlight \ {id}

\* An answer, a timeout, or a client that leaves: the last two cancel the test and do not
\* wait for it to unwind, which touches nothing any more.
EndProbe(id) ==
    /\ tests[id] > 0
    /\ tests' = [tests EXCEPT ![id] = @ - 1]
    /\ inFlight' = Released(id)
    /\ UNCHANGED <<table, clients, people, flights, open, stale, faults>>

\* A new process: sync builds the clients from the enabled rows.
Restart ==
    /\ clients' = [id \in {x \in DOMAIN table : table[x].on} |-> table[id].key]
    /\ flights' = {} /\ stale' = {}
    /\ tests' = [id \in Ids |-> 0] /\ inFlight' = {}
    /\ UNCHANGED <<table, refs, deleted, open, faults>>

Next ==
    \/ \E id \in Ids :
        \/ \E key \in Keys, on \in BOOLEAN : Create(id, key, on) \/ Update(id, key, on)
        \/ Delete(id) \/ Send(id) \/ Land(id) \/ LandWithError(id)
        \/ \E kind \in Kinds : Dismiss(kind, id)
        \/ StartProbe(id) \/ EndProbe(id)
    \/ \E h \in Holders, ids \in SUBSET DOMAIN table : Allow(h, ids)
    \/ \E u \in Users :
        \/ DeleteUser(u)
        \/ \E key \in Keys, on \in BOOLEAN :
            \/ CreateNumbered(u, key, on)
            \/ \E id \in OwnIds(u) : CreateOwned(u, id, key, on)
            \/ \E id \in Ids : UpdateOwned(u, id, key, on)
        \/ \E id \in Ids : DeleteOwned(u, id)
    \/ Restart

Spec == Init /\ [][Next]_vars

-------------------------------------------------------------------------------
TypeOK ==
    /\ DOMAIN table \subseteq Ids
    /\ \A id \in DOMAIN table : table[id] \in [key : Keys, on : BOOLEAN, owner : Users \cup {NoOwner}]
    /\ \A u \in Users : Cardinality(OwnedBy(u)) <= MaxPerUser
    /\ DOMAIN clients \subseteq Ids /\ \A id \in DOMAIN clients : clients[id] \in Keys
    /\ refs \in [Holders -> SUBSET Ids]
    /\ deleted \subseteq Users
    /\ flights \subseteq Ids
    /\ open \in [Kinds -> [Ids -> 0..MaxOpen]]
    /\ tests \in [Ids -> 0..MaxTests] /\ inFlight \subseteq Ids /\ stale \subseteq Ids /\ faults \in 0..MaxFaults

\* Three copies, one truth: the upstreams with a client, which the queue routes to, are the
\* enabled rows, each with the key of its row (upstreams.py reload_upstream, sync); but an
\* upstream its owner has switched off while the notice about it failed stays in service.
TargetsAgree ==
    \A id \in Ids \ stale :
        /\ id \in DOMAIN clients <=> (id \in DOMAIN table /\ table[id].on)
        /\ id \in DOMAIN clients => clients[id] = table[id].key

\* No whitelist of a user or group that exists names an upstream that does not, whoever
\* deletes upstreams and saves whitelists (upstreams.py delete, admin/common.py
\* validate_allowed_upstreams): a user tied to missing upstreams only would be served by none.
ReferencesResolve ==
    \A h \in Holders : h \notin deleted => refs[h] \subseteq DOMAIN table

\* Administrators hear of a switch-off exactly once: an automatic one opens a notice in the
\* step that takes the upstream out of service, and no late error of a request in flight opens
\* another; a referenced upstream has one open notice per action of its owner.
NoticeOnce ==
    [][open' # open => \A id \in Ids :
        /\ open'["auto"][id] > open["auto"][id] =>
            /\ id \in DOMAIN table /\ table[id].on
            /\ id \in DOMAIN table' /\ ~table'[id].on /\ id \notin DOMAIN clients'
        /\ \A kind \in {"disable", "delete"} : open'[kind][id] <= 1]_vars

\* An upstream that is no target is tested by one administrator at a time, and is free to be
\* tested again as soon as that test has ended or was given up, even if it never unwinds
\* (upstream_probe.py run).
ProbeSlots == inFlight = {id \in Ids : tests[id] > 0} /\ \A id \in Ids : tests[id] <= 1
===============================================================================
