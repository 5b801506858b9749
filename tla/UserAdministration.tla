-------------------------- MODULE UserAdministration --------------------------
(***************************************************************************)
(* Accounts, their groups and who changes them: administrators through the *)
(* API and through edit pages opened some time before they are saved, a    *)
(* group's settings passed on to its members, and users that register and  *)
(* log in with Discord.  Handlers run to their end on the event loop, each *)
(* a sequence of transactions that a failing write or a crash may cut.     *)
(***************************************************************************)
EXTENDS Integers, FiniteSets

CONSTANTS
    Discord,       \* accounts of Discord users, one each
    Local,         \* accounts administrators create
    Groups,
    DefaultGroup,  \* self_service.discord.default_group_id
    NoGroup,
    Values,        \* settings of a field
    Requests,      \* bound: patches of an account administrators ask for
    GroupRequests, \* bound: patches of a group they ask for
    Paged,         \* bound: accounts whose edit page they open
    MaxEdits,      \* bound: accounts and groups changed by administrators
    MaxFaults      \* bound: handlers cut short

\* The settings a group passes on, by where a member keeps them: columns of its row, its rate
\* limit rules, its quota.
Fields == {"columns", "rules", "quota"}
Given == UNION {[S -> Values] : S \in SUBSET {"columns", "quota"}}
AllRequests ==
    [given : Given, active : {"keep", "on", "off"}, group : Groups \cup {NoGroup, "keep"}, apply : BOOLEAN]

AllGroupRequests ==
    [given : UNION {[S -> Values] : S \in SUBSET Fields}, on : BOOLEAN, scope : {"unmodified", "all", "none"}]

ASSUME UserAdministrationAssumption ==
    /\ DefaultGroup \in Groups /\ NoGroup \notin Groups /\ "keep" \notin Groups \cup {NoGroup}
    /\ Discord \cap Local = {} /\ Requests \subseteq AllRequests
    /\ GroupRequests \subseteq AllGroupRequests /\ Paged \subseteq Discord \cup Local /\ MaxEdits \in Nat /\ MaxFaults \in Nat

VARIABLES
    groups,     \* user_groups and the members' rule template: enabled, settings
    accounts,   \* users: active, disabled_by_discord_verification, deleted, group, settings
    page,       \* an edit page an administrator has open: the standing it showed
    banned,     \* history: accounts an administrator's last word on was to deactivate
    following,  \* history: settings an account has from its group, and no one has changed since
    edits, faults

vars == <<groups, accounts, page, banned, following, edits, faults>>

Accounts == Discord \cup Local
NoPage == [user |-> "none"]
Existing == {a \in DOMAIN accounts : ~accounts[a].deleted}
MembersOfAll(g) == {a \in DOMAIN accounts : accounts[a].group = g}

MembersOf(g) == {a \in Existing : accounts[a].group = g}
GroupOf(a) == accounts[a].group

Init ==
    /\ groups \in [Groups -> [on : BOOLEAN, vals : {[f \in Fields |-> v] : v \in Values}]]
    /\ accounts = <<>> /\ page = NoPage
    /\ banned = {} /\ following = {} /\ edits = 0 /\ faults = 0

Edit == edits < MaxEdits /\ edits' = edits + 1
Cut == faults < MaxFaults /\ faults' = faults + 1
Whole == UNCHANGED faults

-------------------------------------------------------------------------------
\* Creation: the row, its rules and its quota in one transaction.

NewAccount(a, g, vals) ==
    /\ accounts' = [x \in DOMAIN accounts \cup {a} |->
                        IF x = a THEN [active |-> TRUE, flagged |-> FALSE, deleted |-> FALSE,
                                       group |-> g, vals |-> vals]
                        ELSE accounts[x]]
    /\ following' = following \cup
            {<<a, f>> : f \in {x \in Fields : g # NoGroup /\ vals[x] = groups[g].vals[x]}}

\* create_user: what the payload leaves open is the group's; rules are always the group's.
CreateUser(a, g, given, none) ==
    /\ a \in Local \ DOMAIN accounts
    /\ g # NoGroup => groups[g].on
    /\ NewAccount(a, g, [f \in Fields |-> IF f \in DOMAIN given THEN given[f]
                                          ELSE IF g # NoGroup THEN groups[g].vals[f] ELSE none])
    /\ UNCHANGED <<groups, page, banned, edits, faults>>

\* login_or_register_discord_user without a link, new registrations being open.
Register(a) ==
    /\ a \in Discord \ DOMAIN accounts
    /\ groups[DefaultGroup].on
    /\ NewAccount(a, DefaultGroup, groups[DefaultGroup].vals)
    /\ UNCHANGED <<groups, page, banned, edits, faults>>

-------------------------------------------------------------------------------
\* Logins.  Discord answers whether the user is a member some awaits before the answer is
\* used, so either answer may be used at any time.

RecoversAnyway(a) == ~accounts[a].active

\* Only an account that a failed verification has deactivated comes back.
Recovers(a) == ~accounts[a].active /\ accounts[a].flagged

LoginVerified(a) ==
    /\ a \in Discord \cap Existing
    /\ Recovers(a)
    /\ accounts' = [accounts EXCEPT ![a].active = TRUE, ![a].flagged = FALSE]
    /\ UNCHANGED <<groups, page, banned, following, edits, faults>>

\* disable_linked_discord_user.
LoginRejected(a) ==
    /\ a \in Discord \cap Existing
    /\ accounts[a].active
    /\ accounts' = [accounts EXCEPT ![a].active = FALSE, ![a].flagged = TRUE]
    /\ UNCHANGED <<groups, page, banned, following, edits, faults>>

\* The account page: a user sets one of the columns.
ChoosePolicy(a, v) ==
    /\ a \in Existing /\ accounts[a].active
    /\ accounts' = [accounts EXCEPT ![a].vals["columns"] = v]
    /\ following' = IF v = accounts[a].vals["columns"] THEN following ELSE following \ {<<a, "columns">>}
    /\ UNCHANGED <<groups, page, banned, edits, faults>>

-------------------------------------------------------------------------------
\* Administrators and one account.

TargetAsAsked(a, req) == req.group

Target(a, req) == IF req.group = "keep" THEN GroupOf(a) ELSE req.group

\* _build_update_user_input: groups that are named must be enabled.
Acceptable(a, req) ==
    /\ req.group \in Groups => groups[req.group].on
    /\ req.apply => Target(a, req) # NoGroup /\ groups[Target(a, req)].on

Wanted(a, req) ==
    [f \in Fields |-> IF f \in DOMAIN req.given THEN req.given[f]
                      ELSE IF req.apply THEN groups[Target(a, req)].vals[f]
                      ELSE accounts[a].vals[f]]

PatchedKeepingFlag(row, active) == [row EXCEPT !.active = (active = "on")]

\* A word on `active' takes the account out of the hands of the verification.
Patched(row, active) == [row EXCEPT !.active = (active = "on"), !.flagged = FALSE]

\* The row of an account after the fields in `done' were written, and what follows then.
SavedRow(a, req, done) ==
    LET row == IF req.active = "keep" THEN accounts[a] ELSE Patched(accounts[a], req.active) IN
    [row EXCEPT !.group = Target(a, req),
                !.vals = [f \in Fields |-> IF f \in done THEN Wanted(a, req)[f] ELSE @[f]]]

FollowingAfter(a, req, row, done) ==
    {p \in following :
        p[1] # a \/ (row.group = GroupOf(a) /\ row.vals[p[2]] = accounts[a].vals[p[2]])}
    \cup {<<a, f>> : f \in {x \in done \ DOMAIN req.given :
                                req.apply /\ row.vals[x] = groups[row.group].vals[x]}}

Saved(a, req, done) ==
    /\ accounts' = [accounts EXCEPT ![a] = SavedRow(a, req, done)]
    /\ following' = FollowingAfter(a, req, SavedRow(a, req, done), done)

\* update_user: the row, then the rules, then the quota.  A cut leaves the fields after it.
Save(a, req) ==
    /\ Edit
    /\ Acceptable(a, req)
    /\ banned' = CASE req.active = "keep" -> banned
                   [] req.active = "off" -> banned \cup {a}
                   [] req.active = "on" -> banned \ {a}
    /\ \/ Saved(a, req, Fields) /\ Whole
       \/ Wanted(a, req)["rules"] # accounts[a].vals["rules"] /\ Saved(a, req, {"columns"}) /\ Cut
       \/ (req.apply \/ "quota" \in DOMAIN req.given) /\ Saved(a, req, {"columns", "rules"}) /\ Cut

PatchUser(a, req) ==
    /\ a \in Existing
    /\ Save(a, req)
    /\ UNCHANGED <<groups, page>>

\* The rules of one user, added, changed or deleted one by one.
ChangeRules(a, v) ==
    /\ a \in Existing
    /\ accounts' = [accounts EXCEPT ![a].vals["rules"] = v]
    /\ following' = IF v = accounts[a].vals["rules"] THEN following ELSE following \ {<<a, "rules">>}
    /\ Edit
    /\ UNCHANGED <<groups, page, banned, faults>>

DeleteUser(a) ==
    /\ a \in Existing
    /\ accounts' = [accounts EXCEPT ![a].active = FALSE, ![a].deleted = TRUE]
    /\ banned' = banned \ {a} /\ following' = {p \in following : p[1] # a}
    /\ UNCHANGED <<groups, page, edits, faults>>

OpenPage(a) ==
    /\ a \in Paged \cap Existing
    /\ page' = [user |-> a, active |-> accounts[a].active, flagged |-> accounts[a].flagged]
    /\ UNCHANGED <<groups, accounts, banned, following, edits, faults>>

\* update_user_form: the page sends back every field, edited or as it was shown (`given' is any
\* of these); whether the box was touched is judged by the account as it is now.
SavePage(given, box, hard, g, apply) ==
    LET a == page.user
        req == [given |-> IF apply THEN <<>> ELSE given,
                active |-> IF (box = "on") # accounts[a].active THEN box
                           ELSE IF box = "off" /\ hard THEN "off" ELSE "keep",
                group |-> IF apply \/ g # GroupOf(a) THEN g ELSE "keep",
                apply |-> apply]
    IN /\ page # NoPage /\ a \in Existing
       /\ hard => page.flagged       \* the switch is only on the page of a flagged account
       /\ Save(a, req)
       /\ page' = NoPage
       /\ UNCHANGED groups

ClosePage ==
    /\ page # NoPage
    /\ page' = NoPage
    /\ UNCHANGED <<groups, accounts, banned, following, edits, faults>>

-------------------------------------------------------------------------------
\* Groups.

\* Members' settings written by a request: pairs of account and field.
Written(pairs, new) ==
    [a \in DOMAIN accounts |->
        [accounts[a] EXCEPT !.vals = [f \in Fields |-> IF <<a, f>> \in pairs THEN new[f] ELSE @[f]]]]

\* _apply_member_field_updates: rows and rules of all in one transaction, then quota by quota.
MemberCuts(pairs) ==
    {{}} \cup {{p \in pairs : p[2] # "quota"} \cup paid : paid \in SUBSET {p \in pairs : p[2] = "quota"}}

SelectedAfterWrite(g, new, scope) ==
    {p \in MembersOf(g) \X Fields :
        /\ new[p[2]] # groups[g].vals[p[2]]
        /\ scope = "all" \/ (scope = "unmodified" /\ accounts[p[1]].vals[p[2]] = new[p[2]])}

\* Who takes a change over: everybody, or the members whose value is the group's old one.
Selected(g, new, scope) ==
    {p \in MembersOf(g) \X Fields :
        /\ new[p[2]] # groups[g].vals[p[2]]
        /\ scope = "all" \/ (scope = "unmodified" /\ accounts[p[1]].vals[p[2]] = groups[g].vals[p[2]])}

Merged(g, given) == [f \in Fields |-> IF f \in DOMAIN given THEN given[f] ELSE groups[g].vals[f]]

SavedGroup(g, req, template, pairs) ==
    LET new == Merged(g, req.given) IN
    /\ groups' = [groups EXCEPT ![g] =
            [on |-> req.on, vals |-> [f \in Fields |-> IF f \in template THEN new[f] ELSE @.vals[f]]]]
    /\ accounts' = Written(pairs, new)

\* Who follows once all is saved: passing on to nobody leaves the members behind.
FollowingSaved(g, req, selected) ==
    IF req.scope = "none"
    THEN following \ (MembersOf(g) \X {f \in Fields : Merged(g, req.given)[f] # groups[g].vals[f]})
    ELSE following \cup {p \in selected : req.scope = "all"}

\* update_group_with_propagation: the group's row, its rule template, the members.
PatchGroup(g, req) ==
    LET selected == Selected(g, Merged(g, req.given), req.scope)
        saved == FollowingSaved(g, req, selected)
    IN /\ Edit
       /\ \/ SavedGroup(g, req, Fields, selected) /\ Whole /\ following' = saved
          \/ /\ Cut
             /\ \/ "rules" \in DOMAIN req.given /\ SavedGroup(g, req, {"columns", "quota"}, {})
                \/ \E pairs \in MemberCuts(selected) \ {selected} : SavedGroup(g, req, Fields, pairs)
             /\ following' = {p \in saved : p[1] \in MembersOf(g) =>
                                    accounts'[p[1]].vals[p[2]] = groups'[g].vals[p[2]]}
       /\ UNCHANGED <<page, banned>>

DisableGroup(g) ==
    /\ groups' = [groups EXCEPT ![g].on = FALSE]
    /\ UNCHANGED <<accounts, page, banned, following, edits, faults>>

\* sync_group_members: the chosen fields of every member, changed or not.
SyncMembers(g, fields) ==
    LET selected == MembersOf(g) \X fields IN
    /\ fields # {} /\ selected # {}
    /\ \E pairs \in MemberCuts(selected) :
        /\ accounts' = Written(pairs, groups[g].vals)
        /\ IF pairs = selected THEN Whole ELSE Cut
        /\ following' = following \cup pairs
    /\ Edit
    /\ UNCHANGED <<groups, page, banned>>

Next ==
    \/ \E a \in Accounts :
        \/ \E g \in Groups \cup {NoGroup}, req \in Requests, none \in Values :
            CreateUser(a, g, req.given, none)
        \/ Register(a) \/ LoginVerified(a) \/ LoginRejected(a)
        \/ \E v \in Values : ChoosePolicy(a, v) \/ ChangeRules(a, v)
        \/ \E req \in Requests : PatchUser(a, req)
        \/ DeleteUser(a) \/ OpenPage(a)
    \/ \E given \in [{"columns", "quota"} -> Values], box \in {"on", "off"}, hard, apply \in BOOLEAN,
         g \in Groups \cup {NoGroup} : SavePage(given, box, hard, g, apply)
    \/ ClosePage
    \/ \E g \in Groups :
        \/ \E req \in GroupRequests : PatchGroup(g, req)
        \/ DisableGroup(g)
        \/ \E fields \in SUBSET Fields : SyncMembers(g, fields)

Spec == Init /\ [][Next]_vars

-------------------------------------------------------------------------------
TypeOK ==
    /\ groups \in [Groups -> [on : BOOLEAN, vals : [Fields -> Values]]]
    /\ DOMAIN accounts \subseteq Accounts
    /\ \A a \in DOMAIN accounts :
        accounts[a] \in [active : BOOLEAN, flagged : BOOLEAN, deleted : BOOLEAN,
                         group : Groups \cup {NoGroup}, vals : [Fields -> Values]]
    /\ banned \subseteq Accounts /\ following \subseteq Accounts \X Fields
    /\ edits \in 0..MaxEdits /\ faults \in 0..MaxFaults

\* An account is active unless it was deleted, an administrator's last word was to deactivate
\* it, or a failed verification has deactivated it since: no order of logins, verifications
\* and saves lets a banned user back in or locks one out for good (self_service/accounts.py
\* login_or_register_discord_user, disable_linked_discord_user; users/service.py update_user).
StandingExact ==
    \A a \in DOMAIN accounts :
        IF accounts[a].deleted THEN ~accounts[a].active
        ELSE /\ accounts[a].active <=> (a \notin banned /\ ~accounts[a].flagged)
             /\ ~(a \in banned /\ accounts[a].flagged)

\* Settings an account took from its group stay the group's through every later change of the
\* group that is passed on, until somebody changes them for the account or saves the group
\* without passing on; requests that were cut drop who they left behind
\* (users/groups.py update_group_with_propagation).
FollowersFollow ==
    \A a \in Existing, f \in Fields :
        <<a, f>> \in following => GroupOf(a) # NoGroup /\ accounts[a].vals[f] = groups[GroupOf(a)].vals[f]

\* A deleted account stays as it was deleted, whatever happens to its group.
DeletedFrozen ==
    [][\A a \in DOMAIN accounts : accounts[a].deleted => accounts'[a] = accounts[a]]_vars

\* A page that showed its account as kept out by a failed verification, saved with the box as
\* it was shown to change something else, does not take an account that recovered meanwhile out
\* of service (admin/users.py update_user_form; REQUIREMENTS.md:156 on the edit forms).
UntouchedBoxKeepsRecovery ==
    [][\A given \in [{"columns", "quota"} -> Values], g \in Groups \cup {NoGroup}, apply \in BOOLEAN :
        (/\ page # NoPage /\ page.flagged /\ ~page.active
         /\ page.user \in Existing /\ accounts[page.user].active
         /\ SavePage(given, "off", FALSE, g, apply))
        => accounts'[page.user].active]_vars
===============================================================================
