----------------------- MODULE UserAdministrationProofs -----------------------
(***************************************************************************)
(* Accounts and groups, for any of them: an account is active exactly when *)
(* nobody's last word and no failed verification says otherwise, settings  *)
(* taken from a group stay the group's, a deleted account stays as it is.  *)
(***************************************************************************)
EXTENDS UserAdministration, TLAPS

Row == [active : BOOLEAN, flagged : BOOLEAN, deleted : BOOLEAN,
        group : Groups \cup {NoGroup}, vals : [Fields -> Values]]

\* The standing of one account, and that one of its settings is its group's.
StandingOf(row, ban) ==
    IF row.deleted THEN ~row.active
    ELSE /\ row.active <=> (~ban /\ ~row.flagged)
         /\ ~(ban /\ row.flagged)
Follows(row, f, gs) == row.group # NoGroup /\ row.vals[f] = gs[row.group].vals[f]

\* What only this module needs beside the properties: the table is a function, and what is
\* noted of following and banning is about accounts there are: a new one starts with nothing.
Shape ==
    /\ accounts \in [DOMAIN accounts -> Row]
    /\ following \subseteq Existing \X Fields
    /\ banned \subseteq DOMAIN accounts

IInv == TypeOK /\ Shape /\ StandingExact /\ FollowersFollow

-------------------------------------------------------------------------------
\* One account's row is replaced, everything else of the table stays.
Replaced(a, row) ==
    /\ accounts' \in [DOMAIN accounts -> Row]
    /\ accounts'[a] = row
    /\ \A x \in DOMAIN accounts : x # a => accounts'[x] = accounts[x]

LEMMA Replacing ==
    ASSUME IInv, NEW a \in Existing, NEW row \in Row, Replaced(a, row), accounts[a].deleted => row.deleted
    PROVE  /\ DOMAIN accounts' = DOMAIN accounts
           /\ Existing' = IF row.deleted THEN Existing \ {a} ELSE Existing
<1>1. DOMAIN accounts' = DOMAIN accounts
    BY DEF Replaced
<1>2. a \in DOMAIN accounts /\ ~accounts[a].deleted
    BY DEF Existing
<1> QED
    BY <1>1, <1>2 DEF Replaced, Existing

\* The invariant after one row was replaced by one that is sound in itself.
LEMMA ReplacingKeeps ==
    ASSUME IInv, NEW a \in Existing, NEW row \in Row, Replaced(a, row),
           UNCHANGED groups, edits' \in 0..MaxEdits, faults' \in 0..MaxFaults,
           banned' \ {a} = banned \ {a},
           following' \subseteq Existing' \X Fields,
           \A p \in following' : p[1] # a => p \in following,
           StandingOf(row, a \in banned'),
           \A f \in Fields : <<a, f>> \in following' => Follows(row, f, groups)
    PROVE  IInv'
<1>1. DOMAIN accounts' = DOMAIN accounts
    BY DEF Replaced
<1>2. accounts' \in [DOMAIN accounts' -> Row]
    BY <1>1 DEF Replaced
<1>3. DOMAIN accounts \subseteq Accounts
    BY DEF IInv, TypeOK
<1>4. TypeOK'
  <2>1. \A x \in DOMAIN accounts' : accounts'[x] \in Row
      BY <1>2
  <2>2. following' \subseteq Accounts \X Fields
      BY <1>1, <1>3 DEF Existing
  <2>3. banned' \subseteq DOMAIN accounts
      BY DEF IInv, Shape, Existing
  <2> QED
      BY <1>1, <1>3, <2>1, <2>2, <2>3 DEF IInv, TypeOK, Row
<1>5. StandingExact'
  <2> SUFFICES ASSUME NEW x \in DOMAIN accounts'
               PROVE  StandingOf(accounts'[x], x \in banned')
      BY DEF StandingExact, StandingOf
  <2>1. CASE x = a
      BY <2>1 DEF Replaced
  <2>2. CASE x # a
    <3>1. accounts'[x] = accounts[x] /\ (x \in banned' <=> x \in banned)
        BY <1>1, <2>2 DEF Replaced
    <3>2. StandingOf(accounts[x], x \in banned)
        BY <1>1 DEF IInv, StandingExact, StandingOf
    <3> QED
        BY <3>1, <3>2 DEF StandingOf
  <2> QED
      BY <2>1, <2>2
<1>6. FollowersFollow'
  <2> SUFFICES ASSUME NEW x \in Existing', NEW f \in Fields, <<x, f>> \in following'
               PROVE  Follows(accounts'[x], f, groups')
      BY DEF FollowersFollow, Follows, GroupOf
  <2>1. CASE x = a
      BY <2>1 DEF Replaced
  <2>2. CASE x # a
    <3>1. <<x, f>> \in following /\ x \in DOMAIN accounts /\ accounts'[x] = accounts[x]
        BY <1>1, <2>2 DEF Replaced, Existing
    <3>2. x \in Existing
        BY <3>1 DEF IInv, Shape
    <3>3. Follows(accounts[x], f, groups)
        BY <3>1, <3>2 DEF IInv, FollowersFollow, Follows, GroupOf
    <3> QED
        BY <3>1, <3>3 DEF Follows
  <2> QED
      BY <2>1, <2>2
<1>7. banned' \subseteq DOMAIN accounts'
    BY <1>1 DEF IInv, Shape, Existing
<1> QED
    BY <1>2, <1>4, <1>5, <1>6, <1>7 DEF IInv, Shape

-------------------------------------------------------------------------------
\* The actions that create or change one account.

LEMMA InitKeeps == Init => IInv
<1> SUFFICES ASSUME Init PROVE IInv
    OBVIOUS
<1>1. DOMAIN accounts = {} /\ Existing = {}
    BY DEF Init, Existing
<1>2. groups \in [Groups -> [on : BOOLEAN, vals : [Fields -> Values]]]
  <2>1. {[f \in Fields |-> v] : v \in Values} \subseteq [Fields -> Values]
      OBVIOUS
  <2>2. \A g \in Groups : groups[g] \in [on : BOOLEAN, vals : {[f \in Fields |-> v] : v \in Values}]
      BY DEF Init
  <2>3. \A g \in Groups : groups[g] \in [on : BOOLEAN, vals : [Fields -> Values]]
      BY <2>1, <2>2
  <2> QED
      BY <2>3 DEF Init
<1>3. TypeOK
    BY <1>1, <1>2, UserAdministrationAssumption DEF Init, TypeOK
<1> QED
    BY <1>1, <1>3 DEF Init, IInv, Shape, StandingExact, FollowersFollow

\* A new account is active, and nothing was said of it or of its settings before.
LEMMA NewAccountKeeps ==
    ASSUME IInv, NEW a \in Accounts, a \notin DOMAIN accounts,
           NEW g \in Groups \cup {NoGroup}, NEW vals \in [Fields -> Values],
           NewAccount(a, g, vals),
           UNCHANGED <<groups, banned, edits, faults>>
    PROVE  IInv'
<1> DEFINE new == [active |-> TRUE, flagged |-> FALSE, deleted |-> FALSE, group |-> g, vals |-> vals]
<1>1. DOMAIN accounts' = DOMAIN accounts \cup {a}
    BY DEF NewAccount
<1>2. accounts'[a] = new /\ new \in Row
    BY DEF NewAccount, Row
<1>3. \A x \in DOMAIN accounts : accounts'[x] = accounts[x] /\ accounts[x] \in Row
    BY DEF NewAccount, IInv, Shape
<1>4. accounts' \in [DOMAIN accounts' -> Row]
    BY <1>1, <1>2, <1>3 DEF NewAccount
<1>5. Existing' = Existing \cup {a}
    BY <1>1, <1>2, <1>3 DEF Existing
<1>6. following' \subseteq Existing' \X Fields
    BY <1>5 DEF NewAccount, IInv, Shape
<1>7. Existing' \subseteq Accounts
    BY <1>5 DEF IInv, TypeOK, Existing
<1>8. TypeOK'
  <2>1. \A x \in DOMAIN accounts' : accounts'[x] \in Row
      BY <1>4
  <2>2. following' \subseteq Accounts \X Fields
      BY <1>6, <1>7
  <2> QED
      BY <1>1, <2>1, <2>2 DEF IInv, TypeOK, Row
<1>9. StandingExact'
    BY <1>1, <1>2, <1>3 DEF IInv, Shape, StandingExact
<1>10. FollowersFollow'
  <2> SUFFICES ASSUME NEW x \in Existing', NEW f \in Fields, <<x, f>> \in following'
               PROVE  Follows(accounts'[x], f, groups)
      BY DEF FollowersFollow, Follows, GroupOf
  <2>1. CASE x = a
    <3>1. <<a, f>> \notin following
        BY DEF IInv, Shape, Existing
    <3>2. g # NoGroup /\ vals[f] = groups[g].vals[f]
        BY <2>1, <3>1 DEF NewAccount
    <3> QED
        BY <1>2, <2>1, <3>2 DEF Follows
  <2>2. CASE x # a
    <3>1. <<x, f>> \in following /\ x \in Existing
        BY <1>5, <2>2 DEF NewAccount
    <3>2. accounts'[x] = accounts[x]
        BY <1>3, <3>1 DEF Existing
    <3> QED
        BY <3>1, <3>2 DEF IInv, FollowersFollow, Follows, GroupOf
  <2> QED
      BY <2>1, <2>2
<1> QED
    BY <1>1, <1>4, <1>6, <1>8, <1>9, <1>10 DEF IInv, Shape

LEMMA GroupValues ==
    ASSUME IInv, NEW g \in Groups
    PROVE  groups[g].vals \in [Fields -> Values] /\ groups[g].on \in BOOLEAN
BY DEF IInv, TypeOK

LEMMA CreateUserKeeps ==
    ASSUME IInv, NEW a \in Accounts, NEW g \in Groups \cup {NoGroup}, NEW req \in Requests, NEW none \in Values,
           CreateUser(a, g, req.given, none)
    PROVE  IInv'
<1> DEFINE vals == [f \in Fields |-> IF f \in DOMAIN req.given THEN req.given[f]
                                     ELSE IF g # NoGroup THEN groups[g].vals[f] ELSE none]
<1>1. PICK S \in SUBSET {"columns", "quota"} : req.given \in [S -> Values]
    BY UserAdministrationAssumption DEF AllRequests, Given
<1>2. g # NoGroup => \A f \in Fields : groups[g].vals[f] \in Values
    BY GroupValues
<1>3. vals \in [Fields -> Values]
    BY <1>1, <1>2
<1>4. a \notin DOMAIN accounts /\ NewAccount(a, g, vals)
    BY DEF CreateUser
<1> QED
    BY <1>3, <1>4, NewAccountKeeps DEF CreateUser

LEMMA RegisterKeeps ==
    ASSUME IInv, NEW a \in Accounts, Register(a)
    PROVE  IInv'
<1>1. groups[DefaultGroup].vals \in [Fields -> Values]
    BY GroupValues, UserAdministrationAssumption
<1> QED
    BY <1>1, NewAccountKeeps, UserAdministrationAssumption DEF Register

\* What is known of an existing account.
LEMMA ExistingRow ==
    ASSUME IInv, NEW a \in Existing
    PROVE  /\ a \in DOMAIN accounts /\ a \in Accounts
           /\ accounts[a] \in Row /\ ~accounts[a].deleted
           /\ StandingOf(accounts[a], a \in banned)
           /\ \A f \in Fields : <<a, f>> \in following => Follows(accounts[a], f, groups)
BY DEF IInv, TypeOK, Shape, Existing, StandingExact, StandingOf, FollowersFollow, Follows, GroupOf

\* Only the standing of an account changes.
LEMMA StandingKeeps ==
    ASSUME IInv, NEW a \in Existing, NEW active \in BOOLEAN, NEW flagged \in BOOLEAN,
           accounts' = [accounts EXCEPT ![a] = [@ EXCEPT !.active = active, !.flagged = flagged]],
           active <=> (a \notin banned /\ ~flagged), ~(a \in banned /\ flagged),
           UNCHANGED <<groups, banned, following, edits, faults>>
    PROVE  IInv'
<1> DEFINE row == [accounts[a] EXCEPT !.active = active, !.flagged = flagged]
<1>1. accounts[a] \in Row /\ ~accounts[a].deleted /\ a \in DOMAIN accounts
    BY ExistingRow
<1>2. row \in Row /\ ~row.deleted /\ row.active = active /\ row.flagged = flagged
      /\ row.group = accounts[a].group /\ row.vals = accounts[a].vals
    BY <1>1 DEF Row
<1>3. Replaced(a, row)
    BY <1>1, <1>2 DEF Replaced, IInv, Shape
<1>4. Existing' = Existing
    BY <1>1, <1>2, <1>3, Replacing
<1>5. StandingOf(row, a \in banned')
    BY <1>2 DEF StandingOf
<1>6. \A f \in Fields : <<a, f>> \in following' => Follows(row, f, groups)
    BY <1>2, ExistingRow DEF Follows
<1>7. following' \subseteq Existing' \X Fields
    BY <1>4 DEF IInv, Shape
<1>8. edits' \in 0..MaxEdits /\ faults' \in 0..MaxFaults
    BY DEF IInv, TypeOK
<1> HIDE DEF row
<1> QED
    BY <1>2, <1>3, <1>5, <1>6, <1>7, <1>8, ReplacingKeeps

LEMMA LoginVerifiedKeeps ==
    ASSUME IInv, NEW a \in Accounts, LoginVerified(a)
    PROVE  IInv'
<1>1. a \in Existing /\ accounts[a].flagged
    BY DEF LoginVerified, Recovers
<1>2. a \notin banned
    BY <1>1, ExistingRow DEF StandingOf
<1>3. accounts' = [accounts EXCEPT ![a] = [@ EXCEPT !.active = TRUE, !.flagged = FALSE]]
    BY DEF LoginVerified
<1> QED
    BY <1>1, <1>2, <1>3, StandingKeeps DEF LoginVerified

LEMMA LoginRejectedKeeps ==
    ASSUME IInv, NEW a \in Accounts, LoginRejected(a)
    PROVE  IInv'
<1>1. a \in Existing /\ accounts[a].active
    BY DEF LoginRejected
<1>2. a \notin banned
    BY <1>1, ExistingRow DEF StandingOf
<1>3. accounts' = [accounts EXCEPT ![a] = [@ EXCEPT !.active = FALSE, !.flagged = TRUE]]
    BY DEF LoginRejected
<1> QED
    BY <1>1, <1>2, <1>3, StandingKeeps DEF LoginRejected

-------------------------------------------------------------------------------
\* Settings of one account.

LEMMA SettingKeeps ==
    ASSUME IInv, NEW a \in Existing, NEW f \in Fields, NEW v \in Values,
           accounts' = [accounts EXCEPT ![a] = [@ EXCEPT !.vals = [accounts[a].vals EXCEPT ![f] = v]]],
           following' = IF v = accounts[a].vals[f] THEN following ELSE following \ {<<a, f>>},
           edits' \in 0..MaxEdits,
           UNCHANGED <<groups, banned, faults>>
    PROVE  IInv'
<1> DEFINE row == [accounts[a] EXCEPT !.vals = [accounts[a].vals EXCEPT ![f] = v]]
<1>1. accounts[a] \in Row /\ ~accounts[a].deleted /\ a \in DOMAIN accounts
    BY ExistingRow
<1>2. /\ row \in Row /\ ~row.deleted /\ row.active = accounts[a].active /\ row.flagged = accounts[a].flagged
      /\ row.group = accounts[a].group
      /\ \A x \in Fields : row.vals[x] = IF x = f THEN v ELSE accounts[a].vals[x]
    BY <1>1 DEF Row
<1>3. Replaced(a, row)
    BY <1>1, <1>2 DEF Replaced, IInv, Shape
<1>4. Existing' = Existing
    BY <1>1, <1>2, <1>3, Replacing
<1>5. StandingOf(row, a \in banned')
    BY <1>2, ExistingRow DEF StandingOf
<1>6. \A x \in Fields : <<a, x>> \in following' => Follows(row, x, groups)
  <2> SUFFICES ASSUME NEW x \in Fields, <<a, x>> \in following'
               PROVE  Follows(row, x, groups)
      OBVIOUS
  <2>1. <<a, x>> \in following /\ (x = f => v = accounts[a].vals[f])
      OBVIOUS
  <2>2. Follows(accounts[a], x, groups)
      BY <2>1, ExistingRow
  <2> QED
      BY <1>2, <2>1, <2>2 DEF Follows
<1>7. following' \subseteq Existing' \X Fields
    BY <1>4 DEF IInv, Shape
<1>8. faults' \in 0..MaxFaults
    BY DEF IInv, TypeOK
<1>9. \A p \in following' : p \in following
    OBVIOUS
<1> HIDE DEF row
<1> QED
    BY <1>2, <1>3, <1>5, <1>6, <1>7, <1>8, <1>9, ReplacingKeeps

\* Another edit, another handler that was cut short.
LEMMA Counting ==
    ASSUME IInv
    PROVE  /\ Edit => edits' \in 0..MaxEdits
           /\ Cut \/ Whole => faults' \in 0..MaxFaults
BY UserAdministrationAssumption DEF IInv, TypeOK, Edit, Cut, Whole

LEMMA ChoosePolicyKeeps ==
    ASSUME IInv, NEW a \in Accounts, NEW v \in Values, ChoosePolicy(a, v)
    PROVE  IInv'
<1>1. a \in Existing /\ "columns" \in Fields
    BY DEF ChoosePolicy, Fields
<1>2. accounts' = [accounts EXCEPT ![a] = [@ EXCEPT !.vals = [accounts[a].vals EXCEPT !["columns"] = v]]]
    BY DEF ChoosePolicy
<1>3. edits' \in 0..MaxEdits
    BY DEF ChoosePolicy, IInv, TypeOK
<1> QED
    BY <1>1, <1>2, <1>3, SettingKeeps DEF ChoosePolicy

LEMMA ChangeRulesKeeps ==
    ASSUME IInv, NEW a \in Accounts, NEW v \in Values, ChangeRules(a, v)
    PROVE  IInv'
<1>1. a \in Existing /\ "rules" \in Fields
    BY DEF ChangeRules, Fields
<1>2. accounts' = [accounts EXCEPT ![a] = [@ EXCEPT !.vals = [accounts[a].vals EXCEPT !["rules"] = v]]]
    BY DEF ChangeRules
<1>3. edits' \in 0..MaxEdits
    BY Counting DEF ChangeRules
<1> QED
    BY <1>1, <1>2, <1>3, SettingKeeps DEF ChangeRules

\* A request an administrator may send: of the API's bound, or the one a saved page makes.
LEMMA TargetGroup ==
    ASSUME IInv, NEW a \in Existing, NEW req \in AllRequests, Acceptable(a, req)
    PROVE  /\ Target(a, req) \in Groups \cup {NoGroup}
           /\ req.apply => Target(a, req) \in Groups
BY ExistingRow, UserAdministrationAssumption DEF Target, Acceptable, AllRequests, GroupOf, Row

LEMMA WantedValues ==
    ASSUME IInv, NEW a \in Existing, NEW req \in AllRequests, Acceptable(a, req)
    PROVE  Wanted(a, req) \in [Fields -> Values]
<1>1. PICK S \in SUBSET {"columns", "quota"} : req.given \in [S -> Values]
    BY DEF AllRequests, Given
<1>2. req.apply => \A f \in Fields : groups[Target(a, req)].vals[f] \in Values
    BY TargetGroup, GroupValues
<1>3. \A f \in Fields : accounts[a].vals[f] \in Values
    BY ExistingRow DEF Row
<1> QED
    BY <1>1, <1>2, <1>3 DEF Wanted

LEMMA SavedRowIs ==
    ASSUME IInv, NEW a \in Existing, NEW req \in AllRequests, Acceptable(a, req), NEW done
    PROVE  LET row == SavedRow(a, req, done) IN
           /\ row \in Row /\ ~row.deleted
           /\ row.group = Target(a, req)
           /\ \A f \in Fields : row.vals[f] = IF f \in done THEN Wanted(a, req)[f] ELSE accounts[a].vals[f]
           /\ req.active = "keep" => row.active = accounts[a].active /\ row.flagged = accounts[a].flagged
           /\ req.active # "keep" => row.active = (req.active = "on") /\ ~row.flagged
<1>1. accounts[a] \in Row /\ ~accounts[a].deleted
    BY ExistingRow
<1>2. Target(a, req) \in Groups \cup {NoGroup} /\ Wanted(a, req) \in [Fields -> Values]
    BY TargetGroup, WantedValues
<1> DEFINE base == IF req.active = "keep" THEN accounts[a] ELSE Patched(accounts[a], req.active)
           vals == [f \in Fields |-> IF f \in done THEN Wanted(a, req)[f] ELSE base.vals[f]]
<1>3. /\ base \in Row /\ ~base.deleted /\ base.vals = accounts[a].vals
      /\ req.active = "keep" => base = accounts[a]
      /\ req.active # "keep" => base.active = (req.active = "on") /\ ~base.flagged
    BY <1>1 DEF Patched, Row
<1> HIDE DEF base
<1>4. vals \in [Fields -> Values]
    BY <1>2, <1>3 DEF Row
<1>5. SavedRow(a, req, done) = [base EXCEPT !.group = Target(a, req), !.vals = vals]
    BY <1>3 DEF SavedRow, base
<1>6. \A f \in Fields : vals[f] = IF f \in done THEN Wanted(a, req)[f] ELSE accounts[a].vals[f]
    BY <1>3
<1> HIDE DEF vals
<1> QED
    BY <1>2, <1>3, <1>4, <1>5, <1>6 DEF Row

LEMMA SavedKeeps ==
    ASSUME IInv, NEW a \in Existing, NEW req \in AllRequests, Acceptable(a, req),
           NEW done \in SUBSET Fields, Saved(a, req, done),
           banned' = CASE req.active = "keep" -> banned
                       [] req.active = "off" -> banned \cup {a}
                       [] req.active = "on" -> banned \ {a},
           UNCHANGED groups, edits' \in 0..MaxEdits, faults' \in 0..MaxFaults
    PROVE  IInv'
<1> DEFINE row == SavedRow(a, req, done)
<1>1. a \in DOMAIN accounts /\ a \in Accounts /\ ~accounts[a].deleted
    BY ExistingRow
<1>2. /\ row \in Row /\ ~row.deleted /\ row.group = Target(a, req)
      /\ \A f \in Fields : row.vals[f] = IF f \in done THEN Wanted(a, req)[f] ELSE accounts[a].vals[f]
      /\ req.active = "keep" => row.active = accounts[a].active /\ row.flagged = accounts[a].flagged
      /\ req.active # "keep" => row.active = (req.active = "on") /\ ~row.flagged
    BY SavedRowIs
<1>3. accounts' = [accounts EXCEPT ![a] = row] /\ following' = FollowingAfter(a, req, row, done)
    BY DEF Saved
<1> HIDE DEF row
<1>4. Replaced(a, row)
    BY <1>1, <1>2, <1>3 DEF Replaced, IInv, Shape
<1>5. Existing' = Existing
    BY <1>1, <1>2, <1>4, Replacing
<1>6. req.active \in {"keep", "on", "off"}
    BY DEF AllRequests
<1>7. banned' \ {a} = banned \ {a}
    BY <1>6
<1>8. StandingOf(row, a \in banned')
  <2>1. StandingOf(accounts[a], a \in banned)
      BY ExistingRow
  <2>2. CASE req.active = "keep"
      BY <1>1, <1>2, <2>1, <2>2 DEF StandingOf
  <2>3. CASE req.active = "on"
      BY <1>2, <2>3 DEF StandingOf
  <2>4. CASE req.active = "off"
      BY <1>2, <2>4 DEF StandingOf
  <2> QED
      BY <1>6, <2>2, <2>3, <2>4
<1>9. following' \subseteq Existing' \X Fields
  <2>1. following \subseteq Existing \X Fields
      BY DEF IInv, Shape
  <2> QED
      BY <1>3, <1>5, <2>1 DEF FollowingAfter
<1>10. \A p \in following' : p[1] # a => p \in following
    BY <1>3 DEF FollowingAfter
<1>11. \A f \in Fields : <<a, f>> \in following' => Follows(row, f, groups)
  <2> SUFFICES ASSUME NEW f \in Fields, <<a, f>> \in following'
               PROVE  Follows(row, f, groups)
      OBVIOUS
  <2>1. CASE /\ <<a, f>> \in following
             /\ row.group = GroupOf(a) /\ row.vals[f] = accounts[a].vals[f]
    <3>1. Follows(accounts[a], f, groups)
        BY <2>1, ExistingRow
    <3> QED
        BY <2>1, <3>1 DEF Follows, GroupOf
  <2>2. CASE req.apply /\ row.vals[f] = groups[row.group].vals[f]
    <3>1. row.group \in Groups
        BY <1>2, <2>2, TargetGroup
    <3> QED
        BY <2>2, <3>1, UserAdministrationAssumption DEF Follows
  <2> QED
      BY <1>3, <2>1, <2>2 DEF FollowingAfter
<1> QED
    BY <1>2, <1>4, <1>7, <1>8, <1>9, <1>10, <1>11, ReplacingKeeps

LEMMA SaveKeeps ==
    ASSUME IInv, NEW a \in Existing, NEW req \in AllRequests, Save(a, req), UNCHANGED groups
    PROVE  IInv'
<1>1. edits' \in 0..MaxEdits /\ faults' \in 0..MaxFaults
    BY Counting DEF Save
<1>2. PICK done \in SUBSET Fields : Saved(a, req, done)
    BY DEF Save, Fields
<1> QED
    BY <1>1, <1>2, SavedKeeps DEF Save

LEMMA SavePageKeeps ==
    ASSUME IInv, NEW given \in [{"columns", "quota"} -> Values], NEW box \in {"on", "off"},
           NEW hard \in BOOLEAN, NEW apply \in BOOLEAN, NEW g \in Groups \cup {NoGroup},
           SavePage(given, box, hard, g, apply)
    PROVE  IInv'
<1> DEFINE a == page.user
           req == [given |-> IF apply THEN <<>> ELSE given,
                   active |-> IF (box = "on") # accounts[a].active THEN box
                              ELSE IF box = "off" /\ hard THEN "off" ELSE "keep",
                   group |-> IF apply \/ g # GroupOf(a) THEN g ELSE "keep",
                   apply |-> apply]
<1>1. a \in Existing /\ Save(a, req) /\ UNCHANGED groups
    BY DEF SavePage
<1>2. req.given \in Given
  <2>1. <<>> \in [{} -> Values]
      OBVIOUS
  <2>2. {} \in SUBSET {"columns", "quota"} /\ {"columns", "quota"} \in SUBSET {"columns", "quota"}
      OBVIOUS
  <2>3. <<>> \in Given /\ given \in Given
      BY <2>1, <2>2 DEF Given
  <2> QED
      BY <2>3
<1>3. req \in AllRequests
    BY <1>2 DEF AllRequests
<1> QED
    BY <1>1, <1>3, SaveKeeps

LEMMA DeleteUserKeeps ==
    ASSUME IInv, NEW a \in Accounts, DeleteUser(a)
    PROVE  IInv'
<1> DEFINE row == [accounts[a] EXCEPT !.active = FALSE, !.deleted = TRUE]
<1>1. a \in Existing /\ a \in DOMAIN accounts /\ accounts[a] \in Row
    BY ExistingRow DEF DeleteUser
<1>2. row \in Row /\ row.deleted /\ ~row.active
    BY <1>1 DEF Row
<1>3. Replaced(a, row)
    BY <1>1, <1>2 DEF DeleteUser, Replaced, IInv, Shape
<1> HIDE DEF row
<1>4. Existing' = Existing \ {a}
    BY <1>1, <1>2, <1>3, Replacing
<1>5. following' \subseteq Existing' \X Fields
    BY <1>4 DEF DeleteUser, IInv, Shape
<1>6. edits' \in 0..MaxEdits /\ faults' \in 0..MaxFaults
    BY DEF DeleteUser, IInv, TypeOK
<1>7. /\ banned' \ {a} = banned \ {a}
      /\ \A p \in following' : p \in following /\ p[1] # a
    BY DEF DeleteUser
<1>8. StandingOf(row, a \in banned') /\ \A f \in Fields : <<a, f>> \notin following'
    BY <1>2, <1>7 DEF StandingOf
<1> QED
    BY <1>1, <1>2, <1>3, <1>5, <1>6, <1>7, <1>8, ReplacingKeeps DEF DeleteUser

\* What the invariant reads stays as it is.
LEMMA PagesKeep ==
    ASSUME IInv, UNCHANGED <<groups, accounts, banned, following, edits, faults>>
    PROVE  IInv'
BY DEF IInv, TypeOK, Shape, Existing, StandingExact, FollowersFollow, GroupOf

-------------------------------------------------------------------------------
\* Settings of the members of a group.

LEMMA WrittenRows ==
    ASSUME IInv, NEW new \in [Fields -> Values], NEW pairs, accounts' = Written(pairs, new)
    PROVE  /\ accounts' \in [DOMAIN accounts -> Row]
           /\ \A x \in DOMAIN accounts :
                /\ accounts'[x].active = accounts[x].active /\ accounts'[x].flagged = accounts[x].flagged
                /\ accounts'[x].deleted = accounts[x].deleted /\ accounts'[x].group = accounts[x].group
                /\ \A f \in Fields :
                    accounts'[x].vals[f] = IF <<x, f>> \in pairs THEN new[f] ELSE accounts[x].vals[f]
                /\ (\A f \in Fields : <<x, f>> \notin pairs) => accounts'[x] = accounts[x]
           /\ Existing' = Existing
<1> DEFINE Vals(x) == [f \in Fields |-> IF <<x, f>> \in pairs THEN new[f] ELSE accounts[x].vals[f]]
<1>1. \A x \in DOMAIN accounts : accounts[x] \in Row
    BY DEF IInv, Shape
<1>2. \A x \in DOMAIN accounts : Vals(x) \in [Fields -> Values]
    BY <1>1 DEF Row
<1>3. \A x \in DOMAIN accounts : \A f \in Fields :
        Vals(x)[f] = IF <<x, f>> \in pairs THEN new[f] ELSE accounts[x].vals[f]
    OBVIOUS
<1>4. \A x \in DOMAIN accounts : (\A f \in Fields : <<x, f>> \notin pairs) => Vals(x) = accounts[x].vals
  <2> SUFFICES ASSUME NEW x \in DOMAIN accounts, \A f \in Fields : <<x, f>> \notin pairs
               PROVE  Vals(x) = accounts[x].vals
      OBVIOUS
  <2>1. accounts[x].vals \in [Fields -> Values] /\ Vals(x) \in [Fields -> Values]
      BY <1>1, <1>2 DEF Row
  <2>2. \A f \in Fields : Vals(x)[f] = accounts[x].vals[f]
      OBVIOUS
  <2> HIDE DEF Vals
  <2> QED
      BY <2>1, <2>2
<1>5. accounts' = [x \in DOMAIN accounts |-> [accounts[x] EXCEPT !.vals = Vals(x)]]
    BY DEF Written
<1> HIDE DEF Vals
<1>6. \A x \in DOMAIN accounts :
        /\ accounts'[x] \in Row /\ accounts'[x].vals = Vals(x)
        /\ accounts'[x].active = accounts[x].active /\ accounts'[x].flagged = accounts[x].flagged
        /\ accounts'[x].deleted = accounts[x].deleted /\ accounts'[x].group = accounts[x].group
        /\ Vals(x) = accounts[x].vals => accounts'[x] = accounts[x]
    BY <1>1, <1>2, <1>5 DEF Row
<1>7. accounts' \in [DOMAIN accounts -> Row]
    BY <1>5, <1>6
<1>8. Existing' = Existing
    BY <1>6, <1>7 DEF Existing
<1> QED
    BY <1>3, <1>4, <1>6, <1>7, <1>8

LEMMA WrittenKeeps ==
    ASSUME IInv, NEW new \in [Fields -> Values], NEW pairs, accounts' = Written(pairs, new),
           groups' \in [Groups -> [on : BOOLEAN, vals : [Fields -> Values]]],
           UNCHANGED banned, edits' \in 0..MaxEdits, faults' \in 0..MaxFaults,
           following' \subseteq Existing \X Fields,
           \A x \in Existing, f \in Fields : <<x, f>> \in following' => Follows(accounts'[x], f, groups')
    PROVE  IInv'
<1>1. accounts' \in [DOMAIN accounts -> Row] /\ DOMAIN accounts' = DOMAIN accounts /\ Existing' = Existing
    BY WrittenRows
<1>2. \A x \in DOMAIN accounts :
        /\ accounts'[x].active = accounts[x].active /\ accounts'[x].flagged = accounts[x].flagged
        /\ accounts'[x].deleted = accounts[x].deleted
    BY WrittenRows
<1>3. TypeOK'
  <2>1. Existing \subseteq Accounts
      BY DEF Existing, IInv, TypeOK
  <2>2. \A x \in DOMAIN accounts' : accounts'[x] \in Row
      BY <1>1
  <2> QED
      BY <1>1, <2>1, <2>2 DEF IInv, TypeOK, Row
<1>4. Shape'
    BY <1>1 DEF IInv, Shape
<1>5. StandingExact'
    BY <1>1, <1>2 DEF IInv, StandingExact
<1>6. FollowersFollow'
    BY <1>1 DEF FollowersFollow, Follows, GroupOf
<1> QED
    BY <1>3, <1>4, <1>5, <1>6 DEF IInv

LEMMA SyncMembersKeeps ==
    ASSUME IInv, NEW g \in Groups, NEW fields \in SUBSET Fields, SyncMembers(g, fields)
    PROVE  IInv'
<1>1. groups[g].vals \in [Fields -> Values]
    BY GroupValues
<1>2. PICK pairs \in MemberCuts(MembersOf(g) \X fields) :
        /\ accounts' = Written(pairs, groups[g].vals)
        /\ Cut \/ Whole
        /\ following' = following \cup pairs
    BY DEF SyncMembers
<1>3. pairs \subseteq MembersOf(g) \X Fields
    BY <1>2 DEF MemberCuts
<1>4. MembersOf(g) \subseteq Existing /\ following \subseteq Existing \X Fields
    BY DEF MembersOf, IInv, Shape
<1>5. following' \subseteq Existing \X Fields
    BY <1>2, <1>3, <1>4
<1>6. edits' \in 0..MaxEdits /\ faults' \in 0..MaxFaults
    BY <1>2, Counting DEF SyncMembers
<1>7. \A x \in Existing, f \in Fields : <<x, f>> \in following' => Follows(accounts'[x], f, groups)
  <2> SUFFICES ASSUME NEW x \in Existing, NEW f \in Fields, <<x, f>> \in following'
               PROVE  Follows(accounts'[x], f, groups)
      OBVIOUS
  <2>1. /\ x \in DOMAIN accounts /\ accounts'[x].group = accounts[x].group
        /\ accounts'[x].vals[f] = IF <<x, f>> \in pairs THEN groups[g].vals[f] ELSE accounts[x].vals[f]
      BY <1>1, <1>2, WrittenRows DEF Existing
  <2>2. CASE <<x, f>> \in pairs
    <3>1. accounts[x].group = g
        BY <1>3, <2>2 DEF MembersOf
    <3> QED
        BY <2>1, <2>2, <3>1, UserAdministrationAssumption DEF Follows
  <2>3. CASE <<x, f>> \notin pairs
    <3>1. Follows(accounts[x], f, groups)
        BY <1>2, <2>3, ExistingRow
    <3> QED
        BY <2>1, <2>3, <3>1 DEF Follows
  <2> QED
      BY <2>2, <2>3
<1>8. groups' = groups /\ banned' = banned
    BY DEF SyncMembers
<1> QED
    BY <1>1, <1>2, <1>5, <1>6, <1>7, <1>8, WrittenKeeps DEF IInv, TypeOK

\* Only a group's switch changes.
LEMMA DisableGroupKeeps ==
    ASSUME IInv, NEW g \in Groups, DisableGroup(g)
    PROVE  IInv'
<1>1. groups' \in [Groups -> [on : BOOLEAN, vals : [Fields -> Values]]]
      /\ \A h \in Groups : groups'[h].vals = groups[h].vals
  <2> DEFINE row == [groups[g] EXCEPT !.on = FALSE]
  <2>1. groups \in [Groups -> [on : BOOLEAN, vals : [Fields -> Values]]]
      BY DEF IInv, TypeOK
  <2>2. row \in [on : BOOLEAN, vals : [Fields -> Values]] /\ row.vals = groups[g].vals
      BY <2>1
  <2>3. groups' = [groups EXCEPT ![g] = row]
      BY DEF DisableGroup
  <2> HIDE DEF row
  <2> QED
      BY <2>1, <2>2, <2>3
<1>2. TypeOK' /\ Shape' /\ StandingExact'
  <2>1. TypeOK'
      BY <1>1 DEF DisableGroup, IInv, TypeOK
  <2>2. Shape' /\ StandingExact'
      BY DEF DisableGroup, IInv, Shape, Existing, StandingExact
  <2> QED
      BY <2>1, <2>2
<1>3. \A x \in Existing : accounts[x].group \in Groups \cup {NoGroup}
    BY ExistingRow DEF Row
<1>4. FollowersFollow'
    BY <1>1, <1>3 DEF DisableGroup, IInv, FollowersFollow, GroupOf, Existing
<1> QED
    BY <1>2, <1>4 DEF IInv

LEMMA MergedValues ==
    ASSUME IInv, NEW g \in Groups, NEW req \in GroupRequests
    PROVE  Merged(g, req.given) \in [Fields -> Values] /\ req.on \in BOOLEAN
           /\ req.scope \in {"unmodified", "all", "none"}
<1>1. /\ req.given \in UNION {[S -> Values] : S \in SUBSET Fields} /\ req.on \in BOOLEAN
      /\ req.scope \in {"unmodified", "all", "none"}
    BY UserAdministrationAssumption DEF AllGroupRequests
<1>2. PICK S \in SUBSET Fields : req.given \in [S -> Values]
    BY <1>1
<1>3. \A f \in Fields : groups[g].vals[f] \in Values
    BY GroupValues
<1> QED
    BY <1>1, <1>2, <1>3 DEF Merged

LEMMA SavedGroupRows ==
    ASSUME IInv, NEW g \in Groups, NEW req \in GroupRequests, NEW template, NEW pairs,
           SavedGroup(g, req, template, pairs)
    PROVE  /\ groups' \in [Groups -> [on : BOOLEAN, vals : [Fields -> Values]]]
           /\ \A h \in Groups : h # g => groups'[h] = groups[h]
           /\ \A f \in Fields : groups'[g].vals[f] =
                IF f \in template THEN Merged(g, req.given)[f] ELSE groups[g].vals[f]
           /\ accounts' = Written(pairs, Merged(g, req.given))
<1> DEFINE vals == [f \in Fields |-> IF f \in template THEN Merged(g, req.given)[f] ELSE groups[g].vals[f]]
<1>1. groups \in [Groups -> [on : BOOLEAN, vals : [Fields -> Values]]]
    BY DEF IInv, TypeOK
<1>2. vals \in [Fields -> Values]
    BY <1>1, MergedValues
<1>3. \A f \in Fields : vals[f] = IF f \in template THEN Merged(g, req.given)[f] ELSE groups[g].vals[f]
    OBVIOUS
<1>4. groups' = [groups EXCEPT ![g] = [on |-> req.on, vals |-> vals]]
    BY DEF SavedGroup
<1>5. accounts' = Written(pairs, Merged(g, req.given))
    BY DEF SavedGroup
<1> HIDE DEF vals
<1> QED
    BY <1>1, <1>2, <1>3, <1>4, <1>5, MergedValues

\* A member that follows and whose setting changes is among those the change is passed on to.
LEMMA FollowersSelected ==
    ASSUME IInv, NEW g \in Groups, NEW new, NEW scope \in {"unmodified", "all"},
           NEW x \in MembersOf(g), NEW f \in Fields,
           new[f] # groups[g].vals[f], <<x, f>> \in following
    PROVE  <<x, f>> \in Selected(g, new, scope)
<1>1. x \in Existing /\ accounts[x].group = g
    BY DEF MembersOf
<1>2. accounts[x].vals[f] = groups[g].vals[f]
    BY <1>1, ExistingRow DEF Follows
<1> QED
    BY <1>2 DEF Selected

LEMMA PatchGroupKeeps ==
    ASSUME IInv, NEW g \in Groups, NEW req \in GroupRequests, PatchGroup(g, req)
    PROVE  IInv'
<1> DEFINE new == Merged(g, req.given)
           selected == Selected(g, new, req.scope)
           saved == FollowingSaved(g, req, selected)
<1>1. new \in [Fields -> Values] /\ req.scope \in {"unmodified", "all", "none"}
    BY MergedValues
<1>2. PICK template, pairs :
        /\ SavedGroup(g, req, template, pairs) /\ pairs \subseteq selected
        /\ \/ template = Fields /\ pairs = selected /\ following' = saved
           \/ following' = {p \in saved : p[1] \in MembersOf(g) =>
                                accounts'[p[1]].vals[p[2]] = groups'[g].vals[p[2]]}
        /\ Cut \/ Whole
    BY DEF PatchGroup, MemberCuts
<1>3. selected \subseteq MembersOf(g) \X Fields
    BY DEF Selected
<1>4. MembersOf(g) \subseteq Existing /\ following \subseteq Existing \X Fields
    BY DEF MembersOf, IInv, Shape
<1>5. saved \subseteq following \cup selected /\ saved \subseteq Existing \X Fields
    BY <1>3, <1>4 DEF FollowingSaved
<1>6. edits' \in 0..MaxEdits /\ faults' \in 0..MaxFaults
    BY <1>2, Counting DEF PatchGroup
<1>7. /\ groups' \in [Groups -> [on : BOOLEAN, vals : [Fields -> Values]]]
      /\ \A h \in Groups : h # g => groups'[h] = groups[h]
      /\ \A f \in Fields : groups'[g].vals[f] = IF f \in template THEN new[f] ELSE groups[g].vals[f]
      /\ accounts' = Written(pairs, new)
    BY <1>2, SavedGroupRows
<1>8. \A x \in Existing, f \in Fields : <<x, f>> \in following' => Follows(accounts'[x], f, groups')
  <2> SUFFICES ASSUME NEW x \in Existing, NEW f \in Fields, <<x, f>> \in following'
               PROVE  Follows(accounts'[x], f, groups')
      OBVIOUS
  <2>1. /\ x \in DOMAIN accounts /\ accounts'[x].group = accounts[x].group
        /\ accounts'[x].vals[f] = IF <<x, f>> \in pairs THEN new[f] ELSE accounts[x].vals[f]
      BY <1>1, <1>7, WrittenRows DEF Existing
  <2>2. <<x, f>> \in saved
      BY <1>2
  <2>3. accounts[x].group \in Groups \cup {NoGroup}
      BY ExistingRow DEF Row
  <2>4. <<x, f>> \in following => Follows(accounts[x], f, groups)
      BY ExistingRow
  <2>5. CASE x \notin MembersOf(g)
    <3>1. accounts[x].group # g
        BY <2>5 DEF MembersOf
    <3>2. <<x, f>> \in following /\ <<x, f>> \notin pairs
        BY <1>2, <1>3, <1>5, <2>2, <2>5
    <3> QED
        BY <1>7, <2>1, <2>3, <2>4, <3>1, <3>2 DEF Follows
  <2>6. CASE x \in MembersOf(g)
    <3>1. accounts[x].group = g /\ g # NoGroup
        BY <2>6, UserAdministrationAssumption DEF MembersOf
    <3>2. SUFFICES accounts'[x].vals[f] = groups'[g].vals[f]
        BY <2>1, <3>1 DEF Follows
    <3>3. CASE template = Fields /\ pairs = selected
      <4>1. groups'[g].vals[f] = new[f]
          BY <1>7, <3>3
      <4>2. CASE <<x, f>> \in selected
          BY <2>1, <3>3, <4>1, <4>2
      <4>3. CASE <<x, f>> \notin selected
        <5>1. <<x, f>> \in following
            BY <1>5, <2>2, <4>3
        <5>2. accounts'[x].vals[f] = groups[g].vals[f]
            BY <2>1, <2>4, <3>1, <3>3, <4>3, <5>1 DEF Follows
        <5>3. CASE req.scope = "none"
            BY <2>2, <2>6, <4>1, <5>2, <5>3 DEF FollowingSaved
        <5>4. CASE req.scope # "none"
            BY <1>1, <2>6, <4>1, <4>3, <5>1, <5>2, <5>4, FollowersSelected
        <5> QED
            BY <5>3, <5>4
      <4> QED
          BY <4>2, <4>3
    <3>4. CASE following' = {p \in saved : p[1] \in MembersOf(g) =>
                                accounts'[p[1]].vals[p[2]] = groups'[g].vals[p[2]]}
        BY <2>6, <3>4
    <3> QED
        BY <1>2, <3>3, <3>4
  <2> QED
      BY <2>5, <2>6
<1>9. following' \subseteq Existing \X Fields
    BY <1>2, <1>5
<1>10. banned' = banned
    BY DEF PatchGroup
<1> QED
    BY <1>1, <1>6, <1>7, <1>8, <1>9, <1>10, WrittenKeeps

-------------------------------------------------------------------------------
LEMMA StepKeeps == IInv /\ [Next]_vars => IInv'
<1> SUFFICES ASSUME IInv, [Next]_vars PROVE IInv'
    OBVIOUS
<1>1. ASSUME NEW a \in Accounts, NEW g \in Groups \cup {NoGroup}, NEW req \in Requests, NEW none \in Values,
             CreateUser(a, g, req.given, none)
      PROVE  IInv'
    BY <1>1, CreateUserKeeps
<1>2. ASSUME NEW a \in Accounts, Register(a) \/ LoginVerified(a) \/ LoginRejected(a) \/ DeleteUser(a)
      PROVE  IInv'
    BY <1>2, RegisterKeeps, LoginVerifiedKeeps, LoginRejectedKeeps, DeleteUserKeeps
<1>3. ASSUME NEW a \in Accounts, NEW v \in Values, ChoosePolicy(a, v) \/ ChangeRules(a, v)
      PROVE  IInv'
    BY <1>3, ChoosePolicyKeeps, ChangeRulesKeeps
<1>4. ASSUME NEW a \in Accounts, NEW req \in Requests, PatchUser(a, req)
      PROVE  IInv'
    BY <1>4, SaveKeeps, UserAdministrationAssumption DEF PatchUser
<1>5. (\E a \in Accounts : OpenPage(a)) \/ ClosePage \/ UNCHANGED vars => IInv'
    BY PagesKeep DEF OpenPage, ClosePage, vars
<1>6. ASSUME NEW given \in [{"columns", "quota"} -> Values], NEW box \in {"on", "off"},
             NEW hard \in BOOLEAN, NEW apply \in BOOLEAN, NEW g \in Groups \cup {NoGroup},
             SavePage(given, box, hard, g, apply)
      PROVE  IInv'
    BY <1>6, SavePageKeeps
<1>7. ASSUME NEW g \in Groups,
             (\E req \in GroupRequests : PatchGroup(g, req)) \/ DisableGroup(g)
                \/ \E fields \in SUBSET Fields : SyncMembers(g, fields)
      PROVE  IInv'
    BY <1>7, PatchGroupKeeps, DisableGroupKeeps, SyncMembersKeeps
<1> QED
    BY <1>1, <1>2, <1>3, <1>4, <1>5, <1>6, <1>7 DEF Next

LEMMA Invariant == Spec => []IInv
BY InitKeeps, StepKeeps, PTL DEF Spec

\* The tables of accounts and groups stay well formed under every request, login and cut
\* (users/service.py, users/groups.py, self_service/accounts.py).
THEOREM TypeCorrect == Spec => []TypeOK
<1>1. IInv => TypeOK
    BY DEF IInv
<1> QED
    BY <1>1, Invariant, PTL

\* No order of logins, verifications, bans and saved pages lets a banned account back in or
\* locks an account out that nobody banned (users/service.py update_user,
\* self_service/accounts.py login_or_register_discord_user and disable_linked_discord_user).
THEOREM StandingIsExact == Spec => []StandingExact
<1>1. IInv => StandingExact
    BY DEF IInv
<1> QED
    BY <1>1, Invariant, PTL

\* A setting taken over from a group follows every change of the group that is passed on
\* (users/groups.py update_group_with_propagation and sync_group_members).
THEOREM FollowersDoFollow == Spec => []FollowersFollow
<1>1. IInv => FollowersFollow
    BY DEF IInv
<1> QED
    BY <1>1, Invariant, PTL

-------------------------------------------------------------------------------
\* A step changes no row but those of existing accounts.
LEMMA DeletedStay ==
    ASSUME IInv, [Next]_vars, NEW a \in DOMAIN accounts, accounts[a].deleted
    PROVE  accounts'[a] = accounts[a]
<1> DEFINE Still == accounts'[a] = accounts[a]
<1>1. a \notin Existing
    BY DEF Existing
<1>2. \A b \in Accounts : \A g, vals : b \notin DOMAIN accounts /\ NewAccount(b, g, vals) => Still
    BY DEF NewAccount
<1>3. \A b \in Existing : \A row : accounts' = [accounts EXCEPT ![b] = row] => Still
    BY <1>1 DEF IInv, Shape
<1>4. \A b \in Existing : \A req : Save(b, req) => Still
    BY <1>3 DEF Save, Saved
<1>5. \A new \in [Fields -> Values] : \A pairs :
        accounts' = Written(pairs, new) /\ (\A f \in Fields : <<a, f>> \notin pairs) => Still
    BY WrittenRows
<1>6. \A g : a \notin MembersOf(g)
    BY <1>1 DEF MembersOf
<1>7. ASSUME NEW b \in Accounts, NEW g \in Groups \cup {NoGroup}, NEW req \in Requests, NEW none \in Values,
             CreateUser(b, g, req.given, none)
      PROVE  Still
    BY <1>2, <1>7 DEF CreateUser
<1>8. ASSUME NEW b \in Accounts, Register(b) \/ LoginVerified(b) \/ LoginRejected(b) \/ DeleteUser(b)
      PROVE  Still
    BY <1>1, <1>2, <1>8 DEF Register, LoginVerified, LoginRejected, DeleteUser, IInv, Shape
<1>9. ASSUME NEW b \in Accounts, NEW v \in Values, ChoosePolicy(b, v) \/ ChangeRules(b, v)
      PROVE  Still
    BY <1>1, <1>9 DEF ChoosePolicy, ChangeRules, IInv, Shape
<1>10. ASSUME NEW b \in Accounts, NEW req \in Requests, PatchUser(b, req)
       PROVE  Still
    BY <1>4, <1>10 DEF PatchUser
<1>11. ASSUME NEW given, NEW box, NEW hard, NEW g, NEW apply, SavePage(given, box, hard, g, apply)
       PROVE  Still
    BY <1>4, <1>11 DEF SavePage
<1>12. ASSUME NEW g \in Groups, NEW req \in GroupRequests, PatchGroup(g, req)
       PROVE  Still
  <2>1. PICK template, pairs :
            SavedGroup(g, req, template, pairs) /\ pairs \subseteq Selected(g, Merged(g, req.given), req.scope)
      BY <1>12 DEF PatchGroup, MemberCuts
  <2>2. \A f \in Fields : <<a, f>> \notin pairs
      BY <1>6, <2>1 DEF Selected
  <2> QED
      BY <1>5, <2>1, <2>2, MergedValues, SavedGroupRows
<1>13. ASSUME NEW g \in Groups, NEW fields \in SUBSET Fields, SyncMembers(g, fields)
       PROVE  Still
  <2>1. PICK pairs \in MemberCuts(MembersOf(g) \X fields) : accounts' = Written(pairs, groups[g].vals)
      BY <1>13 DEF SyncMembers
  <2>2. \A f \in Fields : <<a, f>> \notin pairs
      BY <1>6, <2>1 DEF MemberCuts
  <2> QED
      BY <1>5, <2>1, <2>2, GroupValues
<1>14. (\E b \in Accounts : OpenPage(b)) \/ ClosePage \/ (\E g \in Groups : DisableGroup(g)) \/ UNCHANGED vars => Still
    BY DEF OpenPage, ClosePage, DisableGroup, vars
<1> HIDE DEF Still
<1>15. Still
    BY <1>7, <1>8, <1>9, <1>10, <1>11, <1>12, <1>13, <1>14 DEF Next
<1> QED
    BY <1>15 DEF Still

\* Whatever happens to its group, its Discord user or the pages open on it, a deleted account
\* stays as it was deleted (users/service.py delete_user, and every query's deleted_at IS NULL).
THEOREM DeletedAreFrozen == Spec => DeletedFrozen
<1>1. IInv /\ [Next]_vars => [\A a \in DOMAIN accounts : accounts[a].deleted => accounts'[a] = accounts[a]]_vars
    BY DeletedStay
<1> QED
    BY <1>1, Invariant, PTL DEF Spec, DeletedFrozen

===============================================================================
