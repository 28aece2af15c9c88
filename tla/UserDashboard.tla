--------------------------- MODULE UserDashboard ---------------------------
(***************************************************************************)
(* The dashboard an administrator edits one user in: twenty windows, a     *)
(* handler per button and per typed value.  A handler is a job: its awaits *)
(* end with those of the getter of the window it shows next.  What the     *)
(* administrator can press is what was drawn, so `shown` may be out of     *)
(* date when a button is pressed.                                          *)
(*                                                                         *)
(* The dialog library is external: it stores window and data once the      *)
(* getter has answered; a handler or getter that raises sends the          *)
(* administrator back to the main menu (middlewares/error.py).             *)
(***************************************************************************)
EXTENDS UserAccount, TLC

CONSTANTS
    Desks,              \* administrators at work, a subset of Jobs
    Actor, Target,      \* Actor[d] edits Target[d]
    Owner,              \* the administrator the configuration names
    Payers,             \* users with transactions
    PlanDays, PlanLimit,    \* the plan that can be given
    Values, Deltas, Sums, Rates,    \* bounds: limits, days, points, discounts on offer
    MaxEdits            \* bound: handlers that edit something

\* a handler works for one administrator on one user
ASSUME DeskAssumption ==
    /\ Actor \in [Desks -> Users] /\ Target \in [Desks -> Users]
    /\ PlanDays \in Nat /\ PlanLimit \in Nat /\ Values \subseteq Nat /\ Rates \subseteq Nat
    /\ Deltas \subseteq Int /\ Sums \subseteq Int

VARIABLES
    desk,       \* per desk: window, buttons drawn, dialog data
    allowed,    \* at billing: users with access to the restricted plan
    messages,   \* history: messages sent to the user
    edits

deskVars == <<desk, allowed, messages, edits>>

Rank == [USER |-> 1, ADMIN |-> 2, DEV |-> 3]

NeedSub == {"SUBSCRIPTION", "EXPIRE_TIME", "SQUADS", "INTERNAL_SQUADS", "EXTERNAL_SQUADS", "DEVICES_LIST"}

\* the cached reads of the getter of each window
MainGetter == [MAIN |-> <<"user", "sub">>]
SubscriptionGetter == [SUBSCRIPTION |-> <<"user", "sub">>]
DevicesGetter == [DEVICES_LIST |-> <<"user", "sub">>]
LimitGetters == [TRAFFIC_LIMIT |-> <<>>, DEVICE_LIMIT |-> <<>>]
SquadGetters == [SQUADS |-> <<"sub">>, INTERNAL_SQUADS |-> <<"sub">>, EXTERNAL_SQUADS |-> <<"sub">>]
ExpireGetter == [EXPIRE_TIME |-> <<"user", "sub">>]
UserGetters == [DISCOUNT |-> <<>>, POINTS |-> <<"user">>, MESSAGE |-> <<>>]
RoleGetter == [ROLE |-> <<"user">>]
SyncGetter == [SYNC |-> <<"user", "sub">>]
PlanGetters ==
    [GIVE_ACCESS |-> <<"user">>, GIVE_SUBSCRIPTION |-> <<"user">>, SUBSCRIPTION_DURATION |-> <<>>]
TransactionGetters == [TRANSACTIONS_LIST |-> <<>>, TRANSACTION |-> <<>>]
Getters ==
    {MainGetter, SubscriptionGetter, DevicesGetter, LimitGetters, SquadGetters, ExpireGetter,
     UserGetters, RoleGetter, SyncGetter, PlanGetters, TransactionGetters}
Windows == UNION {DOMAIN g : g \in Getters}
Getter == [w \in Windows |-> (CHOOSE g \in Getters : w \in DOMAIN g)[w]]
Render(w) == Getter[w] \o <<w>>

\* SwitchTo buttons: each window with the windows one press away
LimitSwitches == [TRAFFIC_LIMIT |-> {"SUBSCRIPTION"}, DEVICE_LIMIT |-> {"SUBSCRIPTION"}, EXPIRE_TIME |-> {"SUBSCRIPTION"}]
SquadSwitches ==
    [SQUADS |-> {"INTERNAL_SQUADS", "EXTERNAL_SQUADS", "SUBSCRIPTION"},
     INTERNAL_SQUADS |-> {"SQUADS"}, EXTERNAL_SQUADS |-> {"SQUADS"}]
DeviceSwitches == [DEVICES_LIST |-> {"SUBSCRIPTION"}]
SyncSwitches == [SYNC |-> {"MAIN"}]
PlanSwitches == [GIVE_SUBSCRIPTION |-> {"MAIN"}, SUBSCRIPTION_DURATION |-> {"GIVE_SUBSCRIPTION"}]
TransactionSwitches == [TRANSACTIONS_LIST |-> {"MAIN"}, TRANSACTION |-> {"TRANSACTIONS_LIST"}]
UserSwitches == [MESSAGE |-> {"MAIN"}, DISCOUNT |-> {"MAIN"}, POINTS |-> {"MAIN"}]
RightsSwitches == [GIVE_ACCESS |-> {"MAIN"}, ROLE |-> {"MAIN"}]
OtherSwitches ==
    LimitSwitches @@ SquadSwitches @@ DeviceSwitches @@ SyncSwitches @@ PlanSwitches
    @@ TransactionSwitches @@ UserSwitches @@ RightsSwitches
MainSwitches(shown) == {"MESSAGE", "DISCOUNT", "POINTS"} \cup (IF "staff" \in shown THEN {"ROLE"} ELSE {})
SubscriptionButtons(shown) ==
    {"EXPIRE_TIME", "MAIN"} \cup (IF "edit" \in shown THEN {"TRAFFIC_LIMIT", "DEVICE_LIMIT", "SQUADS"} ELSE {})
Switches(w, shown) ==
    CASE w = "MAIN" -> MainSwitches(shown)
      [] w = "SUBSCRIPTION" -> SubscriptionButtons(shown)
      [] OTHER -> OtherSwitches[w]

ClosedDesk == [win |-> "MENU", shown |-> {}, payload |-> FALSE, armed |-> {}]

----------------------------------------------------------------------------
(***************************************************************************)
(* Windows.                                                                *)
(***************************************************************************)

Pressing(d, w) == Idle(d) /\ desk[d].win = w

\* a handler is started; the getter it ends with is part of its awaits
Handle(d, ask, todo) ==
    /\ Begin(d, Target[d], ask, todo, <<"MENU">>)
    /\ UNCHANGED <<stores, caches, history, faults>>

Look(d, w, todo) ==
    /\ Pressing(d, w)
    /\ Handle(d, NoAsk, todo)
    /\ UNCHANGED deskVars

Change(d, w, ask, todo) ==
    /\ Pressing(d, w) /\ edits < MaxEdits
    /\ Handle(d, ask, todo)
    /\ edits' = edits + 1
    /\ UNCHANGED <<desk, allowed, messages>>

\* start_user_window: a new dialog, after a search in the list of users
Open(d) ==
    /\ Pressing(d, "MENU")
    /\ Handle(d, NoAsk, Render("MAIN"))
    /\ desk' = [desk EXCEPT ![d] = ClosedDesk]
    /\ UNCHANGED <<allowed, messages, edits>>

SwitchTo(d, w) ==
    /\ desk[d].win \in Windows /\ w \in Switches(desk[d].win, desk[d].shown)
    /\ Look(d, desk[d].win, Render(w))

\* which buttons the window draws
Staff(d, usr) ==
    Target[d] # Actor[d] /\ (Rank[usr.role] < Rank[person[Actor[d]].role] \/ Actor[d] = Owner)
MainShown(d, usr, s) ==
    (IF s # None THEN {"subscription"} ELSE {}) \cup (IF Staff(d, usr) THEN {"staff"} ELSE {})
SubscriptionShown(s) ==
    (IF GetStatus(s) # "EXPIRED" THEN {"edit"} ELSE {})
    \cup (IF GetStatus(s) \in {"ACTIVE", "DISABLED"} THEN {"toggle"} ELSE {})
Drawn(d, w) ==
    CASE w = "MAIN" -> MainShown(d, job[d].usr, job[d].sub)
      [] w = "SUBSCRIPTION" -> SubscriptionShown(job[d].sub)
      [] OTHER -> {}

\* the getter of w raises
Unshowable(d, w) ==
    LET u == Target[d] IN
    \/ w \in NeedSub /\ job[d].sub = None
    \/ w = "SUBSCRIPTION" /\ ~Reachable(u, job[d].sub.account)
    \/ w = "DEVICES_LIST" /\ (~Reachable(u, job[d].usr.account) \/ account[u].devices = 0)
    \/ w = "TRANSACTIONS_LIST" /\ u \notin Payers

Show(d) ==
    /\ ~Idle(d) /\ Head(job[d].todo) \in Windows
    /\ LET w == Head(job[d].todo) IN
       IF Unshowable(d, w)
       THEN Raise(d) /\ UNCHANGED desk
       ELSE /\ desk' = [desk EXCEPT ![d].win = w, ![d].shown = Drawn(d, w),
                                    ![d].payload = IF w = "MAIN" THEN FALSE ELSE @]
            /\ Continue(d) /\ Undisturbed
    /\ UNCHANGED <<stores, caches, due, faults, allowed, messages, edits>>

\* the error middleware and redirect_to_main_menu_task
Menu(d) ==
    /\ At(d, "MENU")
    /\ desk' = [desk EXCEPT ![d] = ClosedDesk]
    /\ Continue(d)
    /\ UNCHANGED <<stores, caches, history, faults, allowed, messages, edits>>

\* the rest of a handler, after a decision that writes nothing
Decide(d, step, todo) ==
    /\ At(d, step)
    /\ job' = [job EXCEPT ![d].todo = todo]
    /\ UNCHANGED <<stores, caches, history, faults>>

Again(d) == Render(desk[d].win)

----------------------------------------------------------------------------
(***************************************************************************)
(* The user: block, role, discount, points.                                *)
(***************************************************************************)

OnBlockToggle(d) ==
    /\ "staff" \in desk[d].shown
    /\ Change(d, "MAIN", [NoAsk EXCEPT !.field = "blocked"], <<"user", "set">> \o Render("MAIN"))

OnRoleSelect(d, role) ==
    Change(d, "ROLE", [field |-> "role", to |-> role], <<"user", "set">> \o Render("ROLE"))

OnDiscount(d, rate) ==
    Change(d, "DISCOUNT", [field |-> "discount", to |-> rate], <<"user", "set">> \o Render("MAIN"))

OnPoints(d, sum) ==
    Change(d, "POINTS", [field |-> "points", to |-> sum], <<"user", "set">> \o Render("POINTS"))

\* a typed value that is no number, or out of range
Invalid == [NoAsk EXCEPT !.field = "invalid"]
OnInvalidInput(d, w) ==
    /\ Pressing(d, w)
    /\ Handle(d, Invalid, IF w \in {"DISCOUNT", "POINTS"} THEN <<"user", "set">> ELSE <<"user", "sub", "edit">>)
    /\ UNCHANGED deskVars

\* mutant: points can be taken that are not there
SetUserFreely(d) ==
    /\ At(d, "set")
    /\ IF job[d].ask.field = "points"
       THEN BillUser(d, "points", job[d].usr.points + job[d].ask.to, <<"refillUser">>)
       ELSE Decide(d, "set", Again(d))
    /\ UNCHANGED deskVars

\* set_block and set_role clear the user's copy, UserService.update replaces it
SetUser(d) ==
    /\ At(d, "set")
    /\ LET usr == job[d].usr
           ask == job[d].ask IN
       CASE ask.field = "blocked" -> BillUser(d, "blocked", ~usr.blocked, <<"clearUser">>)
         [] ask.field = "role" -> BillUser(d, "role", ask.to, <<"clearUser">>)
         [] ask.field = "discount" -> BillUser(d, "discount", ask.to, <<"refillUser">>)
         [] ask.field = "points" /\ usr.points + ask.to >= 0 ->
               BillUser(d, "points", usr.points + ask.to, <<"refillUser">>)
         [] OTHER -> Decide(d, "set", Again(d))
    /\ UNCHANGED deskVars

----------------------------------------------------------------------------
(***************************************************************************)
(* The subscription: limits, squads, days, status.                         *)
(***************************************************************************)

OnCurrentSubscription(d) ==
    /\ "subscription" \in desk[d].shown
    /\ Look(d, "MAIN", <<"sub", "whether">>)
WhetherSub(d) ==
    /\ Decide(d, "whether", IF job[d].sub = None THEN Again(d) ELSE Render("SUBSCRIPTION"))
    /\ UNCHANGED deskVars

EditSub(d, w, field, to, next) ==
    Change(d, w, [field |-> field, to |-> to], <<"user", "sub", "edit", "push">> \o Render(next))

OnTrafficLimit(d, value) == EditSub(d, "TRAFFIC_LIMIT", "traffic_limit", value, "SUBSCRIPTION")
OnDeviceLimit(d, value) == EditSub(d, "DEVICE_LIMIT", "device_limit", value, "SUBSCRIPTION")
OnInternalSquad(d) == EditSub(d, "INTERNAL_SQUADS", "internal_squads", 0, "INTERNAL_SQUADS")
OnExternalSquad(d) == EditSub(d, "EXTERNAL_SQUADS", "external_squad", 0, "EXTERNAL_SQUADS")
OnDuration(d, delta) == EditSub(d, "EXPIRE_TIME", "days", delta, "EXPIRE_TIME")

\* squads are toggled, days are added, limits replaced
Edited(s, ask) ==
    CASE ask.field \in {"internal_squads", "external_squad"} -> [s EXCEPT ![ask.field] = 1 - @]
      [] ask.field = "days" -> [s EXCEPT !.days = @ + ask.to]
      [] ask.field \in {"traffic_limit", "device_limit"} -> [s EXCEPT ![ask.field] = ask.to]
      [] OTHER -> s

Edit(d) ==
    /\ At(d, "edit")
    /\ IF job[d].sub = None THEN Raise(d) /\ UNCHANGED <<stores, caches, due, faults>>
       ELSE LET new == Edited(job[d].sub, job[d].ask) IN
            IF job[d].ask = Invalid \/ (job[d].ask.field = "days" /\ new.days < Today)
            THEN Decide(d, "edit", Again(d))
            ELSE BillSub(d, new, {job[d].ask.field}, <<>>)
    /\ UNCHANGED deskVars

\* the panel first, then billing
OnActiveToggle(d) ==
    /\ "toggle" \in desk[d].shown
    /\ Change(d, "SUBSCRIPTION", NoAsk, <<"sub", "toggle", "status">> \o Render("SUBSCRIPTION"))

Toggled(s) == IF IsActive(s) THEN "DISABLED" ELSE "ACTIVE"

Toggle(d) ==
    /\ At(d, "toggle")
    /\ LET u == Target[d]
           s == job[d].sub IN
       IF s = None \/ ~Reachable(u, s.account)
       THEN Raise(d) /\ UNCHANGED account
       ELSE /\ account' = [account EXCEPT ![u].status = PanelStatus(Toggled(s), account[u].days)]
            /\ job' = [job EXCEPT ![d] = Goes([@ EXCEPT !.wrote = TRUE], <<>>)]
            /\ Disturb(d, u)
    /\ UNCHANGED <<person, subs, accounts, caches, due, faults, deskVars>>

BillStatus(d) ==
    /\ At(d, "status")
    /\ BillSub(d, [job[d].sub EXCEPT !.status = Toggled(job[d].sub)], {"status"}, <<>>)
    /\ UNCHANGED deskVars

OnResetTraffic(d) == Look(d, "SUBSCRIPTION", <<"sub", "reset">>)
Reset(d) ==
    /\ At(d, "reset")
    /\ IF job[d].sub = None \/ ~Reachable(Target[d], job[d].sub.account)
       THEN Raise(d) /\ UNCHANGED <<stores, caches, due, faults>>
       ELSE Decide(d, "reset", Again(d))
    /\ UNCHANGED deskVars

(***************************************************************************)
(* Devices, and the deletion of the subscription.                          *)
(***************************************************************************)

OnDevices(d) == Look(d, "SUBSCRIPTION", <<"user", "devices">>)
Devices(d) ==
    /\ At(d, "devices")
    /\ LET uuid == job[d].usr.account
           u == Target[d] IN
       IF uuid # None /\ ~Reachable(u, uuid)
       THEN Raise(d) /\ UNCHANGED <<stores, caches, due, faults>>
       ELSE Decide(d, "devices", IF uuid = None \/ account[u].devices = 0 THEN Again(d) ELSE Render("DEVICES_LIST"))
    /\ UNCHANGED deskVars

OnDeviceDelete(d) == Change(d, "DEVICES_LIST", NoAsk, <<"user", "unlink">>)
Unlink(d) ==
    /\ At(d, "unlink")
    /\ LET uuid == job[d].usr.account
           u == Target[d] IN
       IF uuid # None /\ (~Reachable(u, uuid) \/ account[u].devices = 0)
       THEN Raise(d) /\ UNCHANGED account
       ELSE /\ account' = IF uuid = None THEN account ELSE [account EXCEPT ![u].devices = @ - 1]
            /\ job' = [job EXCEPT ![d].todo =
                          Render(IF uuid # None /\ account[u].devices > 1 THEN "DEVICES_LIST" ELSE "SUBSCRIPTION")]
            /\ Undisturbed
    /\ UNCHANGED <<person, subs, accounts, caches, due, faults, deskVars>>

OnSubscriptionDelete(d) == Change(d, "SUBSCRIPTION", NoAsk, <<"user", "sub", "confirm">>)

\* is_double_click: the first press arms, the second confirms if it is quick enough
Arm(d, key) ==
    /\ desk' = [desk EXCEPT ![d].armed = @ \cup {key}]
    /\ job' = [job EXCEPT ![d].todo = Again(d)]
    /\ UNCHANGED <<stores, caches, history, faults>>

\* mutant: the account stays on the panel
DeletionOfBillOnly == <<"drop", "clearUser">>

Deletion == <<"drop", "clearUser", "remove">>

ConfirmDelete(d) ==
    /\ At(d, "confirm")
    /\ \/ job[d].sub = None /\ Raise(d) /\ UNCHANGED <<stores, caches, due, faults, desk>>
       \/ job[d].sub # None /\ Arm(d, "delete")
       \/ /\ job[d].sub # None /\ "delete" \in desk[d].armed
          /\ BillSub(d, [job[d].sub EXCEPT !.status = "DELETED"], {"status"}, Deletion \o Render("MAIN"))
          /\ UNCHANGED desk
    /\ UNCHANGED <<allowed, messages, edits>>

\* delete_current_subscription: the copy of the current subscription is not cleared
Unset(j, u, step) ==
    /\ At(j, step)
    /\ person' = [person EXCEPT ![u].current = None]
    /\ due' = [due EXCEPT ![u].days = 0]
    /\ job' = [job EXCEPT ![j] = Goes([@ EXCEPT !.wrote = TRUE], <<>>)]
    /\ UNCHANGED <<subs, account, accounts, caches, faults>>

Drop(d) ==
    /\ Unset(d, Target[d], "drop")
    /\ disturbed' = IF subCache[Target[d]].cached \/ \E k \in Jobs \ {d} : Holds(k, Target[d])
                    THEN disturbed \cup {Target[d]} ELSE disturbed
    /\ UNCHANGED deskVars

\* delete_user: by the account of the copy read at the start, or by looking it up
Remove(d) ==
    /\ At(d, "remove")
    /\ LET u == Target[d]
           uuid == job[d].usr.account IN
       IF uuid # None /\ ~Reachable(u, uuid)
       THEN Raise(d) /\ UNCHANGED account
       ELSE /\ account' = [account EXCEPT ![u] = None]
            /\ job' = [job EXCEPT ![d] = Goes([@ EXCEPT !.wrote = TRUE], <<>>)]
            /\ Disturb(d, u)
    /\ UNCHANGED <<person, subs, accounts, caches, due, faults, deskVars>>

----------------------------------------------------------------------------
(***************************************************************************)
(* Synchronisation with the panel.                                         *)
(***************************************************************************)

Shared == Limits \cup {"days"}

\* subscriptions_match
Match(s, a) ==
    /\ s # None /\ a # None
    /\ s.account = a.uuid /\ s.status = a.status /\ s.staff = a.staff
    /\ \A f \in Shared : s[f] = a[f]

\* apply_sync: the copy with what the panel says, and the fields that change by it
Synced(s, a) == [f \in DOMAIN s |-> IF f = "account" THEN a.uuid ELSE IF f \in DOMAIN a THEN a[f] ELSE s[f]]
Differing(s, t) == {f \in DOMAIN s : s[f] # t[f]}

Imported(a) ==
    [id |-> None, account |-> a.uuid, status |-> IF a.days < Today THEN "EXPIRED" ELSE a.status, trial |-> FALSE,
     staff |-> a.staff, days |-> a.days, traffic_limit |-> a.traffic_limit, device_limit |-> a.device_limit,
     internal_squads |-> a.internal_squads, external_squad |-> a.external_squad]

OnSync(d) == Look(d, "MAIN", <<"user", "sub", "match">>)
Matching(d) ==
    /\ LET s == job[d].sub
           a == account[Target[d]] IN
       Decide(d, "match", IF (s = None /\ a = None) \/ Match(s, a) THEN Again(d) ELSE Render("SYNC"))
    /\ UNCHANGED deskVars

\* history: a synchronisation that works alone on fresh copies starts a new account of what is due
Alone(d) == \A k \in Jobs \ {d} : job[k].user # Target[d]
FreshCopies(u) ==
    /\ userCache[u].cached => userCache[u].value = UserView(u)
    /\ subCache[u].cached => subCache[u].value = Current(u)

StartSync(d, todo) ==
    /\ Pressing(d, "SYNC") /\ edits < MaxEdits
    /\ job' = [job EXCEPT ![d] = [IdleJob EXCEPT !.user = Target[d], !.wrote = TRUE,
                                                 !.todo = todo, !.rescue = <<"MENU">>]]
    /\ LET u == Target[d] IN
       IF Alone(d) /\ FreshCopies(u)
       THEN /\ disturbed' = disturbed \ {u}
            /\ due' = [due EXCEPT ![u] = [points |-> person[u].points,
                                          days |-> DaysOf(u)]]
       ELSE UNCHANGED history
    /\ edits' = edits + 1
    /\ UNCHANGED <<stores, caches, faults, desk, allowed, messages>>

SyncUser == <<"user", "sub", "apply">>

OnSyncFromRemnawave(d) == StartSync(d, <<"user", "sub", "fetch">> \o Render("MAIN"))

\* without an account the subscription is deleted, and the pointer to the current
\* subscription that is removed is the administrator's own
Fetch(d) ==
    /\ At(d, "fetch")
    /\ LET u == Target[d]
           s == job[d].sub IN
       IF account[u] = None
       THEN IF s = None THEN Then(d, <<"dropActor", "clearActor">>) /\ UNCHANGED <<stores, caches, history, faults>>
            ELSE BillSub(d, [s EXCEPT !.status = "DELETED"], {"status"}, <<"dropActor", "clearActor">>)
       ELSE /\ job' = [job EXCEPT ![d] = [Goes(@, SyncUser) EXCEPT !.remna = account[u]]]
            /\ UNCHANGED <<stores, caches, history, faults>>
    /\ UNCHANGED deskVars

DropActor(d) ==
    /\ Unset(d, Actor[d], "dropActor")
    /\ disturbed' = disturbed \cup {Actor[d]}
    /\ UNCHANGED deskVars
ClearActor(d) ==
    /\ At(d, "clearActor")
    /\ userCache' = [userCache EXCEPT ![Actor[d]] = Empty]
    /\ Continue(d)
    /\ UNCHANGED <<stores, subCache, history, faults, deskVars>>

\* sync_user: create a subscription or write the fields that differ from the copy
Apply(d) ==
    /\ At(d, "apply")
    /\ LET s == job[d].sub
           a == job[d].remna IN
       IF s = None
       THEN /\ job' = [job EXCEPT ![d] = [Goes(@, <<"create">>) EXCEPT !.sub = Imported(a)]]
            /\ UNCHANGED <<stores, caches, history, faults>>
       ELSE BillSub(d, Synced(s, a), Differing(s, Synced(s, a)), <<>>)
    /\ UNCHANGED deskVars

OnSyncFromRemnashop(d) == StartSync(d, <<"user", "sub", "compare">> \o Render("MAIN"))
Compare(d) ==
    /\ At(d, "compare")
    /\ LET s == job[d].sub IN
       Then(d, IF s = None THEN <<"remove">>
               ELSE IF Reachable(Target[d], s.account) THEN <<"push">> ELSE <<"restore">> \o SyncUser)
    /\ UNCHANGED <<stores, caches, history, faults, deskVars>>

NewAccount(uuid, usr, s) ==
    [uuid |-> uuid, status |-> PanelStatus("ACTIVE", s.days), days |-> s.days,
     staff |-> s.staff \/ Privileged(usr), devices |-> 0,
     traffic_limit |-> s.traffic_limit, device_limit |-> s.device_limit,
     internal_squads |-> s.internal_squads, external_squad |-> s.external_squad]

\* create_user with force: an account of the same name is removed first
Restore(d) ==
    /\ At(d, "restore")
    /\ LET u == Target[d]
           s == job[d].sub
           new == NewAccount(s.account, job[d].usr, s) IN
       /\ account' = [account EXCEPT ![u] = IF @ = None THEN new ELSE None]
       /\ job' = [job EXCEPT ![d] = [(IF account[u] = None THEN Goes(@, <<>>) ELSE @)
                                      EXCEPT !.wrote = TRUE, !.remna = new]]
       /\ Disturb(d, u)
    /\ UNCHANGED <<person, subs, accounts, caches, due, faults, deskVars>>

----------------------------------------------------------------------------
(***************************************************************************)
(* A plan given by hand, access to a plan, a message.                      *)
(***************************************************************************)

\* which plans are available is up to billing
OnGiveSubscription(d) == Look(d, "MAIN", <<"user", "plans">>)
OfferPlans(d) ==
    /\ \E w \in {"MAIN", "GIVE_SUBSCRIPTION"} : Decide(d, "plans", Render(w))
    /\ UNCHANGED deskVars
OnSubscriptionSelect(d) == Look(d, "GIVE_SUBSCRIPTION", Render("SUBSCRIPTION_DURATION"))

Planned(uuid) ==
    [id |-> None, account |-> uuid, status |-> "ACTIVE", trial |-> FALSE, staff |-> FALSE, days |-> Today + PlanDays,
     traffic_limit |-> PlanLimit, device_limit |-> PlanLimit, internal_squads |-> 0, external_squad |-> 0]

OnSubscriptionDuration(d) ==
    Change(d, "SUBSCRIPTION_DURATION", NoAsk, <<"user", "sub", "provision", "create">> \o Render("MAIN"))

Provision(d) ==
    /\ At(d, "provision")
    /\ LET u == Target[d]
           s == job[d].sub
           uuid == IF s = None THEN accounts + 1 ELSE s.account
           new == Planned(uuid) IN
       IF IF s = None THEN account[u] # None ELSE ~Reachable(u, uuid)
       THEN Raise(d) /\ UNCHANGED <<account, accounts>>
       ELSE /\ account' = [account EXCEPT ![u] = IF s = None THEN NewAccount(uuid, job[d].usr, new)
                                                 ELSE Pushed(job[d].usr, new, @)]
            /\ accounts' = (IF s = None THEN accounts + 1 ELSE accounts) /\ accounts' <= MaxAccounts
            /\ job' = [job EXCEPT ![d] = [Goes(@, <<>>) EXCEPT !.sub = new, !.wrote = TRUE]]
            /\ Disturb(d, u)
    /\ UNCHANGED <<person, subs, caches, due, faults, deskVars>>

\* SubscriptionService.create
CreateSub(d) ==
    /\ At(d, "create")
    /\ \E id \in Subs :
          /\ id \notin DOMAIN subs /\ \A other \in Subs : other < id => other \in DOMAIN subs
          /\ subs' = [other \in DOMAIN subs \cup {id} |->
                          IF other = id THEN [job[d].sub EXCEPT !.id = id] ELSE subs[other]]
          /\ job' = [job EXCEPT ![d] = [Goes(@, <<"point", "clearUser", "clearSub">>) EXCEPT !.sub.id = id, !.wrote = TRUE]]
    /\ UNCHANGED <<person, account, accounts, caches, history, faults, deskVars>>

PointTo(d) ==
    /\ At(d, "point")
    /\ LET u == Target[d] IN
       /\ person' = [person EXCEPT ![u].current = job[d].sub.id]
       /\ due' = [due EXCEPT ![u].days = job[d].sub.days]
       /\ Disturb(d, u)
    /\ Continue(d)
    /\ UNCHANGED <<subs, account, accounts, caches, faults, deskVars>>

OnGiveAccess(d) == Look(d, "MAIN", <<"access">>)
OfferAccess(d) ==
    /\ \E w \in {"MAIN", "GIVE_ACCESS"} : Decide(d, "access", Render(w))
    /\ UNCHANGED deskVars

\* the whole list is read and written back
OnPlanSelect(d) == Change(d, "GIVE_ACCESS", NoAsk, <<"plan", "grant">> \o Render("GIVE_ACCESS"))
ReadPlan(d) ==
    /\ At(d, "plan")
    /\ job' = [job EXCEPT ![d] = [Goes(@, <<>>) EXCEPT !.remna = allowed]]
    /\ UNCHANGED <<stores, caches, history, faults, deskVars>>
GrantAccess(d) ==
    /\ At(d, "grant")
    /\ LET u == Target[d]
           ids == job[d].remna IN
       allowed' = IF u \in ids THEN ids \ {u} ELSE ids \cup {u}
    /\ Continue(d)
    /\ UNCHANGED <<stores, caches, history, faults, desk, messages, edits>>

OnTransactions(d) == Look(d, "MAIN", IF Target[d] \in Payers THEN Render("TRANSACTIONS_LIST") ELSE Again(d))
OnTransactionSelect(d) == Look(d, "TRANSACTIONS_LIST", Render("TRANSACTION"))

OnContentInput(d) ==
    /\ Pressing(d, "MESSAGE") /\ ~desk[d].payload
    /\ Handle(d, NoAsk, Again(d))
    /\ desk' = [desk EXCEPT ![d].payload = TRUE]
    /\ UNCHANGED <<allowed, messages, edits>>

OnSend(d) == Change(d, "MESSAGE", NoAsk, <<"user", "send">>)
Send(d) ==
    /\ At(d, "send")
    /\ \/ ~desk[d].payload /\ Decide(d, "send", Again(d)) /\ UNCHANGED <<desk, messages>>
       \/ desk[d].payload /\ Arm(d, "message") /\ UNCHANGED messages
       \/ /\ desk[d].payload /\ "message" \in desk[d].armed
          /\ Decide(d, "send", Render("MAIN"))
          /\ messages' = messages + 1
          /\ UNCHANGED desk
    /\ UNCHANGED <<allowed, edits>>

----------------------------------------------------------------------------
\* the administrators have opened the window `at`, of an active subscription, or nothing yet
DashboardInit(at) ==
    /\ desk = [d \in Desks |-> [ClosedDesk EXCEPT !.win = at,
                                                  !.shown = IF at = "SUBSCRIPTION" THEN {"edit", "toggle"} ELSE {}]]
    /\ allowed = {} /\ messages = 0 /\ edits = 0

DeskClick(d) ==
    \/ Open(d) \/ OnCurrentSubscription(d) \/ OnResetTraffic(d) \/ OnDevices(d)
    \/ OnSync(d) \/ OnGiveSubscription(d) \/ OnSubscriptionSelect(d) \/ OnGiveAccess(d)
    \/ OnTransactions(d) \/ OnTransactionSelect(d) \/ OnContentInput(d)
    \/ \E w \in Windows : SwitchTo(d, w)
    \/ \E w \in {"DISCOUNT", "POINTS", "TRAFFIC_LIMIT", "DEVICE_LIMIT", "EXPIRE_TIME"} : OnInvalidInput(d, w)

DeskEdit(d) ==
    \/ OnBlockToggle(d) \/ \E role \in DOMAIN Rank : OnRoleSelect(d, role)
    \/ \E rate \in Rates : OnDiscount(d, rate)
    \/ \E sum \in Sums : OnPoints(d, sum)
    \/ \E value \in Values : OnTrafficLimit(d, value) \/ OnDeviceLimit(d, value)
    \/ OnInternalSquad(d) \/ OnExternalSquad(d)
    \/ \E delta \in Deltas : OnDuration(d, delta)
    \/ OnActiveToggle(d) \/ OnSubscriptionDelete(d) \/ OnDeviceDelete(d)
    \/ OnSyncFromRemnawave(d) \/ OnSyncFromRemnashop(d)
    \/ OnSubscriptionDuration(d) \/ OnPlanSelect(d) \/ OnSend(d)

DeskStep(d) ==
    \/ AwaitStep(d) /\ UNCHANGED deskVars
    \/ Show(d) \/ Menu(d)
    \/ SetUser(d) \/ WhetherSub(d) \/ Edit(d) \/ Toggle(d) \/ BillStatus(d) \/ Reset(d)
    \/ Devices(d) \/ Unlink(d) \/ ConfirmDelete(d) \/ Drop(d) \/ Remove(d)
    \/ Matching(d) \/ Fetch(d) \/ DropActor(d) \/ ClearActor(d) \/ Apply(d) \/ Compare(d) \/ Restore(d)
    \/ OfferPlans(d) \/ Provision(d) \/ CreateSub(d) \/ PointTo(d)
    \/ OfferAccess(d) \/ ReadPlan(d) \/ GrantAccess(d) \/ Send(d)
    \/ Fault(d) /\ UNCHANGED deskVars
=============================================================================
