---------------------------- MODULE UserAccount ----------------------------
(***************************************************************************)
(* One user's account as the bot's services see it.  It lives in three     *)
(* places: the billing service keeps the user and the subscriptions, the   *)
(* Remnawave panel keeps the VPN account, and Redis keeps copies of what   *)
(* billing said (the user for five minutes, the current subscription for   *)
(* one).  No transaction spans them: a handler, a command or a task reads  *)
(* copies, writes billing, clears the copies, then writes the panel from   *)
(* its own copy.                                                           *)
(*                                                                         *)
(* A job is one such piece of code under way; todo lists its remaining     *)
(* awaits, and one action is one await with the code before it.  This      *)
(* module has the awaits every job is built from, UserDashboard and Grants *)
(* the jobs.  An exception ends a job with its rescue.                     *)
(***************************************************************************)
EXTENDS Integers, Sequences

CONSTANTS
    Users, Jobs, None,
    Subs,           \* identifiers billing gives to subscriptions
    MaxAccounts,    \* bound: accounts the panel ever creates
    Writes,         \* names of the awaits that write or lead to a write
    Today,          \* the day; a job takes minutes
    MaxFaults       \* bound: exceptions and crashes

ASSUME AccountAssumption ==
    /\ None \notin Users \cup Subs \cup Nat
    /\ Today \in Nat /\ MaxAccounts \in Nat \ {0} /\ MaxFaults \in Nat

VARIABLES
    person,     \* at billing: the users
    subs,       \* at billing: the subscriptions it has created
    account,    \* at the panel: the account of a user
    accounts,   \* accounts the panel has created
    userCache, subCache,    \* copies in Redis; empty where there is no copy
    job,
    due,        \* history: points and days that were given and not taken away
    disturbed,  \* history: users two jobs worked on at once, or one that failed midway
    faults

stores == <<person, subs, account, accounts>>
caches == <<userCache, subCache>>
history == <<due, disturbed>>
accountVars == <<stores, caches, job, history, faults>>

\* what an administrator can set; staff stands for the panel's Admin squad
Limits == {"traffic_limit", "device_limit", "internal_squads", "external_squad"}
Empty == [cached |-> FALSE]
Copy(value) == [cached |-> TRUE, value |-> value]

\* datetime_now() > expire_at hides the stored status
GetStatus(s) == IF s.days < Today THEN "EXPIRED" ELSE s.status
IsActive(s) == GetStatus(s) = "ACTIVE"

\* the panel ends an account whose day has passed by itself
PanelStatus(status, days) ==
    IF status = "DISABLED" THEN "DISABLED" ELSE IF days < Today THEN "EXPIRED" ELSE "ACTIVE"

\* what billing answers for a user and for the current subscription
Current(u) == IF person[u].current = None THEN None ELSE subs[person[u].current]
DaysOf(u) == IF Current(u) = None THEN 0 ELSE Current(u).days
ViewOf(p) ==
    [points |-> p.points, discount |-> p.discount, role |-> p.role, blocked |-> p.blocked,
     account |-> IF p.current = None THEN None ELSE subs[p.current].account]
UserView(u) == ViewOf(person[u])

Privileged(usr) == usr.role # "USER"

----------------------------------------------------------------------------
(***************************************************************************)
(* Jobs.                                                                   *)
(***************************************************************************)

NoAsk == [field |-> "none", to |-> 0]
IdleJob == [user |-> None, usr |-> None, sub |-> None, remna |-> None, ask |-> NoAsk,
            wrote |-> FALSE, todo |-> <<>>, rescue |-> <<>>]

Idle(j) == job[j].todo = <<>>
At(j, step) == ~Idle(j) /\ Head(job[j].todo) = step

Begin(j, u, ask, todo, rescue) ==
    job' = [job EXCEPT ![j] = [IdleJob EXCEPT !.user = u, !.ask = ask, !.todo = todo, !.rescue = rescue]]

\* a job that has nothing left to do forgets its copies
Goes(record, steps) ==
    LET todo == steps \o Tail(record.todo) IN
    IF todo = <<>> THEN IdleJob ELSE [record EXCEPT !.todo = todo]
Continue(j) == job' = [job EXCEPT ![j] = Goes(@, <<>>)]
Then(j, steps) == job' = [job EXCEPT ![j] = Goes(@, steps)]

\* an answer of billing is in hand that the next await puts into Redis
Filling(k) == At(k, "keepUser") \/ At(k, "keepSub") \/ At(k, "refillUser")

\* job k has read u's data and will still write something from it
Holds(k, u) ==
    /\ job[k].user = u
    /\ \/ Filling(k)
       \/ /\ job[k].usr # None \/ job[k].sub # None
          /\ \E i \in DOMAIN job[k].todo : job[k].todo[i] \in Writes

Disturb(j, u) ==
    disturbed' = IF \E k \in Jobs \ {j} : Holds(k, u) THEN disturbed \cup {u} ELSE disturbed

Undisturbed == UNCHANGED disturbed

\* an exception: whatever was written so far stays
Raise(j) ==
    /\ job' = [job EXCEPT ![j] =
                  IF @.rescue = <<>> THEN IdleJob
                  ELSE [IdleJob EXCEPT !.user = job[j].user, !.ask = job[j].ask, !.todo = job[j].rescue]]
    /\ disturbed' = IF job[j].wrote THEN disturbed \cup {job[j].user} ELSE disturbed

Fault(j) ==
    /\ ~Idle(j) /\ faults < MaxFaults
    /\ faults' = faults + 1
    /\ Raise(j)
    /\ UNCHANGED <<stores, caches, due>>

\* the stores may disagree about the users in `apart`
AccountInit(people, subscriptions, panel, apart) ==
    /\ person = people /\ subs = subscriptions /\ account = panel /\ accounts = MaxAccounts - 1
    /\ userCache = [u \in Users |-> Empty] /\ subCache = [u \in Users |-> Empty]
    /\ job = [j \in Jobs |-> IdleJob]
    /\ due = [u \in Users |-> [points |-> people[u].points, days |-> DaysOf(u)]]
    /\ disturbed = apart /\ faults = 0

----------------------------------------------------------------------------
(***************************************************************************)
(* Cached reads: on a miss the answer of billing is put into Redis by an   *)
(* await of its own.  That a copy has expired shows when it is read.       *)
(***************************************************************************)

ReadUser(j) ==
    LET u == job[j].user IN
    /\ At(j, "user")
    /\ \/ /\ userCache[u].cached
          /\ job' = [job EXCEPT ![j] = Goes([@ EXCEPT !.usr = userCache[u].value], <<>>)]
          /\ Disturb(j, u)
          /\ UNCHANGED userCache
       \/ /\ job' = [job EXCEPT ![j] = [@ EXCEPT !.usr = UserView(u), !.todo = <<"keepUser">> \o Tail(job[j].todo)]]
          /\ userCache' = [userCache EXCEPT ![u] = Empty]
          /\ Undisturbed
    /\ UNCHANGED <<stores, subCache, due, faults>>

KeepUser(j) ==
    /\ At(j, "keepUser")
    /\ userCache' = [userCache EXCEPT ![job[j].user] = Copy(job[j].usr)]
    /\ Continue(j)
    /\ UNCHANGED <<stores, subCache, history, faults>>

ReadSub(j) ==
    LET u == job[j].user IN
    /\ At(j, "sub")
    /\ \/ /\ subCache[u].cached
          /\ job' = [job EXCEPT ![j] = Goes([@ EXCEPT !.sub = subCache[u].value], <<>>)]
          /\ Disturb(j, u)
          /\ UNCHANGED subCache
       \/ /\ job' = [job EXCEPT ![j] = [@ EXCEPT !.sub = Current(u), !.todo = <<"keepSub">> \o Tail(job[j].todo)]]
          /\ subCache' = [subCache EXCEPT ![u] = Empty]
          /\ Undisturbed
    /\ UNCHANGED <<stores, userCache, due, faults>>

\* None is an answer like any other and is kept too
KeepSub(j) ==
    /\ At(j, "keepSub")
    /\ subCache' = [subCache EXCEPT ![job[j].user] = Copy(job[j].sub)]
    /\ Continue(j)
    /\ UNCHANGED <<stores, userCache, history, faults>>

----------------------------------------------------------------------------
(***************************************************************************)
(* Writes.                                                                 *)
(***************************************************************************)

\* billing.update_subscription with the changed fields of the copy; new is the
\* copy after the change, kept the copy the job goes on with
Billed(new, changed) ==
    [subs EXCEPT ![new.id] = [f \in DOMAIN @ |-> IF f \in changed THEN new[f] ELSE @[f]]]
BillSubKeeping(j, new, changed, kept, more) ==
    LET u == job[j].user IN
    /\ subs' = Billed(new, changed)
    /\ due' = IF "days" \in changed /\ person[u].current = new.id
              THEN [due EXCEPT ![u].days = @ + new.days - job[j].sub.days] ELSE due
    /\ job' = [job EXCEPT ![j] = [@ EXCEPT !.sub = kept, !.wrote = TRUE,
                                           !.todo = <<"clearSub", "clearUser">> \o more \o Tail(job[j].todo)]]
    /\ Disturb(j, u)
    /\ UNCHANGED <<person, account, accounts, caches, faults>>
BillSub(j, new, changed, more) == BillSubKeeping(j, new, changed, new, more)

\* billing.update_user with one field of the copy; the answer replaces the copy
BillUser(j, field, value, more) ==
    LET u == job[j].user IN
    /\ person' = [person EXCEPT ![u] = [@ EXCEPT ![field] = value]]
    /\ due' = IF field = "points"
              THEN [due EXCEPT ![u].points = @ + value - job[j].usr.points] ELSE due
    /\ job' = [job EXCEPT ![j] = [@ EXCEPT !.usr = ViewOf(person'[u]), !.wrote = TRUE, !.todo = more \o Tail(job[j].todo)]]
    /\ Disturb(j, u)
    /\ UNCHANGED <<subs, account, accounts, caches, faults>>

\* mutants: the copies are left to expire
ClearNot(j, step) ==
    /\ At(j, step)
    /\ Continue(j)
    /\ UNCHANGED <<stores, caches, history, faults>>
ClearSubNot(j) == ClearNot(j, "clearSub")
ClearUserNot(j) == ClearNot(j, "clearUser")

ClearSub(j) ==
    /\ At(j, "clearSub")
    /\ subCache' = [subCache EXCEPT ![job[j].user] = Empty]
    /\ Continue(j)
    /\ UNCHANGED <<stores, userCache, history, faults>>

ClearUser(j) ==
    /\ At(j, "clearUser")
    /\ userCache' = [userCache EXCEPT ![job[j].user] = Empty]
    /\ Continue(j)
    /\ UNCHANGED <<stores, subCache, history, faults>>

\* UserService.update puts billing's answer into the cache instead
RefillUser(j) ==
    /\ At(j, "refillUser")
    /\ userCache' = [userCache EXCEPT ![job[j].user] = Copy(job[j].usr)]
    /\ Continue(j)
    /\ UNCHANGED <<stores, subCache, history, faults>>

\* updated_user: the panel takes every field of the job's copy
Pushed(usr, s, old) ==
    [f \in DOMAIN old |->
        IF f = "status" THEN PanelStatus(s.status, s.days)
        ELSE IF f = "staff" THEN s.staff \/ Privileged(usr)
        ELSE IF f \in Limits \cup {"days"} THEN s[f] ELSE old[f]]

Reachable(u, uuid) == account[u] # None /\ account[u].uuid = uuid

Push(j) ==
    /\ At(j, "push")
    /\ LET u == job[j].user IN
       IF Reachable(u, job[j].sub.account)
       THEN /\ account' = [account EXCEPT ![u] = Pushed(job[j].usr, job[j].sub, @)]
            /\ job' = [job EXCEPT ![j] = Goes([@ EXCEPT !.wrote = TRUE], <<>>)]
            /\ Disturb(j, u)
       ELSE Raise(j) /\ UNCHANGED account
    /\ UNCHANGED <<person, subs, accounts, caches, due, faults>>

AwaitStep(j) ==
    \/ ReadUser(j) \/ KeepUser(j) \/ ReadSub(j) \/ KeepSub(j)
    \/ ClearSub(j) \/ ClearUser(j) \/ RefillUser(j) \/ Push(j)
=============================================================================
