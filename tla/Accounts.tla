------------------------------- MODULE Accounts -------------------------------
(***************************************************************************)
(* The dashboard, the loyalty runs and the referral tasks at work on the   *)
(* same stores and the same Redis copies.                                  *)
(***************************************************************************)
EXTENDS UserDashboard, Grants

CONSTANTS
    Start       \* records [people, subscriptions, panel, apart, agenda]: how a behaviour may begin

\* a handler, a command or a task is one job of one kind
ASSUME JobAssumption ==
    /\ Desks \cup Runs \cup Givers \cup Flushers \subseteq Jobs
    /\ Desks \cap (Runs \cup Givers \cup Flushers) = {}
    /\ Runs \cap (Givers \cup Flushers) = {} /\ Givers \cap Flushers = {}
    /\ Loyal \subseteq Users /\ Winner \in Users /\ RewardOf \in [Givers -> Rewards]
    /\ \A rewards \in SUBSET Rewards : None # rewards

\* the awaits that write what was read, or lead to such a write
ASSUME WritesAssumption ==
    {"set", "points", "fetch", "compare", "confirm", "remove", "edit", "push", "days", "lock", "aim", "pending", "flush",
     "toggle", "status", "provision", "create", "point", "apply", "restore", "extend", "mark", "discount",
     "clearSub", "clearUser", "refillUser", "drop"} \subseteq Writes

SubRecords ==
    [id : Subs \cup {None}, account : 1..MaxAccounts, trial : BOOLEAN, staff : BOOLEAN, days : Nat,
     status : {"ACTIVE", "DISABLED", "EXPIRED", "DELETED"}, traffic_limit : Nat, device_limit : Nat,
     internal_squads : {0, 1}, external_squad : {0, 1}]
AccountRecords ==
    [uuid : 1..MaxAccounts, status : {"ACTIVE", "DISABLED", "EXPIRED"}, days : Nat, staff : BOOLEAN, devices : Nat,
     traffic_limit : Nat, device_limit : Nat, internal_squads : {0, 1}, external_squad : {0, 1}]
UserRecords ==
    [points : Nat, discount : Nat, role : DOMAIN Rank, blocked : BOOLEAN, current : Subs \cup {None}]
UserViews ==
    [points : Nat, discount : Nat, role : DOMAIN Rank, blocked : BOOLEAN, account : 1..MaxAccounts \cup {None}]
ASSUME RecordsAssumption == None \notin SubRecords \cup AccountRecords \cup UserViews

\* a subscription and an account with the same limits, day and ban; one that is
\* imported past its day is EXPIRED, banned or not, and one that is deleted has none
Agrees(s, a) ==
    /\ a # None /\ a.uuid = s.account
    /\ (a.status = "DISABLED") = (s.status = "DISABLED") \/ (s.status = "EXPIRED" /\ s.days < Today)
    /\ \A f \in Shared : s[f] = a[f]
Agree(s, a) == IF s = None THEN a = None ELSE Agrees(s, a) \/ (s.status = "DELETED" /\ a = None)

\* accounts are numbered as the panel creates them; a subscription is of one user
ASSUME StartAssumption ==
    \A s \in Start :
        /\ s.agenda.jobs \subseteq Jobs /\ s.agenda.at \in Windows \cup {"MENU"} /\ s.apart \subseteq Users
        /\ DOMAIN s.people = Users /\ DOMAIN s.panel = Users /\ DOMAIN s.subscriptions \subseteq Subs
        /\ \A id \in DOMAIN s.subscriptions : /\ s.subscriptions[id] \in SubRecords /\ s.subscriptions[id].id = id
                                             /\ s.subscriptions[id].account < MaxAccounts
        /\ \A u \in Users :
              /\ s.panel[u] # None => s.panel[u] \in AccountRecords /\ s.panel[u].uuid < MaxAccounts
              /\ s.people[u] \in UserRecords /\ s.people[u].current \in DOMAIN s.subscriptions \cup {None}
              /\ u \notin s.apart =>
                    Agree(IF s.people[u].current = None THEN None ELSE s.subscriptions[s.people[u].current], s.panel[u])
        /\ \A u, v \in Users :
              s.people[u].current = s.people[v].current => u = v \/ s.people[u].current = None

VARIABLES
    agenda      \* bounds of this behaviour: jobs, the windows administrators begin at and visit, edits, faults

vars == <<accountVars, deskVars, grantVars, agenda>>

Init ==
    /\ \E s \in Start : /\ DashboardInit(s.agenda.at)
                       /\ AccountInit(s.people, s.subscriptions, s.panel, s.apart)
                       /\ agenda = s.agenda
                       /\ GrantsInit({RewardOf[g] : g \in s.agenda.jobs \cap Givers})

Stays(d) == Range(job'[d].todo) \cap Windows \subseteq agenda.rooms

DeskNext(d) ==
    /\ \/ (DeskClick(d) \/ DeskEdit(d)) /\ Stays(d)
       \/ DeskStep(d)
    /\ UNCHANGED grantVars

GrantsNext(j) ==
    /\ \/ j \in Runs /\ \E u \in Loyal : BeginGrant(j, u)
       \/ j \in Runs /\ Crash(j)
       \/ j \in Givers /\ BeginGive(j)
       \/ j \in Flushers /\ BeginFlush(j)
       \/ GrantStep(j)
    /\ UNCHANGED deskVars

Next ==
    /\ \/ \E d \in agenda.jobs \cap Desks : DeskNext(d)
       \/ \E j \in agenda.jobs \ Desks : GrantsNext(j)
    /\ edits' <= agenda.edits /\ faults' <= agenda.faults
    /\ UNCHANGED agenda

Spec == Init /\ [][Next]_vars

----------------------------------------------------------------------------
\* Type invariant of the account's stores, its copies and the jobs
\* (services/user.py, services/subscription.py, the panel).
TypeOK ==
    /\ \A u \in Users : /\ person[u].current \in Subs \cup {None} /\ person[u].points \in Nat
                        /\ account[u] # None => account[u].uuid \in 1..accounts /\ account[u].devices \in Nat
                        /\ subCache[u].cached => subCache[u].value \in SubRecords \cup {None}
    /\ DOMAIN subs \subseteq Subs /\ \A id \in DOMAIN subs : subs[id] \in SubRecords
    /\ \A j \in Jobs : job[j].sub \in SubRecords \cup {None} /\ job[j].user \in Users \cup {None}
    /\ disturbed \subseteq Users /\ issued \subseteq Rewards

\* no job has anything left to do for u
AtRest(u) == \A j \in Jobs : job[j].user # u

\* Billing and the panel tell the same story once nothing is under way: there is
\* an account exactly where there is a subscription, with the same limits, day and
\* ban - unless two jobs wrote at once, one failed after its first write, or they
\* disagreed before and nobody has synchronised them (handlers.py, sync_user).
StoresAgree == \A u \in Users \ disturbed : AtRest(u) => Agree(Current(u), account[u])

\* A copy in Redis is what billing would answer, once the jobs that cleared or
\* filled it are through - unless a reader's copy went into Redis around another
\* job's write (redis_cache, clear_subscription_cache, clear_user_cache).
Clearing(u) ==
    \E j \in Jobs : job[j].user = u /\ \E i \in DOMAIN job[j].todo :
        job[j].todo[i] \in {"keepUser", "keepSub", "clearSub", "clearUser", "refillUser"}
CacheFresh == \A u \in Users \ disturbed : ~Clearing(u) => FreshCopies(u)

\* Points and days given or taken by an administrator, the loyalty command or a
\* referral are all there: no job writes over what another gave, as long as they
\* do not overlap (user.py add_points, subscription.py update).
NothingLost ==
    \A u \in Users \ disturbed : person[u].points = due[u].points /\ DaysOf(u) = due[u].days

\* The loyalty reward extends a subscription to one day only, whatever runs fail,
\* crash, are repeated or find the lock expired - unless two runs overlap, as the
\* state is read before the lock is taken (loyalty_reward.py).
GrantedOnce == \A u \in Users \ overlapped : goals[u] <= 1

\* A referral reward is given a second time only after a job that gave it failed before
\* marking it, or by a flush that listed it while another job had it in hand
\* (referrals.py:47-97, referral.py:128-172).
RewardedOnce ==
    [][\A r \in Rewards : applied'[r] > applied[r] => applied[r] = 0 \/ r \in doubtful]_vars

\* What the bot gives by itself, by the loyalty command or for a referral, never shortens a
\* subscription (loyalty_reward.py:110-160, referrals.py:60-83, referral.py:149-152).
NeverShortens ==
    [][\A u \in Users, j \in Jobs \ Desks :
          (job[j].user = u /\ job'[j] # job[j] /\ u \notin disturbed') =>
              (Current(u) # None => DaysOf(u)' >= DaysOf(u))]_vars
=============================================================================
