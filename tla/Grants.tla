-------------------------------- MODULE Grants --------------------------------
(***************************************************************************)
(* Days, points and a discount the bot gives by itself.                    *)
(*                                                                         *)
(* The loyalty command goes over all users; a run on one user is a job     *)
(* here.  It records in Redis how far it came, so that a later run can     *)
(* finish what a failed one began, and holds a lock with a TTL.            *)
(*                                                                         *)
(* A referral reward is given by a task of its own, tried again after an   *)
(* exception and delivered again after a crash; a reward of days that came *)
(* before there was a paid subscription is flushed after a purchase.       *)
(***************************************************************************)
EXTENDS UserAccount, FiniteSetsExt, Functions

CONSTANTS
    Runs, Givers, Flushers,         \* jobs
    Loyal,                          \* bound: the users the runs are followed at
    Rewards, Winner, RewardOf,      \* RewardOf[g] is the reward task g gives Winner
    Kind, Amount,                   \* of a reward
    LoyaltyDays, LoyaltyDiscount

ASSUME GrantAssumption == LoyaltyDays \in Nat /\ LoyaltyDiscount \in Nat /\ Amount \in [Rewards -> Nat]

VARIABLES
    state,      \* in Redis: how far the loyalty reward of a user is, and its goal
    lock,       \* in Redis
    issued,     \* at billing: rewards marked as issued
    queued,     \* rewards whose task waits in the stream
    applied,    \* history: how often a reward was given
    goals,      \* history: how often a goal was chosen
    overlapped, \* history: users two loyalty runs worked on at once
    doubtful    \* history: rewards a flush listed while another job had them in hand, or
                \* that were given by a job that failed before it marked them

grantVars == <<state, lock, issued, queued, applied, goals, overlapped, doubtful>>

NoState == [field |-> "none", to |-> 0]
Grantable == <<"user", "seen", "sub", "eligible", "lock">>

----------------------------------------------------------------------------
(***************************************************************************)
(* The loyalty reward.                                                     *)
(***************************************************************************)

BeginGrant(r, u) ==
    /\ Idle(r)
    /\ Begin(r, u, NoAsk, Grantable, <<>>)
    /\ overlapped' = IF \E k \in Runs \ {r} : job[k].user = u THEN overlapped \cup {u} ELSE overlapped
    /\ UNCHANGED <<stores, caches, history, faults, state, lock, issued, applied, queued, goals, doubtful>>

Stop(j) == job' = [job EXCEPT ![j] = IdleJob]
Locally == UNCHANGED <<stores, caches, history, faults>>

\* the state is read before the lock is taken, and used after
ReadState(r) ==
    /\ At(r, "seen")
    /\ IF state[job[r].user].field = "granted" THEN Stop(r)
       ELSE job' = [job EXCEPT ![r] = [Goes(@, <<>>) EXCEPT !.ask = state[job[r].user]]]
    /\ Locally /\ UNCHANGED grantVars

\* trials are included if the command says so
Eligible(r) ==
    /\ At(r, "eligible")
    /\ LET s == job[r].sub IN
       IF s = None \/ ~IsActive(s) THEN Stop(r)
       ELSE \/ Continue(r)
            \/ s.trial /\ Stop(r)
    /\ Locally /\ UNCHANGED grantVars

Granting(ask) == IF ask.field = "extended" THEN <<"discount">> ELSE <<"extend", "mark", "discount">>

\* that the lock has expired shows when it is tried again, however slow its holder
TakeLock(r) ==
    LET u == job[r].user IN
    /\ At(r, "lock")
    /\ \/ lock[u] /\ Stop(r)
       \/ job' = [job EXCEPT ![r] = [@ EXCEPT !.todo = <<"sub", "aim">>, !.rescue = <<"unlock">>]]
    /\ lock' = [lock EXCEPT ![u] = TRUE]
    /\ Locally /\ UNCHANGED <<state, issued, queued, applied, goals, overlapped, doubtful>>

\* mutant: every run chooses a goal of its own
AimAfresh(r) ==
    /\ At(r, "aim")
    /\ LET u == job[r].user
           s == job[r].sub
           goal == [field |-> "extend_to", to |-> Max({s.days, Today}) + LoyaltyDays] IN
       /\ s # None
       /\ goals' = [goals EXCEPT ![u] = @ + 1]
       /\ state' = [state EXCEPT ![u] = goal]
       /\ job' = [job EXCEPT ![r] = [@ EXCEPT !.ask = goal, !.todo = Granting(goal) \o <<"push", "done", "unlock">>]]
    /\ UNCHANGED <<stores, caches, history, faults, lock, issued, queued, applied, overlapped, doubtful>>

\* only a run that saw no state chooses a goal, and writes it down before acting on it
Aim(r) ==
    /\ At(r, "aim")
    /\ LET u == job[r].user
           s == job[r].sub
           goal == [field |-> "extend_to", to |-> Max({s.days, Today}) + LoyaltyDays]
           ask == IF job[r].ask = NoState THEN goal ELSE job[r].ask IN
       IF s = None THEN Raise(r) /\ UNCHANGED <<state, goals>>
       ELSE /\ goals' = [goals EXCEPT ![u] = IF job[r].ask = NoState THEN @ + 1 ELSE @]
            /\ state' = [state EXCEPT ![u] = IF job[r].ask = NoState THEN goal ELSE @]
            /\ job' = [job EXCEPT ![r] = [@ EXCEPT !.ask = ask,
                                          !.todo = Granting(ask) \o <<"push", "done", "unlock">>]]
            /\ Undisturbed
    /\ UNCHANGED <<stores, caches, due, faults, lock, issued, queued, applied, overlapped, doubtful>>

\* a goal that was reached before is not reached again; billing's answer replaces the copy
Extend(r) ==
    /\ At(r, "extend")
    /\ LET s == job[r].sub
           new == [s EXCEPT !.days = job[r].ask.to] IN
       IF s.days < job[r].ask.to
       THEN BillSubKeeping(r, new, {"days"}, Billed(new, {"days"})[s.id], <<>>)
       ELSE Continue(r) /\ Locally
    /\ UNCHANGED grantVars

SetState(r, step, field) ==
    /\ At(r, step)
    /\ state' = [state EXCEPT ![job[r].user] = [field |-> field, to |-> 0]]
    /\ Continue(r)
    /\ Locally /\ UNCHANGED <<lock, issued, applied, queued, goals, overlapped, doubtful>>
Mark(r) == SetState(r, "mark", "extended")
Done(r) == SetState(r, "done", "granted")

GiveDiscount(r) ==
    /\ At(r, "discount")
    /\ IF job[r].usr.discount < LoyaltyDiscount
       THEN BillUser(r, "discount", LoyaltyDiscount, <<"refillUser">>)
       ELSE Continue(r) /\ Locally
    /\ UNCHANGED grantVars

\* the lock is deleted whoever holds it by now
Unlock(r) ==
    /\ At(r, "unlock")
    /\ lock' = [lock EXCEPT ![job[r].user] = FALSE]
    /\ Continue(r)
    /\ Locally /\ UNCHANGED <<state, issued, applied, queued, goals, overlapped, doubtful>>

\* the process of the bot dies: nothing is released
Crash(r) ==
    /\ ~Idle(r) /\ faults < MaxFaults
    /\ faults' = faults + 1
    /\ Stop(r)
    /\ disturbed' = IF job[r].wrote THEN disturbed \cup {job[r].user} ELSE disturbed
    /\ UNCHANGED <<stores, caches, due, grantVars>>

----------------------------------------------------------------------------
(***************************************************************************)
(* Referral rewards.                                                       *)
(***************************************************************************)

Giving(reward) ==
    IF Kind[reward] = "POINTS" THEN <<"user", "points", "issue">>
    ELSE <<"user", "sub", "days", "push", "issue">>

\* the task was queued once, when the reward was created; it does not look
\* whether the reward is issued by now
BeginGive(g) ==
    LET ask == [field |-> "reward", to |-> RewardOf[g]] IN
    /\ Idle(g) /\ ask.to \in queued
    /\ queued' = queued \ {ask.to}
    /\ Begin(g, Winner, ask, Giving(ask.to), Giving(ask.to))
    /\ UNCHANGED <<stores, caches, history, faults, state, lock, issued, applied, goals, overlapped, doubtful>>

Applied1(reward) == applied' = [applied EXCEPT ![reward] = @ + 1]

\* add_points: the points of the copy and the reward
GivePoints(g) ==
    /\ At(g, "points")
    /\ BillUser(g, "points", job[g].usr.points + Amount[job[g].ask.to], <<"clearUser">>)
    /\ Applied1(job[g].ask.to)
    /\ UNCHANGED <<state, lock, issued, queued, goals, overlapped, doubtful>>

\* mutant: days from today, whatever was paid for
LaterFromToday(s, reward) == [s EXCEPT !.days = Today + Amount[reward]]

Later(s, reward) == [s EXCEPT !.days = Max({@, Today}) + Amount[reward]]

\* without a paid subscription the reward stays as it is
GiveDays(g) ==
    /\ At(g, "days")
    /\ LET s == job[g].sub IN
       IF s = None \/ (s # None /\ s.trial) THEN Stop(g) /\ Locally /\ UNCHANGED applied
       ELSE BillSub(g, Later(s, job[g].ask.to), {"days"}, <<>>) /\ Applied1(job[g].ask.to)
    /\ UNCHANGED <<state, lock, issued, queued, goals, overlapped, doubtful>>

\* mutant: it is not marked at all
IssueNot(j) ==
    /\ At(j, "issue")
    /\ Continue(j)
    /\ Locally /\ UNCHANGED grantVars

\* the reward is marked only now, after it was given
Issue(j) ==
    /\ At(j, "issue")
    /\ issued' = issued \cup {job[j].ask.to}
    /\ Continue(j)
    /\ Locally /\ UNCHANGED <<state, lock, applied, queued, goals, overlapped, doubtful>>

BeginFlush(f) ==
    /\ Idle(f) /\ issued # Rewards
    /\ Begin(f, Winner, NoAsk, <<"sub", "pending">>, <<>>)
    /\ UNCHANGED <<stores, caches, history, faults, grantVars>>

\* a job will still mark the reward, or has it on its list; with the former it may
\* have given it already
Carries(j, reward) ==
    job[j].ask.field = "reward" /\ job[j].ask.to = reward /\ "issue" \in Range(job[j].todo)
Lists(f, reward) == job[f].remna # None /\ reward \in job[f].remna
Gave(j, reward) == Carries(j, reward) /\ Range(job[j].todo) \cap {"points", "days"} = {}

InHand(reward) ==
    \/ reward \in queued
    \/ \E j \in Givers \cup Flushers : Carries(j, reward)
    \/ \E f \in Flushers : Lists(f, reward)
Banked == {reward \in Rewards \ issued : Kind[reward] = "EXTRA_DAYS"}

ListPending(f) ==
    /\ At(f, "pending")
    /\ LET s == job[f].sub IN
       IF s = None \/ (s # None /\ s.trial) \/ Banked = {} THEN Stop(f) /\ UNCHANGED doubtful
       ELSE /\ job' = [job EXCEPT ![f] = [@ EXCEPT !.remna = Banked, !.todo = <<"user", "flush">>]]
            /\ doubtful' = doubtful \cup {reward \in Banked : InHand(reward)}
    /\ Locally /\ UNCHANGED <<state, lock, issued, queued, applied, goals, overlapped>>

\* one reward after the other, all from the copy read first
Flush(f) ==
    /\ At(f, "flush")
    /\ IF job[f].remna = {} THEN Stop(f)
       ELSE \E reward \in job[f].remna :
               job' = [job EXCEPT ![f] = [@ EXCEPT !.ask = [field |-> "reward", to |-> reward], !.remna = job[f].remna \ {reward},
                                                   !.todo = <<"days", "push", "issue", "flush">>]]
    /\ Locally /\ UNCHANGED grantVars

----------------------------------------------------------------------------
GrantsInit(tasks) ==
    /\ state = [u \in Users |-> NoState] /\ lock = [u \in Users |-> FALSE]
    /\ issued = {} /\ queued = tasks /\ applied = [r \in Rewards |-> 0]
    /\ goals = [u \in Users |-> 0] /\ overlapped = {} /\ doubtful = {}

\* an await every job may have, or an exception: a reward that was given stays unmarked
Interruptible(j) ==
    /\ AwaitStep(j) \/ Fault(j)
    /\ doubtful' = doubtful \cup {reward \in Rewards : Gave(j, reward) /\ ~Gave(j, reward)'}
    /\ UNCHANGED <<state, lock, issued, queued, applied, goals, overlapped>>

GrantStep(j) ==
    \/ Interruptible(j)
    \/ ReadState(j) \/ Eligible(j) \/ TakeLock(j) \/ Aim(j) \/ Extend(j) \/ Mark(j) \/ Done(j)
    \/ GiveDiscount(j) \/ Unlock(j)
    \/ GivePoints(j) \/ GiveDays(j) \/ Issue(j) \/ ListPending(j) \/ Flush(j)
=============================================================================
