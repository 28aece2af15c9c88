-------------------------- MODULE AccountsProofs --------------------------
(*************************************************************************)
(* Theorems about Accounts, for every set of users, administrators, runs, *)
(* tasks and flushes, every bound and every way to begin: a loyalty      *)
(* run has one goal, a referral reward is given once, and the copies in  *)
(* Redis are fresh.                                                      *)
(*                                                                       *)
(* The first part follows what a run, a task or a flush has left to do   *)
(* (AccountsInv).  In the second, CopiesInv says of the stores, the copies *)
(* and the awaits a job has left what the next awaits rely on, and DeskInv *)
(* which window a handler draws again; there is one lemma per await, and *)
(* one for every step.                                                   *)
(*************************************************************************)
EXTENDS Accounts, SequenceTheorems, TLAPS

JobFields == {"user", "usr", "sub", "remna", "ask", "wrote", "todo", "rescue"}

-----------------------------------------------------------------------------
(* The loyalty runs                                                        *)

\* What is left of a run that has not read its state, of one that has and may
\* still choose a goal, and of one past that.
Unseen ==
    {<<"user", "seen", "sub", "eligible", "lock">>, <<"keepUser", "seen", "sub", "eligible", "lock">>,
     <<"seen", "sub", "eligible", "lock">>}
Seen ==
    {<<"sub", "eligible", "lock">>, <<"keepSub", "eligible", "lock">>, <<"eligible", "lock">>, <<"lock">>,
     <<"sub", "aim">>, <<"keepSub", "aim">>, <<"aim">>}
Late == {"extend", "mark", "discount", "push", "done", "unlock", "clearSub", "clearUser", "refillUser"}

RunOK(r) ==
    /\ DOMAIN job[r] = JobFields /\ job[r].rescue \in Seq(Late)
    /\ job[r].todo \in Unseen \cup Seen \cup Seq(Late)
    /\ job[r].todo \in Unseen \cup Seen => job[r].user \in Users
    /\ job[r].todo \in Seen /\ job[r].ask = NoState /\ job[r].user \notin overlapped =>
         goals[job[r].user] = 0

\* Two runs work on one user only where that was noted; a goal is chosen by the
\* run that saw no state, and from then on there is one.
RunsInv ==
    /\ DOMAIN job = Jobs /\ agenda.jobs \subseteq Jobs
    /\ \A r \in Runs : RunOK(r)
    /\ \A r, k \in Runs : r # k /\ job[r].user = job[k].user /\ job[r].user # None =>
         job[r].user \in overlapped
    /\ goals \in [Users -> Nat] /\ DOMAIN state = Users
    /\ \A u \in Users \ overlapped : goals[u] <= 1 /\ (state[u] = NoState => goals[u] = 0)

-----------------------------------------------------------------------------
(* The referral tasks and the flushes                                      *)

\* What is left of a task or a flush that still has to give its reward, and of
\* one that has given it and not marked it.
GiverUngiven ==
    {<<"user", "points", "issue">>, <<"keepUser", "points", "issue">>, <<"points", "issue">>,
     <<"user", "sub", "days", "push", "issue">>, <<"keepUser", "sub", "days", "push", "issue">>,
     <<"sub", "days", "push", "issue">>, <<"keepSub", "days", "push", "issue">>, <<"days", "push", "issue">>}
GiverGiven ==
    {<<"clearSub", "clearUser", "push", "issue">>, <<"clearUser", "push", "issue">>, <<"push", "issue">>,
     <<"clearUser", "issue">>, <<"issue">>}
FlusherUngiven == {<<"days", "push", "issue", "flush">>}
FlusherGiven ==
    {<<"clearSub", "clearUser", "push", "issue", "flush">>, <<"clearUser", "push", "issue", "flush">>,
     <<"push", "issue", "flush">>, <<"issue", "flush">>}
Listing == {<<"sub", "pending">>, <<"keepSub", "pending">>, <<"pending">>}
Flushing == {<<"user", "flush">>, <<"keepUser", "flush">>, <<"flush">>}

GiverOK(g) ==
    /\ DOMAIN job[g] = JobFields
    /\ job[g].todo \in GiverUngiven \cup GiverGiven \cup {<<>>}
    /\ job[g].rescue \in {<<>>, Giving(RewardOf[g])}
    /\ job[g].todo # <<>> => job[g].ask = [field |-> "reward", to |-> RewardOf[g]]

FlusherOK(f) ==
    /\ DOMAIN job[f] = JobFields /\ job[f].rescue = <<>>
    /\ \/ job[f].todo \in Listing \cup {<<>>} /\ job[f].remna = None
       \/ job[f].todo \in Flushing /\ job[f].remna \subseteq Rewards
       \/ /\ job[f].todo \in FlusherUngiven \cup FlusherGiven /\ job[f].remna \subseteq Rewards
          /\ job[f].ask.field = "reward" /\ job[f].ask.to \in Rewards

TasksOK ==
    /\ DOMAIN job = Jobs /\ agenda.jobs \subseteq Jobs
    /\ \A g \in Givers : GiverOK(g)
    /\ \A f \in Flushers : FlusherOK(f)
    /\ \A j \in Jobs \ (Desks \cup Runs \cup Givers \cup Flushers) : job[j].todo = <<>>

Takers == Givers \cup Flushers
Hand(j, r) == Carries(j, r) \/ (j \in Flushers /\ Lists(j, r))

\* A reward nothing irregular happened to is in one pair of hands at most, and
\* was given only if it is marked or will be.
Single(r) ==
    /\ r \in queued => \A j \in Takers : ~Hand(j, r)
    /\ \A i, j \in Takers : Hand(i, r) /\ Hand(j, r) => i = j
    /\ \A f \in Flushers : ~(Carries(f, r) /\ Lists(f, r))
    /\ r \in issued => r \notin queued /\ \A j \in Takers : ~Hand(j, r)
    /\ applied[r] # 0 => r \in issued \/ \E j \in Takers : Gave(j, r)
RewardsInv ==
    /\ applied \in [Rewards -> Nat] /\ issued \subseteq Rewards
    /\ \A r \in Rewards \ doubtful : Single(r)

-----------------------------------------------------------------------------
(* What a step of one job leaves alone                                     *)

Own(j) == DOMAIN job' = DOMAIN job /\ \A k \in DOMAIN job : k # j => job'[k] = job[k]

\* Whatever a job does to its record leaves the other jobs alone.
LEMMA AwaitOwn == \A j : AwaitStep(j) => Own(j)
<1> SUFFICES ASSUME NEW j, AwaitStep(j) PROVE Own(j)
  OBVIOUS
<1>1. Continue(j) => Own(j)
  BY DEF Continue, Own
<1>2. Raise(j) => Own(j)
  BY DEF Raise, Own
<1>3. CASE ReadUser(j) \/ ReadSub(j)
  BY <1>3 DEF ReadUser, ReadSub, Own
<1>4. CASE KeepUser(j) \/ KeepSub(j) \/ ClearSub(j) \/ ClearUser(j) \/ RefillUser(j)
  BY <1>1, <1>4 DEF KeepUser, KeepSub, ClearSub, ClearUser, RefillUser
<1>5. CASE Push(j)
  BY <1>2, <1>5 DEF Push, Own
<1> QED BY <1>3, <1>4, <1>5 DEF AwaitStep

\* A handler of the dashboard is a job of its own.
LEMMA DeskOwn == \A d : DeskNext(d) => Own(d) /\ UNCHANGED grantVars
<1> SUFFICES ASSUME NEW d, DeskNext(d) PROVE Own(d)
  BY DEF DeskNext
<1>1. \A u, ask, todo, rescue : Begin(d, u, ask, todo, rescue) => Own(d)
  BY DEF Begin, Own
<1>2. Continue(d) => Own(d)
  BY DEF Continue, Own
<1>3. Raise(d) => Own(d)
  BY DEF Raise, Own
<1>4. \A step, todo : Decide(d, step, todo) => Own(d)
  BY DEF Decide, Own
<1>5. \A new, changed, more : BillSub(d, new, changed, more) => Own(d)
  BY DEF BillSub, BillSubKeeping, Own
<1>6. \A field, value, more : BillUser(d, field, value, more) => Own(d)
  BY DEF BillUser, Own
<1>7. \A u, step : Unset(d, u, step) => Own(d)
  BY DEF Unset, Own
<1>8. \A steps : Then(d, steps) => Own(d)
  BY DEF Then, Own
<1>9. \A key : Arm(d, key) => Own(d)
  BY DEF Arm, Own
<1>10. \A w, todo : Look(d, w, todo) => Own(d)
  BY <1>1 DEF Look, Handle
<1>11. \A w, ask, todo : Change(d, w, ask, todo) => Own(d)
  BY <1>1 DEF Change, Handle
<1>12. \A todo : StartSync(d, todo) => Own(d)
  BY DEF StartSync, Own
<1>13. CASE DeskClick(d)
  BY <1>1, <1>10, <1>13 DEF DeskClick, Open, OnCurrentSubscription, OnResetTraffic, OnDevices, OnSync,
     OnGiveSubscription, OnSubscriptionSelect, OnGiveAccess, OnTransactions, OnTransactionSelect,
     OnContentInput, SwitchTo, OnInvalidInput, Handle
<1>14. CASE DeskEdit(d)
  BY <1>11, <1>12, <1>14 DEF DeskEdit, OnBlockToggle, OnRoleSelect, OnDiscount, OnPoints, EditSub,
     OnTrafficLimit, OnDeviceLimit, OnInternalSquad, OnExternalSquad, OnDuration, OnActiveToggle,
     OnSubscriptionDelete, OnDeviceDelete, OnSyncFromRemnawave, OnSyncFromRemnashop,
     OnSubscriptionDuration, OnPlanSelect, OnSend
<1>15. CASE DeskStep(d)
  <2>1. CASE AwaitStep(d) \/ Fault(d)
    BY <1>3, <2>1, AwaitOwn DEF Fault
  <2>2. CASE Show(d) \/ Menu(d) \/ WhetherSub(d) \/ Reset(d) \/ Devices(d)
    BY <1>2, <1>3, <1>4, <2>2 DEF Show, Menu, WhetherSub, Reset, Devices
  <2>3. CASE SetUser(d) \/ Edit(d) \/ BillStatus(d)
    BY <1>3, <1>4, <1>5, <1>6, <2>3 DEF SetUser, Edit, BillStatus
  <2>4. CASE Toggle(d) \/ Unlink(d) \/ Remove(d)
    BY <1>3, <2>4 DEF Toggle, Unlink, Remove, Own
  <2>5. CASE ConfirmDelete(d) \/ Drop(d) \/ DropActor(d)
    BY <1>3, <1>5, <1>7, <1>9, <2>5 DEF ConfirmDelete, Drop, DropActor
  <2>6. CASE Matching(d) \/ ClearActor(d) \/ Compare(d) \/ OfferPlans(d) \/ OfferAccess(d) \/ Send(d)
    BY <1>2, <1>4, <1>8, <1>9, <2>6 DEF Matching, ClearActor, Compare, OfferPlans, OfferAccess, Send
  <2>7. CASE Fetch(d)
    BY <1>5, <1>8, <2>7 DEF Fetch, Own
  <2>8. CASE Apply(d)
    BY <1>5, <2>8 DEF Apply, Own
  <2>9. CASE Restore(d) \/ ReadPlan(d)
    BY <2>9 DEF Restore, ReadPlan, Own
  <2>10. CASE Provision(d)
    BY <1>3, <2>10 DEF Provision, Own
  <2>11. CASE CreateSub(d) \/ PointTo(d) \/ GrantAccess(d)
    BY <1>2, <2>11 DEF CreateSub, PointTo, GrantAccess, Own
  <2> QED BY <1>15, <2>1, <2>2, <2>3, <2>4, <2>5, <2>6, <2>7, <2>8, <2>9, <2>10, <2>11 DEF DeskStep
<1> QED BY <1>13, <1>14, <1>15 DEF DeskNext

\* So is a run, a task or a flush.
LEMMA GrantOwn == \A j : GrantsNext(j) => Own(j)
<1> SUFFICES ASSUME NEW j, GrantsNext(j) PROVE Own(j)
  OBVIOUS
<1>1. \A u, ask, todo, rescue : Begin(j, u, ask, todo, rescue) => Own(j)
  BY DEF Begin, Own
<1>2. Continue(j) => Own(j)
  BY DEF Continue, Own
<1>3. Raise(j) => Own(j)
  BY DEF Raise, Own
<1>4. Stop(j) => Own(j)
  BY DEF Stop, Own
<1>5. \A new, changed, kept, more : BillSubKeeping(j, new, changed, kept, more) => Own(j)
  BY DEF BillSubKeeping, Own
<1>6. \A field, value, more : BillUser(j, field, value, more) => Own(j)
  BY DEF BillUser, Own
<1>7. CASE (\E u \in Loyal : BeginGrant(j, u)) \/ Crash(j) \/ BeginGive(j) \/ BeginFlush(j)
  BY <1>1, <1>4, <1>7 DEF BeginGrant, Crash, BeginGive, BeginFlush
<1>8. CASE GrantStep(j)
  <2>1. CASE Interruptible(j)
    BY <1>3, <2>1, AwaitOwn DEF Interruptible, Fault
  <2>2. CASE ReadState(j) \/ Eligible(j) \/ TakeLock(j)
    BY <1>2, <1>4, <2>2 DEF ReadState, Eligible, TakeLock, Own
  <2>3. CASE Aim(j)
    BY <1>3, <2>3 DEF Aim, Own
  <2>4. CASE Extend(j) \/ Mark(j) \/ Done(j) \/ GiveDiscount(j) \/ Unlock(j)
    BY <1>2, <1>5, <1>6, <2>4 DEF Extend, Mark, Done, SetState, GiveDiscount, Unlock
  <2>5. CASE GivePoints(j) \/ GiveDays(j) \/ Issue(j)
    BY <1>2, <1>4, <1>5, <1>6, <2>5 DEF GivePoints, GiveDays, BillSub, Issue
  <2>6. CASE ListPending(j) \/ Flush(j)
    BY <1>4, <2>6 DEF ListPending, Flush, Own
  <2> QED BY <1>8, <2>1, <2>2, <2>3, <2>4, <2>5, <2>6 DEF GrantStep
<1> QED BY <1>7, <1>8 DEF GrantsNext

-----------------------------------------------------------------------------
(* What is left of a run after each step                                   *)

\* No await, one or two before a list of them.
LEMMA Before ==
  /\ <<>> \o <<>> = <<>>
  /\ \A v : <<>> \o <<v>> = <<v>>
  /\ \A v, w : <<>> \o <<v, w>> = <<v, w>>
  /\ \A v, w, x : <<>> \o <<v, w, x>> = <<v, w, x>>
  /\ \A v, w, x, y : <<>> \o <<v, w, x, y>> = <<v, w, x, y>>
  /\ \A a, v : <<a>> \o <<v>> = <<a, v>>
  /\ \A a, v, w : <<a>> \o <<v, w>> = <<a, v, w>>
  /\ \A a, v, w, x : <<a>> \o <<v, w, x>> = <<a, v, w, x>>
  /\ \A a, v, w, x, y : <<a>> \o <<v, w, x, y>> = <<a, v, w, x, y>>
  /\ \A a, b, v, w : <<a, b>> \o <<v, w>> = <<a, b, v, w>>
  /\ \A a, b, v, w, x : <<a, b>> \o <<v, w, x>> = <<a, b, v, w, x>>
  /\ \A a, b : <<a, b>> \o <<>> = <<a, b>>
<1>1. <<>> \o <<>> = <<>>
  <2>1. <<>> \in Seq({})
    OBVIOUS
  <2> QED BY <2>1, ConcatEmptySeq
<1>2. ASSUME NEW v PROVE <<>> \o <<v>> = <<v>>
  <2>1. <<v>> \in Seq({v})
    OBVIOUS
  <2> QED BY <2>1, ConcatEmptySeq
<1>3. ASSUME NEW v, NEW w PROVE <<>> \o <<v, w>> = <<v, w>>
  <2>1. <<v, w>> \in Seq({v, w})
    OBVIOUS
  <2> QED BY <2>1, ConcatEmptySeq
<1>4. ASSUME NEW v, NEW w, NEW x PROVE <<>> \o <<v, w, x>> = <<v, w, x>>
  <2>1. <<v, w, x>> \in Seq({v, w, x})
    OBVIOUS
  <2> QED BY <2>1, ConcatEmptySeq
<1>5. ASSUME NEW v, NEW w, NEW x, NEW y PROVE <<>> \o <<v, w, x, y>> = <<v, w, x, y>>
  <2>1. <<v, w, x, y>> \in Seq({v, w, x, y})
    OBVIOUS
  <2> QED BY <2>1, ConcatEmptySeq
<1>6. ASSUME NEW a, NEW v PROVE <<a>> \o <<v>> = <<a, v>>
  <2> DEFINE S == {a, v}
  <2>1. <<a>> \in Seq(S) /\ <<v>> \in Seq(S) /\ <<a, v>> \in Seq(S)
    OBVIOUS
  <2>2. /\ <<a>> \o <<v>> \in Seq(S) /\ Len(<<a>> \o <<v>>) = 2
        /\ \A i \in 1..2 : (<<a>> \o <<v>>)[i] = <<a, v>>[i]
    BY <2>1, ConcatProperties
  <2> QED BY <2>1, <2>2, SeqEqual
<1>7. ASSUME NEW a, NEW v, NEW w PROVE <<a>> \o <<v, w>> = <<a, v, w>>
  <2> DEFINE S == {a, v, w}
  <2>1. <<a>> \in Seq(S) /\ <<v, w>> \in Seq(S) /\ <<a, v, w>> \in Seq(S)
    OBVIOUS
  <2>2. /\ <<a>> \o <<v, w>> \in Seq(S) /\ Len(<<a>> \o <<v, w>>) = 3
        /\ \A i \in 1..3 : (<<a>> \o <<v, w>>)[i] = <<a, v, w>>[i]
    BY <2>1, ConcatProperties
  <2> QED BY <2>1, <2>2, SeqEqual
<1>8. ASSUME NEW a, NEW v, NEW w, NEW x PROVE <<a>> \o <<v, w, x>> = <<a, v, w, x>>
  <2> DEFINE S == {a, v, w, x}
  <2>1. <<a>> \in Seq(S) /\ <<v, w, x>> \in Seq(S) /\ <<a, v, w, x>> \in Seq(S)
    OBVIOUS
  <2>2. /\ <<a>> \o <<v, w, x>> \in Seq(S) /\ Len(<<a>> \o <<v, w, x>>) = 4
        /\ \A i \in 1..4 : (<<a>> \o <<v, w, x>>)[i] = <<a, v, w, x>>[i]
    BY <2>1, ConcatProperties
  <2> QED BY <2>1, <2>2, SeqEqual
<1>9. ASSUME NEW a, NEW v, NEW w, NEW x, NEW y PROVE <<a>> \o <<v, w, x, y>> = <<a, v, w, x, y>>
  <2> DEFINE S == {a, v, w, x, y}
  <2>1. <<a>> \in Seq(S) /\ <<v, w, x, y>> \in Seq(S) /\ <<a, v, w, x, y>> \in Seq(S)
    OBVIOUS
  <2>2. /\ <<a>> \o <<v, w, x, y>> \in Seq(S) /\ Len(<<a>> \o <<v, w, x, y>>) = 5
        /\ \A i \in 1..5 : (<<a>> \o <<v, w, x, y>>)[i] = <<a, v, w, x, y>>[i]
    BY <2>1, ConcatProperties
  <2> QED BY <2>1, <2>2, SeqEqual
<1>10. ASSUME NEW a, NEW b, NEW v, NEW w PROVE <<a, b>> \o <<v, w>> = <<a, b, v, w>>
  <2> DEFINE S == {a, b, v, w}
  <2>1. <<a, b>> \in Seq(S) /\ <<v, w>> \in Seq(S) /\ <<a, b, v, w>> \in Seq(S)
    OBVIOUS
  <2>2. /\ <<a, b>> \o <<v, w>> \in Seq(S) /\ Len(<<a, b>> \o <<v, w>>) = 4
        /\ \A i \in 1..4 : (<<a, b>> \o <<v, w>>)[i] = <<a, b, v, w>>[i]
    BY <2>1, ConcatProperties
  <2> QED BY <2>1, <2>2, SeqEqual
<1>11. ASSUME NEW a, NEW b, NEW v, NEW w, NEW x PROVE <<a, b>> \o <<v, w, x>> = <<a, b, v, w, x>>
  <2> DEFINE S == {a, b, v, w, x}
  <2>1. <<a, b>> \in Seq(S) /\ <<v, w, x>> \in Seq(S) /\ <<a, b, v, w, x>> \in Seq(S)
    OBVIOUS
  <2>2. /\ <<a, b>> \o <<v, w, x>> \in Seq(S) /\ Len(<<a, b>> \o <<v, w, x>>) = 5
        /\ \A i \in 1..5 : (<<a, b>> \o <<v, w, x>>)[i] = <<a, b, v, w, x>>[i]
    BY <2>1, ConcatProperties
  <2> QED BY <2>1, <2>2, SeqEqual
<1>12. ASSUME NEW a, NEW b PROVE <<a, b>> \o <<>> = <<a, b>>
  <2>1. <<a, b>> \in Seq({a, b})
    OBVIOUS
  <2> QED BY <2>1, ConcatEmptySeq
<1> QED BY <1>1, <1>2, <1>3, <1>4, <1>5, <1>6, <1>7, <1>8, <1>9, <1>10, <1>11, <1>12

\* A run that has not read its state goes on to read it.
LEMMA UnseenSteps ==
  \A t \in Unseen :
    /\ t # <<>> /\ <<>> \o Tail(t) = Tail(t)
    /\ Head(t) \in {"user", "keepUser", "seen"}
    /\ Head(t) = "user" => <<"keepUser">> \o Tail(t) \in Unseen
    /\ Head(t) \in {"user", "keepUser"} => Tail(t) \in Unseen
    /\ Head(t) = "seen" => Tail(t) \in Seen
<1> SUFFICES ASSUME NEW t \in Unseen
             PROVE  /\ t # <<>> /\ <<>> \o Tail(t) = Tail(t)
                    /\ Head(t) \in {"user", "keepUser", "seen"}
                    /\ Head(t) = "user" => <<"keepUser">> \o Tail(t) \in Unseen
                    /\ Head(t) \in {"user", "keepUser"} => Tail(t) \in Unseen
                    /\ Head(t) = "seen" => Tail(t) \in Seen
  OBVIOUS
<1>1. CASE t = <<"user", "seen", "sub", "eligible", "lock">>
  <2>1. t # <<>> /\ Head(t) = "user" /\ Tail(t) = <<"seen", "sub", "eligible", "lock">>
    BY <1>1
  <2>2. <<>> \o <<"seen", "sub", "eligible", "lock">> = <<"seen", "sub", "eligible", "lock">>
    BY Before
  <2>3. <<"keepUser">> \o <<"seen", "sub", "eligible", "lock">> = <<"keepUser", "seen", "sub", "eligible", "lock">>
    BY Before
  <2> QED BY <2>1, <2>2, <2>3 DEF Unseen, Seen
<1>2. CASE t = <<"keepUser", "seen", "sub", "eligible", "lock">>
  <2>1. t # <<>> /\ Head(t) = "keepUser" /\ Tail(t) = <<"seen", "sub", "eligible", "lock">>
    BY <1>2
  <2>2. <<>> \o <<"seen", "sub", "eligible", "lock">> = <<"seen", "sub", "eligible", "lock">>
    BY Before
  <2> QED BY <2>1, <2>2 DEF Unseen, Seen
<1>3. CASE t = <<"seen", "sub", "eligible", "lock">>
  <2>1. t # <<>> /\ Head(t) = "seen" /\ Tail(t) = <<"sub", "eligible", "lock">>
    BY <1>3
  <2>2. <<>> \o <<"sub", "eligible", "lock">> = <<"sub", "eligible", "lock">>
    BY Before
  <2> QED BY <2>1, <2>2 DEF Unseen, Seen
<1> QED BY <1>1, <1>2, <1>3 DEF Unseen

\* A run that has read its state goes on to the lock, and then to its goal.
LEMMA SeenSteps ==
  \A t \in Seen :
    /\ t # <<>> /\ <<>> \o Tail(t) = Tail(t)
    /\ Head(t) \in {"sub", "keepSub", "eligible", "lock", "aim"}
    /\ Head(t) = "sub" => <<"keepSub">> \o Tail(t) \in Seen
    /\ Head(t) \in {"sub", "keepSub", "eligible"} => Tail(t) \in Seen
<1> SUFFICES ASSUME NEW t \in Seen
             PROVE  /\ t # <<>> /\ <<>> \o Tail(t) = Tail(t)
                    /\ Head(t) \in {"sub", "keepSub", "eligible", "lock", "aim"}
                    /\ Head(t) = "sub" => <<"keepSub">> \o Tail(t) \in Seen
                    /\ Head(t) \in {"sub", "keepSub", "eligible"} => Tail(t) \in Seen
  OBVIOUS
<1>1. CASE t = <<"sub", "eligible", "lock">>
  <2>1. t # <<>> /\ Head(t) = "sub" /\ Tail(t) = <<"eligible", "lock">>
    BY <1>1
  <2>2. <<>> \o <<"eligible", "lock">> = <<"eligible", "lock">>
    BY Before
  <2>3. <<"keepSub">> \o <<"eligible", "lock">> = <<"keepSub", "eligible", "lock">>
    BY Before
  <2> QED BY <2>1, <2>2, <2>3 DEF Seen
<1>2. CASE t = <<"keepSub", "eligible", "lock">>
  <2>1. t # <<>> /\ Head(t) = "keepSub" /\ Tail(t) = <<"eligible", "lock">>
    BY <1>2
  <2>2. <<>> \o <<"eligible", "lock">> = <<"eligible", "lock">>
    BY Before
  <2> QED BY <2>1, <2>2 DEF Seen
<1>3. CASE t = <<"eligible", "lock">>
  <2>1. t # <<>> /\ Head(t) = "eligible" /\ Tail(t) = <<"lock">>
    BY <1>3
  <2>2. <<>> \o <<"lock">> = <<"lock">>
    BY Before
  <2> QED BY <2>1, <2>2 DEF Seen
<1>4. CASE t = <<"lock">>
  <2>1. t # <<>> /\ Head(t) = "lock" /\ Tail(t) = <<>>
    BY <1>4
  <2>2. <<>> \o <<>> = <<>>
    BY Before
  <2> QED BY <2>1, <2>2 DEF Seen
<1>5. CASE t = <<"sub", "aim">>
  <2>1. t # <<>> /\ Head(t) = "sub" /\ Tail(t) = <<"aim">>
    BY <1>5
  <2>2. <<>> \o <<"aim">> = <<"aim">>
    BY Before
  <2>3. <<"keepSub">> \o <<"aim">> = <<"keepSub", "aim">>
    BY Before
  <2> QED BY <2>1, <2>2, <2>3 DEF Seen
<1>6. CASE t = <<"keepSub", "aim">>
  <2>1. t # <<>> /\ Head(t) = "keepSub" /\ Tail(t) = <<"aim">>
    BY <1>6
  <2>2. <<>> \o <<"aim">> = <<"aim">>
    BY Before
  <2> QED BY <2>1, <2>2 DEF Seen
<1>7. CASE t = <<"aim">>
  <2>1. t # <<>> /\ Head(t) = "aim" /\ Tail(t) = <<>>
    BY <1>7
  <2>2. <<>> \o <<>> = <<>>
    BY Before
  <2> QED BY <2>1, <2>2 DEF Seen
<1> QED BY <1>1, <1>2, <1>3, <1>4, <1>5, <1>6, <1>7 DEF Seen

\* Past the choice of its goal a run neither reads the state nor chooses again.
LEMMA LateSteps ==
  /\ \A t \in Seq(Late) : t # <<>> => Head(t) \in Late /\ Tail(t) \in Seq(Late)
  /\ \A s, t \in Seq(Late) : s \o t \in Seq(Late)
  /\ <<>> \in Seq(Late) /\ <<"unlock">> \in Seq(Late) /\ <<"clearSub", "clearUser">> \in Seq(Late)
  /\ <<"refillUser">> \in Seq(Late) /\ <<"push", "done", "unlock">> \in Seq(Late)
  /\ \A ask : Granting(ask) \in Seq(Late)
<1>1. \A t \in Seq(Late) : t # <<>> => Head(t) \in Late /\ Tail(t) \in Seq(Late)
  BY HeadTailProperties
<1>2. \A s, t \in Seq(Late) : s \o t \in Seq(Late)
  BY ConcatProperties
<1>3. /\ <<>> \in Seq(Late) /\ <<"unlock">> \in Seq(Late) /\ <<"clearSub", "clearUser">> \in Seq(Late)
      /\ <<"refillUser">> \in Seq(Late) /\ <<"push", "done", "unlock">> \in Seq(Late)
  BY DEF Late
<1>4. ASSUME NEW ask PROVE Granting(ask) \in Seq(Late)
  <2>1. <<"discount">> \in Seq(Late) /\ <<"extend", "mark", "discount">> \in Seq(Late)
    BY DEF Late
  <2> QED BY <2>1 DEF Granting
<1> QED BY <1>1, <1>2, <1>3, <1>4

-----------------------------------------------------------------------------
(* What is left of a task or a flush after each step                       *)

\* A task reads what it needs and gives its reward.
LEMMA GiverUngivenSteps ==
  \A t \in GiverUngiven :
    /\ t # <<>> /\ <<>> \o Tail(t) = Tail(t)
    /\ Head(t) \in {"user", "keepUser", "sub", "keepSub", "points", "days"}
    /\ Head(t) = "user" => <<"keepUser">> \o Tail(t) \in GiverUngiven
    /\ Head(t) = "sub" => <<"keepSub">> \o Tail(t) \in GiverUngiven
    /\ Head(t) \in {"user", "keepUser", "sub", "keepSub"} => Tail(t) \in GiverUngiven
    /\ Head(t) = "points" => <<"clearUser">> \o Tail(t) \in GiverGiven
    /\ Head(t) = "days" => <<"clearSub", "clearUser">> \o Tail(t) \in GiverGiven
<1> SUFFICES ASSUME NEW t \in GiverUngiven
             PROVE  /\ t # <<>> /\ <<>> \o Tail(t) = Tail(t)
                    /\ Head(t) \in {"user", "keepUser", "sub", "keepSub", "points", "days"}
                    /\ Head(t) = "user" => <<"keepUser">> \o Tail(t) \in GiverUngiven
                    /\ Head(t) = "sub" => <<"keepSub">> \o Tail(t) \in GiverUngiven
                    /\ Head(t) \in {"user", "keepUser", "sub", "keepSub"} => Tail(t) \in GiverUngiven
                    /\ Head(t) = "points" => <<"clearUser">> \o Tail(t) \in GiverGiven
                    /\ Head(t) = "days" => <<"clearSub", "clearUser">> \o Tail(t) \in GiverGiven
  OBVIOUS
<1>1. CASE t = <<"user", "points", "issue">>
  <2>1. t # <<>> /\ Head(t) = "user" /\ Tail(t) = <<"points", "issue">>
    BY <1>1
  <2>2. <<>> \o <<"points", "issue">> = <<"points", "issue">>
    BY Before
  <2>3. <<"keepUser">> \o <<"points", "issue">> = <<"keepUser", "points", "issue">>
    BY Before
  <2> QED BY <2>1, <2>2, <2>3 DEF GiverUngiven, GiverGiven
<1>2. CASE t = <<"keepUser", "points", "issue">>
  <2>1. t # <<>> /\ Head(t) = "keepUser" /\ Tail(t) = <<"points", "issue">>
    BY <1>2
  <2>2. <<>> \o <<"points", "issue">> = <<"points", "issue">>
    BY Before
  <2> QED BY <2>1, <2>2 DEF GiverUngiven, GiverGiven
<1>3. CASE t = <<"points", "issue">>
  <2>1. t # <<>> /\ Head(t) = "points" /\ Tail(t) = <<"issue">>
    BY <1>3
  <2>2. <<>> \o <<"issue">> = <<"issue">>
    BY Before
  <2>3. <<"clearUser">> \o <<"issue">> = <<"clearUser", "issue">>
    BY Before
  <2> QED BY <2>1, <2>2, <2>3 DEF GiverUngiven, GiverGiven
<1>4. CASE t = <<"user", "sub", "days", "push", "issue">>
  <2>1. t # <<>> /\ Head(t) = "user" /\ Tail(t) = <<"sub", "days", "push", "issue">>
    BY <1>4
  <2>2. <<>> \o <<"sub", "days", "push", "issue">> = <<"sub", "days", "push", "issue">>
    BY Before
  <2>3. <<"keepUser">> \o <<"sub", "days", "push", "issue">> = <<"keepUser", "sub", "days", "push", "issue">>
    BY Before
  <2> QED BY <2>1, <2>2, <2>3 DEF GiverUngiven, GiverGiven
<1>5. CASE t = <<"keepUser", "sub", "days", "push", "issue">>
  <2>1. t # <<>> /\ Head(t) = "keepUser" /\ Tail(t) = <<"sub", "days", "push", "issue">>
    BY <1>5
  <2>2. <<>> \o <<"sub", "days", "push", "issue">> = <<"sub", "days", "push", "issue">>
    BY Before
  <2> QED BY <2>1, <2>2 DEF GiverUngiven, GiverGiven
<1>6. CASE t = <<"sub", "days", "push", "issue">>
  <2>1. t # <<>> /\ Head(t) = "sub" /\ Tail(t) = <<"days", "push", "issue">>
    BY <1>6
  <2>2. <<>> \o <<"days", "push", "issue">> = <<"days", "push", "issue">>
    BY Before
  <2>3. <<"keepSub">> \o <<"days", "push", "issue">> = <<"keepSub", "days", "push", "issue">>
    BY Before
  <2> QED BY <2>1, <2>2, <2>3 DEF GiverUngiven, GiverGiven
<1>7. CASE t = <<"keepSub", "days", "push", "issue">>
  <2>1. t # <<>> /\ Head(t) = "keepSub" /\ Tail(t) = <<"days", "push", "issue">>
    BY <1>7
  <2>2. <<>> \o <<"days", "push", "issue">> = <<"days", "push", "issue">>
    BY Before
  <2> QED BY <2>1, <2>2 DEF GiverUngiven, GiverGiven
<1>8. CASE t = <<"days", "push", "issue">>
  <2>1. t # <<>> /\ Head(t) = "days" /\ Tail(t) = <<"push", "issue">>
    BY <1>8
  <2>2. <<>> \o <<"push", "issue">> = <<"push", "issue">>
    BY Before
  <2>3. <<"clearSub", "clearUser">> \o <<"push", "issue">> = <<"clearSub", "clearUser", "push", "issue">>
    BY Before
  <2> QED BY <2>1, <2>2, <2>3 DEF GiverUngiven, GiverGiven
<1> QED BY <1>1, <1>2, <1>3, <1>4, <1>5, <1>6, <1>7, <1>8 DEF GiverUngiven

\* A task that has given its reward goes on to mark it.
LEMMA GiverGivenSteps ==
  \A t \in GiverGiven :
    /\ t # <<>> /\ <<>> \o Tail(t) = Tail(t)
    /\ Head(t) \in {"clearSub", "clearUser", "push", "issue"}
    /\ Head(t) \in {"clearSub", "clearUser", "push"} => Tail(t) \in GiverGiven
    /\ Head(t) = "issue" => Tail(t) = <<>>
<1> SUFFICES ASSUME NEW t \in GiverGiven
             PROVE  /\ t # <<>> /\ <<>> \o Tail(t) = Tail(t)
                    /\ Head(t) \in {"clearSub", "clearUser", "push", "issue"}
                    /\ Head(t) \in {"clearSub", "clearUser", "push"} => Tail(t) \in GiverGiven
                    /\ Head(t) = "issue" => Tail(t) = <<>>
  OBVIOUS
<1>1. CASE t = <<"clearSub", "clearUser", "push", "issue">>
  <2>1. t # <<>> /\ Head(t) = "clearSub" /\ Tail(t) = <<"clearUser", "push", "issue">>
    BY <1>1
  <2>2. <<>> \o <<"clearUser", "push", "issue">> = <<"clearUser", "push", "issue">>
    BY Before
  <2> QED BY <2>1, <2>2 DEF GiverGiven
<1>2. CASE t = <<"clearUser", "push", "issue">>
  <2>1. t # <<>> /\ Head(t) = "clearUser" /\ Tail(t) = <<"push", "issue">>
    BY <1>2
  <2>2. <<>> \o <<"push", "issue">> = <<"push", "issue">>
    BY Before
  <2> QED BY <2>1, <2>2 DEF GiverGiven
<1>3. CASE t = <<"push", "issue">>
  <2>1. t # <<>> /\ Head(t) = "push" /\ Tail(t) = <<"issue">>
    BY <1>3
  <2>2. <<>> \o <<"issue">> = <<"issue">>
    BY Before
  <2> QED BY <2>1, <2>2 DEF GiverGiven
<1>4. CASE t = <<"clearUser", "issue">>
  <2>1. t # <<>> /\ Head(t) = "clearUser" /\ Tail(t) = <<"issue">>
    BY <1>4
  <2>2. <<>> \o <<"issue">> = <<"issue">>
    BY Before
  <2> QED BY <2>1, <2>2 DEF GiverGiven
<1>5. CASE t = <<"issue">>
  <2>1. t # <<>> /\ Head(t) = "issue" /\ Tail(t) = <<>>
    BY <1>5
  <2>2. <<>> \o <<>> = <<>>
    BY Before
  <2> QED BY <2>1, <2>2 DEF GiverGiven
<1> QED BY <1>1, <1>2, <1>3, <1>4, <1>5 DEF GiverGiven

\* A flush gives a reward of days.
LEMMA FlusherUngivenSteps ==
  \A t \in FlusherUngiven :
    /\ t # <<>> /\ <<>> \o Tail(t) = Tail(t)
    /\ Head(t) = "days" /\ <<"clearSub", "clearUser">> \o Tail(t) \in FlusherGiven
<1> SUFFICES ASSUME NEW t \in FlusherUngiven
             PROVE  /\ t # <<>> /\ <<>> \o Tail(t) = Tail(t)
                    /\ Head(t) = "days" /\ <<"clearSub", "clearUser">> \o Tail(t) \in FlusherGiven
  OBVIOUS
<1>1. CASE t = <<"days", "push", "issue", "flush">>
  <2>1. t # <<>> /\ Head(t) = "days" /\ Tail(t) = <<"push", "issue", "flush">>
    BY <1>1
  <2>2. <<>> \o <<"push", "issue", "flush">> = <<"push", "issue", "flush">>
    BY Before
  <2>3. <<"clearSub", "clearUser">> \o <<"push", "issue", "flush">> = <<"clearSub", "clearUser", "push", "issue", "flush">>
    BY Before
  <2> QED BY <2>1, <2>2, <2>3 DEF FlusherUngiven, FlusherGiven
<1> QED BY <1>1 DEF FlusherUngiven

\* A flush that has given a reward goes on to mark it, and to the next one.
LEMMA FlusherGivenSteps ==
  \A t \in FlusherGiven :
    /\ t # <<>> /\ <<>> \o Tail(t) = Tail(t)
    /\ Head(t) \in {"clearSub", "clearUser", "push", "issue"}
    /\ Head(t) \in {"clearSub", "clearUser", "push"} => Tail(t) \in FlusherGiven
    /\ Head(t) = "issue" => Tail(t) = <<"flush">>
<1> SUFFICES ASSUME NEW t \in FlusherGiven
             PROVE  /\ t # <<>> /\ <<>> \o Tail(t) = Tail(t)
                    /\ Head(t) \in {"clearSub", "clearUser", "push", "issue"}
                    /\ Head(t) \in {"clearSub", "clearUser", "push"} => Tail(t) \in FlusherGiven
                    /\ Head(t) = "issue" => Tail(t) = <<"flush">>
  OBVIOUS
<1>1. CASE t = <<"clearSub", "clearUser", "push", "issue", "flush">>
  <2>1. t # <<>> /\ Head(t) = "clearSub" /\ Tail(t) = <<"clearUser", "push", "issue", "flush">>
    BY <1>1
  <2>2. <<>> \o <<"clearUser", "push", "issue", "flush">> = <<"clearUser", "push", "issue", "flush">>
    BY Before
  <2> QED BY <2>1, <2>2 DEF FlusherGiven
<1>2. CASE t = <<"clearUser", "push", "issue", "flush">>
  <2>1. t # <<>> /\ Head(t) = "clearUser" /\ Tail(t) = <<"push", "issue", "flush">>
    BY <1>2
  <2>2. <<>> \o <<"push", "issue", "flush">> = <<"push", "issue", "flush">>
    BY Before
  <2> QED BY <2>1, <2>2 DEF FlusherGiven
<1>3. CASE t = <<"push", "issue", "flush">>
  <2>1. t # <<>> /\ Head(t) = "push" /\ Tail(t) = <<"issue", "flush">>
    BY <1>3
  <2>2. <<>> \o <<"issue", "flush">> = <<"issue", "flush">>
    BY Before
  <2> QED BY <2>1, <2>2 DEF FlusherGiven
<1>4. CASE t = <<"issue", "flush">>
  <2>1. t # <<>> /\ Head(t) = "issue" /\ Tail(t) = <<"flush">>
    BY <1>4
  <2>2. <<>> \o <<"flush">> = <<"flush">>
    BY Before
  <2> QED BY <2>1, <2>2 DEF FlusherGiven
<1> QED BY <1>1, <1>2, <1>3, <1>4 DEF FlusherGiven

\* A flush reads the subscription before it lists what is pending.
LEMMA ListingSteps ==
  \A t \in Listing :
    /\ t # <<>> /\ <<>> \o Tail(t) = Tail(t)
    /\ Head(t) \in {"sub", "keepSub", "pending"}
    /\ Head(t) = "sub" => <<"keepSub">> \o Tail(t) \in Listing
    /\ Head(t) \in {"sub", "keepSub"} => Tail(t) \in Listing
<1> SUFFICES ASSUME NEW t \in Listing
             PROVE  /\ t # <<>> /\ <<>> \o Tail(t) = Tail(t)
                    /\ Head(t) \in {"sub", "keepSub", "pending"}
                    /\ Head(t) = "sub" => <<"keepSub">> \o Tail(t) \in Listing
                    /\ Head(t) \in {"sub", "keepSub"} => Tail(t) \in Listing
  OBVIOUS
<1>1. CASE t = <<"sub", "pending">>
  <2>1. t # <<>> /\ Head(t) = "sub" /\ Tail(t) = <<"pending">>
    BY <1>1
  <2>2. <<>> \o <<"pending">> = <<"pending">>
    BY Before
  <2>3. <<"keepSub">> \o <<"pending">> = <<"keepSub", "pending">>
    BY Before
  <2> QED BY <2>1, <2>2, <2>3 DEF Listing
<1>2. CASE t = <<"keepSub", "pending">>
  <2>1. t # <<>> /\ Head(t) = "keepSub" /\ Tail(t) = <<"pending">>
    BY <1>2
  <2>2. <<>> \o <<"pending">> = <<"pending">>
    BY Before
  <2> QED BY <2>1, <2>2 DEF Listing
<1>3. CASE t = <<"pending">>
  <2>1. t # <<>> /\ Head(t) = "pending" /\ Tail(t) = <<>>
    BY <1>3
  <2>2. <<>> \o <<>> = <<>>
    BY Before
  <2> QED BY <2>1, <2>2 DEF Listing
<1> QED BY <1>1, <1>2, <1>3 DEF Listing

\* A flush reads the user before it gives the first reward.
LEMMA FlushingSteps ==
  \A t \in Flushing :
    /\ t # <<>> /\ <<>> \o Tail(t) = Tail(t)
    /\ Head(t) \in {"user", "keepUser", "flush"}
    /\ Head(t) = "user" => <<"keepUser">> \o Tail(t) \in Flushing
    /\ Head(t) \in {"user", "keepUser"} => Tail(t) \in Flushing
<1> SUFFICES ASSUME NEW t \in Flushing
             PROVE  /\ t # <<>> /\ <<>> \o Tail(t) = Tail(t)
                    /\ Head(t) \in {"user", "keepUser", "flush"}
                    /\ Head(t) = "user" => <<"keepUser">> \o Tail(t) \in Flushing
                    /\ Head(t) \in {"user", "keepUser"} => Tail(t) \in Flushing
  OBVIOUS
<1>1. CASE t = <<"user", "flush">>
  <2>1. t # <<>> /\ Head(t) = "user" /\ Tail(t) = <<"flush">>
    BY <1>1
  <2>2. <<>> \o <<"flush">> = <<"flush">>
    BY Before
  <2>3. <<"keepUser">> \o <<"flush">> = <<"keepUser", "flush">>
    BY Before
  <2> QED BY <2>1, <2>2, <2>3 DEF Flushing
<1>2. CASE t = <<"keepUser", "flush">>
  <2>1. t # <<>> /\ Head(t) = "keepUser" /\ Tail(t) = <<"flush">>
    BY <1>2
  <2>2. <<>> \o <<"flush">> = <<"flush">>
    BY Before
  <2> QED BY <2>1, <2>2 DEF Flushing
<1>3. CASE t = <<"flush">>
  <2>1. t # <<>> /\ Head(t) = "flush" /\ Tail(t) = <<>>
    BY <1>3
  <2>2. <<>> \o <<>> = <<>>
    BY Before
  <2> QED BY <2>1, <2>2 DEF Flushing
<1> QED BY <1>1, <1>2, <1>3 DEF Flushing

-----------------------------------------------------------------------------
(* How a job goes on                                                       *)

\* What a job that has nothing left to do, or begins, looks like.
LEMMA IdleFields ==
  /\ DOMAIN IdleJob = JobFields /\ IdleJob.user = None /\ IdleJob.sub = None /\ IdleJob.remna = None
  /\ IdleJob.ask = NoAsk /\ IdleJob.todo = <<>> /\ IdleJob.rescue = <<>>
BY DEF IdleJob, JobFields

\* After an await a job has its remaining awaits left, or forgets what it read.
LEMMA GoesOn ==
  ASSUME NEW rec, DOMAIN rec = JobFields, NEW steps
  PROVE  /\ DOMAIN Goes(rec, steps) = JobFields
         /\ Goes(rec, steps).todo = steps \o Tail(rec.todo)
         /\ Goes(rec, steps).user \in {rec.user, None}
         /\ Goes(rec, steps).rescue \in {rec.rescue, <<>>}
         /\ steps \o Tail(rec.todo) = <<>> => Goes(rec, steps) = IdleJob
         /\ steps \o Tail(rec.todo) # <<>> =>
              /\ Goes(rec, steps).user = rec.user /\ Goes(rec, steps).ask = rec.ask
              /\ Goes(rec, steps).remna = rec.remna /\ Goes(rec, steps).rescue = rec.rescue
<1>1. CASE steps \o Tail(rec.todo) = <<>>
  BY <1>1, IdleFields DEF Goes
<1>2. CASE steps \o Tail(rec.todo) # <<>>
  BY <1>2 DEF Goes, JobFields
<1> QED BY <1>1, <1>2

\* What the awaits of every job do to its record.
Moves(j) ==
  LET t == job[j].todo IN
  /\ DOMAIN job'[j] = JobFields /\ t # <<>>
  /\ job'[j].user \in {job[j].user, None} /\ job'[j].rescue \in {job[j].rescue, <<>>}
  /\ \/ /\ job'[j].todo = Tail(t)
        /\ Head(t) \in {"user", "keepUser", "sub", "keepSub", "clearSub", "clearUser", "refillUser", "push"}
     \/ job'[j].todo = <<"keepUser">> \o Tail(t) /\ Head(t) = "user"
     \/ job'[j].todo = <<"keepSub">> \o Tail(t) /\ Head(t) = "sub"
  /\ IF job'[j].todo = <<>> THEN job'[j] = IdleJob
     ELSE job'[j].user = job[j].user /\ job'[j].ask = job[j].ask /\ job'[j].remna = job[j].remna
Fails(j) ==
  IF job[j].rescue = <<>> THEN job'[j] = IdleJob
  ELSE /\ DOMAIN job'[j] = JobFields /\ job'[j].user = job[j].user /\ job'[j].ask = job[j].ask
       /\ job'[j].remna = None /\ job'[j].todo = job[j].rescue /\ job'[j].rescue = <<>>

\* A job that raises has what it does after an exception left, or nothing.
LEMMA RaiseFails ==
  ASSUME NEW j \in Jobs, DOMAIN job = Jobs, Raise(j) PROVE Fails(j)
<1>1. job'[j] = IF job[j].rescue = <<>> THEN IdleJob
                ELSE [IdleJob EXCEPT !.user = job[j].user, !.ask = job[j].ask, !.todo = job[j].rescue]
  BY DEF Raise
<1> QED BY <1>1, IdleFields DEF Fails, JobFields

\* An await of any job moves it on or raises.
LEMMA AwaitMoves ==
  ASSUME NEW j \in Jobs, DOMAIN job = Jobs, DOMAIN job[j] = JobFields,
         <<>> \o Tail(job[j].todo) = Tail(job[j].todo), AwaitStep(j)
  PROVE  Moves(j) \/ Fails(j)
<1> DEFINE t == job[j].todo
<1>1. ASSUME NEW rec, DOMAIN rec = JobFields, rec.user = job[j].user, rec.ask = job[j].ask,
             rec.remna = job[j].remna, rec.rescue = job[j].rescue, rec.todo = t,
             job'[j] = Goes(rec, <<>>), t # <<>>,
             Head(t) \in {"user", "keepUser", "sub", "keepSub", "clearSub", "clearUser", "refillUser", "push"}
      PROVE  Moves(j)
  <2> DEFINE new == Goes(rec, <<>>)
             rest == <<>> \o Tail(rec.todo)
  <2>0. rest = Tail(t)
    BY <1>1
  <2>a. /\ DOMAIN new = JobFields /\ new.todo = rest /\ new.user \in {rec.user, None}
        /\ new.rescue \in {rec.rescue, <<>>} /\ (rest = <<>> => new = IdleJob)
        /\ rest # <<>> => new.user = rec.user /\ new.ask = rec.ask /\ new.remna = rec.remna
    BY <1>1, GoesOn
  <2> HIDE DEF new, rest
  <2>1. /\ DOMAIN new = JobFields /\ new.todo = Tail(t) /\ new.user \in {rec.user, None}
        /\ new.rescue \in {rec.rescue, <<>>} /\ (Tail(t) = <<>> => new = IdleJob)
        /\ Tail(t) # <<>> => new.user = rec.user /\ new.ask = rec.ask /\ new.remna = rec.remna
    BY <2>0, <2>a
  <2>2. job'[j] = new
    BY <1>1 DEF new
  <2> QED BY <1>1, <2>1, <2>2 DEF Moves
<1>2. ASSUME Continue(j), t # <<>>,
             Head(t) \in {"keepUser", "keepSub", "clearSub", "clearUser", "refillUser"}
      PROVE  Moves(j)
  <2>1. job'[j] = Goes(job[j], <<>>)
    BY <1>2 DEF Continue
  <2> QED BY <1>1, <1>2, <2>1
<1>3. CASE ReadUser(j)
  <2>1. t # <<>> /\ Head(t) = "user"
    BY <1>3 DEF ReadUser, At, Idle
  <2>2. CASE job' = [job EXCEPT ![j] = Goes([@ EXCEPT !.usr = userCache[job[j].user].value], <<>>)]
    <3>1. job'[j] = Goes([job[j] EXCEPT !.usr = userCache[job[j].user].value], <<>>)
      BY <2>2
    <3> QED BY <1>1, <2>1, <3>1 DEF JobFields
  <2>3. CASE job' = [job EXCEPT ![j] = [@ EXCEPT !.usr = UserView(job[j].user), !.todo = <<"keepUser">> \o Tail(job[j].todo)]]
    <3> DEFINE new == [job[j] EXCEPT !.usr = UserView(job[j].user), !.todo = <<"keepUser">> \o Tail(job[j].todo)]
    <3>0. job'[j] = new
      BY <2>3
    <3>1. /\ DOMAIN new = JobFields /\ new.todo = <<"keepUser">> \o Tail(t) /\ new.user = job[j].user
          /\ new.ask = job[j].ask /\ new.remna = job[j].remna /\ new.rescue = job[j].rescue
      BY DEF JobFields
    <3> HIDE DEF new
    <3>2. <<"keepUser">> \o Tail(t) # <<>>
      BY <1>3
    <3> QED BY <2>1, <3>0, <3>1, <3>2 DEF Moves
  <2> QED BY <1>3, <2>2, <2>3 DEF ReadUser
<1>4. CASE ReadSub(j)
  <2>1. t # <<>> /\ Head(t) = "sub"
    BY <1>4 DEF ReadSub, At, Idle
  <2>2. CASE job' = [job EXCEPT ![j] = Goes([@ EXCEPT !.sub = subCache[job[j].user].value], <<>>)]
    <3>1. job'[j] = Goes([job[j] EXCEPT !.sub = subCache[job[j].user].value], <<>>)
      BY <2>2
    <3> QED BY <1>1, <2>1, <3>1 DEF JobFields
  <2>3. CASE job' = [job EXCEPT ![j] = [@ EXCEPT !.sub = Current(job[j].user), !.todo = <<"keepSub">> \o Tail(job[j].todo)]]
    <3> DEFINE new == [job[j] EXCEPT !.sub = Current(job[j].user), !.todo = <<"keepSub">> \o Tail(job[j].todo)]
    <3>0. job'[j] = new
      BY <2>3
    <3>1. /\ DOMAIN new = JobFields /\ new.todo = <<"keepSub">> \o Tail(t) /\ new.user = job[j].user
          /\ new.ask = job[j].ask /\ new.remna = job[j].remna /\ new.rescue = job[j].rescue
      BY DEF JobFields
    <3> HIDE DEF new
    <3>2. <<"keepSub">> \o Tail(t) # <<>>
      BY <1>4
    <3> QED BY <2>1, <3>0, <3>1, <3>2 DEF Moves
  <2> QED BY <1>4, <2>2, <2>3 DEF ReadSub
<1>5. CASE KeepUser(j) \/ KeepSub(j) \/ ClearSub(j) \/ ClearUser(j) \/ RefillUser(j)
  BY <1>2, <1>5 DEF KeepUser, KeepSub, ClearSub, ClearUser, RefillUser, At, Idle
<1>6. CASE Push(j)
  <2>1. t # <<>> /\ Head(t) = "push"
    BY <1>6 DEF Push, At, Idle
  <2>2. CASE job' = [job EXCEPT ![j] = Goes([@ EXCEPT !.wrote = TRUE], <<>>)]
    <3>1. job'[j] = Goes([job[j] EXCEPT !.wrote = TRUE], <<>>)
      BY <2>2
    <3> QED BY <1>1, <2>1, <3>1 DEF JobFields
  <2>3. CASE Raise(j)
    BY <2>3, RaiseFails
  <2> QED BY <1>6, <2>2, <2>3 DEF Push
<1> QED BY <1>3, <1>4, <1>5, <1>6 DEF AwaitStep

-----------------------------------------------------------------------------
(* The loyalty runs go on                                                  *)

\* The await a run is at tells how far it is.
LEMMA RunStages ==
  ASSUME NEW r, RunOK(r), job[r].todo # <<>>
  PROVE  LET t == job[r].todo IN
         /\ Head(t) \in {"user", "keepUser", "seen", "sub", "keepSub", "eligible", "lock", "aim"} \cup Late
         /\ Head(t) \in {"user", "keepUser", "seen"} => t \in Unseen
         /\ Head(t) \in {"sub", "keepSub", "eligible", "lock", "aim"} => t \in Seen
         /\ Head(t) \in Late => t \in Seq(Late)
         /\ <<>> \o Tail(t) = Tail(t)
<1> DEFINE t == job[r].todo
<1>1. CASE t \in Unseen
  BY <1>1, UnseenSteps DEF Late
<1>2. CASE t \in Seen
  BY <1>2, SeenSteps DEF Late
<1>3. CASE t \in Seq(Late)
  <2>1. Head(t) \in Late /\ Tail(t) \in Seq(Late)
    BY <1>3, LateSteps
  <2>2. <<>> \o Tail(t) = Tail(t)
    BY <2>1, ConcatEmptySeq
  <2> QED BY <1>3, <2>1, <2>2 DEF Late
<1> QED BY <1>1, <1>2, <1>3 DEF RunOK

\* What most steps of a run keep.
Keeps(r) == RunOK(r)' /\ job'[r].user \in {job[r].user, None}
Quiet == UNCHANGED <<state, goals, overlapped>>

\* A job that has nothing left to do is as it should be.
LEMMA IdleRun ==
  ASSUME NEW r, job'[r] = IdleJob
  PROVE  Keeps(r)
<1>1. IdleJob.todo \in Seq(Late) /\ IdleJob.todo \notin Unseen /\ IdleJob.todo \notin Seen
  BY IdleFields, LateSteps, UnseenSteps, SeenSteps
<1> QED BY <1>1, IdleFields, LateSteps DEF Keeps, RunOK

\* A list of awaits past the choice of the goal is none of those before.
LEMMA LateOnly == \A t \in Seq(Late) : t \notin Unseen /\ t \notin Seen
<1> SUFFICES ASSUME NEW t \in Seq(Late) PROVE t \notin Unseen /\ t \notin Seen
  OBVIOUS
<1>1. t # <<>> => Head(t) \in Late
  BY LateSteps
<1>2. t \notin Unseen
  BY <1>1, UnseenSteps DEF Late
<1>3. t \notin Seen
  BY <1>1, SeenSteps DEF Late
<1> QED BY <1>2, <1>3

\* A run past the choice of its goal stays there.
LEMMA LateRun ==
  ASSUME NEW r, DOMAIN job'[r] = JobFields, job'[r].rescue \in Seq(Late), job'[r].todo \in Seq(Late),
         job'[r].user \in {job[r].user, None}
  PROVE  Keeps(r)
BY LateOnly DEF Keeps, RunOK

\* An await of every job, or an exception, leaves a run a run.
LEMMA RunMoves ==
  ASSUME NEW r \in Runs, RunOK(r), Moves(r) \/ Fails(r), Quiet
  PROVE  Keeps(r)
<1> DEFINE t == job[r].todo
<1>1. CASE Fails(r)
  <2>1. CASE job[r].rescue = <<>>
    BY <1>1, <2>1, IdleRun DEF Fails
  <2>2. CASE job[r].rescue # <<>>
    <3>1. /\ DOMAIN job'[r] = JobFields /\ job'[r].user = job[r].user /\ job'[r].todo = job[r].rescue
          /\ job'[r].rescue = <<>>
      BY <1>1, <2>2 DEF Fails
    <3> QED BY <3>1, LateRun, LateSteps DEF RunOK
  <2> QED BY <2>1, <2>2
<1>2. CASE Moves(r)
  <2>1. CASE job'[r].todo = <<>>
    BY <1>2, <2>1, IdleRun DEF Moves
  <2>2. CASE job'[r].todo # <<>>
    <3>1. /\ DOMAIN job'[r] = JobFields /\ job'[r].rescue \in Seq(Late)
          /\ job'[r].user = job[r].user /\ job'[r].ask = job[r].ask /\ t # <<>>
      BY <1>2, <2>2, LateSteps DEF Moves, RunOK
    <3>2. CASE t \in Unseen
      <4>1. job'[r].todo \in Unseen
        BY <1>2, <3>2, UnseenSteps DEF Moves
      <4>2. job'[r].todo \notin Seen
        BY <4>1, UnseenSteps, SeenSteps
      <4> QED BY <3>1, <3>2, <4>1, <4>2 DEF Keeps, RunOK
    <3>3. CASE t \in Seen
      <4>1. job'[r].todo \in Seen
        BY <1>2, <3>3, SeenSteps DEF Moves
      <4> QED BY <3>1, <3>3, <4>1 DEF Keeps, RunOK, Quiet
    <3>4. CASE t \in Seq(Late)
      <4>1. job'[r].todo = Tail(t) /\ Tail(t) \in Seq(Late)
        BY <1>2, <3>1, <3>4, LateSteps DEF Moves, Late
      <4> QED BY <3>1, <4>1, LateRun
    <3> QED BY <3>2, <3>3, <3>4 DEF RunOK
  <2> QED BY <2>1, <2>2
<1> QED BY <1>1, <1>2

\* A step of a run that chooses no goal.
LEMMA RunKept ==
  ASSUME RunsInv, NEW r \in Runs, Own(r), Keeps(r), UNCHANGED <<goals, overlapped, agenda>>,
         DOMAIN state' = Users,
         \A u \in Users : state'[u] = state[u] \/ state'[u] # NoState
  PROVE  RunsInv'
<1>1. \A k \in Runs : k # r => job'[k] = job[k]
  BY JobAssumption DEF RunsInv, Own
<1>2. \A k \in Runs : RunOK(k)'
  <2> SUFFICES ASSUME NEW k \in Runs, k # r PROVE RunOK(k)'
    BY DEF Keeps
  <2> QED BY <1>1 DEF RunsInv, RunOK
<1>3. \A i, k \in Runs : i # k /\ job'[i].user = job'[k].user /\ job'[i].user # None =>
         job'[i].user \in overlapped
  BY <1>1 DEF RunsInv, Keeps
<1> QED BY <1>2, <1>3 DEF RunsInv, Own

\* A run that stops forgets what it read.
LEMMA StopRun == ASSUME RunsInv, NEW r \in Runs, Stop(r) PROVE Keeps(r)
<1>1. job'[r] = IdleJob
  BY JobAssumption DEF Stop, RunsInv
<1> QED BY <1>1, IdleRun

\* A run that goes on after an await.
LEMMA ContinueRun ==
  ASSUME RunsInv, NEW r \in Runs, Continue(r), job[r].todo # <<>>, Quiet,
         Head(job[r].todo) \in {"eligible"} \cup Late
  PROVE  Keeps(r)
<1> DEFINE t == job[r].todo
           new == Goes(job[r], <<>>)
           rest == <<>> \o Tail(t)
<1>1. RunOK(r) /\ job'[r] = new
  BY JobAssumption DEF Continue, RunsInv
<1>2. rest = Tail(t)
  BY <1>1, RunStages
<1>3. /\ DOMAIN new = JobFields /\ new.todo = rest /\ new.user \in {job[r].user, None}
      /\ new.rescue \in {job[r].rescue, <<>>} /\ (rest = <<>> => new = IdleJob)
      /\ rest # <<>> => new.user = job[r].user /\ new.ask = job[r].ask
  BY <1>1, GoesOn DEF RunOK
<1> HIDE DEF new, rest
<1>4. CASE Head(t) = "eligible"
  <2>1. t \in Seen /\ Tail(t) \in Seen
    BY <1>1, <1>4, RunStages, SeenSteps
  <2>2. rest # <<>>
    BY <1>2, <2>1, SeenSteps
  <2>3. job[r].user \in Users /\ new.rescue \in Seq(Late)
    BY <1>1, <1>3, <2>1, LateSteps DEF RunOK
  <2> QED BY <1>1, <1>2, <1>3, <2>1, <2>2, <2>3 DEF Keeps, RunOK, Quiet
<1>5. CASE Head(t) \in Late
  <2>1. Tail(t) \in Seq(Late)
    BY <1>1, <1>5, RunStages, LateSteps
  <2> QED BY <1>1, <1>2, <1>3, <2>1, LateRun, LateSteps DEF RunOK
<1> QED BY <1>4, <1>5

\* A run reads its state, and takes the lock: it chooses a goal only if nobody has.
LEMMA ReadingRun ==
  ASSUME RunsInv, NEW r \in Runs, ReadState(r) \/ Eligible(r) \/ TakeLock(r)
  PROVE  Keeps(r) /\ Quiet
<1> DEFINE t == job[r].todo
           u == job[r].user
<1>t. RunOK(r) /\ t # <<>> /\ Quiet /\ r \in DOMAIN job
  BY JobAssumption DEF RunsInv, ReadState, Eligible, TakeLock, At, Idle, Quiet, grantVars
<1>1. CASE ReadState(r)
  <2>1. CASE Stop(r)
    BY <1>t, <2>1, StopRun
  <2>2. CASE job' = [job EXCEPT ![r] = [Goes(@, <<>>) EXCEPT !.ask = state[job[r].user]]]
    <3> DEFINE rest == <<>> \o Tail(t)
               new == Goes(job[r], <<>>)
    <3>1. t \in Unseen /\ Tail(t) \in Seen /\ u \in Users
      BY <1>1, <1>t, RunStages, UnseenSteps DEF ReadState, At, RunOK
    <3>2. rest = Tail(t) /\ rest # <<>>
      BY <1>t, <3>1, RunStages, SeenSteps
    <3>3. /\ DOMAIN new = JobFields /\ new.todo = rest /\ new.rescue \in {job[r].rescue, <<>>}
          /\ rest # <<>> => new.user = job[r].user
      BY <1>t, GoesOn DEF RunOK
    <3>4. job'[r] = [new EXCEPT !.ask = state[u]]
      BY <1>t, <2>2
    <3> HIDE DEF new, rest
    <3>5. /\ DOMAIN job'[r] = JobFields /\ job'[r].todo = Tail(t) /\ job'[r].user = u
          /\ job'[r].rescue \in Seq(Late) /\ job'[r].ask = state[u]
      BY <1>t, <3>2, <3>3, <3>4, LateSteps DEF JobFields, RunOK
    <3>6. state[u] = NoState /\ u \notin overlapped => goals'[u] = 0
      BY <1>t, <3>1 DEF RunsInv, Quiet
    <3> QED BY <1>t, <3>1, <3>5, <3>6 DEF Keeps, RunOK, Quiet
  <2> QED BY <1>1, <2>1, <2>2 DEF ReadState
<1>2. CASE Eligible(r)
  BY <1>2, <1>t, StopRun, ContinueRun DEF Eligible, At
<1>3. CASE TakeLock(r)
  <2>1. CASE Stop(r)
    BY <1>t, <2>1, StopRun
  <2>2. CASE job' = [job EXCEPT ![r] = [@ EXCEPT !.todo = <<"sub", "aim">>, !.rescue = <<"unlock">>]]
    <3>1. t \in Seen
      BY <1>3, <1>t, RunStages DEF TakeLock, At
    <3>2. /\ DOMAIN job'[r] = JobFields /\ job'[r].todo = <<"sub", "aim">> /\ job'[r].user = u
          /\ job'[r].rescue = <<"unlock">> /\ job'[r].ask = job[r].ask
      BY <1>t, <2>2 DEF JobFields, RunOK
    <3>3. <<"sub", "aim">> \in Seen
      BY DEF Seen
    <3> QED BY <1>t, <3>1, <3>2, <3>3, LateSteps DEF Keeps, RunOK, Quiet
  <2> QED BY <1>3, <2>1, <2>2 DEF TakeLock
<1> QED BY <1>t, <1>1, <1>2, <1>3

\* A run gives days and a discount, and releases the lock.
LEMMA LateKept ==
  ASSUME RunsInv, NEW r \in Runs, Extend(r) \/ GiveDiscount(r) \/ Unlock(r) \/ Mark(r) \/ Done(r)
  PROVE  Keeps(r)
<1> DEFINE t == job[r].todo
<1>t. /\ RunOK(r) /\ t # <<>> /\ r \in DOMAIN job
      /\ Head(t) \in {"extend", "discount", "unlock", "mark", "done"}
  BY JobAssumption DEF RunsInv, Extend, GiveDiscount, Unlock, Mark, Done, SetState, At, Idle
<1>l. t \in Seq(Late) /\ Tail(t) \in Seq(Late)
  BY <1>t, RunStages, LateSteps DEF Late
<1>1. ASSUME Continue(r) PROVE Keeps(r)
  <2> DEFINE new == Goes(job[r], <<>>)
             rest == <<>> \o Tail(t)
  <2>1. rest = Tail(t) /\ job'[r] = new
    BY <1>1, <1>t, RunStages DEF Continue
  <2>2. /\ DOMAIN new = JobFields /\ new.todo = rest /\ new.user \in {job[r].user, None}
        /\ new.rescue \in {job[r].rescue, <<>>}
    BY <1>t, GoesOn DEF RunOK
  <2> HIDE DEF new, rest
  <2> QED BY <1>l, <1>t, <2>1, <2>2, LateRun, LateSteps DEF RunOK
<1>2. ASSUME NEW steps \in Seq(Late), NEW rec, DOMAIN rec = JobFields, rec.user = job[r].user,
             rec.rescue = job[r].rescue, rec.todo = steps \o Tail(t), job'[r] = rec
      PROVE  Keeps(r)
  BY <1>2, <1>l, <1>t, LateRun, LateSteps DEF RunOK
<1>3. CASE Extend(r)
  <2>1. ASSUME NEW new, NEW kept, BillSubKeeping(r, new, {"days"}, kept, <<>>)
        PROVE  Keeps(r)
    <3> DEFINE steps == <<"clearSub", "clearUser">> \o <<>>
               rec == [job[r] EXCEPT !.sub = kept, !.wrote = TRUE,
                                     !.todo = <<"clearSub", "clearUser">> \o <<>> \o Tail(job[r].todo)]
    <3>1. steps \in Seq(Late)
      BY LateSteps
    <3>2. job'[r] = rec
      BY <1>t, <2>1 DEF BillSubKeeping
    <3>3. /\ DOMAIN rec = JobFields /\ rec.user = job[r].user /\ rec.rescue = job[r].rescue
          /\ rec.todo = steps \o Tail(t)
      BY <1>t DEF JobFields, RunOK
    <3> QED BY <1>2, <3>1, <3>2, <3>3
  <2> QED BY <1>1, <1>3, <2>1 DEF Extend
<1>4. CASE GiveDiscount(r)
  <2>1. ASSUME BillUser(r, "discount", LoyaltyDiscount, <<"refillUser">>) PROVE Keeps(r)
    <3> DEFINE usr == ViewOf(person'[job[r].user])
    <3>1. job'[r] = [job[r] EXCEPT !.usr = usr, !.wrote = TRUE, !.todo = <<"refillUser">> \o Tail(job[r].todo)]
      BY <1>t, <2>1 DEF BillUser
    <3> HIDE DEF usr
    <3> DEFINE rec == [job[r] EXCEPT !.usr = usr, !.wrote = TRUE, !.todo = <<"refillUser">> \o Tail(job[r].todo)]
    <3>2. /\ DOMAIN rec = JobFields /\ rec.user = job[r].user /\ rec.rescue = job[r].rescue
          /\ rec.todo = <<"refillUser">> \o Tail(t)
      BY <1>t DEF JobFields, RunOK
    <3> QED BY <1>2, <3>1, <3>2, LateSteps
  <2> QED BY <1>1, <1>4, <2>1 DEF GiveDiscount
<1>5. CASE Unlock(r) \/ Mark(r) \/ Done(r)
  BY <1>1, <1>5 DEF Unlock, Mark, Done, SetState
<1> QED BY <1>3, <1>4, <1>5

\* A run that saw no state chooses the goal, and no other run had or has.
LEMMA AimRuns ==
  ASSUME RunsInv, NEW r \in Runs, Own(r), UNCHANGED agenda, Aim(r)
  PROVE  RunsInv'
<1> DEFINE t == job[r].todo
           u == job[r].user
<1>t. /\ RunOK(r) /\ t # <<>> /\ Head(t) = "aim" /\ r \in Jobs /\ r \in DOMAIN job
      /\ DOMAIN job = Jobs /\ UNCHANGED overlapped
  BY JobAssumption DEF RunsInv, Aim, At, Idle
<1>u. t \in Seen /\ u \in Users
  BY <1>t, RunStages DEF RunOK
<1>1. CASE Raise(r) /\ UNCHANGED <<state, goals>>
  <2>1. Keeps(r)
    BY <1>1, <1>t, RaiseFails, RunMoves DEF Quiet
  <2> QED BY <1>1, <1>t, <2>1, RunKept DEF RunsInv
<1>2. ASSUME NEW goal, goal.field = "extend_to", NEW ask, NEW todo \in Seq(Late),
             goals' = [goals EXCEPT ![u] = IF job[r].ask = NoState THEN @ + 1 ELSE @],
             state' = [state EXCEPT ![u] = IF job[r].ask = NoState THEN goal ELSE @],
             job' = [job EXCEPT ![r] = [@ EXCEPT !.ask = ask, !.todo = todo]]
      PROVE  RunsInv'
  <2>1. /\ DOMAIN job'[r] = JobFields /\ job'[r].user = u /\ job'[r].todo = todo
        /\ job'[r].rescue = job[r].rescue
    BY <1>2, <1>t DEF JobFields, RunOK
  <2>2. Keeps(r)
    BY <1>2, <1>t, <2>1, LateRun DEF RunOK
  <2>3. CASE job[r].ask # NoState
    <3>1. UNCHANGED goals /\ \A v \in Users : state'[v] = state[v]
      BY <1>2, <2>3 DEF RunsInv
    <3> QED BY <1>2, <1>t, <2>2, <3>1, RunKept DEF RunsInv
  <2>4. CASE job[r].ask = NoState
    <3>1. u \notin overlapped => goals[u] = 0
      BY <1>t, <1>u, <2>4 DEF RunOK
    <3>2. /\ goals' \in [Users -> Nat] /\ DOMAIN state' = Users /\ goals'[u] = goals[u] + 1
          /\ state'[u] = goal /\ \A v \in Users : v # u => goals'[v] = goals[v] /\ state'[v] = state[v]
      BY <1>2, <1>u, <2>4 DEF RunsInv
    <3>3. goal # NoState
      BY <1>2 DEF NoState
    <3>4. \A v \in Users \ overlapped' : goals'[v] <= 1 /\ (state'[v] = NoState => goals'[v] = 0)
      BY <1>t, <3>1, <3>2, <3>3 DEF RunsInv
    <3>5. \A k \in Runs : k # r => job'[k] = job[k]
      BY JobAssumption DEF RunsInv, Own
    <3>6. ASSUME NEW k \in Runs, k # r PROVE RunOK(k)'
      <4>1. job[k].user = u => u \in overlapped
        BY <1>u, <3>6, AccountAssumption DEF RunsInv
      <4>2. job[k].user \in Users /\ job[k].user # u => goals'[job[k].user] = goals[job[k].user]
        BY <3>2
      <4> QED BY <1>t, <3>5, <3>6, <4>1, <4>2 DEF RunsInv, RunOK
    <3>7. \A i, k \in Runs : i # k /\ job'[i].user = job'[k].user /\ job'[i].user # None =>
             job'[i].user \in overlapped
      BY <2>1, <3>5 DEF RunsInv
    <3> QED BY <1>t, <2>2, <3>2, <3>4, <3>5, <3>6, <3>7 DEF RunsInv, Own, Keeps
  <2> QED BY <2>3, <2>4
<1>3. CASE ~(Raise(r) /\ UNCHANGED <<state, goals>>)
  <2> DEFINE goal == [field |-> "extend_to", to |-> Max({job[r].sub.days, Today}) + LoyaltyDays]
             ask == IF job[r].ask = NoState THEN goal ELSE job[r].ask
             todo == Granting(ask) \o <<"push", "done", "unlock">>
  <2>1. /\ goals' = [goals EXCEPT ![u] = IF job[r].ask = NoState THEN @ + 1 ELSE @]
        /\ state' = [state EXCEPT ![u] = IF job[r].ask = NoState THEN goal ELSE @]
        /\ job' = [job EXCEPT ![r] = [@ EXCEPT !.ask = ask, !.todo = todo]]
    BY <1>3 DEF Aim
  <2>2. todo \in Seq(Late) /\ goal.field = "extend_to"
    BY LateSteps
  <2> HIDE DEF goal, ask, todo
  <2> QED BY <1>2, <2>1, <2>2
<1> QED BY <1>1, <1>3

\* A run begins at a user; that another is at work there is noted.
LEMMA BeginRuns ==
  ASSUME RunsInv, NEW r \in Runs, NEW u \in Loyal, Own(r), UNCHANGED agenda, BeginGrant(r, u)
  PROVE  RunsInv'
<1>1. /\ r \in DOMAIN job /\ u \in Users /\ u # None /\ UNCHANGED <<state, goals>>
      /\ overlapped' = IF \E k \in Runs \ {r} : job[k].user = u THEN overlapped \cup {u} ELSE overlapped
  BY JobAssumption, AccountAssumption DEF RunsInv, BeginGrant
<1>2. job'[r] = [IdleJob EXCEPT !.user = u, !.ask = NoAsk, !.todo = Grantable, !.rescue = <<>>]
  BY <1>1 DEF BeginGrant, Begin
<1>3. /\ DOMAIN job'[r] = JobFields /\ job'[r].user = u /\ job'[r].todo = Grantable
      /\ job'[r].rescue = <<>>
  BY <1>2, IdleFields DEF JobFields
<1>4. Grantable \in Unseen /\ Grantable \notin Seen
  <2>1. Grantable \in Unseen
    BY DEF Grantable, Unseen
  <2> QED BY <2>1, UnseenSteps, SeenSteps
<1>5. RunOK(r)'
  BY <1>1, <1>3, <1>4, LateSteps DEF RunOK
<1>6. \A k \in Runs : k # r => job'[k] = job[k]
  BY JobAssumption DEF RunsInv, Own
<1>7. ASSUME NEW k \in Runs, k # r PROVE RunOK(k)'
  BY <1>1, <1>6, <1>7 DEF RunsInv, RunOK
<1>8. ASSUME NEW i \in Runs, NEW k \in Runs, i # k, job'[i].user = job'[k].user, job'[i].user # None
      PROVE  job'[i].user \in overlapped'
  BY <1>1, <1>3, <1>6, <1>8 DEF RunsInv
<1>9. \A v \in Users \ overlapped' : goals'[v] <= 1 /\ (state'[v] = NoState => goals'[v] = 0)
  BY <1>1 DEF RunsInv
<1> QED BY <1>1, <1>5, <1>7, <1>8, <1>9 DEF RunsInv, Own

\* Every step of a run keeps what is said of runs.
LEMMA RunNext ==
  ASSUME RunsInv, NEW r \in Runs, r \in agenda.jobs, GrantsNext(r), UNCHANGED agenda
  PROVE  RunsInv'
<1>t. /\ Own(r) /\ RunOK(r) /\ r \in Jobs /\ DOMAIN job = Jobs
      /\ r \notin Givers /\ r \notin Flushers
  BY GrantOwn, JobAssumption DEF RunsInv
<1>k. ASSUME Keeps(r), Quiet PROVE RunsInv'
  BY <1>k, <1>t, RunKept DEF RunsInv, Quiet
<1>1. ASSUME NEW u \in Loyal, BeginGrant(r, u) PROVE RunsInv'
  BY <1>1, <1>t, BeginRuns
<1>2. CASE Crash(r)
  BY <1>2, <1>k, StopRun DEF Crash, Quiet, grantVars
<1>3. CASE Interruptible(r)
  <2>1. CASE AwaitStep(r)
    <3>1. job[r].todo # <<>>
      BY <2>1 DEF AwaitStep, ReadUser, KeepUser, ReadSub, KeepSub, ClearSub, ClearUser, RefillUser, Push, At, Idle
    <3>2. Moves(r) \/ Fails(r)
      BY <1>t, <2>1, <3>1, RunStages, AwaitMoves DEF RunOK
    <3> QED BY <1>3, <1>k, <1>t, <3>2, RunMoves DEF Interruptible, Quiet
  <2>2. CASE Fault(r)
    <3>1. Fails(r)
      BY <1>t, <2>2, RaiseFails DEF Fault
    <3> QED BY <1>3, <1>k, <1>t, <3>1, RunMoves DEF Interruptible, Quiet
  <2> QED BY <1>3, <2>1, <2>2 DEF Interruptible
<1>4. CASE ReadState(r) \/ Eligible(r) \/ TakeLock(r)
  BY <1>4, <1>k, ReadingRun
<1>5. CASE Aim(r)
  BY <1>5, <1>t, AimRuns
<1>6. CASE Extend(r) \/ GiveDiscount(r) \/ Unlock(r)
  BY <1>6, <1>k, LateKept DEF Extend, GiveDiscount, Unlock, Quiet, grantVars
<1>7. CASE Mark(r) \/ Done(r)
  <2>1. PICK field \in {"extended", "granted"} : state' = [state EXCEPT ![job[r].user] = [field |-> field, to |-> 0]]
    BY <1>7 DEF Mark, Done, SetState
  <2>2. /\ UNCHANGED <<goals, overlapped>> /\ DOMAIN state' = Users
        /\ \A u \in Users : state'[u] = state[u] \/ state'[u] # NoState
    BY <1>7, <2>1 DEF RunsInv, Mark, Done, SetState, NoState
  <2> QED BY <1>7, <1>t, <2>2, RunKept, LateKept
<1>8. CASE GivePoints(r) \/ GiveDays(r) \/ Issue(r) \/ ListPending(r) \/ Flush(r)
  BY <1>8, <1>t, RunStages DEF GivePoints, GiveDays, Issue, ListPending, Flush, At, Idle, Late
<1> QED BY <1>t, <1>1, <1>2, <1>3, <1>4, <1>5, <1>6, <1>7, <1>8 DEF GrantsNext, GrantStep

-----------------------------------------------------------------------------
(* Who carries a reward                                                    *)

\* What still has to give a reward has to mark it too.
LEMMA UngivenRange == \A t \in GiverUngiven \cup FlusherUngiven : "issue" \in Range(t) /\ Range(t) \cap {"points", "days"} # {}
<1> SUFFICES ASSUME NEW t \in GiverUngiven \cup FlusherUngiven PROVE "issue" \in Range(t) /\ Range(t) \cap {"points", "days"} # {}
  OBVIOUS
<1>1. CASE t = <<"user", "points", "issue">>
  <2>1. 3 \in DOMAIN t /\ t[3] = "issue" /\ 2 \in DOMAIN t /\ t[2] = "points"
    BY <1>1
  <2> QED BY <2>1 DEF Range
<1>2. CASE t = <<"keepUser", "points", "issue">>
  <2>1. 3 \in DOMAIN t /\ t[3] = "issue" /\ 2 \in DOMAIN t /\ t[2] = "points"
    BY <1>2
  <2> QED BY <2>1 DEF Range
<1>3. CASE t = <<"points", "issue">>
  <2>1. 2 \in DOMAIN t /\ t[2] = "issue" /\ 1 \in DOMAIN t /\ t[1] = "points"
    BY <1>3
  <2> QED BY <2>1 DEF Range
<1>4. CASE t = <<"user", "sub", "days", "push", "issue">>
  <2>1. 5 \in DOMAIN t /\ t[5] = "issue" /\ 3 \in DOMAIN t /\ t[3] = "days"
    BY <1>4
  <2> QED BY <2>1 DEF Range
<1>5. CASE t = <<"keepUser", "sub", "days", "push", "issue">>
  <2>1. 5 \in DOMAIN t /\ t[5] = "issue" /\ 3 \in DOMAIN t /\ t[3] = "days"
    BY <1>5
  <2> QED BY <2>1 DEF Range
<1>6. CASE t = <<"sub", "days", "push", "issue">>
  <2>1. 4 \in DOMAIN t /\ t[4] = "issue" /\ 2 \in DOMAIN t /\ t[2] = "days"
    BY <1>6
  <2> QED BY <2>1 DEF Range
<1>7. CASE t = <<"keepSub", "days", "push", "issue">>
  <2>1. 4 \in DOMAIN t /\ t[4] = "issue" /\ 2 \in DOMAIN t /\ t[2] = "days"
    BY <1>7
  <2> QED BY <2>1 DEF Range
<1>8. CASE t = <<"days", "push", "issue">>
  <2>1. 3 \in DOMAIN t /\ t[3] = "issue" /\ 1 \in DOMAIN t /\ t[1] = "days"
    BY <1>8
  <2> QED BY <2>1 DEF Range
<1>9. CASE t = <<"days", "push", "issue", "flush">>
  <2>1. 3 \in DOMAIN t /\ t[3] = "issue" /\ 1 \in DOMAIN t /\ t[1] = "days"
    BY <1>9
  <2> QED BY <2>1 DEF Range
<1> QED BY <1>1, <1>2, <1>3, <1>4, <1>5, <1>6, <1>7, <1>8, <1>9 DEF GiverUngiven, FlusherUngiven

\* What has given a reward has to mark it, and does not give it again.
LEMMA GivenRange == \A t \in GiverGiven \cup FlusherGiven : "issue" \in Range(t) /\ Range(t) \cap {"points", "days"} = {}
<1> SUFFICES ASSUME NEW t \in GiverGiven \cup FlusherGiven PROVE "issue" \in Range(t) /\ Range(t) \cap {"points", "days"} = {}
  OBVIOUS
<1>1. CASE t = <<"clearSub", "clearUser", "push", "issue">>
  <2>1. 4 \in DOMAIN t /\ t[4] = "issue" /\ \A i \in DOMAIN t : t[i] \notin {"points", "days"}
    BY <1>1
  <2> QED BY <2>1 DEF Range
<1>2. CASE t = <<"clearUser", "push", "issue">>
  <2>1. 3 \in DOMAIN t /\ t[3] = "issue" /\ \A i \in DOMAIN t : t[i] \notin {"points", "days"}
    BY <1>2
  <2> QED BY <2>1 DEF Range
<1>3. CASE t = <<"push", "issue">>
  <2>1. 2 \in DOMAIN t /\ t[2] = "issue" /\ \A i \in DOMAIN t : t[i] \notin {"points", "days"}
    BY <1>3
  <2> QED BY <2>1 DEF Range
<1>4. CASE t = <<"clearUser", "issue">>
  <2>1. 2 \in DOMAIN t /\ t[2] = "issue" /\ \A i \in DOMAIN t : t[i] \notin {"points", "days"}
    BY <1>4
  <2> QED BY <2>1 DEF Range
<1>5. CASE t = <<"issue">>
  <2>1. 1 \in DOMAIN t /\ t[1] = "issue" /\ \A i \in DOMAIN t : t[i] \notin {"points", "days"}
    BY <1>5
  <2> QED BY <2>1 DEF Range
<1>6. CASE t = <<"clearSub", "clearUser", "push", "issue", "flush">>
  <2>1. 4 \in DOMAIN t /\ t[4] = "issue" /\ \A i \in DOMAIN t : t[i] \notin {"points", "days"}
    BY <1>6
  <2> QED BY <2>1 DEF Range
<1>7. CASE t = <<"clearUser", "push", "issue", "flush">>
  <2>1. 3 \in DOMAIN t /\ t[3] = "issue" /\ \A i \in DOMAIN t : t[i] \notin {"points", "days"}
    BY <1>7
  <2> QED BY <2>1 DEF Range
<1>8. CASE t = <<"push", "issue", "flush">>
  <2>1. 2 \in DOMAIN t /\ t[2] = "issue" /\ \A i \in DOMAIN t : t[i] \notin {"points", "days"}
    BY <1>8
  <2> QED BY <2>1 DEF Range
<1>9. CASE t = <<"issue", "flush">>
  <2>1. 1 \in DOMAIN t /\ t[1] = "issue" /\ \A i \in DOMAIN t : t[i] \notin {"points", "days"}
    BY <1>9
  <2> QED BY <2>1 DEF Range
<1> QED BY <1>1, <1>2, <1>3, <1>4, <1>5, <1>6, <1>7, <1>8, <1>9 DEF GiverGiven, FlusherGiven

\* Anything else marks no reward.
LEMMA FreeRange == \A t \in Listing \cup Flushing \cup {<<>>} : "issue" \notin Range(t)
<1> SUFFICES ASSUME NEW t \in Listing \cup Flushing \cup {<<>>} PROVE "issue" \notin Range(t)
  OBVIOUS
<1>1. CASE t = <<"sub", "pending">>
  <2>1. \A i \in DOMAIN t : t[i] # "issue"
    BY <1>1
  <2> QED BY <2>1 DEF Range
<1>2. CASE t = <<"keepSub", "pending">>
  <2>1. \A i \in DOMAIN t : t[i] # "issue"
    BY <1>2
  <2> QED BY <2>1 DEF Range
<1>3. CASE t = <<"pending">>
  <2>1. \A i \in DOMAIN t : t[i] # "issue"
    BY <1>3
  <2> QED BY <2>1 DEF Range
<1>4. CASE t = <<"user", "flush">>
  <2>1. \A i \in DOMAIN t : t[i] # "issue"
    BY <1>4
  <2> QED BY <2>1 DEF Range
<1>5. CASE t = <<"keepUser", "flush">>
  <2>1. \A i \in DOMAIN t : t[i] # "issue"
    BY <1>5
  <2> QED BY <2>1 DEF Range
<1>6. CASE t = <<"flush">>
  <2>1. \A i \in DOMAIN t : t[i] # "issue"
    BY <1>6
  <2> QED BY <2>1 DEF Range
<1>7. CASE t = <<>>
  <2>1. \A i \in DOMAIN t : t[i] # "issue"
    BY <1>7
  <2> QED BY <2>1 DEF Range
<1> QED BY <1>1, <1>2, <1>3, <1>4, <1>5, <1>6, <1>7 DEF Listing, Flushing

\* A record with a reward to mark, and one that has given it.
Bears(rec, r) == rec.ask.field = "reward" /\ rec.ask.to = r /\ "issue" \in Range(rec.todo)
HasGiven(rec, r) == Bears(rec, r) /\ Range(rec.todo) \cap {"points", "days"} = {}

\* A task has its reward in hand while it has anything left to do.
LEMMA GiverBears ==
  ASSUME NEW g \in Givers, NEW rec, rec.todo \in GiverUngiven \cup GiverGiven \cup {<<>>},
         rec.todo # <<>> => rec.ask = [field |-> "reward", to |-> RewardOf[g]], NEW r
  PROVE  /\ Bears(rec, r) <=> rec.todo # <<>> /\ RewardOf[g] = r
         /\ HasGiven(rec, r) <=> rec.todo \in GiverGiven /\ RewardOf[g] = r
<1> DEFINE t == rec.todo
<1>1. CASE t = <<>>
  BY <1>1, FreeRange, GiverGivenSteps DEF Bears, HasGiven
<1>2. CASE t \in GiverUngiven
  <2>1. t # <<>> /\ t \notin GiverGiven
    BY <1>2, UngivenRange, GivenRange, GiverUngivenSteps
  <2> QED BY <1>2, <2>1, UngivenRange DEF Bears, HasGiven
<1>3. CASE t \in GiverGiven
  BY <1>3, GivenRange, GiverGivenSteps DEF Bears, HasGiven
<1> QED BY <1>1, <1>2, <1>3

\* So it is before a step and after one.
LEMMA GiverHand ==
  ASSUME NEW g \in Givers, NEW r
  PROVE  /\ GiverOK(g) =>
              /\ Carries(g, r) <=> job[g].todo # <<>> /\ RewardOf[g] = r
              /\ Gave(g, r) <=> job[g].todo \in GiverGiven /\ RewardOf[g] = r
         /\ GiverOK(g)' =>
              /\ Carries(g, r)' <=> job'[g].todo # <<>> /\ RewardOf[g] = r
              /\ Gave(g, r)' <=> job'[g].todo \in GiverGiven /\ RewardOf[g] = r
<1>1. /\ Carries(g, r) <=> Bears(job[g], r)
      /\ Gave(g, r) <=> HasGiven(job[g], r)
      /\ Carries(g, r)' <=> Bears(job'[g], r)
      /\ Gave(g, r)' <=> HasGiven(job'[g], r)
  BY DEF Carries, Gave, Bears, HasGiven
<1> QED BY <1>1, GiverBears DEF GiverOK

\* A flush carries the reward it asks for until it is marked.
LEMMA FlusherBears ==
  ASSUME NEW rec, rec.todo \in Listing \cup Flushing \cup {<<>>} \cup FlusherUngiven \cup FlusherGiven,
         rec.todo \in FlusherUngiven \cup FlusherGiven => rec.ask.field = "reward", NEW r
  PROVE  /\ Bears(rec, r) <=> rec.todo \in FlusherUngiven \cup FlusherGiven /\ rec.ask.to = r
         /\ HasGiven(rec, r) <=> rec.todo \in FlusherGiven /\ rec.ask.to = r
<1> DEFINE t == rec.todo
<1>1. CASE t \in Listing \cup Flushing \cup {<<>>}
  <2>1. t \notin FlusherUngiven \cup FlusherGiven
    BY <1>1, FreeRange, UngivenRange, GivenRange
  <2> QED BY <1>1, <2>1, FreeRange DEF Bears, HasGiven
<1>2. CASE t \in FlusherUngiven
  BY <1>2, UngivenRange, GivenRange, FreeRange DEF Bears, HasGiven
<1>3. CASE t \in FlusherGiven
  BY <1>3, GivenRange, FreeRange DEF Bears, HasGiven
<1> QED BY <1>1, <1>2, <1>3

\* So it is before a step and after one.
LEMMA FlusherHand ==
  ASSUME NEW f \in Flushers, NEW r
  PROVE  /\ FlusherOK(f) =>
              /\ Carries(f, r) <=> job[f].todo \in FlusherUngiven \cup FlusherGiven /\ job[f].ask.to = r
              /\ Gave(f, r) <=> job[f].todo \in FlusherGiven /\ job[f].ask.to = r
         /\ FlusherOK(f)' =>
              /\ Carries(f, r)' <=> job'[f].todo \in FlusherUngiven \cup FlusherGiven /\ job'[f].ask.to = r
              /\ Gave(f, r)' <=> job'[f].todo \in FlusherGiven /\ job'[f].ask.to = r
<1>1. /\ Carries(f, r) <=> Bears(job[f], r)
      /\ Gave(f, r) <=> HasGiven(job[f], r)
      /\ Carries(f, r)' <=> Bears(job'[f], r)
      /\ Gave(f, r)' <=> HasGiven(job'[f], r)
  BY DEF Carries, Gave, Bears, HasGiven
<1>2. ASSUME FlusherOK(f)
      PROVE  /\ job[f].todo \in Listing \cup Flushing \cup {<<>>} \cup FlusherUngiven \cup FlusherGiven
             /\ job[f].todo \in FlusherUngiven \cup FlusherGiven => job[f].ask.field = "reward"
  BY <1>2, FreeRange, UngivenRange, GivenRange DEF FlusherOK
<1>3. ASSUME FlusherOK(f)'
      PROVE  /\ job'[f].todo \in Listing \cup Flushing \cup {<<>>} \cup FlusherUngiven \cup FlusherGiven
             /\ job'[f].todo \in FlusherUngiven \cup FlusherGiven => job'[f].ask.field = "reward"
  BY <1>3, FreeRange, UngivenRange, GivenRange DEF FlusherOK
<1>4. ASSUME FlusherOK(f)
      PROVE  /\ Carries(f, r) <=> job[f].todo \in FlusherUngiven \cup FlusherGiven /\ job[f].ask.to = r
             /\ Gave(f, r) <=> job[f].todo \in FlusherGiven /\ job[f].ask.to = r
  BY <1>1, <1>2, <1>4, FlusherBears
<1>5. ASSUME FlusherOK(f)'
      PROVE  /\ Carries(f, r)' <=> job'[f].todo \in FlusherUngiven \cup FlusherGiven /\ job'[f].ask.to = r
             /\ Gave(f, r)' <=> job'[f].todo \in FlusherGiven /\ job'[f].ask.to = r
  BY <1>1, <1>3, <1>5, FlusherBears
<1> QED BY <1>4, <1>5

\* What the giving of rewards depends on at another job.
LEMMA OthersHands ==
  ASSUME TasksOK, NEW j, NEW k \in Takers, k # j, Own(j), NEW r
  PROVE  /\ Carries(k, r)' <=> Carries(k, r)
         /\ Lists(k, r)' <=> Lists(k, r)
         /\ Gave(k, r)' <=> Gave(k, r)
         /\ Hand(k, r)' <=> Hand(k, r)
<1>1. job'[k] = job[k]
  BY JobAssumption DEF TasksOK, Own, Takers
<1> QED BY <1>1 DEF Hand, Carries, Lists, Gave

\* What a step of a task or a flush may do with a reward: nothing, or drop it
\* ungiven; take it from the queue; give it; mark it; find it pending.
Leaves(j, r) ==
  /\ (Hand(j, r)' => Hand(j, r)) /\ (Gave(j, r) => Gave(j, r)')
  /\ (r \in queued' <=> r \in queued) /\ (r \in issued' <=> r \in issued) /\ applied'[r] = applied[r]
Takes(j, r) ==
  /\ r \in queued /\ r \notin queued' /\ ~Gave(j, r)
  /\ (r \in issued' <=> r \in issued) /\ applied'[r] = applied[r]
Gives(j, r) ==
  /\ Hand(j, r) /\ ~Gave(j, r) /\ Gave(j, r)'
  /\ (r \in queued' <=> r \in queued) /\ (r \in issued' <=> r \in issued)
Marks(j, r) ==
  /\ Hand(j, r) /\ ~Hand(j, r)' /\ r \in issued' /\ (r \in queued' <=> r \in queued) /\ applied'[r] = applied[r]
Finds(j, r) ==
  /\ ~InHand(r) /\ r \notin issued
  /\ (r \in queued' <=> r \in queued) /\ (r \in issued' <=> r \in issued) /\ applied'[r] = applied[r]
Treats(j, r) ==
  /\ Leaves(j, r) \/ Takes(j, r) \/ Gives(j, r) \/ Marks(j, r) \/ Finds(j, r)
  /\ j \in Flushers => ~(Carries(j, r)' /\ Lists(j, r)')

\* A reward remains in one pair of hands.
LEMMA SingleKept ==
  ASSUME TasksOK, NEW j \in Takers, Own(j), NEW r, Single(r), Treats(j, r)
  PROVE  Single(r)'
<1>o. ASSUME NEW k \in Takers, k # j
      PROVE  /\ (Carries(k, r)' <=> Carries(k, r)) /\ (Lists(k, r)' <=> Lists(k, r))
             /\ (Gave(k, r)' <=> Gave(k, r)) /\ (Hand(k, r)' <=> Hand(k, r))
  BY <1>o, OthersHands
<1>g. \A k \in Takers : (Gave(k, r) => Hand(k, r)) /\ (Gave(k, r)' => Hand(k, r)')
  BY DEF Gave, Hand
<1>f. ASSUME NEW k \in Flushers PROVE ~(Carries(k, r)' /\ Lists(k, r)')
  BY <1>o DEF Single, Treats, Takers
<1>i. InHand(r) <=> r \in queued \/ \E k \in Takers : Hand(k, r)
  BY DEF InHand, Hand, Takers
<1> DEFINE h(k) == Hand(k, r)
           hh(k) == Hand(k, r)'
           g(k) == Gave(k, r)
           gg(k) == Gave(k, r)'
<1>h. \A k \in Takers : (k # j => (hh(k) <=> h(k)) /\ (gg(k) <=> g(k))) /\ (g(k) => h(k)) /\ (gg(k) => hh(k))
  BY <1>o, <1>g
<1>s. /\ r \in queued => \A k \in Takers : ~h(k)
      /\ \A i, k \in Takers : h(i) /\ h(k) => i = k
      /\ r \in issued => r \notin queued /\ \A k \in Takers : ~h(k)
      /\ applied[r] # 0 => r \in issued \/ \E k \in Takers : g(k)
  BY DEF Single
<1> SUFFICES /\ r \in queued' => \A k \in Takers : ~hh(k)
             /\ \A i, k \in Takers : hh(i) /\ hh(k) => i = k
             /\ r \in issued' => r \notin queued' /\ \A k \in Takers : ~hh(k)
             /\ applied'[r] # 0 => r \in issued' \/ \E k \in Takers : gg(k)
  BY <1>f DEF Single
<1>1. CASE Leaves(j, r)
  <2>1. /\ (hh(j) => h(j)) /\ (g(j) => gg(j))
        /\ (r \in queued' <=> r \in queued) /\ (r \in issued' <=> r \in issued) /\ applied'[r] = applied[r]
    BY <1>1 DEF Leaves
  <2> HIDE DEF h, hh, g, gg
  <2> QED BY <1>h, <1>s, <2>1
<1>2. CASE Takes(j, r)
  <2>1. /\ r \in queued /\ r \notin queued' /\ ~g(j)
        /\ (r \in issued' <=> r \in issued) /\ applied'[r] = applied[r]
    BY <1>2 DEF Takes
  <2> HIDE DEF h, hh, g, gg
  <2> QED BY <1>h, <1>s, <2>1
<1>3. CASE Gives(j, r)
  <2>1. h(j) /\ gg(j) /\ (r \in queued' <=> r \in queued) /\ (r \in issued' <=> r \in issued)
    BY <1>3 DEF Gives
  <2> HIDE DEF h, hh, g, gg
  <2> QED BY <1>h, <1>s, <2>1
<1>4. CASE Marks(j, r)
  <2>1. h(j) /\ ~hh(j) /\ r \in issued' /\ (r \in queued' <=> r \in queued)
    BY <1>4 DEF Marks
  <2> HIDE DEF h, hh, g, gg
  <2> QED BY <1>h, <1>s, <2>1
<1>5. CASE Finds(j, r)
  <2>1. /\ r \notin queued /\ (\A k \in Takers : ~h(k)) /\ r \notin issued
        /\ (r \in queued' <=> r \in queued) /\ (r \in issued' <=> r \in issued) /\ applied'[r] = applied[r]
    BY <1>5, <1>i DEF Finds
  <2> HIDE DEF h, hh, g, gg
  <2> QED BY <1>h, <1>s, <2>1
<1> QED BY <1>1, <1>2, <1>3, <1>4, <1>5 DEF Treats

-----------------------------------------------------------------------------
(* The referral tasks go on                                                *)

\* The await a task is at tells whether it has given its reward.
LEMMA GiverStages ==
  ASSUME NEW g \in Givers, GiverOK(g), job[g].todo # <<>>
  PROVE  LET t == job[g].todo IN
         /\ Head(t) \in {"user", "keepUser", "sub", "keepSub", "points", "days",
                         "clearSub", "clearUser", "push", "issue"}
         /\ Head(t) \in {"user", "keepUser", "sub", "keepSub", "points", "days"} => t \in GiverUngiven
         /\ Head(t) \in {"clearSub", "clearUser", "push", "issue"} => t \in GiverGiven
         /\ <<>> \o Tail(t) = Tail(t)
<1> DEFINE t == job[g].todo
<1>1. CASE t \in GiverUngiven
  BY <1>1, GiverUngivenSteps
<1>2. CASE t \in GiverGiven
  BY <1>2, GiverGivenSteps
<1> QED BY <1>1, <1>2 DEF GiverOK

\* Giving is a list of awaits that still gives the reward.
LEMMA GivingUngiven == \A r : Giving(r) \in GiverUngiven
BY DEF Giving, GiverUngiven

\* A task that stops has nothing in hand.
LEMMA IdleGiver == ASSUME NEW g \in Givers, job'[g] = IdleJob PROVE GiverOK(g)'
BY IdleFields DEF GiverOK

\* An await of every job, or an exception, leaves a task a task.
LEMMA GiverMoves ==
  ASSUME NEW g \in Givers, GiverOK(g), job[g].todo # <<>>, Moves(g) \/ Fails(g)
  PROVE  GiverOK(g)'
<1> DEFINE t == job[g].todo
<1>1. CASE Fails(g)
  <2>1. CASE job[g].rescue = <<>>
    BY <1>1, <2>1, IdleGiver DEF Fails
  <2>2. CASE job[g].rescue # <<>>
    <3>1. /\ DOMAIN job'[g] = JobFields /\ job'[g].ask = job[g].ask /\ job'[g].rescue = <<>>
          /\ job'[g].todo = Giving(RewardOf[g])
      BY <1>1, <2>2 DEF Fails, GiverOK
    <3> QED BY <3>1, GivingUngiven DEF GiverOK
  <2> QED BY <2>1, <2>2
<1>2. CASE Moves(g)
  <2>1. CASE job'[g].todo = <<>>
    BY <1>2, <2>1, IdleGiver DEF Moves
  <2>2. CASE job'[g].todo # <<>>
    <3>1. /\ DOMAIN job'[g] = JobFields /\ job'[g].rescue \in {job[g].rescue, <<>>}
          /\ job'[g].ask = job[g].ask /\ t # <<>>
      BY <1>2, <2>2 DEF Moves
    <3>2. CASE t \in GiverUngiven
      <4>1. job'[g].todo \in GiverUngiven
        BY <1>2, <3>2, GiverUngivenSteps DEF Moves
      <4> QED BY <3>1, <4>1 DEF GiverOK
    <3>3. CASE t \in GiverGiven
      <4>1. job'[g].todo \in GiverGiven
        BY <1>2, <3>3, GiverGivenSteps DEF Moves
      <4> QED BY <3>1, <4>1 DEF GiverOK
    <3> QED BY <3>1, <3>2, <3>3 DEF GiverOK
  <2> QED BY <2>1, <2>2
<1> QED BY <1>1, <1>2

\* What every step of a task or a flush keeps, for every reward.
Tends(j) ==
  /\ doubtful \subseteq doubtful' /\ applied' \in [Rewards -> Nat] /\ issued' \subseteq Rewards
  /\ \A r \in Rewards \ doubtful' : Treats(j, r)

\* A step that gives and marks nothing.
LEMMA LeavesAlone ==
  ASSUME TasksOK, RewardsInv, NEW g \in Givers,
         UNCHANGED <<queued, issued, applied>>, doubtful \subseteq doubtful',
         \A r \in Rewards \ doubtful' : (Carries(g, r)' => Carries(g, r)) /\ (Gave(g, r) => Gave(g, r)')
  PROVE  Tends(g)
BY JobAssumption DEF Tends, Treats, Leaves, Hand, RewardsInv

\* Every step of a task keeps it a task, and gives its reward at most.
LEMMA GiverNext ==
  ASSUME TasksOK, RewardsInv, NEW g \in Givers, GrantsNext(g)
  PROVE  GiverOK(g)' /\ Tends(g)
<1> DEFINE t == job[g].todo
           rw == RewardOf[g]
<1>t. /\ GiverOK(g) /\ g \in Jobs /\ DOMAIN job = Jobs /\ g \notin Runs /\ g \notin Flushers
      /\ rw \in Rewards /\ applied \in [Rewards -> Nat] /\ issued \subseteq Rewards
  BY JobAssumption DEF TasksOK, RewardsInv
<1>h. \A r : /\ Carries(g, r) <=> t # <<>> /\ rw = r
             /\ Gave(g, r) <=> t \in GiverGiven /\ rw = r
             /\ GiverOK(g)' => (Carries(g, r)' <=> job'[g].todo # <<>> /\ rw = r)
             /\ GiverOK(g)' => (Gave(g, r)' <=> job'[g].todo \in GiverGiven /\ rw = r)
  BY <1>t, GiverHand
<1>u. \A s \in GiverUngiven : s # <<>> /\ s \notin GiverGiven
  BY UngivenRange, GivenRange, GiverUngivenSteps
<1>g. \A s \in GiverGiven : s # <<>>
  BY GiverGivenSteps
<1>1. CASE BeginGive(g)
  <2> DEFINE ask == [field |-> "reward", to |-> rw]
  <2>1. /\ t = <<>> /\ rw \in queued /\ queued' = queued \ {rw}
        /\ job'[g] = [IdleJob EXCEPT !.user = Winner, !.ask = ask, !.todo = Giving(rw), !.rescue = Giving(rw)]
        /\ UNCHANGED <<issued, applied, doubtful>>
    BY <1>1, <1>t DEF BeginGive, Begin, Idle
  <2>2. /\ DOMAIN job'[g] = JobFields /\ job'[g].ask = ask /\ job'[g].todo = Giving(rw)
        /\ job'[g].rescue = Giving(rw)
    BY <2>1, IdleFields DEF JobFields
  <2>3. GiverOK(g)'
    BY <2>2, GivingUngiven DEF GiverOK
  <2>4. ASSUME NEW r \in Rewards PROVE Treats(g, r)
    <3>1. CASE r = rw
      BY <1>g, <1>h, <1>t, <2>1, <3>1 DEF Treats, Takes
    <3>2. CASE r # rw
      BY <1>h, <1>t, <2>1, <2>3, <3>2 DEF Treats, Leaves, Hand
    <3> QED BY <3>1, <3>2
  <2> QED BY <1>t, <2>1, <2>3, <2>4 DEF Tends
<1>2. CASE Interruptible(g)
  <2>1. t # <<>> /\ (Moves(g) \/ Fails(g))
    <3>1. CASE AwaitStep(g)
      <4>1. t # <<>>
        BY <3>1 DEF AwaitStep, ReadUser, KeepUser, ReadSub, KeepSub, ClearSub, ClearUser, RefillUser, Push, At, Idle
      <4> QED BY <1>t, <3>1, <4>1, GiverStages, AwaitMoves DEF GiverOK
    <3>2. CASE Fault(g)
      BY <1>t, <3>2, RaiseFails DEF Fault, Idle
    <3> QED BY <1>2, <3>1, <3>2 DEF Interruptible
  <2>2. GiverOK(g)'
    BY <1>t, <2>1, GiverMoves
  <2>3. /\ UNCHANGED <<queued, issued, applied>> /\ doubtful \subseteq doubtful'
        /\ \A r \in Rewards \ doubtful' : Gave(g, r) => Gave(g, r)'
    BY <1>2 DEF Interruptible
  <2> QED BY <1>h, <2>1, <2>2, <2>3, LeavesAlone
<1>3. ASSUME GiverOK(g)', t \in GiverUngiven, job'[g].todo \in GiverGiven,
             applied' = [applied EXCEPT ![rw] = @ + 1], UNCHANGED <<queued, issued, doubtful>>
      PROVE  Tends(g)
  <2>1. ASSUME NEW r \in Rewards PROVE Treats(g, r)
    <3>1. CASE r = rw
      BY <1>h, <1>t, <1>u, <1>3, <3>1 DEF Treats, Gives, Hand
    <3>2. CASE r # rw
      BY <1>h, <1>t, <1>3, <3>2 DEF Treats, Leaves, Hand
    <3> QED BY <3>1, <3>2
  <2> QED BY <1>t, <1>3, <2>1 DEF Tends
<1>4. CASE GivePoints(g)
  <2>1. t # <<>> /\ Head(t) = "points"
    BY <1>4 DEF GivePoints, At, Idle
  <2>2. t \in GiverUngiven /\ <<"clearUser">> \o Tail(t) \in GiverGiven /\ job[g].ask.to = rw
    BY <1>t, <2>1, GiverStages, GiverUngivenSteps DEF GiverOK
  <2> DEFINE usr == ViewOf(person'[job[g].user])
  <2>3. job'[g] = [job[g] EXCEPT !.usr = usr, !.wrote = TRUE, !.todo = <<"clearUser">> \o Tail(job[g].todo)]
    BY <1>t, <1>4 DEF GivePoints, BillUser
  <2> HIDE DEF usr
  <2>4. /\ DOMAIN job'[g] = JobFields /\ job'[g].ask = job[g].ask /\ job'[g].rescue = job[g].rescue
        /\ job'[g].todo = <<"clearUser">> \o Tail(t)
    BY <1>t, <2>3 DEF JobFields, GiverOK
  <2>5. GiverOK(g)'
    BY <1>t, <2>1, <2>2, <2>4 DEF GiverOK
  <2>6. applied' = [applied EXCEPT ![rw] = @ + 1] /\ UNCHANGED <<queued, issued, doubtful>>
    BY <1>4, <2>2 DEF GivePoints, Applied1
  <2> QED BY <1>3, <2>2, <2>4, <2>5, <2>6
<1>5. CASE GiveDays(g)
  <2>1. t # <<>> /\ Head(t) = "days"
    BY <1>5 DEF GiveDays, At, Idle
  <2>2. /\ t \in GiverUngiven /\ <<"clearSub", "clearUser">> \o Tail(t) \in GiverGiven
        /\ job[g].ask.to = rw
    BY <1>t, <2>1, GiverStages, GiverUngivenSteps DEF GiverOK
  <2>3. CASE Stop(g) /\ UNCHANGED applied
    <3>1. job'[g] = IdleJob
      BY <1>t, <2>3 DEF Stop
    <3>2. GiverOK(g)' /\ job'[g].todo = <<>>
      BY <3>1, IdleGiver, IdleFields
    <3>3. UNCHANGED <<queued, issued, doubtful>>
      BY <1>5 DEF GiveDays
    <3> QED BY <1>h, <1>u, <2>2, <2>3, <3>2, <3>3, LeavesAlone
  <2>4. ASSUME NEW new, BillSub(g, new, {"days"}, <<>>), Applied1(job[g].ask.to)
        PROVE  GiverOK(g)' /\ Tends(g)
    <3>0. job'[g] = [job[g] EXCEPT !.sub = new, !.wrote = TRUE,
                                   !.todo = <<"clearSub", "clearUser">> \o <<>> \o Tail(job[g].todo)]
      BY <1>t, <2>4 DEF BillSub, BillSubKeeping
    <3>1. <<"clearSub", "clearUser">> \o <<>> = <<"clearSub", "clearUser">>
      BY Before
    <3>2. /\ DOMAIN job'[g] = JobFields /\ job'[g].ask = job[g].ask /\ job'[g].rescue = job[g].rescue
          /\ job'[g].todo = <<"clearSub", "clearUser">> \o Tail(t)
      BY <1>t, <3>0, <3>1 DEF JobFields, GiverOK
    <3>3. GiverOK(g)'
      BY <1>t, <2>1, <2>2, <3>2 DEF GiverOK
    <3>4. applied' = [applied EXCEPT ![rw] = @ + 1] /\ UNCHANGED <<queued, issued, doubtful>>
      BY <1>5, <2>2, <2>4 DEF GiveDays, Applied1
    <3> QED BY <1>3, <2>2, <3>2, <3>3, <3>4
  <2> QED BY <1>5, <2>3, <2>4 DEF GiveDays
<1>6. CASE Issue(g)
  <2>1. t # <<>> /\ Head(t) = "issue"
    BY <1>6 DEF Issue, At, Idle
  <2>2. t \in GiverGiven /\ Tail(t) = <<>> /\ <<>> \o Tail(t) = <<>> /\ job[g].ask.to = rw
    BY <1>t, <2>1, GiverStages, GiverGivenSteps DEF GiverOK
  <2>3. job'[g] = IdleJob
    <3>1. job'[g] = Goes(job[g], <<>>)
      BY <1>6, <1>t DEF Issue, Continue
    <3> QED BY <1>t, <2>2, <3>1, GoesOn DEF GiverOK
  <2>4. GiverOK(g)' /\ job'[g].todo = <<>>
    BY <2>3, IdleGiver, IdleFields
  <2>5. issued' = issued \cup {rw} /\ UNCHANGED <<queued, applied, doubtful>>
    BY <1>6, <2>2 DEF Issue
  <2>6. ASSUME NEW r \in Rewards PROVE Treats(g, r)
    <3>1. CASE r = rw
      BY <1>h, <1>t, <2>1, <2>4, <2>5, <3>1 DEF Treats, Marks, Hand
    <3>2. CASE r # rw
      BY <1>h, <1>t, <2>4, <2>5, <3>2 DEF Treats, Leaves, Hand
    <3> QED BY <3>1, <3>2
  <2> QED BY <1>t, <2>4, <2>5, <2>6 DEF Tends
<1>7. ASSUME ReadState(g) \/ Eligible(g) \/ TakeLock(g) \/ Aim(g) \/ Extend(g) \/ Mark(g) \/ Done(g)
             \/ GiveDiscount(g) \/ Unlock(g) \/ ListPending(g) \/ Flush(g)
      PROVE  FALSE
  BY <1>7, <1>t, GiverStages DEF ReadState, Eligible, TakeLock, Aim, Extend, Mark, Done, SetState,
     GiveDiscount, Unlock, ListPending, Flush, At, Idle
<1> QED BY <1>t, <1>1, <1>2, <1>4, <1>5, <1>6, <1>7 DEF GrantsNext, GrantStep

-----------------------------------------------------------------------------
(* The flushes go on                                                       *)

\* The await a flush is at tells how far it is.
LEMMA FlusherStages ==
  ASSUME NEW f \in Flushers, FlusherOK(f), job[f].todo # <<>>
  PROVE  LET t == job[f].todo IN
         /\ Head(t) \in {"sub", "keepSub", "pending", "user", "keepUser", "flush", "days",
                         "clearSub", "clearUser", "push", "issue"}
         /\ Head(t) \in {"sub", "keepSub", "pending"} => t \in Listing
         /\ Head(t) \in {"user", "keepUser", "flush"} => t \in Flushing
         /\ Head(t) = "days" => t \in FlusherUngiven
         /\ Head(t) \in {"clearSub", "clearUser", "push", "issue"} => t \in FlusherGiven
         /\ <<>> \o Tail(t) = Tail(t)
<1> DEFINE t == job[f].todo
<1>1. CASE t \in Listing
  BY <1>1, ListingSteps
<1>2. CASE t \in Flushing
  BY <1>2, FlushingSteps
<1>3. CASE t \in FlusherUngiven
  BY <1>3, FlusherUngivenSteps
<1>4. CASE t \in FlusherGiven
  BY <1>4, FlusherGivenSteps
<1> QED BY <1>1, <1>2, <1>3, <1>4 DEF FlusherOK

\* The lists of awaits of a flush are none of one another.
LEMMA FlusherApart ==
  /\ \A t \in Flushing : t \notin Listing /\ t # <<>> /\ t \notin FlusherUngiven \cup FlusherGiven
  /\ \A t \in FlusherUngiven \cup FlusherGiven : t \notin Listing /\ t # <<>>
  /\ \A t \in FlusherUngiven : t \notin FlusherGiven
<1>1. \A t \in Flushing : t \notin Listing /\ t # <<>>
  BY FlushingSteps, ListingSteps
<1> QED BY <1>1, FreeRange, UngivenRange, GivenRange

\* A flush that stops has nothing in hand.
LEMMA IdleFlusher == ASSUME NEW f \in Flushers, job'[f] = IdleJob PROVE FlusherOK(f)'
BY IdleFields DEF FlusherOK

\* An await of every job, or an exception, leaves a flush a flush, with what it lists.
LEMMA FlusherMoves ==
  ASSUME NEW f \in Flushers, FlusherOK(f), job[f].todo # <<>>, Moves(f) \/ Fails(f)
  PROVE  /\ FlusherOK(f)'
         /\ \/ job'[f].todo = <<>> /\ job'[f].remna = None
            \/ job'[f].remna = job[f].remna /\ job'[f].ask = job[f].ask
         /\ job'[f].todo \in FlusherUngiven \cup FlusherGiven =>
              job[f].todo \in FlusherUngiven \cup FlusherGiven
<1> DEFINE t == job[f].todo
<1>a. <<>> \notin FlusherUngiven \cup FlusherGiven
  BY FlusherApart
<1>1. CASE job'[f] = IdleJob
  BY <1>1, <1>a, IdleFlusher, IdleFields
<1>2. CASE job'[f] # IdleJob
  <2>1. /\ DOMAIN job'[f] = JobFields /\ job'[f].rescue = <<>> /\ job'[f].ask = job[f].ask
        /\ job'[f].remna = job[f].remna /\ t # <<>>
        /\ Moves(f)
    BY <1>2 DEF Moves, Fails, FlusherOK
  <2>2. CASE t \in Listing
    <3>1. job'[f].todo \in Listing
      BY <2>1, <2>2, ListingSteps DEF Moves
    <3> QED BY <2>1, <2>2, <3>1, FlusherApart DEF FlusherOK
  <2>3. CASE t \in Flushing
    <3>1. job'[f].todo \in Flushing
      BY <2>1, <2>3, FlushingSteps DEF Moves
    <3> QED BY <2>1, <2>3, <3>1, FlusherApart DEF FlusherOK
  <2>4. CASE t \in FlusherUngiven
    BY <2>1, <2>4, FlusherUngivenSteps DEF Moves
  <2>5. CASE t \in FlusherGiven
    <3>1. job'[f].todo \in FlusherGiven
      BY <2>1, <2>5, FlusherGivenSteps DEF Moves
    <3> QED BY <2>1, <2>5, <3>1, FlusherApart DEF FlusherOK
  <2> QED BY <2>2, <2>3, <2>4, <2>5 DEF FlusherOK
<1> QED BY <1>1, <1>2

\* A step that gives and marks nothing.
LEMMA FlushesAlone ==
  ASSUME TasksOK, RewardsInv, NEW f \in Flushers,
         UNCHANGED <<queued, issued, applied>>, doubtful \subseteq doubtful',
         \A r \in Rewards \ doubtful' :
            /\ Carries(f, r)' => Carries(f, r)
            /\ Lists(f, r)' => Lists(f, r)
            /\ Gave(f, r) => Gave(f, r)'
  PROVE  Tends(f)
<1> SUFFICES ASSUME NEW r \in Rewards \ doubtful' PROVE Treats(f, r)
  BY DEF Tends, RewardsInv
<1>1. Single(r)
  BY DEF RewardsInv
<1> QED BY <1>1 DEF Treats, Leaves, Hand, Single

\* A flush that lists what is pending finds what no other job has in hand.
LEMMA FlusherLists ==
  ASSUME TasksOK, RewardsInv, NEW f \in Flushers, ListPending(f)
  PROVE  FlusherOK(f)' /\ Tends(f)
<1> DEFINE t == job[f].todo
<1>t. /\ FlusherOK(f) /\ f \in Jobs /\ DOMAIN job = Jobs /\ f \in Takers
      /\ t # <<>> /\ Head(t) = "pending" /\ UNCHANGED <<queued, issued, applied>>
  BY JobAssumption DEF TasksOK, Takers, ListPending, At, Idle
<1>l. t \in Listing /\ job[f].remna = None
  BY <1>t, FlusherStages, FlusherApart DEF FlusherOK
<1>h. \A r : /\ ~Carries(f, r) /\ ~Gave(f, r)
             /\ FlusherOK(f)' =>
                  /\ Carries(f, r)' <=> job'[f].todo \in FlusherUngiven \cup FlusherGiven /\ job'[f].ask.to = r
                  /\ Gave(f, r)' <=> job'[f].todo \in FlusherGiven /\ job'[f].ask.to = r
  BY <1>l, <1>t, FlusherHand, FlusherApart
<1>1. CASE Stop(f) /\ UNCHANGED doubtful
  <2>1. job'[f] = IdleJob
    BY <1>t, <1>1 DEF Stop
  <2>2. FlusherOK(f)' /\ job'[f].todo = <<>> /\ job'[f].remna = None
    BY <2>1, IdleFlusher, IdleFields
  <2> QED BY <1>1, <1>h, <1>t, <2>2, FlusherApart, FlushesAlone DEF Lists
<1>2. CASE /\ job' = [job EXCEPT ![f] = [@ EXCEPT !.remna = Banked, !.todo = <<"user", "flush">>]]
           /\ doubtful' = doubtful \cup {reward \in Banked : InHand(reward)}
  <2>1. /\ DOMAIN job'[f] = JobFields /\ job'[f].rescue = <<>> /\ job'[f].remna = Banked
        /\ job'[f].todo = <<"user", "flush">>
    BY <1>t, <1>2 DEF JobFields, FlusherOK
  <2>2. Banked \subseteq Rewards /\ <<"user", "flush">> \in Flushing /\ \A r \in Banked : r \notin issued
    BY DEF Banked, Flushing
  <2>3. FlusherOK(f)'
    BY <2>1, <2>2 DEF FlusherOK
  <2>4. \A r : ~Carries(f, r)'
    BY <1>h, <2>1, <2>2, <2>3, FlusherApart
  <2>5. ASSUME NEW r \in Rewards \ doubtful' PROVE Treats(f, r)
    <3>1. CASE r \in Banked
      <4>1. ~InHand(r)
        BY <1>2, <2>5, <3>1
      <4> QED BY <1>t, <2>2, <2>4, <3>1, <4>1 DEF Treats, Finds
    <3>2. CASE r \notin Banked
      BY <1>h, <1>t, <2>1, <2>4, <3>2 DEF Treats, Leaves, Hand, Lists
    <3> QED BY <3>1, <3>2
  <2> QED BY <1>2, <1>t, <2>3, <2>5 DEF Tends, RewardsInv
<1> QED BY <1>1, <1>2 DEF ListPending

\* A flush goes on to the next reward of its list.
LEMMA FlusherTurns ==
  ASSUME TasksOK, RewardsInv, NEW f \in Flushers, Flush(f)
  PROVE  FlusherOK(f)' /\ Tends(f)
<1> DEFINE t == job[f].todo
<1>t. /\ FlusherOK(f) /\ f \in Jobs /\ DOMAIN job = Jobs /\ f \in Takers
      /\ t # <<>> /\ Head(t) = "flush" /\ UNCHANGED <<queued, issued, applied, doubtful>>
  BY JobAssumption DEF TasksOK, Takers, Flush, At, Idle, grantVars
<1>l. t \in Flushing /\ job[f].remna \subseteq Rewards /\ job[f].remna # None
  BY <1>t, FlusherStages, FlusherApart, JobAssumption DEF FlusherOK
<1>h. \A r : /\ ~Carries(f, r) /\ ~Gave(f, r)
             /\ FlusherOK(f)' =>
                  /\ Carries(f, r)' <=> job'[f].todo \in FlusherUngiven \cup FlusherGiven /\ job'[f].ask.to = r
                  /\ Gave(f, r)' <=> job'[f].todo \in FlusherGiven /\ job'[f].ask.to = r
  BY <1>l, <1>t, FlusherHand, FlusherApart
<1>1. CASE Stop(f)
  <2>1. job'[f] = IdleJob
    BY <1>t, <1>1 DEF Stop
  <2>2. FlusherOK(f)' /\ job'[f].todo = <<>> /\ job'[f].remna = None
    BY <2>1, IdleFlusher, IdleFields
  <2> QED BY <1>h, <1>t, <2>2, FlusherApart, FlushesAlone DEF Lists
<1>2. ASSUME NEW reward \in job[f].remna,
             job' = [job EXCEPT ![f] = [@ EXCEPT !.ask = [field |-> "reward", to |-> reward],
                                                 !.remna = job[f].remna \ {reward},
                                                 !.todo = <<"days", "push", "issue", "flush">>]]
      PROVE  FlusherOK(f)' /\ Tends(f)
  <2>1. /\ DOMAIN job'[f] = JobFields /\ job'[f].rescue = <<>> /\ job'[f].remna = job[f].remna \ {reward}
        /\ job'[f].todo = <<"days", "push", "issue", "flush">>
        /\ job'[f].ask = [field |-> "reward", to |-> reward]
    BY <1>t, <1>2 DEF JobFields, FlusherOK
  <2>2. <<"days", "push", "issue", "flush">> \in FlusherUngiven
    BY DEF FlusherUngiven
  <2>3. FlusherOK(f)'
    BY <1>l, <2>1, <2>2 DEF FlusherOK
  <2>4. \A r : Carries(f, r)' <=> r = reward
    BY <1>h, <2>1, <2>2, <2>3
  <2>5. \A r : Lists(f, r)' <=> (Lists(f, r) /\ r # reward)
    <3>1. job[f].remna \ {reward} # None
      BY <1>l, JobAssumption
    <3> QED BY <1>l, <2>1, <3>1 DEF Lists
  <2>6. Lists(f, reward)
    BY <1>l, <1>2 DEF Lists
  <2>7. ASSUME NEW r \in Rewards PROVE Treats(f, r)
    BY <1>h, <1>t, <2>4, <2>5, <2>6 DEF Treats, Leaves, Hand
  <2> QED BY <1>t, <2>3, <2>7 DEF Tends, RewardsInv
<1> QED BY <1>1, <1>2 DEF Flush

\* Every step of a flush keeps it a flush, and gives one reward of its list at most.
LEMMA FlusherNext ==
  ASSUME TasksOK, RewardsInv, NEW f \in Flushers, GrantsNext(f)
  PROVE  FlusherOK(f)' /\ Tends(f)
<1> DEFINE t == job[f].todo
           to == job[f].ask.to
<1>t. /\ FlusherOK(f) /\ f \in Jobs /\ DOMAIN job = Jobs /\ f \notin Runs /\ f \notin Givers
      /\ applied \in [Rewards -> Nat] /\ issued \subseteq Rewards /\ f \in Takers
  BY JobAssumption DEF TasksOK, RewardsInv, Takers
<1>h. \A r : /\ Carries(f, r) <=> t \in FlusherUngiven \cup FlusherGiven /\ to = r
             /\ Gave(f, r) <=> t \in FlusherGiven /\ to = r
             /\ FlusherOK(f)' =>
                  /\ Carries(f, r)' <=> job'[f].todo \in FlusherUngiven \cup FlusherGiven /\ job'[f].ask.to = r
                  /\ Gave(f, r)' <=> job'[f].todo \in FlusherGiven /\ job'[f].ask.to = r
  BY <1>t, FlusherHand
<1>1. CASE BeginFlush(f)
  <2>1. /\ t = <<>> /\ UNCHANGED <<queued, issued, applied, doubtful>>
        /\ job'[f] = [IdleJob EXCEPT !.user = Winner, !.ask = NoAsk, !.todo = <<"sub", "pending">>, !.rescue = <<>>]
    BY <1>1, <1>t DEF BeginFlush, Begin, Idle, grantVars
  <2>2. /\ DOMAIN job'[f] = JobFields /\ job'[f].todo = <<"sub", "pending">> /\ job'[f].remna = None
        /\ job'[f].rescue = <<>>
    BY <2>1, IdleFields DEF JobFields
  <2>3. <<"sub", "pending">> \in Listing
    BY DEF Listing
  <2>4. FlusherOK(f)'
    BY <2>2, <2>3 DEF FlusherOK
  <2> QED BY <1>h, <2>1, <2>2, <2>3, <2>4, FlusherApart, FlushesAlone DEF Lists
<1>2. CASE Interruptible(f)
  <2>1. t # <<>> /\ (Moves(f) \/ Fails(f))
    <3>1. CASE AwaitStep(f)
      <4>1. t # <<>>
        BY <3>1 DEF AwaitStep, ReadUser, KeepUser, ReadSub, KeepSub, ClearSub, ClearUser, RefillUser, Push, At, Idle
      <4> QED BY <1>t, <3>1, <4>1, FlusherStages, AwaitMoves DEF FlusherOK
    <3>2. CASE Fault(f)
      BY <1>t, <3>2, RaiseFails DEF Fault, Idle
    <3> QED BY <1>2, <3>1, <3>2 DEF Interruptible
  <2>2. /\ FlusherOK(f)'
        /\ \/ job'[f].todo = <<>> /\ job'[f].remna = None
           \/ job'[f].remna = job[f].remna /\ job'[f].ask = job[f].ask
        /\ job'[f].todo \in FlusherUngiven \cup FlusherGiven => t \in FlusherUngiven \cup FlusherGiven
    BY <1>t, <2>1, FlusherMoves
  <2>3. /\ UNCHANGED <<queued, issued, applied>> /\ doubtful \subseteq doubtful'
        /\ \A r \in Rewards \ doubtful' : Gave(f, r) => Gave(f, r)'
    BY <1>2 DEF Interruptible
  <2>4. ASSUME NEW r PROVE (Carries(f, r)' => Carries(f, r)) /\ (Lists(f, r)' => Lists(f, r))
    BY <1>h, <2>2, FlusherApart DEF Lists
  <2> QED BY <2>2, <2>3, <2>4, FlushesAlone
<1>3. CASE GiveDays(f)
  <2>1. t # <<>> /\ Head(t) = "days" /\ UNCHANGED <<queued, issued, doubtful>>
    BY <1>3 DEF GiveDays, At, Idle
  <2>2. /\ t \in FlusherUngiven /\ <<"clearSub", "clearUser">> \o Tail(t) \in FlusherGiven
        /\ t \notin FlusherGiven /\ job[f].remna \subseteq Rewards /\ job[f].ask.field = "reward" /\ to \in Rewards
    BY <1>t, <2>1, FlusherStages, FlusherUngivenSteps, FlusherApart DEF FlusherOK
  <2>3. CASE Stop(f) /\ UNCHANGED applied
    <3>1. job'[f] = IdleJob
      BY <1>t, <2>3 DEF Stop
    <3>2. FlusherOK(f)' /\ job'[f].todo = <<>> /\ job'[f].remna = None
      BY <3>1, IdleFlusher, IdleFields
    <3> QED BY <1>h, <2>1, <2>2, <2>3, <3>2, FlusherApart, FlushesAlone DEF Lists
  <2>4. ASSUME NEW new, BillSub(f, new, {"days"}, <<>>), Applied1(to)
        PROVE  FlusherOK(f)' /\ Tends(f)
    <3>0. job'[f] = [job[f] EXCEPT !.sub = new, !.wrote = TRUE,
                                   !.todo = <<"clearSub", "clearUser">> \o <<>> \o Tail(job[f].todo)]
      BY <1>t, <2>4 DEF BillSub, BillSubKeeping
    <3>1. <<"clearSub", "clearUser">> \o <<>> = <<"clearSub", "clearUser">>
      BY Before
    <3>2. /\ DOMAIN job'[f] = JobFields /\ job'[f].ask = job[f].ask /\ job'[f].rescue = job[f].rescue
          /\ job'[f].remna = job[f].remna
          /\ job'[f].todo = <<"clearSub", "clearUser">> \o Tail(t)
      BY <1>t, <3>0, <3>1 DEF JobFields, FlusherOK
    <3>3. FlusherOK(f)'
      BY <1>t, <2>2, <3>2 DEF FlusherOK
    <3>4. applied' = [applied EXCEPT ![to] = @ + 1]
      BY <2>4 DEF Applied1
    <3>5. ASSUME NEW r \in Rewards \ doubtful' PROVE Treats(f, r)
      <4>1. /\ Carries(f, r) <=> to = r
            /\ Carries(f, r)' <=> to = r
            /\ ~Gave(f, r)
            /\ Gave(f, r)' <=> to = r
            /\ Lists(f, r)' <=> Lists(f, r)
        BY <1>h, <2>2, <3>2, <3>3 DEF Lists
      <4>2. ~(Carries(f, r) /\ Lists(f, r))
        BY <2>1 DEF RewardsInv, Single
      <4>3. CASE r = to
        BY <2>1, <4>1, <4>2, <4>3 DEF Treats, Gives, Hand
      <4>4. CASE r # to
        <5>1. applied'[r] = applied[r]
          BY <1>t, <3>4, <4>4
        <5> QED BY <2>1, <4>1, <4>4, <5>1 DEF Treats, Leaves, Hand
      <4> QED BY <4>3, <4>4
    <3>6. applied' \in [Rewards -> Nat]
      BY <1>t, <2>2, <3>4
    <3> QED BY <1>t, <2>1, <3>3, <3>5, <3>6 DEF Tends
  <2> QED BY <1>3, <2>3, <2>4 DEF GiveDays
<1>4. CASE Issue(f)
  <2>1. t # <<>> /\ Head(t) = "issue"
    BY <1>4 DEF Issue, At, Idle
  <2>2. /\ t \in FlusherGiven /\ Tail(t) = <<"flush">> /\ <<>> \o Tail(t) = Tail(t)
        /\ job[f].remna \subseteq Rewards /\ to \in Rewards
    BY <1>t, <2>1, FlusherStages, FlusherGivenSteps, FlusherApart DEF FlusherOK
  <2> DEFINE new == Goes(job[f], <<>>)
             rest == <<>> \o Tail(t)
  <2>3. rest = <<"flush">> /\ job'[f] = new
    BY <1>4, <1>t, <2>2 DEF Issue, Continue
  <2>4. /\ DOMAIN new = JobFields /\ new.todo = rest
        /\ rest # <<>> => new.ask = job[f].ask /\ new.remna = job[f].remna /\ new.rescue = job[f].rescue
    BY <1>t, GoesOn DEF FlusherOK
  <2> HIDE DEF new, rest
  <2>5. /\ DOMAIN job'[f] = JobFields /\ job'[f].todo = <<"flush">> /\ job'[f].remna = job[f].remna
        /\ job'[f].rescue = <<>>
    BY <1>t, <2>3, <2>4 DEF FlusherOK
  <2>6. <<"flush">> \in Flushing
    BY DEF Flushing
  <2>7. FlusherOK(f)'
    BY <2>2, <2>5, <2>6 DEF FlusherOK
  <2>8. issued' = issued \cup {to} /\ UNCHANGED <<queued, applied, doubtful>>
    BY <1>4 DEF Issue
  <2>9. ASSUME NEW r \in Rewards \ doubtful' PROVE Treats(f, r)
    <3>1. /\ Carries(f, r) <=> to = r
          /\ ~Carries(f, r)' /\ (Lists(f, r)' <=> Lists(f, r))
          /\ Gave(f, r) <=> to = r
      BY <1>h, <2>2, <2>5, <2>6, <2>7, FlusherApart DEF Lists
    <3>2. ~(Carries(f, r) /\ Lists(f, r))
      BY <2>8 DEF RewardsInv, Single
    <3>3. CASE r = to
      BY <2>8, <3>1, <3>2, <3>3 DEF Treats, Marks, Hand
    <3>4. CASE r # to
      BY <2>8, <3>1, <3>4 DEF Treats, Leaves, Hand
    <3> QED BY <3>3, <3>4
  <2> QED BY <1>t, <2>2, <2>7, <2>8, <2>9 DEF Tends
<1>5. CASE ListPending(f) \/ Flush(f)
  BY <1>5, FlusherLists, FlusherTurns
<1>6. ASSUME ReadState(f) \/ Eligible(f) \/ TakeLock(f) \/ Aim(f) \/ Extend(f) \/ Mark(f) \/ Done(f)
             \/ GiveDiscount(f) \/ Unlock(f) \/ GivePoints(f)
      PROVE  FALSE
  BY <1>6, <1>t, FlusherStages DEF ReadState, Eligible, TakeLock, Aim, Extend, Mark, Done, SetState,
     GiveDiscount, Unlock, GivePoints, At, Idle
<1> QED BY <1>t, <1>1, <1>2, <1>3, <1>4, <1>5, <1>6 DEF GrantsNext, GrantStep

-----------------------------------------------------------------------------
(* Every step                                                              *)

\* What the administrators' handlers leave alone.
LEMMA DeskKeeps ==
  ASSUME NEW d \in Desks, DeskNext(d), UNCHANGED agenda
  PROVE  /\ RunsInv => RunsInv'
         /\ TasksOK => TasksOK'
         /\ TasksOK /\ RewardsInv => RewardsInv'
<1>1. Own(d) /\ UNCHANGED <<state, issued, queued, applied, goals, overlapped, doubtful>>
  BY DeskOwn DEF grantVars
<1>2. ASSUME DOMAIN job = Jobs
      PROVE  DOMAIN job' = Jobs /\ \A k \in Jobs \ Desks : job'[k] = job[k]
  BY <1>1, <1>2 DEF Own
<1>3. Runs \subseteq Jobs \ Desks /\ Takers \subseteq Jobs \ Desks
  BY JobAssumption DEF Takers
<1>4. RunsInv => RunsInv'
  <2> SUFFICES ASSUME RunsInv PROVE RunsInv'
    OBVIOUS
  <2>1. \A k \in Runs : job'[k] = job[k]
    BY <1>2, <1>3 DEF RunsInv
  <2>2. \A k \in Runs : RunOK(k)'
    BY <1>1, <2>1 DEF RunsInv, RunOK
  <2> QED BY <1>1, <1>2, <2>1, <2>2 DEF RunsInv
<1>5. TasksOK => TasksOK'
  <2> SUFFICES ASSUME TasksOK PROVE TasksOK'
    OBVIOUS
  <2>1. DOMAIN job' = Jobs /\ \A k \in Jobs \ Desks : job'[k] = job[k]
    BY <1>2 DEF TasksOK
  <2>2. \A g \in Givers : GiverOK(g)'
    BY <1>3, <2>1 DEF TasksOK, GiverOK, Takers
  <2>3. \A f \in Flushers : FlusherOK(f)'
    BY <1>3, <2>1 DEF TasksOK, FlusherOK, Takers
  <2> QED BY <2>1, <2>2, <2>3 DEF TasksOK
<1>6. TasksOK /\ RewardsInv => RewardsInv'
  <2> SUFFICES ASSUME TasksOK, RewardsInv PROVE RewardsInv'
    OBVIOUS
  <2>1. \A k \in Takers : job'[k] = job[k]
    BY <1>2, <1>3 DEF TasksOK
  <2> DEFINE same(k, r) == /\ Carries(k, r)' <=> Carries(k, r)
                           /\ Lists(k, r)' <=> Lists(k, r)
                           /\ Hand(k, r)' <=> Hand(k, r)
                           /\ Gave(k, r)' <=> Gave(k, r)
  <2>2. ASSUME NEW k \in Takers, NEW r PROVE same(k, r)
    BY <2>1 DEF Hand, Carries, Lists, Gave
  <2>3. ASSUME NEW r \in Rewards \ doubtful PROVE Single(r)'
    BY <1>1, <2>2 DEF RewardsInv, Single, Takers
  <2> QED BY <1>1, <2>3 DEF RewardsInv
<1> QED BY <1>4, <1>5, <1>6

\* A run gives no reward.
LEMMA RunGives ==
  ASSUME NEW r \in Runs, RunsInv, GrantsNext(r)
  PROVE  /\ UNCHANGED <<issued, queued, applied>> /\ doubtful \subseteq doubtful'
<1>t. RunOK(r) /\ r \notin Givers /\ r \notin Flushers
  BY JobAssumption DEF RunsInv
<1>1. CASE (\E u \in Loyal : BeginGrant(r, u)) \/ Crash(r)
  BY <1>1 DEF BeginGrant, Crash, grantVars
<1>2. CASE Interruptible(r)
  BY <1>2 DEF Interruptible
<1>3. CASE ReadState(r) \/ Eligible(r) \/ TakeLock(r) \/ Aim(r) \/ Extend(r) \/ Mark(r) \/ Done(r)
             \/ GiveDiscount(r) \/ Unlock(r)
  BY <1>3 DEF ReadState, Eligible, TakeLock, Aim, Extend, Mark, Done, SetState, GiveDiscount, Unlock, grantVars
<1>4. CASE GivePoints(r) \/ GiveDays(r) \/ Issue(r) \/ ListPending(r) \/ Flush(r)
  BY <1>4, <1>t, RunStages DEF GivePoints, GiveDays, Issue, ListPending, Flush, At, Idle, Late
<1> QED BY <1>t, <1>1, <1>2, <1>3, <1>4 DEF GrantsNext, GrantStep

\* A task or a flush chooses no goal.
LEMMA TakerKeeps ==
  ASSUME NEW j \in Takers, TasksOK, GrantsNext(j)
  PROVE  UNCHANGED <<state, goals, overlapped>>
<1>t. j \notin Runs /\ (j \in Givers => GiverOK(j)) /\ (j \in Flushers => FlusherOK(j)) /\ j \in Givers \cup Flushers
  BY JobAssumption DEF TasksOK, Takers
<1>1. CASE BeginGive(j) \/ BeginFlush(j) \/ Interruptible(j)
  BY <1>1 DEF BeginGive, BeginFlush, Interruptible, grantVars
<1>2. CASE GivePoints(j) \/ GiveDays(j) \/ Issue(j) \/ ListPending(j) \/ Flush(j)
  BY <1>2 DEF GivePoints, GiveDays, Issue, ListPending, Flush, grantVars
<1>3. ASSUME ReadState(j) \/ Eligible(j) \/ TakeLock(j) \/ Aim(j) \/ Extend(j) \/ Mark(j) \/ Done(j)
             \/ GiveDiscount(j) \/ Unlock(j)
      PROVE  FALSE
  <2>1. job[j].todo # <<>> /\ Head(job[j].todo) \in {"seen", "eligible", "lock", "aim", "extend", "mark", "done", "discount", "unlock"}
    BY <1>3 DEF ReadState, Eligible, TakeLock, Aim, Extend, Mark, Done, SetState, GiveDiscount, Unlock, At, Idle
  <2> QED BY <1>t, <2>1, GiverStages, FlusherStages
<1> QED BY <1>t, <1>1, <1>2, <1>3 DEF GrantsNext, GrantStep

\* A job of no kind never begins.
LEMMA NoOther ==
  ASSUME TasksOK, NEW j \in Jobs \ (Desks \cup Runs \cup Takers), GrantsNext(j)
  PROVE  FALSE
<1>1. Idle(j)
  BY DEF TasksOK, Takers, Idle
<1> QED BY <1>1 DEF Takers, GrantsNext, GrantStep, Interruptible, AwaitStep, Fault, ReadUser, KeepUser, ReadSub,
      KeepSub, ClearSub, ClearUser, RefillUser, Push, ReadState, Eligible, TakeLock, Aim, Extend, Mark, Done,
      SetState, GiveDiscount, Unlock, GivePoints, GiveDays, Issue, ListPending, Flush, At

\* Tasks and flushes stay what they are under the step of a run, a task or a flush.
LEMMA GrantTasks ==
  ASSUME TasksOK, RewardsInv, NEW j \in Jobs \ Desks, GrantsNext(j), UNCHANGED agenda
  PROVE  TasksOK'
<1>1. Own(j)
  BY GrantOwn
<1>2. DOMAIN job' = Jobs /\ \A k \in Jobs : k # j => job'[k] = job[k]
  BY <1>1 DEF TasksOK, Own
<1>3. ASSUME NEW g \in Givers PROVE GiverOK(g)'
  <2>1. CASE g = j
    BY <2>1, GiverNext
  <2>2. CASE g # j
    BY <1>2, <2>2, JobAssumption DEF TasksOK, GiverOK
  <2> QED BY <2>1, <2>2
<1>4. ASSUME NEW f \in Flushers PROVE FlusherOK(f)'
  <2>1. CASE f = j
    BY <2>1, FlusherNext
  <2>2. CASE f # j
    BY <1>2, <2>2, JobAssumption DEF TasksOK, FlusherOK
  <2> QED BY <2>1, <2>2
<1>5. j \in Runs \cup Takers
  BY NoOther
<1> QED BY <1>2, <1>3, <1>4, <1>5 DEF TasksOK, Takers

\* So does what is said of rewards.
LEMMA GrantRewards ==
  ASSUME TasksOK, RewardsInv, RunsInv, NEW j \in Jobs \ Desks, GrantsNext(j)
  PROVE  RewardsInv'
<1>1. Own(j) /\ j \in Runs \cup Takers
  BY GrantOwn, NoOther
<1>2. CASE j \in Takers
  <2>1. Tends(j)
    BY <1>2, GiverNext, FlusherNext DEF Takers
  <2>2. ASSUME NEW r \in Rewards \ doubtful' PROVE Single(r)'
    BY <1>1, <1>2, <2>1, SingleKept DEF Tends, RewardsInv
  <2> QED BY <2>1, <2>2 DEF Tends, RewardsInv
<1>3. CASE j \in Runs
  <2>1. UNCHANGED <<issued, queued, applied>> /\ doubtful \subseteq doubtful'
    BY <1>3, RunGives
  <2>2. \A k \in Takers : k # j
    BY <1>3, JobAssumption DEF Takers
  <2>3. ASSUME NEW k \in Takers, NEW r
        PROVE  /\ Carries(k, r)' <=> Carries(k, r)
               /\ Lists(k, r)' <=> Lists(k, r)
               /\ Gave(k, r)' <=> Gave(k, r)
               /\ Hand(k, r)' <=> Hand(k, r)
    BY <1>1, <2>2, OthersHands
  <2>4. ASSUME NEW r \in Rewards \ doubtful' PROVE Single(r)'
    BY <2>1, <2>3 DEF RewardsInv, Single, Takers
  <2> QED BY <2>1, <2>4 DEF RewardsInv
<1> QED BY <1>1, <1>2, <1>3

\* So does what is said of runs.
LEMMA GrantRuns ==
  ASSUME TasksOK, RunsInv, NEW j \in agenda.jobs \ Desks, GrantsNext(j), UNCHANGED agenda
  PROVE  RunsInv'
<1>1. j \in Jobs \ Desks /\ Own(j)
  BY GrantOwn DEF TasksOK
<1>2. j \in Runs \cup Takers
  BY <1>1, NoOther
<1>3. CASE j \in Runs
  BY <1>3, RunNext
<1>4. CASE j \in Takers
  <2>1. UNCHANGED <<state, goals, overlapped>>
    BY <1>4, TakerKeeps
  <2>2. \A k \in Runs : job'[k] = job[k]
    BY <1>1, <1>4, JobAssumption DEF Takers, RunsInv, Own
  <2>3. \A k \in Runs : RunOK(k)'
    BY <2>1, <2>2 DEF RunsInv, RunOK
  <2> QED BY <1>1, <2>1, <2>2, <2>3 DEF RunsInv, Own
<1> QED BY <1>2, <1>3, <1>4

\* What the theorems rest on.
AccountsInv == RunsInv /\ TasksOK /\ RewardsInv

\* At first nobody is at work and every reward that is waited for is in the stream.
LEMMA AccountsStart == Init => AccountsInv
<1> SUFFICES ASSUME Init PROVE AccountsInv
  OBVIOUS
<1>1. PICK s \in Start : /\ AccountInit(s.people, s.subscriptions, s.panel, s.apart) /\ agenda = s.agenda
                         /\ GrantsInit({RewardOf[g] : g \in s.agenda.jobs \cap Givers})
  BY DEF Init
<1>2. /\ job = [j \in Jobs |-> IdleJob] /\ agenda.jobs \subseteq Jobs
      /\ state = [u \in Users |-> NoState] /\ issued = {} /\ applied = [r \in Rewards |-> 0]
      /\ goals = [u \in Users |-> 0]
  BY <1>1, StartAssumption DEF AccountInit, GrantsInit
<1>3. DOMAIN job = Jobs /\ \A j \in Jobs : job[j] = IdleJob
  BY <1>2
<1>4. Runs \subseteq Jobs /\ Givers \subseteq Jobs /\ Flushers \subseteq Jobs
  BY JobAssumption
<1>5. <<>> \in Seq(Late) /\ <<>> \notin Unseen /\ <<>> \notin Seen
  BY LateSteps, UnseenSteps, SeenSteps
<1>6. RunsInv
  <2>1. \A r \in Runs : RunOK(r)
    BY <1>3, <1>4, <1>5, IdleFields DEF RunOK
  <2>2. \A r \in Runs : job[r].user = None
    BY <1>3, <1>4, IdleFields
  <2> QED BY <1>2, <1>3, <2>1, <2>2 DEF RunsInv
<1>7. TasksOK
  <2>1. \A g \in Givers : GiverOK(g)
    BY <1>3, <1>4, IdleFields DEF GiverOK
  <2>2. \A f \in Flushers : FlusherOK(f)
    BY <1>3, <1>4, IdleFields DEF FlusherOK
  <2> QED BY <1>2, <1>3, <2>1, <2>2, IdleFields DEF TasksOK
<1>8. ASSUME NEW r PROVE \A j \in Takers : ~Hand(j, r)
  <2>1. ASSUME NEW j \in Takers PROVE job[j].todo = <<>> /\ job[j].remna = None
    BY <1>3, <1>4, IdleFields DEF Takers
  <2> QED BY <2>1, FreeRange DEF Hand, Carries, Lists
<1>9. RewardsInv
  <2>1. ASSUME NEW r \in Rewards PROVE Single(r)
    BY <1>2, <1>8 DEF Single, Hand, Takers
  <2> QED BY <1>2, <2>1 DEF RewardsInv
<1> QED BY <1>6, <1>7, <1>9 DEF AccountsInv

\* Every step keeps it.
LEMMA AccountsStep == AccountsInv /\ [Next]_vars => AccountsInv'
<1> SUFFICES ASSUME AccountsInv, [Next]_vars PROVE AccountsInv'
  OBVIOUS
<1>1. ASSUME NEW d \in Desks, DeskNext(d), UNCHANGED agenda PROVE AccountsInv'
  BY <1>1, DeskKeeps DEF AccountsInv
<1>2. ASSUME NEW j \in agenda.jobs \ Desks, GrantsNext(j), UNCHANGED agenda PROVE AccountsInv'
  <2>1. j \in Jobs \ Desks
    BY DEF AccountsInv, TasksOK
  <2> QED BY <1>2, <2>1, GrantTasks, GrantRewards, GrantRuns DEF AccountsInv
<1>3. CASE UNCHANGED vars
  <2>1. UNCHANGED <<job, agenda, state, goals, overlapped, issued, queued, applied, doubtful>>
    BY <1>3 DEF vars, accountVars, grantVars
  <2>2. \A r \in Runs : RunOK(r)' <=> RunOK(r)
    BY <2>1 DEF RunOK
  <2>3. RunsInv'
    BY <2>1, <2>2 DEF AccountsInv, RunsInv
  <2>4. \A j \in Takers : (GiverOK(j)' <=> GiverOK(j)) /\ (FlusherOK(j)' <=> FlusherOK(j))
    BY <2>1 DEF GiverOK, FlusherOK
  <2>5. TasksOK'
    BY <2>1, <2>4 DEF AccountsInv, TasksOK, Takers
  <2>6. ASSUME NEW k \in Takers, NEW r
        PROVE  /\ Carries(k, r)' <=> Carries(k, r)
               /\ Lists(k, r)' <=> Lists(k, r)
               /\ Gave(k, r)' <=> Gave(k, r)
               /\ Hand(k, r)' <=> Hand(k, r)
    BY <2>1 DEF Hand, Carries, Lists, Gave
  <2>7. \A r \in Rewards \ doubtful' : Single(r)'
    BY <2>1, <2>6 DEF AccountsInv, RewardsInv, Single, Takers
  <2> QED BY <2>1, <2>3, <2>5, <2>7 DEF AccountsInv, RewardsInv
<1> QED BY <1>1, <1>2, <1>3 DEF Next

LEMMA AccountsHold == Spec => []AccountsInv
BY AccountsStart, AccountsStep, PTL DEF Spec

\* The loyalty reward extends a subscription to one day only, for every number of runs
\* that fail, crash, are repeated or find the lock expired, and for every user no two of
\* them worked on at once (loyalty_reward.py).
THEOREM GrantsOnce == Spec => []GrantedOnce
<1>1. AccountsInv => GrantedOnce
  BY DEF AccountsInv, RunsInv, GrantedOnce
<1> QED BY <1>1, AccountsHold, PTL

\* A step that gives a reward leaves it as doubtful as it was.
LEMMA DoubtOrGive ==
  ASSUME NEW j, GrantsNext(j) PROVE UNCHANGED doubtful \/ UNCHANGED applied
<1>1. CASE (\E u \in Loyal : BeginGrant(j, u)) \/ Crash(j) \/ BeginGive(j) \/ BeginFlush(j) \/ Interruptible(j)
  BY <1>1 DEF BeginGrant, Crash, BeginGive, BeginFlush, Interruptible, grantVars
<1>2. CASE ReadState(j) \/ Eligible(j) \/ TakeLock(j) \/ Aim(j) \/ Extend(j) \/ Mark(j) \/ Done(j)
             \/ GiveDiscount(j) \/ Unlock(j)
  BY <1>2 DEF ReadState, Eligible, TakeLock, Aim, Extend, Mark, Done, SetState, GiveDiscount, Unlock, grantVars
<1>3. CASE GivePoints(j) \/ GiveDays(j) \/ Issue(j) \/ ListPending(j) \/ Flush(j)
  BY <1>3 DEF GivePoints, GiveDays, Issue, ListPending, Flush, grantVars
<1> QED BY <1>1, <1>2, <1>3 DEF GrantsNext, GrantStep

\* A referral reward is given a second time only after a job that gave it failed before it
\* marked it, or by a flush that listed it while another job had it in hand, for every
\* number of tasks and flushes (referrals.py:47-97, referral.py:128-172).
THEOREM RewardsOnce == Spec => RewardedOnce
<1> DEFINE Once == \A r \in Rewards : applied'[r] > applied[r] => applied[r] = 0 \/ r \in doubtful
<1>1. ASSUME AccountsInv, [Next]_vars PROVE [Once]_vars
  <2>1. ASSUME NEW d \in Desks, DeskNext(d) PROVE Once
    <3>1. UNCHANGED applied
      BY <2>1, DeskOwn DEF grantVars
    <3> QED BY <1>1, <3>1 DEF AccountsInv, RewardsInv
  <2>2. ASSUME NEW j \in agenda.jobs \ Desks, GrantsNext(j) PROVE Once
    <3> SUFFICES ASSUME NEW r \in Rewards, applied'[r] > applied[r], applied[r] # 0, r \notin doubtful
                 PROVE  FALSE
      OBVIOUS
    <3>0. j \in Jobs \ Desks /\ TasksOK /\ RewardsInv /\ RunsInv /\ applied[r] \in Nat
      BY <1>1 DEF AccountsInv, TasksOK, RewardsInv
    <3>1. j \in Runs \cup Takers
      BY <2>2, <3>0, NoOther
    <3>2. applied' # applied
      BY <3>0
    <3>3. r \in Rewards \ doubtful'
      BY <2>2, <3>2, DoubtOrGive
    <3>4. j \in Takers
      BY <2>2, <3>0, <3>1, <3>2, RunGives
    <3>5. Treats(j, r)
      BY <2>2, <3>0, <3>3, <3>4, GiverNext, FlusherNext DEF Takers, Tends
    <3>6. Hand(j, r) /\ ~Gave(j, r)
      BY <3>0, <3>5 DEF Treats, Leaves, Takes, Gives, Marks, Finds
    <3>7. Single(r)
      BY <3>0 DEF RewardsInv
    <3>8. \A k \in Takers : Gave(k, r) => Hand(k, r)
      BY DEF Gave, Hand
    <3> QED BY <3>4, <3>6, <3>7, <3>8 DEF Single
  <2> QED BY <1>1, <2>1, <2>2 DEF Next
<1>2. Spec => [][Once]_vars
  BY <1>1, AccountsHold, PTL DEF Spec
<1> QED BY <1>2 DEF RewardedOnce

-----------------------------------------------------------------------------
(* The copies in Redis                                                     *)

SubFields ==
    {"id", "account", "trial", "staff", "days", "status", "traffic_limit", "device_limit", "internal_squads", "external_squad"}
AccountFields ==
    {"uuid", "status", "days", "staff", "devices", "traffic_limit", "device_limit", "internal_squads", "external_squad"}

\* Awaits that stand in a fixed order before or after others, and the others.
Special ==
    {"MENU", "keepUser", "keepSub", "clearSub", "clearUser", "refillUser", "drop", "point", "toggle", "status",
     "provision", "create", "apply", "restore", "extend"}
Ordinary ==
    {"user", "sub", "set", "edit", "push", "whether", "reset", "devices", "unlink", "confirm", "remove",
     "match", "fetch", "dropActor", "clearActor", "compare", "plans", "access", "plan", "grant", "send", "seen",
     "eligible", "lock", "aim", "mark", "discount", "done", "unlock", "points", "days", "issue", "pending", "flush"}
Names == Special \cup Ordinary \cup Windows
Plain(s) == \A i \in DOMAIN s : s[i] \notin Special
First(s, heads) == s # <<>> /\ Head(s) \in heads

\* an answer that goes into Redis now
Kept(s) == First(s, {"keepUser", "keepSub"}) /\ Plain(Tail(s))
Refilled(s) == First(s, {"refillUser"}) /\ Plain(Tail(s))
\* the copies that are cleared after a write of a subscription, its deletion or its creation
ClearU(s) == First(s, {"clearUser"}) /\ Plain(Tail(s))
ClearSU(s) == First(s, {"clearSub"}) /\ ClearU(Tail(s))
DropU(s) == First(s, {"drop"}) /\ ClearU(Tail(s))
ClearUDropU(s) == First(s, {"clearUser"}) /\ DropU(Tail(s))
ClearSUDropU(s) == First(s, {"clearSub"}) /\ ClearUDropU(Tail(s))
ClearS(s) == First(s, {"clearSub"}) /\ Plain(Tail(s))
ClearUS(s) == First(s, {"clearUser"}) /\ ClearS(Tail(s))
PointUS(s) == First(s, {"point"}) /\ ClearUS(Tail(s))
\* the panel's status, then billing's
StatusOnly(s) == First(s, {"status"}) /\ Plain(Tail(s))
ToggleStatus(s) == First(s, {"toggle"}) /\ StatusOnly(Tail(s))
SubToggle(s) == First(s, {"sub", "keepSub"}) /\ ToggleStatus(Tail(s))
\* a plan given by hand
CreateOnly(s) == First(s, {"create"}) /\ Plain(Tail(s))
ProvisionCreate(s) == First(s, {"provision"}) /\ CreateOnly(Tail(s))
SubProvision(s) == First(s, {"sub"}) /\ ProvisionCreate(Tail(s))
KeptProvision(s) == First(s, {"keepSub"}) /\ ProvisionCreate(Tail(s))
UserProvision(s) == First(s, {"user", "keepUser"}) /\ SubProvision(Tail(s))
\* a synchronisation
ApplyOnly(s) == First(s, {"apply"}) /\ Plain(Tail(s))
SubApply(s) == First(s, {"sub"}) /\ ApplyOnly(Tail(s))
KeptApply(s) == First(s, {"keepSub"}) /\ ApplyOnly(Tail(s))
UserApply(s) == First(s, {"user", "keepUser"}) /\ SubApply(Tail(s))
RestoreApply(s) == First(s, {"restore"}) /\ First(Tail(s), {"user"}) /\ UserApply(Tail(s))
\* a loyalty run that has chosen its goal
ExtendFirst(s) == First(s, {"extend"}) /\ Plain(Tail(s))

StaleSub(s) == ClearS(s) \/ ClearUS(s) \/ ClearSU(s) \/ ClearSUDropU(s)
StaleUser(s) == Refilled(s) \/ ClearU(s) \/ ClearUS(s) \/ ClearSU(s) \/ ClearUDropU(s) \/ ClearSUDropU(s)

Free(s) ==
    \/ Plain(s) \/ s = <<"MENU">> \/ Kept(s) \/ ToggleStatus(s) \/ SubToggle(s)
    \/ ProvisionCreate(s) \/ SubProvision(s) \/ KeptProvision(s) \/ UserProvision(s) \/ RestoreApply(s)
Applying(s) == ApplyOnly(s) \/ SubApply(s) \/ KeptApply(s) \/ UserApply(s)

\* A subscription is of one user; own says of which.
Owned(own, s, u) == DOMAIN s = SubFields /\ s.id \in DOMAIN subs /\ own[s.id] = u
SubOK(own, j) == job[j].sub = None \/ Owned(own, job[j].sub, job[j].user)

Rescue(j, s) == s \in Seq(Names) /\ IF j \in Desks THEN s \in {<<>>, <<"MENU">>} ELSE Plain(s)

JobOK(own, j) ==
    /\ DOMAIN job[j] = JobFields /\ job[j].todo \in Seq(Names) /\ Rescue(j, job[j].rescue)
    /\ job[j].todo # <<>> => job[j].user \in Users /\ (j \in Desks => job[j].user = Target[j])
    /\ LET todo == job[j].todo IN
       \/ Free(todo) /\ SubOK(own, j)
       \/ (StaleSub(todo) \/ StaleUser(todo) \/ DropU(todo)) /\ SubOK(own, j) /\ job[j].wrote
       \/ PointUS(todo) /\ Owned(own, job[j].sub, job[j].user) /\ job[j].wrote
       \/ (StatusOnly(todo) \/ ExtendFirst(todo)) /\ Owned(own, job[j].sub, job[j].user)
       \/ CreateOnly(todo) /\ DOMAIN job[j].sub = SubFields
       \/ Applying(todo) /\ SubOK(own, j) /\ DOMAIN job[j].remna = AccountFields

StoresOK(own) ==
    /\ own \in [Subs -> Users]
    /\ DOMAIN person = Users /\ DOMAIN account = Users /\ DOMAIN userCache = Users /\ DOMAIN subCache = Users
    /\ DOMAIN subs \subseteq Subs /\ \A id \in DOMAIN subs : DOMAIN subs[id] = SubFields /\ subs[id].id = id
    /\ \A u \in Users :
          /\ "current" \in DOMAIN person[u]
          /\ person[u].current = None \/ (person[u].current \in DOMAIN subs /\ own[person[u].current] = u)
          /\ account[u] = None \/ DOMAIN account[u] = AccountFields
          /\ subCache[u].cached => subCache[u].value = None \/ Owned(own, subCache[u].value, u)

\* What a copy lacks, a job of the user is about to clear or to replace; an answer
\* in hand is still what billing says.
FreshFor(u) ==
    /\ subCache[u].cached /\ subCache[u].value # Current(u) =>
         \E j \in Jobs : job[j].user = u /\ StaleSub(job[j].todo)
    /\ userCache[u].cached /\ userCache[u].value # UserView(u) =>
         \E j \in Jobs : job[j].user = u /\ StaleUser(job[j].todo)
    /\ \A j \in Jobs : job[j].user = u =>
         /\ At(j, "keepSub") => job[j].sub = Current(u)
         /\ At(j, "keepUser") \/ At(j, "refillUser") => job[j].usr = UserView(u)

CopiesInv(own) ==
    /\ DOMAIN job = Jobs /\ agenda.jobs \subseteq Jobs
    /\ StoresOK(own)
    /\ \A j \in Jobs : JobOK(own, j)
    /\ \A u \in Users \ disturbed : FreshFor(u)

\* While the main menu is shown, nothing is under way but the opening of the dashboard.
OpenMain(s) == First(s, {"MAIN"}) /\ Tail(s) = <<>>
OpenSub(s) == First(s, {"sub", "keepSub"}) /\ OpenMain(Tail(s))
OpenUser(s) == First(s, {"user", "keepUser"}) /\ OpenSub(Tail(s))
Opening(s) == s \in {<<>>, <<"MENU">>} \/ OpenMain(s) \/ OpenSub(s) \/ OpenUser(s)
DeskInv ==
    /\ DOMAIN desk = Desks
    /\ \A d \in Desks :
          /\ DOMAIN desk[d] = {"win", "shown", "payload", "armed"}
          /\ desk[d].win \in Windows \/ (desk[d].win = "MENU" /\ Opening(job[d].todo))
-----------------------------------------------------------------------------
(* Lists of awaits                                                         *)

\* The rest of a list, and whether it is plain.
LEMMA RestFacts ==
  ASSUME NEW s \in Seq(Names), s # <<>>
  PROVE  /\ Head(s) \in Names /\ Tail(s) \in Seq(Names)
         /\ Plain(s) <=> Head(s) \notin Special /\ Plain(Tail(s))
<1>1. Len(s) \in Nat \ {0} /\ DOMAIN s = 1..Len(s)
  OBVIOUS
<1>2. Head(s) = s[1] /\ Head(s) \in Names
  BY <1>1
<1>3. Tail(s) \in Seq(Names) /\ Len(Tail(s)) = Len(s) - 1
  BY <1>1
<1>4. DOMAIN Tail(s) = 1..(Len(s) - 1)
  BY <1>3, <1>1
<1>5. \A i \in 1..(Len(s) - 1) : Tail(s)[i] = s[i + 1]
  BY <1>1
<1>6. ASSUME Plain(s) PROVE Head(s) \notin Special /\ Plain(Tail(s))
  <2>1. \A i \in 1..Len(s) : s[i] \notin Special
    BY <1>1, <1>6 DEF Plain
  <2>2. s[1] \notin Special
    BY <2>1, <1>1
  <2>3. \A i \in 1..(Len(s) - 1) : i + 1 \in 1..Len(s)
    BY <1>1
  <2>4. \A i \in DOMAIN Tail(s) : Tail(s)[i] \notin Special
    BY <2>1, <2>3, <1>4, <1>5
  <2> QED BY <1>2, <2>2, <2>4 DEF Plain
<1>7. ASSUME Head(s) \notin Special, Plain(Tail(s)) PROVE Plain(s)
  <2> SUFFICES ASSUME NEW i \in 1..Len(s) PROVE s[i] \notin Special
    BY <1>1 DEF Plain
  <2>1. CASE i = 1
    BY <2>1, <1>2, <1>7
  <2>2. CASE i # 1
    <3>1. i - 1 \in 1..(Len(s) - 1) /\ s[(i - 1) + 1] = s[i]
      BY <2>2, <1>1
    <3>2. Tail(s)[i - 1] = s[i]
      BY <3>1, <1>5
    <3> QED BY <3>1, <3>2, <1>4, <1>7 DEF Plain
  <2> QED BY <2>1, <2>2
<1> QED BY <1>2, <1>3, <1>6, <1>7

\* One await before a list.
LEMMA ConsFacts ==
  ASSUME NEW h \in Names, NEW s \in Seq(Names)
  PROVE  /\ <<h>> \o s \in Seq(Names) /\ <<h>> \o s # <<>>
         /\ Head(<<h>> \o s) = h /\ Tail(<<h>> \o s) = s
<1> DEFINE t == <<h>> \o s
<1>1. <<h>> \in Seq(Names)
  OBVIOUS
<1>2. Len(<<h>>) = 1 /\ <<h>>[1] = h
  OBVIOUS
<1>3. /\ t \in Seq(Names) /\ Len(t) = Len(<<h>>) + Len(s)
      /\ \A i \in 1..(Len(<<h>>) + Len(s)) : t[i] = IF i <= Len(<<h>>) THEN <<h>>[i] ELSE s[i - Len(<<h>>)]
  BY <1>1, ConcatProperties
<1>4. Len(s) \in Nat
  OBVIOUS
<1> HIDE DEF t
<1>5. Len(t) = 1 + Len(s) /\ t[1] = h /\ \A i \in 1..Len(s) : t[i + 1] = s[i]
  <2>1. Len(t) = 1 + Len(s)
    BY <1>2, <1>3
  <2>2. t[1] = h
    <3>1. 1 \in 1..(Len(<<h>>) + Len(s)) /\ 1 <= Len(<<h>>)
      BY <1>2, <1>4
    <3> QED BY <3>1, <1>2, <1>3
  <2>3. ASSUME NEW i \in 1..Len(s) PROVE t[i + 1] = s[i]
    <3>1. i + 1 \in 1..(Len(<<h>>) + Len(s)) /\ ~(i + 1 <= Len(<<h>>)) /\ (i + 1) - Len(<<h>>) = i
      BY <1>2, <1>4
    <3> QED BY <3>1, <1>3
  <2> QED BY <2>1, <2>2, <2>3
<1>6. t # <<>>
  BY <1>3, <1>4, <1>5
<1>7. Head(t) = h
  <2>1. Head(t) = t[1]
    BY <1>3, <1>6
  <2> QED BY <2>1, <1>5
<1>8. Tail(t) \in Seq(Names) /\ Len(Tail(t)) = Len(s) /\ \A i \in 1..Len(s) : Tail(t)[i] = t[i + 1]
  BY <1>3, <1>4, <1>5, <1>6
<1>9. Tail(t) = s
  BY <1>5, <1>8, SeqEqual
<1> QED BY <1>3, <1>6, <1>7, <1>9 DEF t

\* Lists of awaits put together.
LEMMA JoinFacts ==
  /\ \A s \in Seq(Names) : <<>> \o s = s /\ s \o <<>> = s
  /\ \A s, t \in Seq(Names) : s \o t \in Seq(Names) /\ (Plain(s) /\ Plain(t) => Plain(s \o t))
  /\ \A r, s, t \in Seq(Names) : (r \o s) \o t = r \o (s \o t)
<1>1. \A s \in Seq(Names) : <<>> \o s = s /\ s \o <<>> = s
  BY ConcatEmptySeq
<1>2. ASSUME NEW s \in Seq(Names), NEW t \in Seq(Names)
      PROVE  s \o t \in Seq(Names) /\ (Plain(s) /\ Plain(t) => Plain(s \o t))
  <2>1. /\ s \o t \in Seq(Names) /\ Len(s \o t) = Len(s) + Len(t)
        /\ \A i \in 1..(Len(s) + Len(t)) : (s \o t)[i] = IF i <= Len(s) THEN s[i] ELSE t[i - Len(s)]
    BY ConcatProperties
  <2>2. Len(s) \in Nat /\ Len(t) \in Nat /\ DOMAIN s = 1..Len(s) /\ DOMAIN t = 1..Len(t)
    OBVIOUS
  <2>3. DOMAIN (s \o t) = 1..(Len(s) + Len(t))
    BY <2>1
  <2>4. ASSUME Plain(s), Plain(t), NEW i \in 1..(Len(s) + Len(t)) PROVE (s \o t)[i] \notin Special
    <3>1. CASE i <= Len(s)
      <4>1. i \in DOMAIN s /\ (s \o t)[i] = s[i]
        BY <3>1, <2>1, <2>2
      <4> QED BY <4>1, <2>4 DEF Plain
    <3>2. CASE ~(i <= Len(s))
      <4>1. i - Len(s) \in DOMAIN t /\ (s \o t)[i] = t[i - Len(s)]
        BY <3>2, <2>1, <2>2
      <4> QED BY <4>1, <2>4 DEF Plain
    <3> QED BY <3>1, <3>2
  <2> QED BY <2>1, <2>3, <2>4 DEF Plain
<1>3. \A r, s, t \in Seq(Names) : (r \o s) \o t = r \o (s \o t)
  BY ConcatAssociative
<1> QED BY <1>1, <1>2, <1>3

\* Two or three awaits before a list, one after the other.
LEMMA StepByStep ==
  ASSUME NEW a \in Names, NEW b \in Names, NEW s \in Seq(Names)
  PROVE  /\ <<a, b>> \o s = <<a>> \o (<<b>> \o s)
         /\ \A c \in Names : <<a, b, c>> \o s = <<a>> \o (<<b>> \o (<<c>> \o s))
<1>1. <<a>> \in Seq(Names) /\ <<b>> \in Seq(Names)
  OBVIOUS
<1>2. <<a, b>> \o s = <<a>> \o (<<b>> \o s)
  <2>1. <<a>> \o <<b>> = <<a, b>>
    BY Before
  <2>2. (<<a>> \o <<b>>) \o s = <<a>> \o (<<b>> \o s)
    BY <1>1, ConcatAssociative
  <2> QED BY <2>1, <2>2
<1>3. ASSUME NEW c \in Names PROVE <<a, b, c>> \o s = <<a>> \o (<<b>> \o (<<c>> \o s))
  <2>1. <<c>> \in Seq(Names) /\ <<b, c>> \in Seq(Names)
    OBVIOUS
  <2>2. <<a>> \o <<b, c>> = <<a, b, c>>
    BY Before, Z3
  <2>5. <<b>> \o <<c>> = <<b, c>>
    BY Before, Zenon
  <2>3. (<<a>> \o <<b, c>>) \o s = <<a>> \o (<<b, c>> \o s)
    BY <1>1, <2>1, ConcatAssociative
  <2>4. (<<b>> \o <<c>>) \o s = <<b>> \o (<<c>> \o s)
    BY <1>1, <2>1, ConcatAssociative
  <2> QED BY <2>2, <2>3, <2>4, <2>5
<1> QED BY <1>2, <1>3
\* The awaits of every getter.
LEMMA GetterFacts ==
  /\ Windows = {"MAIN", "SUBSCRIPTION", "DEVICES_LIST", "TRAFFIC_LIMIT", "DEVICE_LIMIT", "SQUADS", "INTERNAL_SQUADS",
                "EXTERNAL_SQUADS", "EXPIRE_TIME", "DISCOUNT", "POINTS", "MESSAGE", "ROLE", "SYNC", "GIVE_ACCESS",
                "GIVE_SUBSCRIPTION", "SUBSCRIPTION_DURATION", "TRANSACTIONS_LIST", "TRANSACTION"}
  /\ \A w \in Windows : Getter[w] \in {<<>>, <<"user">>, <<"sub">>, <<"user", "sub">>}
<1>1. /\ DOMAIN MainGetter = {"MAIN"} /\ DOMAIN SubscriptionGetter = {"SUBSCRIPTION"}
      /\ DOMAIN DevicesGetter = {"DEVICES_LIST"} /\ DOMAIN LimitGetters = {"TRAFFIC_LIMIT", "DEVICE_LIMIT"}
      /\ DOMAIN SquadGetters = {"SQUADS", "INTERNAL_SQUADS", "EXTERNAL_SQUADS"} /\ DOMAIN ExpireGetter = {"EXPIRE_TIME"}
      /\ DOMAIN UserGetters = {"DISCOUNT", "POINTS", "MESSAGE"} /\ DOMAIN RoleGetter = {"ROLE"}
      /\ DOMAIN SyncGetter = {"SYNC"}
      /\ DOMAIN PlanGetters = {"GIVE_ACCESS", "GIVE_SUBSCRIPTION", "SUBSCRIPTION_DURATION"}
      /\ DOMAIN TransactionGetters = {"TRANSACTIONS_LIST", "TRANSACTION"}
  BY DEF MainGetter, SubscriptionGetter, DevicesGetter, LimitGetters, SquadGetters, ExpireGetter, UserGetters,
     RoleGetter, SyncGetter, PlanGetters, TransactionGetters
<1>2. Windows = {"MAIN", "SUBSCRIPTION", "DEVICES_LIST", "TRAFFIC_LIMIT", "DEVICE_LIMIT", "SQUADS", "INTERNAL_SQUADS",
                 "EXTERNAL_SQUADS", "EXPIRE_TIME", "DISCOUNT", "POINTS", "MESSAGE", "ROLE", "SYNC", "GIVE_ACCESS",
                 "GIVE_SUBSCRIPTION", "SUBSCRIPTION_DURATION", "TRANSACTIONS_LIST", "TRANSACTION"}
  BY <1>1 DEF Windows, Getters
<1>3. ASSUME NEW g \in Getters, NEW w \in DOMAIN g PROVE g[w] \in {<<>>, <<"user">>, <<"sub">>, <<"user", "sub">>}
  <2>1. CASE g \in {MainGetter, SubscriptionGetter, DevicesGetter, LimitGetters}
    BY <2>1 DEF MainGetter, SubscriptionGetter, DevicesGetter, LimitGetters
  <2>2. CASE g \in {SquadGetters, ExpireGetter, UserGetters, RoleGetter}
    BY <2>2 DEF SquadGetters, ExpireGetter, UserGetters, RoleGetter
  <2>3. CASE g \in {SyncGetter, PlanGetters, TransactionGetters}
    BY <2>3 DEF SyncGetter, PlanGetters, TransactionGetters
  <2> QED BY <2>1, <2>2, <2>3 DEF Getters
<1>4. ASSUME NEW w \in Windows PROVE Getter[w] \in {<<>>, <<"user">>, <<"sub">>, <<"user", "sub">>}
  <2> DEFINE g == CHOOSE x \in Getters : w \in DOMAIN x
  <2>1. g \in Getters /\ w \in DOMAIN g
    BY DEF Windows
  <2>2. Getter[w] = g[w]
    BY DEF Getter
  <2> QED BY <2>1, <2>2, <1>3
<1> QED BY <1>2, <1>4

\* The reads of a getter and the window it draws.
LEMMA RenderFacts ==
  /\ Windows \subseteq Names \ (Special \cup {"user", "sub"})
  /\ \A w \in Windows : Render(w) \in Seq(Names) /\ Plain(Render(w))
<1>1. Windows \subseteq Names
  BY DEF Names
<1>2. Windows \cap (Special \cup {"user", "sub"}) = {}
  BY GetterFacts, Zenon DEF Special
<1>3. \A t \in {<<>>, <<"user">>, <<"sub">>, <<"user", "sub">>} : t \in Seq(Names) /\ Plain(t)
  <2>1. "user" \in Names /\ "sub" \in Names /\ "user" \notin Special /\ "sub" \notin Special
    BY DEF Names, Ordinary, Special
  <2>2. <<>> \in Seq(Names) /\ <<"user">> \in Seq(Names) /\ <<"sub">> \in Seq(Names) /\ <<"user", "sub">> \in Seq(Names)
    BY <2>1
  <2>3. Plain(<<>>) /\ Plain(<<"user">>) /\ Plain(<<"sub">>) /\ Plain(<<"user", "sub">>)
    BY <2>1 DEF Plain
  <2> QED BY <2>2, <2>3
<1>4. ASSUME NEW w \in Windows PROVE Render(w) \in Seq(Names) /\ Plain(Render(w))
  <2>1. Getter[w] \in Seq(Names) /\ Plain(Getter[w])
    BY <1>3, GetterFacts
  <2>2. <<w>> \in Seq(Names) /\ Plain(<<w>>)
    BY <1>1, <1>2 DEF Plain
  <2> QED BY <2>1, <2>2, JoinFacts DEF Render
<1> QED BY <1>1, <1>2, <1>4
\* What the head of a list says about the rest of it.
LEMMA Heads ==
  ASSUME NEW s
  PROVE  /\ StaleSub(s) => First(s, {"clearSub", "clearUser"})
         /\ StaleUser(s) => First(s, {"clearSub", "clearUser", "refillUser"})
BY DEF StaleSub, StaleUser, First, Refilled, ClearS, ClearUS, ClearSU, ClearSUDropU, ClearU, ClearUDropU

\* A job at no special await and no read has nothing special left.
LEMMA PlainHead ==
  ASSUME NEW own, NEW j, JobOK(own, j), job[j].todo = <<>> \/ Head(job[j].todo) \notin Special \cup {"user", "sub"}
  PROVE  Plain(job[j].todo) /\ SubOK(own, j)
<1> DEFINE s == job[j].todo
<1>1. ASSUME NEW heads, First(s, heads) PROVE s # <<>> /\ Head(s) \in heads /\ Head(s) \notin Special \cup {"user", "sub"}
  BY <1>1 DEF First
<1>9. s # <<"MENU">>
  <2>1. <<"MENU">> # <<>> /\ Head(<<"MENU">>) = "MENU"
    OBVIOUS
  <2> QED BY <2>1 DEF Special
<1>2. ~(Kept(s) \/ DropU(s) \/ ToggleStatus(s) \/ ProvisionCreate(s) \/ RestoreApply(s))
  BY <1>1 DEF Kept, DropU, ToggleStatus, ProvisionCreate, RestoreApply, Special
<1>3. ~(SubToggle(s) \/ SubProvision(s) \/ KeptProvision(s) \/ UserProvision(s))
  BY <1>1 DEF SubToggle, SubProvision, KeptProvision, UserProvision, Special
<1>4. ~(StaleSub(s) \/ StaleUser(s))
  BY <1>1, Heads DEF Special
<1>5. ~(StatusOnly(s) \/ ExtendFirst(s) \/ PointUS(s) \/ CreateOnly(s))
  BY <1>1 DEF StatusOnly, ExtendFirst, PointUS, CreateOnly, Special
<1>6. ~Applying(s)
  BY <1>1 DEF Applying, ApplyOnly, SubApply, KeptApply, UserApply, Special
<1> HIDE DEF s
<1>7. Free(s) /\ SubOK(own, j)
  BY <1>2, <1>4, <1>5, <1>6 DEF JobOK, s
<1>8. Plain(s)
  BY <1>2, <1>3, <1>7, <1>9 DEF Free
<1> QED BY <1>7, <1>8 DEF s

\* A job with nothing special left.
LEMMA PlainJob ==
  ASSUME NEW own, NEW j, DOMAIN job[j] = JobFields, job[j].todo \in Seq(Names), Plain(job[j].todo),
         Rescue(j, job[j].rescue),
         job[j].todo # <<>> => job[j].user \in Users /\ (j \in Desks => job[j].user = Target[j]), SubOK(own, j)
  PROVE  JobOK(own, j)
BY DEF JobOK, Free

-----------------------------------------------------------------------------
(* Steps that leave billing alone                                          *)

\* What such a step of j has to show: copies it made are what billing says, copies
\* that were to be cleared are, or still will be.
Settled(own, j) ==
    /\ Own(j) /\ UNCHANGED <<person, subs, agenda>> /\ disturbed \subseteq disturbed'
    /\ DOMAIN account' = Users /\ \A u \in Users : account'[u] = None \/ DOMAIN account'[u] = AccountFields
    /\ DOMAIN userCache' = Users /\ DOMAIN subCache' = Users
    /\ \A u \in Users :
          \/ subCache'[u] = subCache[u] \/ ~subCache'[u].cached
          \/ /\ subCache'[u].value = Current(u) \/ u \in disturbed'
             /\ subCache'[u].value = None \/ Owned(own, subCache'[u].value, u)
    /\ \A u \in Users :
          \/ userCache'[u] = userCache[u] \/ ~userCache'[u].cached
          \/ userCache'[u].value = UserView(u) \/ u \in disturbed'
    /\ StaleSub(job[j].todo) =>
          \/ job[j].user \in disturbed' \/ ~subCache'[job[j].user].cached
          \/ job'[j].user = job[j].user /\ StaleSub(job'[j].todo)
    /\ StaleUser(job[j].todo) =>
          \/ job[j].user \in disturbed' \/ ~userCache'[job[j].user].cached
          \/ userCache'[job[j].user].value = UserView(job[j].user)
          \/ job'[j].user = job[j].user /\ StaleUser(job'[j].todo)
    /\ JobOK(own, j)'
    /\ At(j, "keepSub")' /\ job'[j].user \in Users \ disturbed' => job'[j].sub = Current(job'[j].user)
    /\ (At(j, "keepUser") \/ At(j, "refillUser"))' /\ job'[j].user \in Users \ disturbed' =>
          job'[j].usr = UserView(job'[j].user)

LEMMA SettledKeeps ==
  ASSUME NEW own, CopiesInv(own), NEW j \in Jobs, Settled(own, j)
  PROVE  CopiesInv(own)'
<1>1. /\ DOMAIN job' = Jobs /\ \A k \in Jobs : k # j => job'[k] = job[k]
      /\ person' = person /\ subs' = subs /\ agenda' = agenda
  BY DEF CopiesInv, Settled, Own
<1>2. \A u : Current(u)' = Current(u) /\ UserView(u)' = UserView(u)
  BY <1>1 DEF Current, UserView, ViewOf
<1>3. \A s, u : Owned(own, s, u)' <=> Owned(own, s, u)
  BY <1>1 DEF Owned
<1>4. StoresOK(own)'
  <2>1. \A u \in Users : subCache'[u].cached => subCache'[u].value = None \/ Owned(own, subCache'[u].value, u)
    BY DEF CopiesInv, StoresOK, Settled
  <2> QED BY <1>1, <1>3, <2>1 DEF CopiesInv, StoresOK, Settled
<1>5. ASSUME NEW k \in Jobs PROVE JobOK(own, k)'
  <2>1. CASE k = j
    BY <2>1 DEF Settled
  <2>2. CASE k # j
    BY <1>1, <1>3, <2>2 DEF CopiesInv, JobOK, SubOK, Rescue
  <2> QED BY <2>1, <2>2
<1>6. ASSUME NEW u \in Users \ disturbed' PROVE FreshFor(u)'
  <2>0. u \in Users \ disturbed /\ FreshFor(u)
    BY DEF CopiesInv, Settled
  <2>1. ASSUME subCache'[u].cached, subCache'[u].value # Current(u)
        PROVE  \E k \in Jobs : job'[k].user = u /\ StaleSub(job'[k].todo)
    <3>1. subCache'[u] = subCache[u]
      BY <2>1 DEF Settled
    <3>2. PICK k \in Jobs : job[k].user = u /\ StaleSub(job[k].todo)
      BY <2>0, <2>1, <3>1 DEF FreshFor
    <3>3. CASE k = j
      BY <2>1, <3>2, <3>3 DEF Settled
    <3>4. CASE k # j
      BY <1>1, <3>2, <3>4
    <3> QED BY <3>3, <3>4
  <2>2. ASSUME userCache'[u].cached, userCache'[u].value # UserView(u)
        PROVE  \E k \in Jobs : job'[k].user = u /\ StaleUser(job'[k].todo)
    <3>1. userCache'[u] = userCache[u]
      BY <2>2 DEF Settled
    <3>2. PICK k \in Jobs : job[k].user = u /\ StaleUser(job[k].todo)
      BY <2>0, <2>2, <3>1 DEF FreshFor
    <3>3. CASE k = j
      BY <2>2, <3>2, <3>3 DEF Settled
    <3>4. CASE k # j
      BY <1>1, <3>2, <3>4
    <3> QED BY <3>3, <3>4
  <2>3. ASSUME NEW k \in Jobs, job'[k].user = u
        PROVE  /\ At(k, "keepSub")' => job'[k].sub = Current(u)
               /\ (At(k, "keepUser") \/ At(k, "refillUser"))' => job'[k].usr = UserView(u)
    <3>1. CASE k = j
      BY <2>3, <3>1 DEF Settled
    <3>2. CASE k # j
      BY <1>1, <2>0, <2>3, <3>2 DEF FreshFor, At, Idle
    <3> QED BY <3>1, <3>2
  <2> QED BY <1>2, <2>1, <2>2, <2>3 DEF FreshFor
<1>7. agenda'.jobs \subseteq Jobs
  BY <1>1 DEF CopiesInv
<1> QED BY <1>1, <1>4, <1>5, <1>6, <1>7 DEF CopiesInv

\* A step that leaves the copies alone as well.
Steady(own, j) ==
    /\ Own(j) /\ UNCHANGED <<person, subs, userCache, subCache, agenda>> /\ disturbed \subseteq disturbed'
    /\ DOMAIN account' = Users /\ \A u \in Users : account'[u] = None \/ DOMAIN account'[u] = AccountFields
    /\ First(job[j].todo, {"clearSub", "clearUser", "refillUser"}) => job[j].user \in disturbed'
    /\ JobOK(own, j)' /\ ~First(job'[j].todo, {"keepUser", "keepSub", "refillUser"})

LEMMA SteadyKeeps ==
  ASSUME NEW own, CopiesInv(own), NEW j \in Jobs, Steady(own, j)
  PROVE  CopiesInv(own)'
<1>1. DOMAIN userCache = Users /\ DOMAIN subCache = Users
  BY DEF CopiesInv, StoresOK
<1>2. StaleSub(job[j].todo) \/ StaleUser(job[j].todo) => job[j].user \in disturbed'
  BY Heads DEF Steady, First
<1>3. ~(At(j, "keepSub") \/ At(j, "keepUser") \/ At(j, "refillUser"))'
  BY DEF Steady, At, Idle, First
<1>4. Settled(own, j)
  BY <1>1, <1>2, <1>3 DEF Steady, Settled
<1> QED BY <1>4, SettledKeeps
-----------------------------------------------------------------------------
(* What a job at a special await is                                        *)

\* The first await tells which list it is.
LEMMA SpecialHeads ==
  ASSUME NEW own, NEW j, JobOK(own, j), job[j].todo # <<>>
  PROVE  LET s == job[j].todo
             h == Head(s) IN
         /\ h \in {"clearSub", "clearUser", "refillUser"} => (StaleSub(s) \/ StaleUser(s)) /\ SubOK(own, j) /\ job[j].wrote
         /\ h = "clearSub" => ClearS(s) \/ ClearSU(s) \/ ClearSUDropU(s)
         /\ h = "clearUser" => ClearU(s) \/ ClearUS(s) \/ ClearUDropU(s)
         /\ h = "refillUser" => Refilled(s)
         /\ h = "drop" => DropU(s) /\ SubOK(own, j) /\ job[j].wrote
         /\ h = "point" => PointUS(s) /\ Owned(own, job[j].sub, job[j].user) /\ job[j].wrote
         /\ h = "status" => StatusOnly(s) /\ Owned(own, job[j].sub, job[j].user)
         /\ h = "extend" => ExtendFirst(s) /\ Owned(own, job[j].sub, job[j].user)
         /\ h = "create" => CreateOnly(s) /\ DOMAIN job[j].sub = SubFields
         /\ h = "apply" => ApplyOnly(s) /\ SubOK(own, j) /\ DOMAIN job[j].remna = AccountFields
         /\ h = "toggle" => ToggleStatus(s) /\ SubOK(own, j)
         /\ h = "provision" => ProvisionCreate(s) /\ SubOK(own, j)
         /\ h = "restore" => RestoreApply(s) /\ SubOK(own, j)
         /\ h = "MENU" => s = <<"MENU">>
         /\ h \in {"keepUser", "keepSub", "user", "sub"} =>
              SubOK(own, j) /\ (Free(s) \/ (Applying(s) /\ DOMAIN job[j].remna = AccountFields))
<1> DEFINE s == job[j].todo
           h == Head(s)
<1>1. s \in Seq(Names) /\ s # <<>> /\ (Plain(s) => h \notin Special)
  BY RestFacts DEF JobOK
<1>2. \/ Free(s) /\ SubOK(own, j)
      \/ (StaleSub(s) \/ StaleUser(s) \/ DropU(s)) /\ SubOK(own, j) /\ job[j].wrote
      \/ PointUS(s) /\ Owned(own, job[j].sub, job[j].user) /\ job[j].wrote
      \/ (StatusOnly(s) \/ ExtendFirst(s)) /\ Owned(own, job[j].sub, job[j].user)
      \/ CreateOnly(s) /\ DOMAIN job[j].sub = SubFields
      \/ Applying(s) /\ SubOK(own, j) /\ DOMAIN job[j].remna = AccountFields
  BY DEF JobOK
<1>13. Head(<<"MENU">>) = "MENU"
  OBVIOUS
<1> HIDE DEF s
<1>3. /\ Free(s) => h \notin Special \/ h \in {"MENU", "keepUser", "keepSub", "toggle", "provision", "restore"}
      /\ Free(s) /\ h = "MENU" => s = <<"MENU">>
      /\ Free(s) /\ h = "toggle" => ToggleStatus(s)
      /\ Free(s) /\ h = "provision" => ProvisionCreate(s)
      /\ Free(s) /\ h = "restore" => RestoreApply(s)
  BY <1>1, <1>13 DEF Free, Kept, ToggleStatus, SubToggle, ProvisionCreate, SubProvision, KeptProvision, UserProvision, RestoreApply, First, Special
<1>4. /\ StaleSub(s) \/ StaleUser(s) => h \in {"clearSub", "clearUser", "refillUser"}
      /\ (StaleSub(s) \/ StaleUser(s)) /\ h = "clearSub" => ClearS(s) \/ ClearSU(s) \/ ClearSUDropU(s)
      /\ (StaleSub(s) \/ StaleUser(s)) /\ h = "clearUser" => ClearU(s) \/ ClearUS(s) \/ ClearUDropU(s)
      /\ (StaleSub(s) \/ StaleUser(s)) /\ h = "refillUser" => Refilled(s)
  BY DEF StaleSub, StaleUser, First, Refilled, ClearS, ClearUS, ClearSU, ClearSUDropU, ClearU, ClearUDropU
<1>5. /\ DropU(s) => h = "drop"
      /\ StatusOnly(s) => h = "status"
      /\ ExtendFirst(s) => h = "extend"
      /\ PointUS(s) => h = "point"
      /\ CreateOnly(s) => h = "create"
      /\ Applying(s) => h \in {"apply", "user", "keepUser", "sub", "keepSub"}
      /\ Applying(s) /\ h = "apply" => ApplyOnly(s)
  BY DEF DropU, StatusOnly, ExtendFirst, PointUS, CreateOnly, Applying, ApplyOnly, SubApply, KeptApply, UserApply, First
<1>6. {"MENU", "keepUser", "keepSub", "clearSub", "clearUser", "refillUser", "drop", "point", "toggle", "status",
       "provision", "create", "apply", "restore", "extend"} = Special
  BY DEF Special
<1> HIDE DEF h
<1>7. h \in {"clearSub", "clearUser", "refillUser"} => (StaleSub(s) \/ StaleUser(s)) /\ SubOK(own, j) /\ job[j].wrote
  BY <1>2, <1>3, <1>5, <1>6
<1>8. /\ h = "drop" => DropU(s) /\ SubOK(own, j) /\ job[j].wrote
      /\ h = "point" => PointUS(s) /\ Owned(own, job[j].sub, job[j].user) /\ job[j].wrote
      /\ h = "status" => StatusOnly(s) /\ Owned(own, job[j].sub, job[j].user)
      /\ h = "extend" => ExtendFirst(s) /\ Owned(own, job[j].sub, job[j].user)
      /\ h = "create" => CreateOnly(s) /\ DOMAIN job[j].sub = SubFields
      /\ h = "apply" => ApplyOnly(s) /\ SubOK(own, j) /\ DOMAIN job[j].remna = AccountFields
  BY <1>2, <1>3, <1>4, <1>5, <1>6
<1>9. /\ h = "toggle" => ToggleStatus(s) /\ SubOK(own, j)
      /\ h = "provision" => ProvisionCreate(s) /\ SubOK(own, j)
      /\ h = "restore" => RestoreApply(s) /\ SubOK(own, j)
      /\ h = "MENU" => s = <<"MENU">>
  BY <1>2, <1>3, <1>4, <1>5
<1>10. h \in {"keepUser", "keepSub", "user", "sub"} =>
         SubOK(own, j) /\ (Free(s) \/ (Applying(s) /\ DOMAIN job[j].remna = AccountFields))
  BY <1>2, <1>4, <1>5
<1> QED BY <1>4, <1>7, <1>8, <1>9, <1>10 DEF s, h

-----------------------------------------------------------------------------
(* How a job goes on                                                       *)

\* An empty list, and one that is not.
LEMMA EmptyPlain == <<>> \in Seq(Names) /\ Plain(<<>>)
<1>1. <<>> \in Seq(Names)
  OBVIOUS
<1>2. Plain(<<>>)
  BY DEF Plain
<1> QED BY <1>1, <1>2

\* What an exception leaves to be done.
LEMMA RescueFacts ==
  ASSUME NEW j, NEW s, Rescue(j, s)
  PROVE  /\ s \in Seq(Names) /\ (Plain(s) \/ s = <<"MENU">>)
         /\ Rescue(j, <<>>) /\ ~First(s, {"keepUser", "keepSub", "refillUser"})
<1>1. s \in Seq(Names) /\ (Plain(s) \/ s = <<"MENU">>)
  BY EmptyPlain DEF Rescue
<1>2. Rescue(j, <<>>)
  BY EmptyPlain DEF Rescue
<1>3. Head(<<"MENU">>) = "MENU"
  OBVIOUS
<1>4. ~First(s, {"keepUser", "keepSub", "refillUser"})
  BY <1>1, <1>3, RestFacts DEF First, Special
<1> QED BY <1>1, <1>2, <1>4

\* What Goes makes of a record.
LEMMA GoesFacts ==
  ASSUME NEW r, NEW steps \in Seq(Names), DOMAIN r = JobFields, r.todo \in Seq(Names), r.todo # <<>>
  PROVE  LET g == Goes(r, steps) IN
         /\ DOMAIN g = JobFields /\ g.todo = steps \o Tail(r.todo) /\ g.todo \in Seq(Names)
         /\ g.rescue \in {<<>>, r.rescue} /\ g.sub \in {None, r.sub}
         /\ g.todo # <<>> => /\ g.user = r.user /\ g.sub = r.sub /\ g.wrote = r.wrote /\ g.usr = r.usr
                             /\ g.remna = r.remna
         /\ Plain(steps) /\ Plain(Tail(r.todo)) => Plain(g.todo)
<1>1. Tail(r.todo) \in Seq(Names)
  BY RestFacts
<1>2. steps \o Tail(r.todo) \in Seq(Names) /\ (Plain(steps) /\ Plain(Tail(r.todo)) => Plain(steps \o Tail(r.todo)))
  BY <1>1, JoinFacts
<1> DEFINE t == steps \o Tail(r.todo)
<1>3. Goes(r, steps) = IF t = <<>> THEN IdleJob ELSE [r EXCEPT !.todo = t]
  BY DEF Goes
<1> HIDE DEF t
<1>4. CASE t = <<>>
  BY <1>2, <1>3, <1>4 DEF IdleJob, JobFields, t
<1>5. CASE t # <<>>
  BY <1>2, <1>3, <1>5 DEF JobFields, t
<1> QED BY <1>4, <1>5

\* A job goes on to plain awaits, or stops.
LEMMA OnwardSteady ==
  ASSUME NEW own, CopiesInv(own), NEW j \in Jobs, NEW g, job' = [job EXCEPT ![j] = g],
         DOMAIN g = JobFields, g.todo \in Seq(Names), Plain(g.todo), g.rescue \in {<<>>, job[j].rescue},
         g.todo # <<>> => g.user = job[j].user /\ job[j].todo # <<>>, g.sub = None \/ Owned(own, g.sub, g.user),
         First(job[j].todo, {"clearSub", "clearUser", "refillUser"}) => job[j].user \in disturbed',
         UNCHANGED <<person, subs, userCache, subCache, agenda>>, disturbed \subseteq disturbed',
         DOMAIN account' = Users, \A u \in Users : account'[u] = None \/ DOMAIN account'[u] = AccountFields
  PROVE  Steady(own, j)
<1>1. job'[j] = g /\ Own(j)
  BY DEF CopiesInv, Own
<1>2. JobOK(own, j)
  BY DEF CopiesInv
<1>3. Rescue(j, g.rescue)
  BY <1>2, RescueFacts DEF JobOK
<1>4. \A s, u : Owned(own, s, u)' <=> Owned(own, s, u)
  BY DEF Owned
<1>5. SubOK(own, j)'
  BY <1>1, <1>4 DEF SubOK
<1>6. g.todo # <<>> => g.user \in Users /\ (j \in Desks => g.user = Target[j])
  BY <1>2 DEF JobOK
<1>7. JobOK(own, j)'
  BY <1>1, <1>3, <1>5, <1>6 DEF JobOK, Free
<1>8. ~First(job'[j].todo, {"keepUser", "keepSub", "refillUser"})
  BY <1>1, RestFacts DEF First, Special
<1> QED BY <1>1, <1>7, <1>8 DEF Steady

\* A handler, a command or a task is started.
LEMMA BeginSteady ==
  ASSUME NEW own, CopiesInv(own), NEW j \in Jobs, Idle(j), NEW u \in Users, NEW ask,
         NEW todo \in Seq(Names), NEW rescue, Rescue(j, rescue), j \in Desks => u = Target[j],
         Plain(todo) \/ ((SubToggle(todo) \/ UserProvision(todo)) /\ ~First(todo, {"keepUser", "keepSub", "refillUser"})),
         Begin(j, u, ask, todo, rescue), UNCHANGED <<person, subs, account, userCache, subCache, disturbed, agenda>>
  PROVE  Steady(own, j)
<1>1. job'[j] = [IdleJob EXCEPT !.user = u, !.ask = ask, !.todo = todo, !.rescue = rescue] /\ Own(j)
  BY DEF CopiesInv, Own, Begin
<1>2. /\ DOMAIN job'[j] = JobFields /\ job'[j].user = u /\ job'[j].todo = todo /\ job'[j].rescue = rescue
      /\ job'[j].sub = None
  BY <1>1 DEF IdleJob, JobFields
<1>3. JobOK(own, j)'
  BY <1>2 DEF JobOK, SubOK, Free
<1>4. ~First(job'[j].todo, {"keepUser", "keepSub", "refillUser"})
  BY <1>2, RestFacts DEF First, Special
<1>5. ~First(job[j].todo, {"clearSub", "clearUser", "refillUser"})
  BY DEF Idle, First
<1> QED BY <1>1, <1>3, <1>4, <1>5 DEF Steady, CopiesInv, StoresOK

\* An exception: what was written is left to a new attempt, and noted.
LEMMA RaiseSteady ==
  ASSUME NEW own, CopiesInv(own), NEW j \in Jobs, job[j].todo # <<>>, Raise(j),
         UNCHANGED <<person, subs, account, userCache, subCache, agenda>>
  PROVE  Steady(own, j)
<1>1. JobOK(own, j) /\ Own(j)
  BY DEF CopiesInv, Raise, Own
<1>2. \/ job'[j] = IdleJob
      \/ job'[j] = [IdleJob EXCEPT !.user = job[j].user, !.ask = job[j].ask, !.todo = job[j].rescue]
  BY DEF CopiesInv, Raise
<1>3. /\ DOMAIN job'[j] = JobFields /\ job'[j].todo \in {<<>>, job[j].rescue} /\ job'[j].rescue = <<>>
      /\ job'[j].sub = None /\ (job'[j].todo # <<>> => job'[j].user = job[j].user)
  <2>1. CASE job'[j] = IdleJob
    BY <2>1 DEF IdleJob, JobFields
  <2>2. CASE job'[j] = [IdleJob EXCEPT !.user = job[j].user, !.ask = job[j].ask, !.todo = job[j].rescue]
    BY <2>2 DEF IdleJob, JobFields
  <2> QED BY <1>2, <2>1, <2>2
<1>4. Rescue(j, job[j].rescue) /\ (job[j].user \in Users /\ (j \in Desks => job[j].user = Target[j]))
  BY <1>1 DEF JobOK
<1>5. /\ job'[j].todo \in Seq(Names) /\ (Plain(job'[j].todo) \/ job'[j].todo = <<"MENU">>) /\ Rescue(j, job'[j].rescue)
      /\ ~First(job'[j].todo, {"keepUser", "keepSub", "refillUser"})
  <2>1. ~First(<<>>, {"keepUser", "keepSub", "refillUser"})
    BY DEF First
  <2> QED BY <1>3, <1>4, <2>1, EmptyPlain, RescueFacts
<1>6. JobOK(own, j)'
  BY <1>3, <1>4, <1>5 DEF JobOK, SubOK, Free, Rescue
<1>7. ~First(job'[j].todo, {"keepUser", "keepSub", "refillUser"})
  BY <1>5
<1>8. First(job[j].todo, {"clearSub", "clearUser", "refillUser"}) => job[j].wrote
  BY <1>1, SpecialHeads DEF First
<1>9. disturbed \subseteq disturbed' /\ (job[j].wrote => job[j].user \in disturbed')
  BY DEF Raise
<1> QED BY <1>1, <1>6, <1>7, <1>8, <1>9 DEF Steady, CopiesInv, StoresOK
-----------------------------------------------------------------------------
(* The awaits every job is built from                                      *)

\* What is left after a read that was answered from Redis, and after one that was not.
LEMMA ReadFacts ==
  ASSUME NEW s \in Seq(Names), s # <<>>, NEW r, NEW k, <<r, k>> \in {<<"user", "keepUser">>, <<"sub", "keepSub">>}, Head(s) = r
  PROVE  LET t == <<k>> \o Tail(s) IN
         /\ Tail(s) \in Seq(Names) /\ t \in Seq(Names) /\ t # <<>> /\ Head(t) = k /\ Tail(t) = Tail(s)
         /\ Free(s) \/ Applying(s) => ~First(Tail(s), {"keepUser", "keepSub", "refillUser"})
         /\ Free(s) => Free(Tail(s)) /\ Free(t)
         /\ Applying(s) => Applying(Tail(s)) /\ Applying(t)
<1>1. k \in Names /\ r \in {"user", "sub"} /\ k \in {"keepUser", "keepSub"}
  BY DEF Names, Special
<1> DEFINE t == <<k>> \o Tail(s)
<1>2. Tail(s) \in Seq(Names) /\ t \in Seq(Names) /\ t # <<>> /\ Head(t) = k /\ Tail(t) = Tail(s)
  BY <1>1, RestFacts, ConsFacts
<1> HIDE DEF t
<1>3. Plain(s) => Plain(Tail(s)) /\ Kept(t)
  BY <1>1, <1>2, RestFacts DEF Kept, First
<1>4. /\ UserProvision(s) => SubProvision(Tail(s)) /\ UserProvision(t)
      /\ SubProvision(s) => ProvisionCreate(Tail(s)) /\ KeptProvision(t)
      /\ SubToggle(s) => ToggleStatus(Tail(s)) /\ SubToggle(t)
  BY <1>2 DEF UserProvision, SubProvision, KeptProvision, SubToggle, First
<1>5. ~(Kept(s) \/ ToggleStatus(s) \/ ProvisionCreate(s) \/ KeptProvision(s) \/ RestoreApply(s))
  BY DEF Kept, ToggleStatus, ProvisionCreate, KeptProvision, RestoreApply, First
<1>6. /\ UserApply(s) => SubApply(Tail(s)) /\ UserApply(t)
      /\ SubApply(s) => ApplyOnly(Tail(s)) /\ KeptApply(t)
      /\ ~(ApplyOnly(s) \/ KeptApply(s))
  BY <1>2 DEF UserApply, SubApply, KeptApply, ApplyOnly, First
<1>7. ~First(Tail(s), {"keepUser", "keepSub", "refillUser"}) \/ ~(Free(s) \/ Applying(s))
  <2>1. Plain(Tail(s)) => ~First(Tail(s), {"keepUser", "keepSub", "refillUser"})
    BY <1>2, RestFacts DEF First, Special
  <2>2. SubProvision(Tail(s)) \/ ProvisionCreate(Tail(s)) \/ ToggleStatus(Tail(s)) \/ SubApply(Tail(s)) \/ ApplyOnly(Tail(s))
          => ~First(Tail(s), {"keepUser", "keepSub", "refillUser"})
    BY DEF SubProvision, ProvisionCreate, ToggleStatus, SubApply, ApplyOnly, First
  <2> QED BY <1>3, <1>4, <1>5, <1>6, <2>1, <2>2 DEF Free, Applying
<1>8. Free(s) => Free(Tail(s)) /\ Free(t)
  BY <1>3, <1>4, <1>5 DEF Free
<1>9. Applying(s) => Applying(Tail(s)) /\ Applying(t)
  BY <1>6 DEF Applying
<1> QED BY <1>2, <1>7, <1>8, <1>9 DEF t

\* What is left after an answer was put into Redis.
LEMMA KeepFacts ==
  ASSUME NEW s \in Seq(Names), s # <<>>, Head(s) \in {"keepUser", "keepSub"}
  PROVE  /\ Tail(s) \in Seq(Names)
         /\ Free(s) \/ Applying(s) => ~First(Tail(s), {"keepUser", "keepSub", "refillUser"})
         /\ Free(s) => Free(Tail(s))
         /\ Applying(s) => Applying(Tail(s))
<1>1. Tail(s) \in Seq(Names)
  BY RestFacts
<1>2. ~Plain(s)
  BY RestFacts DEF Special
<1>3. /\ Kept(s) => Plain(Tail(s))
      /\ UserProvision(s) => SubProvision(Tail(s))
      /\ KeptProvision(s) => ProvisionCreate(Tail(s))
      /\ SubToggle(s) => ToggleStatus(Tail(s))
      /\ UserApply(s) => SubApply(Tail(s))
      /\ KeptApply(s) => ApplyOnly(Tail(s))
  BY DEF Kept, UserProvision, KeptProvision, SubToggle, UserApply, KeptApply
<1>4. /\ ~(ToggleStatus(s) \/ ProvisionCreate(s) \/ SubProvision(s) \/ RestoreApply(s))
      /\ ~(ApplyOnly(s) \/ SubApply(s))
  BY DEF ToggleStatus, ProvisionCreate, SubProvision, RestoreApply, ApplyOnly, SubApply, First
<1>5. Plain(Tail(s)) => ~First(Tail(s), {"keepUser", "keepSub", "refillUser"})
  BY <1>1, RestFacts DEF First, Special
<1>6. SubProvision(Tail(s)) \/ ProvisionCreate(Tail(s)) \/ ToggleStatus(Tail(s)) \/ SubApply(Tail(s)) \/ ApplyOnly(Tail(s))
        => ~First(Tail(s), {"keepUser", "keepSub", "refillUser"})
  BY DEF SubProvision, ProvisionCreate, ToggleStatus, SubApply, ApplyOnly, First
<1> QED BY <1>1, <1>2, <1>3, <1>4, <1>5, <1>6 DEF Free, Applying
\* A record job j may go on with, the lists of awaits that suit it, and what is true then.
Record(own, j, r) ==
    /\ DOMAIN r = JobFields /\ r.todo = job[j].todo /\ job[j].todo # <<>> /\ r.user = job[j].user
    /\ r.rescue = job[j].rescue /\ (r.sub = None \/ Owned(own, r.sub, r.user))
Suits(r, todo) ==
    \/ Free(todo)
    \/ Applying(todo) /\ DOMAIN r.remna = AccountFields
    \/ (StaleSub(todo) \/ StaleUser(todo) \/ DropU(todo)) /\ r.wrote
    \/ StatusOnly(todo) /\ r.sub # None
Went(own, j, r, todo) ==
    /\ JobOK(own, j)' /\ Own(j) /\ job'[j].todo = todo /\ todo \in Seq(Names)
    /\ todo # <<>> => job'[j].user = job[j].user /\ job'[j].usr = r.usr /\ job'[j].sub = r.sub

\* A job that goes on.
LEMMA GoesOK ==
  ASSUME NEW own, NEW j \in Jobs, JobOK(own, j), NEW r, NEW steps \in Seq(Names), DOMAIN job = Jobs,
         Record(own, j, r), UNCHANGED subs, job' = [job EXCEPT ![j] = Goes(r, steps)], Suits(r, steps \o Tail(r.todo))
  PROVE  Went(own, j, r, steps \o Tail(r.todo))
<1> DEFINE g == Goes(r, steps)
           t == steps \o Tail(r.todo)
<1>0. r.todo \in Seq(Names) /\ r.todo # <<>> /\ Tail(r.todo) \in Seq(Names) /\ t \in Seq(Names)
  BY RestFacts, JoinFacts DEF JobOK, Record
<1>1. /\ DOMAIN g = JobFields /\ g.todo = t
      /\ g.rescue \in {<<>>, r.rescue} /\ g.sub \in {None, r.sub}
      /\ g.todo # <<>> => /\ g.user = r.user /\ g.sub = r.sub /\ g.remna = r.remna /\ g.wrote = r.wrote
                          /\ g.usr = r.usr
  BY <1>0, GoesFacts DEF Record
<1>2. job'[j] = g /\ Own(j)
  BY DEF Own
<1>6. SubOK(own, j)'
  <2>1. CASE t = <<>>
    <3>1. g = IdleJob
      BY <2>1 DEF Goes
    <3> QED BY <3>1, <1>2 DEF SubOK, IdleJob
  <2>2. CASE t # <<>>
    BY <1>0, <1>1, <1>2, <2>2 DEF SubOK, Record, Owned
  <2> QED BY <2>1, <2>2
<1>10. Suits(r, t)
  OBVIOUS
<1> HIDE DEF g, t
<1>3. job'[j].todo = t
  BY <1>0, <1>1, <1>2
<1>4. Rescue(j, job'[j].rescue)
  BY <1>1, <1>2, RescueFacts DEF JobOK, Record
<1>5. t # <<>> => job'[j].user = job[j].user /\ job'[j].user \in Users /\ (j \in Desks => job'[j].user = Target[j])
  BY <1>0, <1>1, <1>2 DEF JobOK, Record
<1>11. DOMAIN job'[j] = JobFields /\ job'[j].todo \in Seq(Names)
  BY <1>0, <1>1, <1>2, <1>3
<1>12. t # <<>> \/ Free(t)
  BY <1>10 DEF Suits, Applying, ApplyOnly, SubApply, KeptApply, UserApply, First, StaleSub, StaleUser, DropU, StatusOnly,
     Refilled, ClearU, ClearUS, ClearSU, ClearUDropU, ClearSUDropU, ClearS
<1>14. JobOK(own, j)'
  <2>1. CASE Free(t)
    BY <1>3, <1>4, <1>5, <1>6, <1>11, <2>1 DEF JobOK, Rescue
  <2>2. CASE Applying(t) /\ DOMAIN r.remna = AccountFields /\ t # <<>>
    BY <1>1, <1>2, <1>3, <1>4, <1>5, <1>6, <1>11, <2>2 DEF JobOK, Rescue
  <2>3. CASE (StaleSub(t) \/ StaleUser(t) \/ DropU(t)) /\ r.wrote /\ t # <<>>
    BY <1>1, <1>2, <1>3, <1>4, <1>5, <1>6, <1>11, <2>3 DEF JobOK, Rescue
  <2>4. CASE StatusOnly(t) /\ r.sub # None /\ t # <<>>
    <3>1. Owned(own, job[j].sub, job[j].user)'
      BY <1>1, <1>2, <1>3, <1>6, <2>4 DEF SubOK
    <3> QED BY <1>3, <1>4, <1>5, <1>11, <2>4, <3>1 DEF JobOK, Rescue
  <2> QED BY <1>10, <1>12, <2>1, <2>2, <2>3, <2>4 DEF Suits
<1>15. t # <<>> => job'[j].user = job[j].user /\ job'[j].usr = r.usr /\ job'[j].sub = r.sub
  BY <1>1, <1>2 DEF Record
<1> QED BY <1>2, <1>3, <1>11, <1>14, <1>15 DEF t, Went

\* A job that goes on with what it had left.
LEMMA ContinueOK ==
  ASSUME NEW own, NEW j \in Jobs, JobOK(own, j), NEW r, DOMAIN job = Jobs, Record(own, j, r), UNCHANGED subs,
         job' = [job EXCEPT ![j] = Goes(r, <<>>)], Suits(r, Tail(r.todo))
  PROVE  Went(own, j, r, Tail(r.todo))
<1> DEFINE e == <<>>
<1>1. e \o Tail(r.todo) = Tail(r.todo) /\ e \in Seq(Names) /\ job' = [job EXCEPT ![j] = Goes(r, e)]
  BY RestFacts, JoinFacts, EmptyPlain DEF JobOK, Record
<1> HIDE DEF e
<1>2. Suits(r, e \o Tail(r.todo))
  BY <1>1
<1>3. Went(own, j, r, e \o Tail(r.todo))
  BY <1>1, <1>2, GoesOK
<1> QED BY <1>1, <1>3

\* A job that reads on a miss holds what it read.
LEMMA OnMissing ==
  ASSUME NEW own, NEW j \in Jobs, JobOK(own, j), NEW r, DOMAIN job = Jobs,
         DOMAIN r = JobFields, job[j].todo # <<>>, r.user = job[j].user, r.rescue = job[j].rescue,
         r.sub = None \/ Owned(own, r.sub, r.user), UNCHANGED subs,
         job' = [job EXCEPT ![j] = r], r.todo \in Seq(Names),
         Free(r.todo) \/ (Applying(r.todo) /\ DOMAIN r.remna = AccountFields)
  PROVE  JobOK(own, j)' /\ Own(j) /\ job'[j] = r
<1>1. job'[j] = r /\ Own(j)
  BY DEF Own
<1>2. r.user \in Users /\ (j \in Desks => r.user = Target[j]) /\ Rescue(j, r.rescue)
  BY DEF JobOK
<1>5. \A x, v : Owned(own, x, v)' <=> Owned(own, x, v)
  BY DEF Owned
<1>3. SubOK(own, j)'
  BY <1>1, <1>5 DEF SubOK
<1>4. JobOK(own, j)'
  BY <1>1, <1>2, <1>3 DEF JobOK, Rescue
<1> QED BY <1>1, <1>4

\* What billing answers for a user, and a copy of it, is the user's.
LEMMA AnswerOwned ==
  ASSUME NEW own, StoresOK(own), NEW u \in Users
  PROVE  /\ Current(u) = None \/ Owned(own, Current(u), u)
         /\ subCache[u].cached => subCache[u].value = None \/ Owned(own, subCache[u].value, u)
<1>1. CASE person[u].current = None
  BY <1>1 DEF StoresOK, Current
<1>2. CASE person[u].current # None
  BY <1>2 DEF StoresOK, Current, Owned
<1> QED BY <1>1, <1>2 DEF StoresOK

\* The cached read of a user.
LEMMA ReadUserKeeps ==
  ASSUME NEW own, CopiesInv(own), NEW j \in Jobs, ReadUser(j), UNCHANGED agenda
  PROVE  CopiesInv(own)'
<1> DEFINE u == job[j].user
           s == job[j].todo
<1>1. /\ DOMAIN job = Jobs /\ StoresOK(own) /\ JobOK(own, j) /\ s # <<>> /\ Head(s) = "user"
      /\ UNCHANGED <<person, subs, account, subCache, agenda>>
  BY DEF CopiesInv, ReadUser, At, Idle, stores
<1>2. /\ u \in Users /\ s \in Seq(Names) /\ DOMAIN job[j] = JobFields
      /\ SubOK(own, j) /\ (Free(s) \/ (Applying(s) /\ DOMAIN job[j].remna = AccountFields))
  BY <1>1, SpecialHeads DEF JobOK
<1>3. LET t == <<"keepUser">> \o Tail(s) IN
         /\ Tail(s) \in Seq(Names) /\ t \in Seq(Names) /\ t # <<>> /\ Head(t) = "keepUser"
         /\ ~First(Tail(s), {"keepUser", "keepSub", "refillUser"})
         /\ Free(s) => Free(Tail(s)) /\ Free(t)
         /\ Applying(s) => Applying(Tail(s)) /\ Applying(t)
  BY <1>1, <1>2, ReadFacts
<1>4. ~StaleSub(s) /\ ~StaleUser(s) /\ ~First(s, {"clearSub", "clearUser", "refillUser"})
  BY <1>1, Heads DEF First
<1>5. \A x, v : Owned(own, x, v)' <=> Owned(own, x, v)
  BY <1>1 DEF Owned
<1>6. DOMAIN account = Users /\ DOMAIN userCache = Users /\ DOMAIN subCache = Users
      /\ \A v \in Users : account[v] = None \/ DOMAIN account[v] = AccountFields
  BY <1>1 DEF StoresOK
<1> HIDE DEF u, s
<1>7. CASE /\ userCache[u].cached
           /\ job' = [job EXCEPT ![j] = Goes([@ EXCEPT !.usr = userCache[u].value], <<>>)]
           /\ Disturb(j, u)
           /\ UNCHANGED userCache
  <2> DEFINE r == [job[j] EXCEPT !.usr = userCache[u].value]
  <2>1. /\ DOMAIN r = JobFields /\ r.todo = s /\ r.user = u /\ r.rescue = job[j].rescue
        /\ r.sub = job[j].sub /\ r.remna = job[j].remna
    BY <1>2 DEF JobFields, s, u
  <2>2. job' = [job EXCEPT ![j] = Goes(r, <<>>)]
    BY <1>7
  <2> HIDE DEF r
  <2>6. Record(own, j, r) /\ Suits(r, Tail(r.todo))
    BY <1>1, <1>2, <1>3, <2>1 DEF s, u, SubOK, Record, Suits
  <2>3. JobOK(own, j)' /\ Own(j) /\ job'[j].todo = Tail(s)
    <3>1. Went(own, j, r, Tail(r.todo))
      BY <1>1, <2>2, <2>6, ContinueOK
    <3> QED BY <2>1, <3>1 DEF Went
  <2>4. disturbed \subseteq disturbed'
    BY <1>7 DEF Disturb
  <2>5. Steady(own, j)
    BY <1>1, <1>3, <1>4, <1>6, <1>7, <2>3, <2>4 DEF Steady, s
  <2> QED BY <2>5, SteadyKeeps
<1>8. CASE /\ job' = [job EXCEPT ![j] = [@ EXCEPT !.usr = UserView(u), !.todo = <<"keepUser">> \o Tail(job[j].todo)]]
           /\ userCache' = [userCache EXCEPT ![u] = Empty]
           /\ Undisturbed
  <2> DEFINE t == <<"keepUser">> \o Tail(s)
             r == [job[j] EXCEPT !.usr = UserView(u), !.todo = t]
  <2>1. /\ DOMAIN r = JobFields /\ r.todo = t /\ r.user = u /\ r.rescue = job[j].rescue
        /\ r.sub = job[j].sub /\ r.remna = job[j].remna /\ r.usr = UserView(u)
    BY <1>2 DEF JobFields, u
  <2>2. job' = [job EXCEPT ![j] = r]
    BY <1>8 DEF s
  <2>3. t \in Seq(Names) /\ t # <<>> /\ Head(t) = "keepUser" /\ (Free(s) => Free(t)) /\ (Applying(s) => Applying(t))
    BY <1>3
  <2> HIDE DEF r, t
  <2>8. /\ r.todo \in Seq(Names) /\ job[j].todo # <<>> /\ r.user = job[j].user
        /\ r.sub = None \/ Owned(own, r.sub, r.user)
        /\ Free(r.todo) \/ (Applying(r.todo) /\ DOMAIN r.remna = AccountFields)
    BY <1>1, <1>2, <1>5, <2>1, <2>3 DEF s, u, SubOK
  <2>4. JobOK(own, j)' /\ Own(j) /\ job'[j] = r
    BY <1>1, <2>1, <2>2, <2>8, OnMissing
  <2>5. ~At(j, "keepSub")' /\ job'[j].user = u /\ job'[j].usr = UserView(u)
    BY <2>1, <2>3, <2>4 DEF At, Idle
  <2>6. DOMAIN userCache' = Users /\ \A v \in Users : userCache'[v] = userCache[v] \/ ~userCache'[v].cached
    BY <1>6, <1>8 DEF Empty
  <2>7. Settled(own, j)
    BY <1>1, <1>4, <1>6, <1>8, <2>4, <2>5, <2>6 DEF Settled, Undisturbed, s
  <2> QED BY <2>7, SettledKeeps
<1> QED BY <1>7, <1>8 DEF ReadUser, u
\* What is known of a job that takes a step.
LEMMA Underway ==
  ASSUME NEW own, CopiesInv(own), NEW j \in Jobs, job[j].todo # <<>>
  PROVE  /\ DOMAIN job = Jobs /\ StoresOK(own) /\ JobOK(own, j) /\ DOMAIN job[j] = JobFields
         /\ job[j].todo \in Seq(Names) /\ job[j].user \in Users /\ (j \in Desks => job[j].user = Target[j])
         /\ DOMAIN person = Users /\ DOMAIN account = Users /\ DOMAIN userCache = Users /\ DOMAIN subCache = Users
         /\ \A v \in Users : account[v] = None \/ DOMAIN account[v] = AccountFields
         /\ Head(job[j].todo) \in Names /\ Tail(job[j].todo) \in Seq(Names)
         /\ Plain(job[j].todo) <=> Head(job[j].todo) \notin Special /\ Plain(Tail(job[j].todo))
<1>1. DOMAIN job = Jobs /\ StoresOK(own) /\ JobOK(own, j)
  BY DEF CopiesInv
<1>2. job[j].todo \in Seq(Names) /\ job[j].user \in Users /\ DOMAIN job[j] = JobFields /\ (j \in Desks => job[j].user = Target[j])
  BY <1>1 DEF JobOK
<1>3. /\ Head(job[j].todo) \in Names /\ Tail(job[j].todo) \in Seq(Names)
      /\ Plain(job[j].todo) <=> Head(job[j].todo) \notin Special /\ Plain(Tail(job[j].todo))
  BY <1>2, RestFacts
<1> QED BY <1>1, <1>2, <1>3 DEF StoresOK

\* The cached read of the current subscription.
LEMMA ReadSubKeeps ==
  ASSUME NEW own, CopiesInv(own), NEW j \in Jobs, ReadSub(j), UNCHANGED agenda
  PROVE  CopiesInv(own)'
<1> DEFINE u == job[j].user
           s == job[j].todo
<1>1. /\ DOMAIN job = Jobs /\ StoresOK(own) /\ JobOK(own, j) /\ s # <<>> /\ Head(s) = "sub"
      /\ UNCHANGED <<person, subs, account, userCache, agenda>>
  BY DEF CopiesInv, ReadSub, At, Idle, stores
<1>2. /\ u \in Users /\ s \in Seq(Names) /\ DOMAIN job[j] = JobFields
      /\ (Free(s) \/ (Applying(s) /\ DOMAIN job[j].remna = AccountFields))
  BY <1>1, SpecialHeads DEF JobOK
<1>3. LET t == <<"keepSub">> \o Tail(s) IN
         /\ Tail(s) \in Seq(Names) /\ t \in Seq(Names) /\ t # <<>> /\ Head(t) = "keepSub"
         /\ ~First(Tail(s), {"keepUser", "keepSub", "refillUser"})
         /\ Free(s) => Free(Tail(s)) /\ Free(t)
         /\ Applying(s) => Applying(Tail(s)) /\ Applying(t)
  BY <1>1, <1>2, ReadFacts
<1>4. ~StaleSub(s) /\ ~StaleUser(s) /\ ~First(s, {"clearSub", "clearUser", "refillUser"})
  BY <1>1, Heads DEF First
<1>6. DOMAIN account = Users /\ DOMAIN userCache = Users /\ DOMAIN subCache = Users
      /\ \A v \in Users : account[v] = None \/ DOMAIN account[v] = AccountFields
  BY <1>1 DEF StoresOK
<1>9. /\ Current(u) = None \/ Owned(own, Current(u), u)
      /\ subCache[u].cached => subCache[u].value = None \/ Owned(own, subCache[u].value, u)
  BY <1>1, <1>2, AnswerOwned
<1> HIDE DEF u, s
<1>7. CASE /\ subCache[u].cached
           /\ job' = [job EXCEPT ![j] = Goes([@ EXCEPT !.sub = subCache[u].value], <<>>)]
           /\ Disturb(j, u)
           /\ UNCHANGED subCache
  <2> DEFINE r == [job[j] EXCEPT !.sub = subCache[u].value]
  <2>1. /\ DOMAIN r = JobFields /\ r.todo = s /\ r.user = u /\ r.rescue = job[j].rescue
        /\ r.sub = subCache[u].value /\ r.remna = job[j].remna
    BY <1>2 DEF JobFields, s, u
  <2>2. job' = [job EXCEPT ![j] = Goes(r, <<>>)]
    BY <1>7
  <2> HIDE DEF r
  <2>6. Record(own, j, r) /\ Suits(r, Tail(r.todo))
    BY <1>1, <1>2, <1>3, <1>7, <1>9, <2>1 DEF s, u, Record, Suits
  <2>3. JobOK(own, j)' /\ Own(j) /\ job'[j].todo = Tail(s)
    BY <1>1, <2>1, <2>2, <2>6, ContinueOK DEF Went
  <2>4. disturbed \subseteq disturbed'
    BY <1>7 DEF Disturb
  <2>5. Steady(own, j)
    BY <1>1, <1>3, <1>4, <1>6, <1>7, <2>3, <2>4 DEF Steady, s
  <2> QED BY <2>5, SteadyKeeps
<1>8. CASE /\ job' = [job EXCEPT ![j] = [@ EXCEPT !.sub = Current(u), !.todo = <<"keepSub">> \o Tail(job[j].todo)]]
           /\ subCache' = [subCache EXCEPT ![u] = Empty]
           /\ Undisturbed
  <2> DEFINE t == <<"keepSub">> \o Tail(s)
             r == [job[j] EXCEPT !.sub = Current(u), !.todo = t]
  <2>1. /\ DOMAIN r = JobFields /\ r.todo = t /\ r.user = u /\ r.rescue = job[j].rescue
        /\ r.sub = Current(u) /\ r.remna = job[j].remna
    BY <1>2 DEF JobFields, u
  <2>2. job' = [job EXCEPT ![j] = r]
    BY <1>8 DEF s
  <2>3. t \in Seq(Names) /\ t # <<>> /\ Head(t) = "keepSub" /\ (Free(s) => Free(t)) /\ (Applying(s) => Applying(t))
    BY <1>3
  <2> HIDE DEF r, t
  <2>8. /\ r.todo \in Seq(Names) /\ job[j].todo # <<>> /\ r.user = job[j].user
        /\ r.sub = None \/ Owned(own, r.sub, r.user)
        /\ Free(r.todo) \/ (Applying(r.todo) /\ DOMAIN r.remna = AccountFields)
    BY <1>1, <1>2, <1>9, <2>1, <2>3 DEF s, u
  <2>4. JobOK(own, j)' /\ Own(j) /\ job'[j] = r
    BY <1>1, <2>1, <2>2, <2>8, OnMissing
  <2>5. ~At(j, "keepUser")' /\ ~At(j, "refillUser")' /\ job'[j].user = u /\ job'[j].sub = Current(u)
    BY <2>1, <2>3, <2>4 DEF At, Idle
  <2>6. DOMAIN subCache' = Users /\ \A v \in Users : subCache'[v] = subCache[v] \/ ~subCache'[v].cached
    BY <1>6, <1>8 DEF Empty
  <2>7. Settled(own, j)
    BY <1>1, <1>4, <1>6, <1>8, <2>4, <2>5, <2>6 DEF Settled, Undisturbed, s
  <2> QED BY <2>7, SettledKeeps
<1> QED BY <1>7, <1>8 DEF ReadSub, u

\* An answer is put into Redis.
LEMMA KeepUserKeeps ==
  ASSUME NEW own, CopiesInv(own), NEW j \in Jobs, KeepUser(j), UNCHANGED agenda
  PROVE  CopiesInv(own)'
<1> DEFINE u == job[j].user
           s == job[j].todo
<1>1. /\ s # <<>> /\ Head(s) = "keepUser" /\ UNCHANGED <<person, subs, account, subCache, agenda, disturbed>>
      /\ userCache' = [userCache EXCEPT ![u] = Copy(job[j].usr)] /\ job' = [job EXCEPT ![j] = Goes(job[j], <<>>)]
  BY DEF KeepUser, Continue, At, Idle, stores, history
<1>2. /\ DOMAIN job = Jobs /\ StoresOK(own) /\ JobOK(own, j) /\ DOMAIN job[j] = JobFields
      /\ s \in Seq(Names) /\ u \in Users
      /\ DOMAIN account = Users /\ DOMAIN userCache = Users /\ DOMAIN subCache = Users
      /\ \A v \in Users : account[v] = None \/ DOMAIN account[v] = AccountFields
  BY <1>1, Underway
<1>3. SubOK(own, j) /\ (Free(s) \/ (Applying(s) /\ DOMAIN job[j].remna = AccountFields))
  BY <1>1, <1>2, SpecialHeads
<1>4. /\ ~First(Tail(s), {"keepUser", "keepSub", "refillUser"})
      /\ Free(s) => Free(Tail(s))
      /\ Applying(s) => Applying(Tail(s))
  BY <1>1, <1>2, <1>3, KeepFacts
<1>5. Record(own, j, job[j]) /\ Suits(job[j], Tail(s))
  BY <1>1, <1>2, <1>3, <1>4 DEF Record, Suits, SubOK
<1>6. Went(own, j, job[j], Tail(s))
  BY <1>1, <1>2, <1>5, ContinueOK
<1>7. ~StaleSub(s) /\ ~StaleUser(s)
  BY <1>1, Heads DEF First
<1>8. u \in disturbed \/ job[j].usr = UserView(u)
  BY <1>1, <1>2 DEF CopiesInv, FreshFor, At, Idle
<1>9. ~(At(j, "keepSub") \/ At(j, "keepUser") \/ At(j, "refillUser"))'
  BY <1>4, <1>6 DEF Went, At, Idle, First
<1>10. /\ DOMAIN userCache' = Users
       /\ \A v \in Users : userCache'[v] = userCache[v] \/ (v = u /\ userCache'[v].value = job[j].usr)
  BY <1>1, <1>2 DEF Copy
<1>11. Settled(own, j)
  <2> HIDE DEF u, s
  <2>1. JobOK(own, j)' /\ Own(j)
    BY <1>6 DEF Went
  <2> QED BY <1>1, <1>2, <1>7, <1>8, <1>9, <1>10, <2>1 DEF Settled, s, u
<1> QED BY <1>11, SettledKeeps

LEMMA KeepSubKeeps ==
  ASSUME NEW own, CopiesInv(own), NEW j \in Jobs, KeepSub(j), UNCHANGED agenda
  PROVE  CopiesInv(own)'
<1> DEFINE u == job[j].user
           s == job[j].todo
<1>1. /\ s # <<>> /\ Head(s) = "keepSub" /\ UNCHANGED <<person, subs, account, userCache, agenda, disturbed>>
      /\ subCache' = [subCache EXCEPT ![u] = Copy(job[j].sub)] /\ job' = [job EXCEPT ![j] = Goes(job[j], <<>>)]
  BY DEF KeepSub, Continue, At, Idle, stores, history
<1>2. /\ DOMAIN job = Jobs /\ StoresOK(own) /\ JobOK(own, j) /\ DOMAIN job[j] = JobFields
      /\ s \in Seq(Names) /\ u \in Users
      /\ DOMAIN account = Users /\ DOMAIN userCache = Users /\ DOMAIN subCache = Users
      /\ \A v \in Users : account[v] = None \/ DOMAIN account[v] = AccountFields
  BY <1>1, Underway
<1>3. SubOK(own, j) /\ (Free(s) \/ (Applying(s) /\ DOMAIN job[j].remna = AccountFields))
  BY <1>1, <1>2, SpecialHeads
<1>4. /\ ~First(Tail(s), {"keepUser", "keepSub", "refillUser"})
      /\ Free(s) => Free(Tail(s))
      /\ Applying(s) => Applying(Tail(s))
  BY <1>1, <1>2, <1>3, KeepFacts
<1>5. Record(own, j, job[j]) /\ Suits(job[j], Tail(s))
  BY <1>1, <1>2, <1>3, <1>4 DEF Record, Suits, SubOK
<1>6. Went(own, j, job[j], Tail(s))
  BY <1>1, <1>2, <1>5, ContinueOK
<1>7. ~StaleSub(s) /\ ~StaleUser(s)
  BY <1>1, Heads DEF First
<1>8. (u \in disturbed \/ job[j].sub = Current(u)) /\ (job[j].sub = None \/ Owned(own, job[j].sub, u))
  BY <1>1, <1>2, <1>3 DEF CopiesInv, FreshFor, At, Idle, SubOK
<1>9. ~(At(j, "keepSub") \/ At(j, "keepUser") \/ At(j, "refillUser"))'
  BY <1>4, <1>6 DEF Went, At, Idle, First
<1>10. /\ DOMAIN subCache' = Users
       /\ \A v \in Users : subCache'[v] = subCache[v] \/ (v = u /\ subCache'[v].value = job[j].sub)
  BY <1>1, <1>2 DEF Copy
<1>11. Settled(own, j)
  <2> HIDE DEF u, s
  <2>1. JobOK(own, j)' /\ Own(j)
    BY <1>6 DEF Went
  <2> QED BY <1>1, <1>2, <1>7, <1>8, <1>9, <1>10, <2>1 DEF Settled, s, u
<1> QED BY <1>11, SettledKeeps
\* What is left after a copy was cleared, or replaced.
LEMMA ClearFacts ==
  ASSUME NEW s \in Seq(Names), s # <<>>
  PROVE  /\ ClearS(s) \/ ClearSU(s) \/ ClearSUDropU(s) =>
              (Plain(Tail(s)) \/ StaleUser(Tail(s))) /\ (StaleUser(s) => StaleUser(Tail(s)))
         /\ ClearU(s) \/ ClearUS(s) \/ ClearUDropU(s) =>
              (Plain(Tail(s)) \/ StaleSub(Tail(s)) \/ DropU(Tail(s))) /\ (StaleSub(s) => StaleSub(Tail(s)))
         /\ Refilled(s) => Plain(Tail(s)) /\ ~StaleSub(s)
         /\ StaleSub(s) \/ StaleUser(s) => ~First(Tail(s), {"keepUser", "keepSub", "refillUser"})
<1>1. /\ ClearS(s) => Plain(Tail(s)) /\ Head(s) = "clearSub"
      /\ ClearSU(s) => ClearU(Tail(s)) /\ Head(s) = "clearSub"
      /\ ClearSUDropU(s) => ClearUDropU(Tail(s)) /\ Head(s) = "clearSub"
      /\ ClearU(s) => Plain(Tail(s)) /\ Head(s) = "clearUser"
      /\ ClearUS(s) => ClearS(Tail(s)) /\ Head(s) = "clearUser"
      /\ ClearUDropU(s) => DropU(Tail(s)) /\ Head(s) = "clearUser"
      /\ Refilled(s) => Plain(Tail(s)) /\ Head(s) = "refillUser"
  BY DEF ClearS, ClearSU, ClearSUDropU, ClearU, ClearUS, ClearUDropU, Refilled, First
<1>2. \A t : (ClearU(t) \/ ClearUDropU(t) => StaleUser(t)) /\ (ClearS(t) => StaleSub(t))
  BY DEF StaleUser, StaleSub
<1>3. /\ StaleUser(s) => Refilled(s) \/ ClearU(s) \/ ClearUS(s) \/ ClearSU(s) \/ ClearUDropU(s) \/ ClearSUDropU(s)
      /\ StaleSub(s) => ClearS(s) \/ ClearUS(s) \/ ClearSU(s) \/ ClearSUDropU(s)
  BY DEF StaleUser, StaleSub
<1>4. Tail(s) \in Seq(Names)
  BY RestFacts
<1>5. /\ Plain(Tail(s)) => ~First(Tail(s), {"keepUser", "keepSub", "refillUser"})
      /\ ClearU(Tail(s)) \/ ClearUDropU(Tail(s)) \/ ClearS(Tail(s)) \/ DropU(Tail(s)) =>
           ~First(Tail(s), {"keepUser", "keepSub", "refillUser"})
  <2>1. Plain(Tail(s)) => ~First(Tail(s), {"keepUser", "keepSub", "refillUser"})
    BY <1>4, RestFacts DEF First, Special
  <2>2. ClearU(Tail(s)) \/ ClearUDropU(Tail(s)) \/ ClearS(Tail(s)) \/ DropU(Tail(s)) =>
           ~First(Tail(s), {"keepUser", "keepSub", "refillUser"})
    BY DEF ClearU, ClearUDropU, ClearS, DropU, First
  <2> QED BY <2>1, <2>2
<1> QED BY <1>1, <1>2, <1>3, <1>5

\* A copy is cleared.
LEMMA ClearSubKeeps ==
  ASSUME NEW own, CopiesInv(own), NEW j \in Jobs, ClearSub(j), UNCHANGED agenda
  PROVE  CopiesInv(own)'
<1> DEFINE u == job[j].user
           s == job[j].todo
<1>1. /\ s # <<>> /\ Head(s) = "clearSub" /\ UNCHANGED <<person, subs, account, userCache, agenda, disturbed>>
      /\ subCache' = [subCache EXCEPT ![u] = Empty] /\ job' = [job EXCEPT ![j] = Goes(job[j], <<>>)]
  BY DEF ClearSub, Continue, At, Idle, stores, history
<1>2. /\ DOMAIN job = Jobs /\ StoresOK(own) /\ JobOK(own, j) /\ DOMAIN job[j] = JobFields
      /\ s \in Seq(Names) /\ u \in Users
      /\ DOMAIN account = Users /\ DOMAIN userCache = Users /\ DOMAIN subCache = Users
      /\ \A v \in Users : account[v] = None \/ DOMAIN account[v] = AccountFields
  BY <1>1, Underway
<1>3. SubOK(own, j) /\ job[j].wrote /\ (ClearS(s) \/ ClearSU(s) \/ ClearSUDropU(s)) /\ (StaleSub(s) \/ StaleUser(s))
  BY <1>1, <1>2, SpecialHeads
<1>4. /\ Plain(Tail(s)) \/ StaleUser(Tail(s))
      /\ StaleUser(s) => StaleUser(Tail(s))
      /\ ~First(Tail(s), {"keepUser", "keepSub", "refillUser"})
  BY <1>1, <1>2, <1>3, ClearFacts
<1>5. Record(own, j, job[j]) /\ Suits(job[j], Tail(s))
  BY <1>1, <1>2, <1>3, <1>4 DEF Record, Suits, SubOK, Free
<1>6. Went(own, j, job[j], Tail(s))
  BY <1>1, <1>2, <1>5, ContinueOK
<1>7. StaleUser(s) => job'[j].user = u /\ StaleUser(job'[j].todo)
  BY <1>4, <1>6, Heads DEF Went, First
<1>9. ~(At(j, "keepSub") \/ At(j, "keepUser") \/ At(j, "refillUser"))'
  BY <1>4, <1>6 DEF Went, At, Idle, First
<1>10. /\ DOMAIN subCache' = Users /\ ~subCache'[u].cached
       /\ \A v \in Users : subCache'[v] = subCache[v] \/ ~subCache'[v].cached
  BY <1>1, <1>2 DEF Empty
<1>11. Settled(own, j)
  <2> HIDE DEF u, s
  <2>1. JobOK(own, j)' /\ Own(j)
    BY <1>6 DEF Went
  <2> QED BY <1>1, <1>2, <1>7, <1>9, <1>10, <2>1 DEF Settled, s, u
<1> QED BY <1>11, SettledKeeps

LEMMA ClearUserKeeps ==
  ASSUME NEW own, CopiesInv(own), NEW j \in Jobs, ClearUser(j), UNCHANGED agenda
  PROVE  CopiesInv(own)'
<1> DEFINE u == job[j].user
           s == job[j].todo
<1>1. /\ s # <<>> /\ Head(s) = "clearUser" /\ UNCHANGED <<person, subs, account, subCache, agenda, disturbed>>
      /\ userCache' = [userCache EXCEPT ![u] = Empty] /\ job' = [job EXCEPT ![j] = Goes(job[j], <<>>)]
  BY DEF ClearUser, Continue, At, Idle, stores, history
<1>2. /\ DOMAIN job = Jobs /\ StoresOK(own) /\ JobOK(own, j) /\ DOMAIN job[j] = JobFields
      /\ s \in Seq(Names) /\ u \in Users
      /\ DOMAIN account = Users /\ DOMAIN userCache = Users /\ DOMAIN subCache = Users
      /\ \A v \in Users : account[v] = None \/ DOMAIN account[v] = AccountFields
  BY <1>1, Underway
<1>3. SubOK(own, j) /\ job[j].wrote /\ (ClearU(s) \/ ClearUS(s) \/ ClearUDropU(s)) /\ (StaleSub(s) \/ StaleUser(s))
  BY <1>1, <1>2, SpecialHeads
<1>4. /\ Plain(Tail(s)) \/ StaleSub(Tail(s)) \/ DropU(Tail(s))
      /\ StaleSub(s) => StaleSub(Tail(s))
      /\ ~First(Tail(s), {"keepUser", "keepSub", "refillUser"})
  BY <1>1, <1>2, <1>3, ClearFacts
<1>5. Record(own, j, job[j]) /\ Suits(job[j], Tail(s))
  BY <1>1, <1>2, <1>3, <1>4 DEF Record, Suits, SubOK, Free
<1>6. Went(own, j, job[j], Tail(s))
  BY <1>1, <1>2, <1>5, ContinueOK
<1>7. StaleSub(s) => job'[j].user = u /\ StaleSub(job'[j].todo)
  BY <1>4, <1>6, Heads DEF Went, First
<1>9. ~(At(j, "keepSub") \/ At(j, "keepUser") \/ At(j, "refillUser"))'
  BY <1>4, <1>6 DEF Went, At, Idle, First
<1>10. /\ DOMAIN userCache' = Users /\ ~userCache'[u].cached
       /\ \A v \in Users : userCache'[v] = userCache[v] \/ ~userCache'[v].cached
  BY <1>1, <1>2 DEF Empty
<1>11. Settled(own, j)
  <2> HIDE DEF u, s
  <2>1. JobOK(own, j)' /\ Own(j)
    BY <1>6 DEF Went
  <2> QED BY <1>1, <1>2, <1>7, <1>9, <1>10, <2>1 DEF Settled, s, u
<1> QED BY <1>11, SettledKeeps

LEMMA RefillUserKeeps ==
  ASSUME NEW own, CopiesInv(own), NEW j \in Jobs, RefillUser(j), UNCHANGED agenda
  PROVE  CopiesInv(own)'
<1> DEFINE u == job[j].user
           s == job[j].todo
<1>1. /\ s # <<>> /\ Head(s) = "refillUser" /\ UNCHANGED <<person, subs, account, subCache, agenda, disturbed>>
      /\ userCache' = [userCache EXCEPT ![u] = Copy(job[j].usr)] /\ job' = [job EXCEPT ![j] = Goes(job[j], <<>>)]
  BY DEF RefillUser, Continue, At, Idle, stores, history
<1>2. /\ DOMAIN job = Jobs /\ StoresOK(own) /\ JobOK(own, j) /\ DOMAIN job[j] = JobFields
      /\ s \in Seq(Names) /\ u \in Users
      /\ DOMAIN account = Users /\ DOMAIN userCache = Users /\ DOMAIN subCache = Users
      /\ \A v \in Users : account[v] = None \/ DOMAIN account[v] = AccountFields
  BY <1>1, Underway
<1>3. SubOK(own, j) /\ job[j].wrote /\ Refilled(s) /\ (StaleSub(s) \/ StaleUser(s))
  BY <1>1, <1>2, SpecialHeads
<1>4. /\ Plain(Tail(s)) /\ ~StaleSub(s)
      /\ ~First(Tail(s), {"keepUser", "keepSub", "refillUser"})
  BY <1>1, <1>2, <1>3, ClearFacts
<1>5. Record(own, j, job[j]) /\ Suits(job[j], Tail(s))
  BY <1>1, <1>2, <1>3, <1>4 DEF Record, Suits, SubOK, Free
<1>6. Went(own, j, job[j], Tail(s))
  BY <1>1, <1>2, <1>5, ContinueOK
<1>8. u \in disturbed \/ job[j].usr = UserView(u)
  BY <1>1, <1>2 DEF CopiesInv, FreshFor, At, Idle
<1>9. ~(At(j, "keepSub") \/ At(j, "keepUser") \/ At(j, "refillUser"))'
  BY <1>4, <1>6 DEF Went, At, Idle, First
<1>10. /\ DOMAIN userCache' = Users /\ userCache'[u].value = job[j].usr
       /\ \A v \in Users : userCache'[v] = userCache[v] \/ (v = u /\ userCache'[v].value = job[j].usr)
  BY <1>1, <1>2 DEF Copy
<1>11. Settled(own, j)
  <2> HIDE DEF u, s
  <2>1. JobOK(own, j)' /\ Own(j)
    BY <1>6 DEF Went
  <2> QED BY <1>1, <1>2, <1>4, <1>8, <1>9, <1>10, <2>1 DEF Settled, s, u
<1> QED BY <1>11, SettledKeeps

\* The panel takes a copy, or an exception.
LEMMA PushKeeps ==
  ASSUME NEW own, CopiesInv(own), NEW j \in Jobs, Push(j), UNCHANGED agenda
  PROVE  CopiesInv(own)'
<1> DEFINE u == job[j].user
           s == job[j].todo
<1>1. s # <<>> /\ Head(s) = "push" /\ UNCHANGED <<person, subs, userCache, subCache, agenda>>
  BY DEF Push, At, Idle, caches
<1>2. /\ DOMAIN job = Jobs /\ StoresOK(own) /\ JobOK(own, j) /\ DOMAIN job[j] = JobFields
      /\ s \in Seq(Names) /\ u \in Users
      /\ DOMAIN account = Users
      /\ \A v \in Users : account[v] = None \/ DOMAIN account[v] = AccountFields
  BY <1>1, Underway
<1>3. Plain(s) /\ SubOK(own, j)
  BY <1>1, <1>2, PlainHead DEF Special
<1>4. Plain(Tail(s)) /\ Tail(s) \in Seq(Names) /\ ~First(s, {"clearSub", "clearUser", "refillUser"})
  BY <1>1, <1>2, <1>3, RestFacts DEF First
<1>5. CASE Raise(j) /\ UNCHANGED account
  BY <1>1, <1>5, RaiseSteady, SteadyKeeps
<1>6. CASE /\ account[u] # None
           /\ account' = [account EXCEPT ![u] = Pushed(job[j].usr, job[j].sub, @)]
           /\ job' = [job EXCEPT ![j] = Goes([@ EXCEPT !.wrote = TRUE], <<>>)]
           /\ Disturb(j, u)
  <2> DEFINE r == [job[j] EXCEPT !.wrote = TRUE]
             g == Goes(r, <<>>)
  <2>1. DOMAIN r = JobFields /\ r.todo = s /\ r.user = u /\ r.rescue = job[j].rescue /\ r.sub = job[j].sub
    BY <1>2 DEF JobFields
  <2>2. job' = [job EXCEPT ![j] = g]
    BY <1>6
  <2> HIDE DEF r
  <2>3. Record(own, j, r) /\ Suits(r, Tail(r.todo))
    BY <1>1, <1>3, <1>4, <2>1 DEF Record, Suits, SubOK, Free
  <2>4. Went(own, j, r, Tail(r.todo))
    BY <1>2, <1>1, <2>2, <2>3, ContinueOK
  <2>5. DOMAIN account' = Users /\ \A v \in Users : account'[v] = None \/ DOMAIN account'[v] = AccountFields
    BY <1>2, <1>6 DEF Pushed
  <2>6. disturbed \subseteq disturbed'
    BY <1>6 DEF Disturb
  <2>7. ~First(job'[j].todo, {"keepUser", "keepSub", "refillUser"})
    BY <1>4, <2>1, <2>4, RestFacts DEF Went, First, Special
  <2>8. Steady(own, j)
    <3> HIDE DEF g, s, u
    <3>1. JobOK(own, j)' /\ Own(j)
      BY <2>4 DEF Went
    <3> QED BY <1>1, <1>4, <2>5, <2>6, <2>7, <3>1 DEF Steady, s
  <2> QED BY <2>8, SteadyKeeps
<1> QED BY <1>5, <1>6 DEF Push, Reachable

LEMMA FaultKeeps ==
  ASSUME NEW own, CopiesInv(own), NEW j \in Jobs, Fault(j), UNCHANGED agenda
  PROVE  CopiesInv(own)'
<1>1. job[j].todo # <<>> /\ Raise(j) /\ UNCHANGED <<person, subs, account, userCache, subCache, agenda>>
  BY DEF Fault, Idle, stores, caches
<1> QED BY <1>1, RaiseSteady, SteadyKeeps

\* Any await every job is built from.
LEMMA AwaitKeeps ==
  ASSUME NEW own, CopiesInv(own), NEW j \in Jobs, AwaitStep(j) \/ Fault(j), UNCHANGED agenda
  PROVE  CopiesInv(own)'
BY ReadUserKeeps, ReadSubKeeps, KeepUserKeeps, KeepSubKeeps, ClearSubKeeps, ClearUserKeeps, RefillUserKeeps, PushKeeps,
   FaultKeeps DEF AwaitStep
-----------------------------------------------------------------------------
(* Steps that write to billing                                             *)

\* What a step of j that writes about u has to show: no one else holds an answer
\* about u, and what j made stale it is about to clear.
Written(own, j, u) ==
    /\ Own(j) /\ UNCHANGED <<userCache, subCache, agenda>> /\ disturbed \subseteq disturbed'
    /\ StoresOK(own)' /\ JobOK(own, j)' /\ \A s, v : Owned(own, s, v) => Owned(own, s, v)'
    /\ \A v \in Users : v # u => Current(v)' = Current(v) /\ UserView(v)' = UserView(v)
    /\ ~StaleSub(job[j].todo) /\ ~StaleUser(job[j].todo)
    /\ ~First(job'[j].todo, {"keepUser", "keepSub"})
    /\ First(job'[j].todo, {"refillUser"}) => job'[j].user = u /\ job'[j].usr = UserView(u)'
    /\ \/ u \in disturbed'
       \/ /\ \/ Current(u)' = Current(u) /\ UserView(u)' = UserView(u)
             \/ \A k \in Jobs : k # j /\ job[k].user = u => ~Filling(k)
          /\ \/ subCache[u].cached => Current(u)' = Current(u)
             \/ job'[j].user = u /\ StaleSub(job'[j].todo)
          /\ \/ userCache[u].cached => UserView(u)' = UserView(u)
             \/ job'[j].user = u /\ StaleUser(job'[j].todo)

LEMMA WrittenKeeps ==
  ASSUME NEW own, CopiesInv(own), NEW j \in Jobs, NEW u \in Users, Written(own, j, u)
  PROVE  CopiesInv(own)'
<1>1. DOMAIN job' = Jobs /\ (\A k \in Jobs : k # j => job'[k] = job[k]) /\ agenda'.jobs \subseteq Jobs
  BY DEF CopiesInv, Written, Own
<1>2. ASSUME NEW k \in Jobs PROVE JobOK(own, k)'
  <2>1. CASE k = j
    BY <2>1 DEF Written
  <2>2. CASE k # j
    <3>1. \A s, v : Owned(own, s, v) => Owned(own, s, v)'
      BY DEF Written
    <3>2. JobOK(own, k) /\ job'[k] = job[k]
      BY <1>1, <2>2 DEF CopiesInv
    <3> QED BY <3>1, <3>2 DEF JobOK, SubOK, Rescue
  <2> QED BY <2>1, <2>2
<1>3. ASSUME NEW v \in Users \ disturbed' PROVE FreshFor(v)'
  <2>0. v \in Users \ disturbed /\ FreshFor(v)
    BY DEF CopiesInv, Written
  <2>1. \A k \in Jobs : (At(k, "keepSub") \/ At(k, "keepUser") \/ At(k, "refillUser"))' /\ k # j =>
          /\ At(k, "keepSub")' => At(k, "keepSub")
          /\ (At(k, "keepUser") \/ At(k, "refillUser"))' => At(k, "keepUser") \/ At(k, "refillUser")
          /\ Filling(k)
    BY <1>1 DEF At, Idle, Filling
  <2>2. CASE v = u
    <3>1. /\ \/ Current(u)' = Current(u) /\ UserView(u)' = UserView(u)
             \/ \A k \in Jobs : k # j /\ job[k].user = u => ~Filling(k)
          /\ \/ subCache[u].cached => Current(u)' = Current(u)
             \/ job'[j].user = u /\ StaleSub(job'[j].todo)
          /\ \/ userCache[u].cached => UserView(u)' = UserView(u)
             \/ job'[j].user = u /\ StaleUser(job'[j].todo)
      BY <2>2 DEF Written
    <3>2. ASSUME NEW k \in Jobs, job'[k].user = u
          PROVE  /\ At(k, "keepSub")' => job'[k].sub = Current(u)'
                 /\ (At(k, "keepUser") \/ At(k, "refillUser"))' => job'[k].usr = UserView(u)'
      <4>1. CASE k = j
        BY <4>1 DEF Written, At, Idle, First
      <4>2. CASE k # j
        BY <1>1, <2>0, <2>1, <2>2, <3>1, <3>2, <4>2 DEF FreshFor
      <4> QED BY <4>1, <4>2
    <3>3. subCache' = subCache /\ userCache' = userCache
      BY DEF Written
    <3>4. ASSUME subCache[u].cached, subCache[u].value # Current(u)'
          PROVE  \E k \in Jobs : job'[k].user = u /\ StaleSub(job'[k].todo)
      <4>1. CASE job'[j].user = u /\ StaleSub(job'[j].todo)
        BY <4>1
      <4>2. CASE Current(u)' = Current(u)
        <5>1. PICK k \in Jobs : job[k].user = u /\ StaleSub(job[k].todo)
          BY <2>0, <2>2, <3>4, <4>2 DEF FreshFor
        <5>2. k # j
          BY <5>1 DEF Written
        <5> QED BY <1>1, <5>1, <5>2
      <4> QED BY <3>1, <3>4, <4>1, <4>2
    <3>5. ASSUME userCache[u].cached, userCache[u].value # UserView(u)'
          PROVE  \E k \in Jobs : job'[k].user = u /\ StaleUser(job'[k].todo)
      <4>1. CASE job'[j].user = u /\ StaleUser(job'[j].todo)
        BY <4>1
      <4>2. CASE UserView(u)' = UserView(u)
        <5>1. PICK k \in Jobs : job[k].user = u /\ StaleUser(job[k].todo)
          BY <2>0, <2>2, <3>5, <4>2 DEF FreshFor
        <5>2. k # j
          BY <5>1 DEF Written
        <5> QED BY <1>1, <5>1, <5>2
      <4> QED BY <3>1, <3>5, <4>1, <4>2
    <3> QED BY <2>2, <3>2, <3>3, <3>4, <3>5 DEF FreshFor
  <2>3. CASE v # u
    <3>1. Current(v)' = Current(v) /\ UserView(v)' = UserView(v) /\ subCache' = subCache /\ userCache' = userCache
      BY <2>3 DEF Written
    <3>2. ASSUME subCache[v].cached, subCache[v].value # Current(v)
          PROVE  \E k \in Jobs : job'[k].user = v /\ StaleSub(job'[k].todo)
      <4>1. PICK k \in Jobs : job[k].user = v /\ StaleSub(job[k].todo)
        BY <2>0, <3>2 DEF FreshFor
      <4> QED BY <1>1, <4>1 DEF Written
    <3>3. ASSUME userCache[v].cached, userCache[v].value # UserView(v)
          PROVE  \E k \in Jobs : job'[k].user = v /\ StaleUser(job'[k].todo)
      <4>1. PICK k \in Jobs : job[k].user = v /\ StaleUser(job[k].todo)
        BY <2>0, <3>3 DEF FreshFor
      <4> QED BY <1>1, <4>1 DEF Written
    <3>4. ASSUME NEW k \in Jobs, job'[k].user = v
          PROVE  /\ At(k, "keepSub")' => job'[k].sub = Current(v)
                 /\ (At(k, "keepUser") \/ At(k, "refillUser"))' => job'[k].usr = UserView(v)
      <4>1. CASE k = j
        BY <2>3, <3>4, <4>1 DEF Written, At, Idle, First
      <4>2. CASE k # j
        BY <1>1, <2>0, <2>1, <3>4, <4>2 DEF FreshFor
      <4> QED BY <4>1, <4>2
    <3> QED BY <3>1, <3>2, <3>3, <3>4 DEF FreshFor
  <2> QED BY <2>2, <2>3
<1>4. StoresOK(own)'
  BY DEF Written
<1> QED BY <1>1, <1>2, <1>3, <1>4 DEF CopiesInv

\* The copies that are cleared after a write of the subscription.
LEMMA ClearingFacts ==
  ASSUME NEW more \in Seq(Names), NEW s \in Seq(Names), Plain(more \o s) \/ DropU(more \o s)
  PROVE  LET t == <<"clearSub", "clearUser">> \o more \o s IN
         /\ t \in Seq(Names) /\ t # <<>> /\ StaleSub(t) /\ StaleUser(t)
         /\ ~First(t, {"keepUser", "keepSub"}) /\ ~First(t, {"refillUser"})
<1> DEFINE m == more \o s
           t == <<"clearSub">> \o (<<"clearUser">> \o m)
<1>1. "clearSub" \in Names /\ "clearUser" \in Names /\ m \in Seq(Names)
  BY JoinFacts DEF Names, Special
<1>2. <<"clearSub", "clearUser">> \o more \o s = t
  <2>1. <<"clearSub">> \in Seq(Names) /\ <<"clearUser">> \in Seq(Names)
    BY <1>1
  <2>2. <<"clearSub", "clearUser">> \o more = <<"clearSub">> \o (<<"clearUser">> \o more)
    BY <1>1, StepByStep
  <2>3. <<"clearUser">> \o more \in Seq(Names)
    BY <2>1, JoinFacts
  <2>4. (<<"clearSub">> \o (<<"clearUser">> \o more)) \o s = <<"clearSub">> \o ((<<"clearUser">> \o more) \o s)
    BY <2>1, <2>3, JoinFacts
  <2>5. (<<"clearUser">> \o more) \o s = <<"clearUser">> \o (more \o s)
    BY <2>1, JoinFacts
  <2> QED BY <2>2, <2>4, <2>5
<1>3. Plain(m) \/ DropU(m)
  OBVIOUS
<1> HIDE DEF m
<1>4. LET c == <<"clearUser">> \o m IN c \in Seq(Names) /\ c # <<>> /\ Head(c) = "clearUser" /\ Tail(c) = m
  BY <1>1, ConsFacts
<1>5. t \in Seq(Names) /\ t # <<>> /\ Head(t) = "clearSub" /\ Tail(t) = <<"clearUser">> \o m
  BY <1>1, <1>4, ConsFacts
<1> HIDE DEF t
<1>6. ClearSU(t) \/ ClearSUDropU(t)
  BY <1>3, <1>4, <1>5 DEF ClearSU, ClearSUDropU, ClearU, ClearUDropU, First
<1> QED BY <1>2, <1>5, <1>6 DEF StaleSub, StaleUser, First
\* The subscription of a user is written with the fields of a copy.
LEMMA BillSubKeeps ==
  ASSUME NEW own, CopiesInv(own), NEW j \in Jobs, NEW u, u = job[j].user, job[j].todo # <<>>, ~StaleSub(job[j].todo), ~StaleUser(job[j].todo),
         Owned(own, job[j].sub, job[j].user), NEW new, NEW changed, NEW kept, NEW more \in Seq(Names),
         new.id = job[j].sub.id, DOMAIN kept = SubFields, kept.id = job[j].sub.id,
         Plain(more \o Tail(job[j].todo)) \/ DropU(more \o Tail(job[j].todo)),
         BillSubKeeping(j, new, changed, kept, more), UNCHANGED agenda
  PROVE  CopiesInv(own)'
<1> DEFINE id == job[j].sub.id
           todo == <<"clearSub", "clearUser">> \o more \o Tail(job[j].todo)
           r == [job[j] EXCEPT !.sub = kept, !.wrote = TRUE, !.todo = todo]
<1>1. /\ subs' = [subs EXCEPT ![id] = [f \in DOMAIN @ |-> IF f \in changed THEN new[f] ELSE @[f]]]
      /\ job' = [job EXCEPT ![j] = r] /\ Disturb(j, u)
      /\ UNCHANGED <<person, account, userCache, subCache, agenda>>
  BY DEF BillSubKeeping, Billed, caches
<1>2. /\ DOMAIN job = Jobs /\ StoresOK(own) /\ JobOK(own, j) /\ DOMAIN job[j] = JobFields
      /\ Tail(job[j].todo) \in Seq(Names) /\ u \in Users /\ (j \in Desks => u = Target[j])
  BY Underway
<1>3. id \in DOMAIN subs /\ own[id] = u
  BY DEF Owned
<1>4. /\ todo \in Seq(Names) /\ todo # <<>> /\ StaleSub(todo) /\ StaleUser(todo)
      /\ ~First(todo, {"keepUser", "keepSub"}) /\ ~First(todo, {"refillUser"})
  BY <1>2, ClearingFacts
<1> HIDE DEF todo
<1>5. /\ DOMAIN r = JobFields /\ r.todo = todo /\ r.user = u /\ r.rescue = job[j].rescue /\ r.sub = kept /\ r.wrote = TRUE
  BY <1>2 DEF JobFields
<1> HIDE DEF r
<1>6. job'[j] = r /\ Own(j)
  BY <1>1, <1>2 DEF Own
<1>7. /\ DOMAIN subs' = DOMAIN subs /\ \A x \in DOMAIN subs : x # id => subs'[x] = subs[x]
      /\ DOMAIN subs'[id] = SubFields /\ subs'[id].id = id
  <2>1. DOMAIN subs[id] = SubFields /\ subs[id].id = id
    BY <1>2, <1>3 DEF StoresOK
  <2>2. subs'[id] = [f \in SubFields |-> IF f \in changed THEN new[f] ELSE subs[id][f]]
    BY <1>1, <1>3, <2>1
  <2>3. "id" \in SubFields /\ new.id = id
    BY DEF SubFields
  <2>4. subs'[id].id = IF "id" \in changed THEN new.id ELSE subs[id].id
    BY <2>2, <2>3
  <2> QED BY <1>1, <2>1, <2>2, <2>3, <2>4
<1>8. \A x, v : Owned(own, x, v) <=> Owned(own, x, v)'
  BY <1>7 DEF Owned
<1>9. \A v \in Users : v # u => person[v].current = None \/ (person[v].current \in DOMAIN subs /\ person[v].current # id)
  BY <1>2, <1>3 DEF StoresOK
<1>10. \A v \in Users : v # u => Current(v)' = Current(v) /\ UserView(v)' = UserView(v)
  BY <1>1, <1>7, <1>9 DEF Current, UserView, ViewOf
<1>11. StoresOK(own)'
  <2>1. \A v \in Users : subCache'[v].cached => subCache'[v].value = None \/ Owned(own, subCache[v].value, v)'
    BY <1>1, <1>2, <1>8 DEF StoresOK
  <2> QED BY <1>1, <1>2, <1>7, <2>1 DEF StoresOK
<1>12. JobOK(own, j)'
  <2>1. Owned(own, job[j].sub, job[j].user)'
    BY <1>3, <1>5, <1>6, <1>7 DEF Owned
  <2>2. SubOK(own, j)'
    BY <2>1 DEF SubOK
  <2>3. Rescue(j, r.rescue)
    BY <1>2, <1>5 DEF JobOK
  <2> QED BY <1>2, <1>4, <1>5, <1>6, <2>2, <2>3 DEF JobOK, Rescue
<1>13. disturbed \subseteq disturbed' /\ (u \in disturbed' \/ \A k \in Jobs : k # j /\ job[k].user = u => ~Filling(k))
  BY <1>1 DEF Disturb, Holds
<1>14. /\ job'[j].user = u /\ StaleSub(job'[j].todo) /\ StaleUser(job'[j].todo)
       /\ ~First(job'[j].todo, {"keepUser", "keepSub"}) /\ ~First(job'[j].todo, {"refillUser"})
  BY <1>4, <1>5, <1>6
<1> HIDE DEF id
<1>15. Written(own, j, u)
  BY <1>1, <1>6, <1>8, <1>10, <1>11, <1>12, <1>13, <1>14 DEF Written
<1> QED BY <1>2, <1>15, WrittenKeeps

\* What billing answers for a user is in hand after a write of one of its fields.
LEMMA BillUserKeeps ==
  ASSUME NEW own, CopiesInv(own), NEW j \in Jobs, NEW u, u = job[j].user, job[j].todo # <<>>, Plain(job[j].todo), SubOK(own, j),
         NEW field, field # "current", NEW value, NEW clear, clear \in {"clearUser", "refillUser"},
         BillUser(j, field, value, <<clear>>), UNCHANGED agenda
  PROVE  CopiesInv(own)'
<1> DEFINE todo == <<clear>> \o Tail(job[j].todo)
           r == [job[j] EXCEPT !.usr = ViewOf(person'[u]), !.wrote = TRUE, !.todo = todo]
<1>1. /\ person' = [person EXCEPT ![u] = [@ EXCEPT ![field] = value]]
      /\ job' = [job EXCEPT ![j] = r] /\ Disturb(j, u)
      /\ UNCHANGED <<subs, account, userCache, subCache, agenda>>
  BY DEF BillUser, caches
<1>2. /\ DOMAIN job = Jobs /\ StoresOK(own) /\ JobOK(own, j) /\ DOMAIN job[j] = JobFields
      /\ Tail(job[j].todo) \in Seq(Names) /\ u \in Users /\ (j \in Desks => u = Target[j])
      /\ Plain(Tail(job[j].todo)) /\ Head(job[j].todo) \notin Special
  BY Underway
<1>4. todo \in Seq(Names) /\ todo # <<>> /\ Head(todo) = clear /\ Plain(Tail(todo))
  <2>1. clear \in Names
    BY DEF Names, Special
  <2> QED BY <1>2, <2>1, ConsFacts
<1> HIDE DEF todo
<1>5. /\ DOMAIN r = JobFields /\ r.todo = todo /\ r.user = u /\ r.rescue = job[j].rescue /\ r.sub = job[j].sub
      /\ r.wrote = TRUE /\ r.usr = ViewOf(person'[u])
  BY <1>2 DEF JobFields
<1> HIDE DEF r
<1>6. job'[j] = r /\ Own(j)
  BY <1>1, <1>2 DEF Own
<1>7. /\ DOMAIN person' = Users /\ \A v \in Users : v # u => person'[v] = person[v]
      /\ DOMAIN person'[u] = DOMAIN person[u] /\ person'[u].current = person[u].current
  BY <1>1, <1>2 DEF StoresOK
<1>8. \A x, v : Owned(own, x, v) <=> Owned(own, x, v)'
  BY <1>1 DEF Owned
<1>9. \A v \in Users : /\ v # u => UserView(v)' = UserView(v)
                       /\ Current(v)' = Current(v)
  BY <1>1, <1>7 DEF Current, UserView, ViewOf
<1>10. r.usr = UserView(u)'
  BY <1>1, <1>5 DEF UserView, ViewOf
<1>11. StoresOK(own)'
  <2>1. \A v \in Users : subCache'[v].cached => subCache'[v].value = None \/ Owned(own, subCache[v].value, v)'
    BY <1>1, <1>2, <1>8 DEF StoresOK
  <2> QED BY <1>1, <1>2, <1>7, <2>1 DEF StoresOK
<1>12. (ClearU(todo) \/ Refilled(todo)) /\ StaleUser(todo)
  BY <1>4 DEF ClearU, Refilled, StaleUser, First
<1>13. JobOK(own, j)'
  <2>1. Rescue(j, r.rescue)
    BY <1>2, <1>5 DEF JobOK
  <2>2. SubOK(own, j)'
    BY <1>5, <1>6, <1>8 DEF SubOK
  <2> QED BY <1>2, <1>4, <1>5, <1>6, <1>12, <2>1, <2>2 DEF JobOK, Rescue
<1>14. disturbed \subseteq disturbed' /\ (u \in disturbed' \/ \A k \in Jobs : k # j /\ job[k].user = u => ~Filling(k))
  BY <1>1 DEF Disturb, Holds
<1>15. /\ ~StaleSub(job[j].todo) /\ ~StaleUser(job[j].todo)
       /\ ~First(job'[j].todo, {"keepUser", "keepSub"})
       /\ job'[j].user = u /\ job'[j].usr = UserView(u)' /\ StaleUser(job'[j].todo)
  BY <1>2, <1>4, <1>5, <1>6, <1>10, <1>12, Heads DEF First, Special
<1>16. Written(own, j, u)
  BY <1>1, <1>2, <1>6, <1>8, <1>9, <1>11, <1>13, <1>14, <1>15 DEF Written
<1> QED BY <1>2, <1>16, WrittenKeeps
\* The pointer to the current subscription is removed.
LEMMA UnsetKeeps ==
  ASSUME NEW own, CopiesInv(own), NEW j \in Jobs, NEW u \in Users, NEW step, Unset(j, u, step), UNCHANGED agenda,
         disturbed \subseteq disturbed', SubOK(own, j),
         \/ Plain(job[j].todo) /\ u \in disturbed'
         \/ /\ DropU(job[j].todo) /\ job[j].user = u
            /\ u \notin disturbed' =>
                 ~subCache[u].cached /\ \A k \in Jobs : k # j /\ job[k].user = u => ~Filling(k)
  PROVE  CopiesInv(own)'
<1> DEFINE s == job[j].todo
           r == [job[j] EXCEPT !.wrote = TRUE]
<1>1. /\ s # <<>> /\ person' = [person EXCEPT ![u].current = None]
      /\ job' = [job EXCEPT ![j] = Goes(r, <<>>)]
      /\ UNCHANGED <<subs, account, userCache, subCache, agenda>>
  BY DEF Unset, At, Idle, caches
<1>2. /\ DOMAIN job = Jobs /\ StoresOK(own) /\ JobOK(own, j) /\ DOMAIN job[j] = JobFields
      /\ s \in Seq(Names) /\ Tail(s) \in Seq(Names) /\ job[j].user \in Users
  BY <1>1, Underway
<1>3. DOMAIN r = JobFields /\ r.todo = s /\ r.user = job[j].user /\ r.rescue = job[j].rescue /\ r.sub = job[j].sub /\ r.wrote = TRUE
  BY <1>2 DEF JobFields
<1> HIDE DEF r
<1>4. /\ Plain(s) => Plain(Tail(s))
      /\ DropU(s) => ClearU(Tail(s)) /\ Tail(s) # <<>> /\ StaleUser(Tail(s))
      /\ Plain(s) \/ DropU(s) => ~StaleSub(s) /\ ~StaleUser(s) /\ ~First(Tail(s), {"keepUser", "keepSub", "refillUser"})
  <2>1. Plain(s) => Plain(Tail(s)) /\ Head(s) \notin Special
    BY <1>1, <1>2, RestFacts
  <2>2. DropU(s) => ClearU(Tail(s)) /\ Head(s) = "drop"
    BY DEF DropU, First
  <2>3. ClearU(Tail(s)) => Tail(s) # <<>> /\ StaleUser(Tail(s)) /\ ~First(Tail(s), {"keepUser", "keepSub", "refillUser"})
    BY DEF ClearU, First, StaleUser
  <2>4. Plain(Tail(s)) => ~First(Tail(s), {"keepUser", "keepSub", "refillUser"})
    BY <1>2, RestFacts DEF First, Special
  <2>5. Plain(s) \/ DropU(s) => ~StaleSub(s) /\ ~StaleUser(s)
    BY <2>1, <2>2, Heads DEF First, Special
  <2> QED BY <2>1, <2>2, <2>3, <2>4, <2>5
<1>5. Record(own, j, r) /\ Suits(r, Tail(r.todo))
  BY <1>1, <1>3, <1>4 DEF Record, Suits, SubOK, Free
<1>6. Went(own, j, r, Tail(s))
  BY <1>1, <1>2, <1>3, <1>5, ContinueOK
<1>7. /\ DOMAIN person' = Users /\ \A v \in Users : v # u => person'[v] = person[v]
      /\ DOMAIN person'[u] = DOMAIN person[u] /\ person'[u].current = None
  BY <1>1, <1>2 DEF StoresOK
<1>8. \A x, v : Owned(own, x, v) <=> Owned(own, x, v)'
  BY <1>1 DEF Owned
<1>9. \A v \in Users : v # u => Current(v)' = Current(v) /\ UserView(v)' = UserView(v)
  BY <1>1, <1>7 DEF Current, UserView, ViewOf
<1>10. StoresOK(own)'
  <2>1. \A v \in Users : subCache'[v].cached => subCache'[v].value = None \/ Owned(own, subCache[v].value, v)'
    BY <1>1, <1>2, <1>8 DEF StoresOK
  <2> QED BY <1>1, <1>2, <1>7, <2>1 DEF StoresOK
<1>11. JobOK(own, j)' /\ Own(j) /\ job'[j].todo = Tail(s) /\ (Tail(s) # <<>> => job'[j].user = job[j].user)
  BY <1>6 DEF Went
<1>12. ~First(job'[j].todo, {"keepUser", "keepSub"}) /\ ~First(job'[j].todo, {"refillUser"}) /\ ~StaleSub(s) /\ ~StaleUser(s)
  BY <1>4, <1>11 DEF First
<1>13. \/ u \in disturbed'
       \/ /\ ~subCache[u].cached /\ \A k \in Jobs : k # j /\ job[k].user = u => ~Filling(k)
          /\ job'[j].user = u /\ StaleUser(job'[j].todo)
  BY <1>4, <1>11
<1> HIDE DEF s
<1>14. Written(own, j, u)
  BY <1>1, <1>8, <1>9, <1>10, <1>11, <1>12, <1>13 DEF Written, s
<1> QED BY <1>14, WrittenKeeps

LEMMA DropKeeps ==
  ASSUME NEW own, CopiesInv(own), NEW d \in Desks, Drop(d) \/ DropActor(d), UNCHANGED agenda
  PROVE  CopiesInv(own)'
<1>1. d \in Jobs /\ Target[d] \in Users /\ Actor[d] \in Users
  BY JobAssumption, DeskAssumption
<1>2. CASE Drop(d)
  <2>1. Unset(d, Target[d], "drop") /\ job[d].todo # <<>> /\ Head(job[d].todo) = "drop"
    BY <1>2 DEF Drop, Unset, At, Idle
  <2>2. JobOK(own, d) /\ job[d].user = Target[d]
    BY <1>1, <2>1, Underway
  <2>3. DropU(job[d].todo) /\ SubOK(own, d)
    BY <2>1, <2>2, SpecialHeads
  <2>4. /\ disturbed \subseteq disturbed'
        /\ Target[d] \notin disturbed' =>
             ~subCache[Target[d]].cached /\ \A k \in Jobs : k # d /\ job[k].user = Target[d] => ~Filling(k)
    BY <1>2 DEF Drop, Holds
  <2> QED BY <1>1, <2>1, <2>2, <2>3, <2>4, UnsetKeeps
<1>3. CASE DropActor(d)
  <2>1. Unset(d, Actor[d], "dropActor") /\ job[d].todo # <<>> /\ Head(job[d].todo) = "dropActor"
    BY <1>3 DEF DropActor, Unset, At, Idle
  <2>2. JobOK(own, d)
    BY <1>1, <2>1, Underway
  <2>3. Plain(job[d].todo) /\ SubOK(own, d)
    BY <2>1, <2>2, PlainHead DEF Special
  <2>4. disturbed \subseteq disturbed' /\ Actor[d] \in disturbed'
    BY <1>3 DEF DropActor
  <2> QED BY <1>1, <2>1, <2>3, <2>4, UnsetKeeps
<1> QED BY <1>2, <1>3

\* A created subscription becomes the current one.
LEMMA PointToKeeps ==
  ASSUME NEW own, CopiesInv(own), NEW d \in Desks, PointTo(d), UNCHANGED agenda
  PROVE  CopiesInv(own)'
<1> DEFINE s == job[d].todo
           u == Target[d]
           id == job[d].sub.id
<1>0. d \in Jobs /\ u \in Users
  BY JobAssumption, DeskAssumption
<1>1. /\ s # <<>> /\ Head(s) = "point" /\ person' = [person EXCEPT ![u].current = id]
      /\ job' = [job EXCEPT ![d] = Goes(job[d], <<>>)] /\ Disturb(d, u)
      /\ UNCHANGED <<subs, account, userCache, subCache, agenda>>
  BY DEF PointTo, Continue, At, Idle, caches
<1>2. /\ DOMAIN job = Jobs /\ StoresOK(own) /\ JobOK(own, d) /\ DOMAIN job[d] = JobFields
      /\ s \in Seq(Names) /\ Tail(s) \in Seq(Names) /\ job[d].user = u
  BY <1>0, <1>1, Underway
<1>3. PointUS(s) /\ Owned(own, job[d].sub, u) /\ job[d].wrote
  BY <1>1, <1>2, SpecialHeads
<1>4. /\ ClearUS(Tail(s)) /\ Tail(s) # <<>> /\ StaleSub(Tail(s)) /\ StaleUser(Tail(s))
      /\ ~First(Tail(s), {"keepUser", "keepSub"}) /\ ~First(Tail(s), {"refillUser"})
      /\ ~StaleSub(s) /\ ~StaleUser(s)
  <2>1. ClearUS(Tail(s))
    BY <1>3 DEF PointUS
  <2>2. ~StaleSub(s) /\ ~StaleUser(s)
    BY <1>1, Heads DEF First
  <2> QED BY <2>1, <2>2 DEF ClearUS, StaleSub, StaleUser, First
<1>5. Record(own, d, job[d]) /\ Suits(job[d], Tail(s))
  BY <1>1, <1>2, <1>3, <1>4 DEF Record, Suits
<1>6. Went(own, d, job[d], Tail(s))
  BY <1>0, <1>1, <1>2, <1>5, ContinueOK
<1>7. JobOK(own, d)' /\ Own(d) /\ job'[d].todo = Tail(s) /\ job'[d].user = u
  BY <1>2, <1>4, <1>6 DEF Went
<1>8. id \in DOMAIN subs /\ own[id] = u
  BY <1>3 DEF Owned
<1>9. /\ DOMAIN person' = Users /\ \A v \in Users : v # u => person'[v] = person[v]
      /\ "current" \in DOMAIN person'[u] /\ person'[u].current = id
  BY <1>0, <1>1, <1>2 DEF StoresOK
<1>10. \A x, v : Owned(own, x, v) <=> Owned(own, x, v)'
  BY <1>1 DEF Owned
<1>11. \A v \in Users : v # u => Current(v)' = Current(v) /\ UserView(v)' = UserView(v)
  BY <1>1, <1>9 DEF Current, UserView, ViewOf
<1>12. StoresOK(own)'
  <2>1. \A v \in Users : subCache'[v].cached => subCache'[v].value = None \/ Owned(own, subCache[v].value, v)'
    BY <1>1, <1>2, <1>10 DEF StoresOK
  <2> QED BY <1>1, <1>2, <1>8, <1>9, <2>1 DEF StoresOK
<1>13. disturbed \subseteq disturbed' /\ (u \in disturbed' \/ \A k \in Jobs : k # d /\ job[k].user = u => ~Filling(k))
  BY <1>1 DEF Disturb, Holds
<1> HIDE DEF s, id
<1>14. Written(own, d, u)
  BY <1>1, <1>4, <1>7, <1>10, <1>11, <1>12, <1>13 DEF Written, s
<1> QED BY <1>0, <1>14, WrittenKeeps

\* An identifier billing has not given away may be anyone's.
LEMMA AnyOwner ==
  ASSUME NEW own, CopiesInv(own), NEW id \in Subs \ DOMAIN subs, NEW u \in Users
  PROVE  CopiesInv([own EXCEPT ![id] = u])
<1> DEFINE own2 == [own EXCEPT ![id] = u]
<1>1. own \in [Subs -> Users] /\ own2 \in [Subs -> Users] /\ \A x \in DOMAIN subs : own2[x] = own[x]
  BY DEF CopiesInv, StoresOK
<1> HIDE DEF own2
<1>2. \A s, v : Owned(own, s, v) => Owned(own2, s, v)
  BY <1>1 DEF Owned
<1>3. StoresOK(own2)
  BY <1>1, <1>2 DEF CopiesInv, StoresOK
<1>4. \A j \in Jobs : JobOK(own2, j)
  BY <1>2 DEF CopiesInv, JobOK, SubOK
<1>5. CopiesInv(own2)
  BY <1>3, <1>4 DEF CopiesInv
<1> QED BY <1>5 DEF own2

\* A subscription is created.
LEMMA CreateSubKeeps ==
  ASSUME NEW own, CopiesInv(own), NEW d \in Desks, CreateSub(d), UNCHANGED agenda
  PROVE  \E own2 \in [Subs -> Users] : CopiesInv(own2)'
<1> DEFINE s == job[d].todo
           u == Target[d]
<1>0. d \in Jobs /\ u \in Users
  BY JobAssumption, DeskAssumption
<1>1. PICK id \in Subs :
         /\ id \notin DOMAIN subs
         /\ subs' = [other \in DOMAIN subs \cup {id} |->
                         IF other = id THEN [job[d].sub EXCEPT !.id = id] ELSE subs[other]]
         /\ job' = [job EXCEPT ![d] = [Goes(@, <<"point", "clearUser", "clearSub">>) EXCEPT !.sub.id = id, !.wrote = TRUE]]
  BY DEF CreateSub
<1>2. s # <<>> /\ Head(s) = "create" /\ UNCHANGED <<person, account, userCache, subCache, disturbed, agenda>>
  BY DEF CreateSub, At, Idle, caches, history
<1> DEFINE own2 == [own EXCEPT ![id] = u]
<1>3. CopiesInv(own2)
  BY <1>0, <1>1, AnyOwner
<1>4. own2 \in [Subs -> Users] /\ own2[id] = u
  BY <1>0 DEF CopiesInv, StoresOK
<1> HIDE DEF own2
<1>5. /\ DOMAIN job = Jobs /\ StoresOK(own2) /\ JobOK(own2, d) /\ DOMAIN job[d] = JobFields
      /\ s \in Seq(Names) /\ Tail(s) \in Seq(Names) /\ job[d].user = u
  BY <1>0, <1>2, <1>3, Underway
<1>6. CreateOnly(s) /\ DOMAIN job[d].sub = SubFields
  BY <1>2, <1>5, SpecialHeads
<1> DEFINE more == <<"point", "clearUser", "clearSub">>
           t == more \o Tail(s)
           g == Goes(job[d], more)
           r == [g EXCEPT !.sub.id = id, !.wrote = TRUE]
<1>7. /\ t \in Seq(Names) /\ t # <<>> /\ PointUS(t) /\ more \in Seq(Names)
  <2>1. "point" \in Names /\ "clearUser" \in Names /\ "clearSub" \in Names
    BY DEF Names, Special
  <2>2. Plain(Tail(s)) /\ Tail(s) \in Seq(Names)
    BY <1>5, <1>6 DEF CreateOnly
  <2>3. t = <<"point">> \o (<<"clearUser">> \o (<<"clearSub">> \o Tail(s)))
    BY <2>1, <2>2, StepByStep
  <2> DEFINE c == <<"clearSub">> \o Tail(s)
             b == <<"clearUser">> \o c
  <2>4. c \in Seq(Names) /\ c # <<>> /\ Head(c) = "clearSub" /\ Tail(c) = Tail(s)
    BY <2>1, <2>2, ConsFacts
  <2> HIDE DEF c
  <2>5. b \in Seq(Names) /\ b # <<>> /\ Head(b) = "clearUser" /\ Tail(b) = c
    BY <2>1, <2>4, ConsFacts
  <2> HIDE DEF b
  <2>6. t = <<"point">> \o b
    BY <2>3 DEF b, c
  <2> HIDE DEF t
  <2>7. t \in Seq(Names) /\ t # <<>> /\ Head(t) = "point" /\ Tail(t) = b
    BY <2>1, <2>5, <2>6, ConsFacts
  <2>8. PointUS(t)
    BY <2>2, <2>4, <2>5, <2>7 DEF PointUS, ClearUS, ClearS, First
  <2>9. more \in Seq(Names)
    BY <2>1
  <2> QED BY <2>7, <2>8, <2>9
<1> HIDE DEF more
<1>8. /\ DOMAIN g = JobFields /\ g.todo = t /\ g.rescue \in {<<>>, job[d].rescue} /\ g.sub = job[d].sub
      /\ g.user = u
  <2>1. job[d].todo \in Seq(Names) /\ job[d].todo # <<>> /\ more \in Seq(Names) /\ DOMAIN job[d] = JobFields
    BY <1>2, <1>5, <1>7
  <2>2. /\ DOMAIN Goes(job[d], more) = JobFields /\ Goes(job[d], more).todo = more \o Tail(job[d].todo)
        /\ Goes(job[d], more).rescue \in {<<>>, job[d].rescue}
        /\ Goes(job[d], more).todo # <<>> =>
             Goes(job[d], more).user = job[d].user /\ Goes(job[d], more).sub = job[d].sub
    BY <2>1, GoesFacts
  <2> QED BY <1>5, <1>7, <2>2
<1> HIDE DEF g, t
<1>9. /\ DOMAIN r = JobFields /\ r.todo = t /\ r.rescue \in {<<>>, job[d].rescue} /\ r.user = u /\ r.wrote = TRUE
      /\ r.sub = [job[d].sub EXCEPT !.id = id]
  BY <1>8 DEF JobFields
<1>10. job' = [job EXCEPT ![d] = r]
  BY <1>1 DEF g, more
<1> HIDE DEF r
<1>11. job'[d] = r /\ Own(d)
  BY <1>0, <1>5, <1>10 DEF Own
<1>12. DOMAIN r.sub = SubFields /\ r.sub.id = id
  BY <1>6, <1>9 DEF SubFields
<1>13. /\ DOMAIN subs' = DOMAIN subs \cup {id} /\ \A x \in DOMAIN subs : subs'[x] = subs[x]
       /\ subs'[id] = r.sub
  BY <1>1, <1>9
<1>14. \A x, v : Owned(own2, x, v) => Owned(own2, x, v)'
  BY <1>13 DEF Owned
<1>15. \A v \in Users : Current(v)' = Current(v) /\ UserView(v)' = UserView(v)
  <2>1. \A v \in Users : person[v].current = None \/ person[v].current \in DOMAIN subs
    BY <1>5 DEF StoresOK
  <2> QED BY <1>2, <1>13, <2>1 DEF Current, UserView, ViewOf
<1>16. StoresOK(own2)'
  <2>1. \A v \in Users : subCache'[v].cached => subCache'[v].value = None \/ Owned(own2, subCache[v].value, v)'
    BY <1>2, <1>5, <1>14 DEF StoresOK
  <2> QED BY <1>2, <1>4, <1>5, <1>12, <1>13, <2>1 DEF StoresOK
<1>17. JobOK(own2, d)'
  <2>1. Owned(own2, job[d].sub, job[d].user)'
    BY <1>4, <1>9, <1>11, <1>12, <1>13 DEF Owned
  <2>2. Rescue(d, r.rescue)
    BY <1>5, <1>9, RescueFacts DEF JobOK
  <2> QED BY <1>0, <1>7, <1>9, <1>11, <2>1, <2>2 DEF JobOK, Rescue
<1>18. /\ ~StaleSub(s) /\ ~StaleUser(s)
       /\ ~First(job'[d].todo, {"keepUser", "keepSub"}) /\ ~First(job'[d].todo, {"refillUser"})
  BY <1>2, <1>7, <1>9, <1>11, Heads DEF First, PointUS
<1> HIDE DEF s
<1>19. Written(own2, d, u)
  BY <1>0, <1>2, <1>11, <1>14, <1>15, <1>16, <1>17, <1>18 DEF Written, s
<1> QED BY <1>0, <1>3, <1>4, <1>19, WrittenKeeps

\* The administrator's own copy is cleared.
LEMMA ClearActorKeeps ==
  ASSUME NEW own, CopiesInv(own), NEW d \in Desks, ClearActor(d), UNCHANGED agenda
  PROVE  CopiesInv(own)'
<1> DEFINE s == job[d].todo
<1>0. d \in Jobs
  BY JobAssumption
<1>1. /\ s # <<>> /\ Head(s) = "clearActor" /\ UNCHANGED <<person, subs, account, subCache, agenda, disturbed>>
      /\ userCache' = [userCache EXCEPT ![Actor[d]] = Empty] /\ job' = [job EXCEPT ![d] = Goes(job[d], <<>>)]
  BY DEF ClearActor, Continue, At, Idle, stores, history
<1>2. /\ DOMAIN job = Jobs /\ StoresOK(own) /\ JobOK(own, d) /\ DOMAIN job[d] = JobFields
      /\ s \in Seq(Names)
      /\ DOMAIN account = Users /\ DOMAIN userCache = Users /\ DOMAIN subCache = Users
      /\ \A v \in Users : account[v] = None \/ DOMAIN account[v] = AccountFields
  BY <1>0, <1>1, Underway
<1>3. Plain(s) /\ SubOK(own, d)
  BY <1>1, <1>2, PlainHead DEF Special
<1>4. /\ Plain(Tail(s)) /\ Tail(s) \in Seq(Names) /\ ~StaleSub(s) /\ ~StaleUser(s)
      /\ ~First(Tail(s), {"keepUser", "keepSub", "refillUser"})
  <2>1. Plain(Tail(s)) /\ Tail(s) \in Seq(Names)
    BY <1>1, <1>2, <1>3, RestFacts
  <2>2. ~First(Tail(s), {"keepUser", "keepSub", "refillUser"})
    BY <2>1, RestFacts DEF First, Special
  <2>3. ~StaleSub(s) /\ ~StaleUser(s)
    BY <1>1, Heads DEF First
  <2> QED BY <2>1, <2>2, <2>3
<1>5. Record(own, d, job[d]) /\ Suits(job[d], Tail(s))
  BY <1>1, <1>2, <1>3, <1>4 DEF Record, Suits, SubOK, Free
<1>6. Went(own, d, job[d], Tail(s))
  BY <1>0, <1>1, <1>2, <1>5, ContinueOK
<1>7. ~(At(d, "keepSub") \/ At(d, "keepUser") \/ At(d, "refillUser"))'
  BY <1>4, <1>6 DEF Went, At, Idle, First
<1>8. DOMAIN userCache' = Users /\ \A v \in Users : userCache'[v] = userCache[v] \/ ~userCache'[v].cached
  BY <1>1, <1>2 DEF Empty
<1>9. JobOK(own, d)' /\ Own(d)
  BY <1>6 DEF Went
<1> HIDE DEF s
<1>10. Settled(own, d)
  BY <1>1, <1>2, <1>4, <1>7, <1>8, <1>9 DEF Settled, s
<1> QED BY <1>0, <1>10, SettledKeeps

\* A synchronisation begins; if it is alone and on fresh copies, they are fresh from now on.
LEMMA StartSyncKeeps ==
  ASSUME NEW own, CopiesInv(own), NEW d \in Desks, NEW todo \in Seq(Names), Plain(todo), StartSync(d, todo), UNCHANGED agenda
  PROVE  CopiesInv(own)'
<1> DEFINE u == Target[d]
<1>0. d \in Jobs /\ u \in Users
  BY JobAssumption, DeskAssumption
<1>1. /\ job[d].todo = <<>> /\ UNCHANGED <<person, subs, account, userCache, subCache, agenda>>
      /\ job' = [job EXCEPT ![d] = [IdleJob EXCEPT !.user = Target[d], !.wrote = TRUE,
                                                   !.todo = todo, !.rescue = <<"MENU">>]]
  BY DEF StartSync, Pressing, Idle, stores, caches
<1>2. disturbed' = disturbed \/ (disturbed' = disturbed \ {u} /\ Alone(d) /\ FreshCopies(u))
  BY DEF StartSync, history
<1>3. DOMAIN job = Jobs /\ StoresOK(own)
  BY DEF CopiesInv
<1>4. /\ DOMAIN job'[d] = JobFields /\ job'[d].user = u /\ job'[d].todo = todo /\ job'[d].rescue = <<"MENU">>
      /\ job'[d].sub = None /\ DOMAIN job' = Jobs /\ \A k \in Jobs : k # d => job'[k] = job[k]
  BY <1>0, <1>1, <1>3 DEF IdleJob, JobFields
<1>5. \A x, v : Owned(own, x, v) <=> Owned(own, x, v)'
  BY <1>1 DEF Owned
<1>6. JobOK(own, d)'
  <2>1. "MENU" \in Names
    BY DEF Names, Special
  <2>2. Rescue(d, <<"MENU">>)
    <3>1. <<"MENU">> \in Seq(Names)
      BY <2>1
    <3> QED BY <3>1 DEF Rescue
  <2> QED BY <1>0, <1>4, <2>2 DEF JobOK, SubOK, Free, Rescue
<1>7. ASSUME NEW k \in Jobs PROVE JobOK(own, k)'
  <2>1. CASE k = d
    BY <1>6, <2>1
  <2>2. CASE k # d
    BY <1>4, <1>5, <2>2 DEF CopiesInv, JobOK, SubOK, Rescue
  <2> QED BY <2>1, <2>2
<1>8. StoresOK(own)'
  <2>1. \A v \in Users : subCache'[v].cached => subCache'[v].value = None \/ Owned(own, subCache[v].value, v)'
    BY <1>1, <1>3, <1>5 DEF StoresOK
  <2> QED BY <1>1, <1>3, <2>1 DEF StoresOK
<1>9. \A v \in Users : Current(v)' = Current(v) /\ UserView(v)' = UserView(v)
  BY <1>1 DEF Current, UserView, ViewOf
<1>10. /\ ~(At(d, "keepSub") \/ At(d, "keepUser") \/ At(d, "refillUser"))'
       /\ ~StaleSub(job[d].todo) /\ ~StaleUser(job[d].todo)
  <2>1. ~First(todo, {"keepUser", "keepSub", "refillUser"})
    BY RestFacts DEF First, Special
  <2>2. ~StaleSub(job[d].todo) /\ ~StaleUser(job[d].todo)
    BY <1>1, Heads DEF First
  <2> QED BY <1>4, <2>1, <2>2 DEF At, Idle, First
<1> HIDE DEF u
<1>11. ASSUME NEW v \in Users \ disturbed' PROVE FreshFor(v)'
  <2>1. CASE v \notin disturbed
    <3>1. FreshFor(v)
      BY <2>1 DEF CopiesInv
    <3>2. ASSUME subCache[v].cached, subCache[v].value # Current(v)
          PROVE  \E k \in Jobs : job'[k].user = v /\ StaleSub(job'[k].todo)
      <4>1. PICK k \in Jobs : job[k].user = v /\ StaleSub(job[k].todo)
        BY <3>1, <3>2 DEF FreshFor
      <4> QED BY <1>4, <1>10, <4>1
    <3>3. ASSUME userCache[v].cached, userCache[v].value # UserView(v)
          PROVE  \E k \in Jobs : job'[k].user = v /\ StaleUser(job'[k].todo)
      <4>1. PICK k \in Jobs : job[k].user = v /\ StaleUser(job[k].todo)
        BY <3>1, <3>3 DEF FreshFor
      <4> QED BY <1>4, <1>10, <4>1
    <3>4. ASSUME NEW k \in Jobs, job'[k].user = v
          PROVE  /\ At(k, "keepSub")' => job'[k].sub = Current(v)
                 /\ (At(k, "keepUser") \/ At(k, "refillUser"))' => job'[k].usr = UserView(v)
      <4>1. CASE k = d
        BY <1>10, <4>1
      <4>2. CASE k # d
        BY <1>4, <3>1, <3>4, <4>2 DEF FreshFor, At, Idle
      <4> QED BY <4>1, <4>2
    <3> QED BY <1>1, <1>9, <3>2, <3>3, <3>4 DEF FreshFor
  <2>2. CASE v \in disturbed
    <3>1. v = u /\ Alone(d) /\ FreshCopies(u)
      BY <1>2, <2>2
    <3>2. \A k \in Jobs : k # d => job'[k].user # v
      BY <1>4, <3>1 DEF Alone, u
    <3>3. /\ ~(subCache[v].cached /\ subCache[v].value # Current(v))
          /\ ~(userCache[v].cached /\ userCache[v].value # UserView(v))
      BY <3>1 DEF FreshCopies
    <3> QED BY <1>1, <1>9, <1>10, <3>2, <3>3 DEF FreshFor
  <2> QED BY <2>1, <2>2
<1>12. agenda'.jobs \subseteq Jobs
  BY <1>1 DEF CopiesInv
<1> QED BY <1>4, <1>7, <1>8, <1>11, <1>12 DEF CopiesInv
-----------------------------------------------------------------------------
(* Steps of the dashboard that leave billing and the copies alone          *)

\* A job goes on to plain awaits with what it has.
LEMMA OnwardKeeps ==
  ASSUME NEW own, CopiesInv(own), NEW j \in Jobs, Plain(job[j].todo), job[j].todo # <<>>, NEW g,
         job' = [job EXCEPT ![j] = g],
         DOMAIN g = JobFields, g.todo \in Seq(Names), Plain(g.todo), g.rescue \in {<<>>, job[j].rescue},
         g.todo # <<>> => g.user = job[j].user, g.sub = None \/ Owned(own, g.sub, g.user),
         UNCHANGED <<person, subs, userCache, subCache, agenda>>, disturbed \subseteq disturbed',
         DOMAIN account' = Users, \A u \in Users : account'[u] = None \/ DOMAIN account'[u] = AccountFields
  PROVE  CopiesInv(own)'
<1>1. ~First(job[j].todo, {"clearSub", "clearUser", "refillUser"})
  <2>1. job[j].todo \in Seq(Names)
    BY Underway
  <2> QED BY <2>1, RestFacts DEF First, Special
<1>2. Steady(own, j)
  BY <1>1, OnwardSteady, Zenon
<1> QED BY <1>2, SteadyKeeps

\* The same where only what is left to do changes.
LEMMA TodoKeeps ==
  ASSUME NEW own, CopiesInv(own), NEW j \in Jobs, Plain(job[j].todo), job[j].todo # <<>>, SubOK(own, j),
         NEW todo \in Seq(Names), Plain(todo), job' = [job EXCEPT ![j] = [@ EXCEPT !.todo = todo]],
         UNCHANGED <<person, subs, account, userCache, subCache, agenda>>, disturbed \subseteq disturbed'
  PROVE  CopiesInv(own)'
<1> DEFINE g == [job[j] EXCEPT !.todo = todo]
<1>1. DOMAIN job[j] = JobFields /\ DOMAIN account = Users /\ \A u \in Users : account[u] = None \/ DOMAIN account[u] = AccountFields
  BY Underway
<1>2. DOMAIN g = JobFields /\ g.todo = todo /\ g.user = job[j].user /\ g.sub = job[j].sub /\ g.rescue = job[j].rescue
  BY <1>1 DEF JobFields
<1>3. job' = [job EXCEPT ![j] = g]
  OBVIOUS
<1> HIDE DEF g
<1>4. g.sub = None \/ Owned(own, g.sub, g.user)
  BY <1>2 DEF SubOK
<1>5. DOMAIN account' = Users /\ \A u \in Users : account'[u] = None \/ DOMAIN account'[u] = AccountFields
  BY <1>1
<1>6. /\ g.todo \in Seq(Names) /\ Plain(g.todo) /\ g.rescue \in {<<>>, job[j].rescue} /\ (g.todo # <<>> => g.user = job[j].user)
      /\ DOMAIN g = JobFields
  BY <1>2
<1> QED BY <1>3, <1>4, <1>5, <1>6, OnwardKeeps

\* A decision that writes nothing.
LEMMA DecideKeeps ==
  ASSUME NEW own, CopiesInv(own), NEW d \in Desks, NEW step, step \notin Special \cup {"user", "sub"},
         NEW todo \in Seq(Names), Plain(todo), Decide(d, step, todo), UNCHANGED agenda
  PROVE  CopiesInv(own)'
<1>0. d \in Jobs
  BY JobAssumption
<1>1. /\ job[d].todo # <<>> /\ Head(job[d].todo) = step
      /\ job' = [job EXCEPT ![d] = [@ EXCEPT !.todo = todo]]
      /\ UNCHANGED <<person, subs, account, userCache, subCache, disturbed, agenda>>
  BY DEF Decide, At, Idle, stores, caches, history
<1>2. Plain(job[d].todo) /\ SubOK(own, d)
  BY <1>0, <1>1, PlainHead DEF CopiesInv
<1> QED BY <1>0, <1>1, <1>2, TodoKeeps

\* A job that went on, whatever it does to the panel.
LEMMA WentKeeps ==
  ASSUME NEW own, CopiesInv(own), NEW j \in Jobs, ~First(job[j].todo, {"clearSub", "clearUser", "refillUser"}),
         NEW r, NEW todo, Went(own, j, r, todo), ~First(todo, {"keepUser", "keepSub", "refillUser"}),
         UNCHANGED <<person, subs, userCache, subCache, agenda>>, disturbed \subseteq disturbed',
         DOMAIN account' = Users, \A u \in Users : account'[u] = None \/ DOMAIN account'[u] = AccountFields
  PROVE  CopiesInv(own)'
<1>1. JobOK(own, j)' /\ Own(j) /\ job'[j].todo = todo
  BY DEF Went
<1>2. Steady(own, j)
  BY <1>1 DEF Steady
<1> QED BY <1>2, SteadyKeeps

\* Plain awaits hold no answer and clear nothing.
LEMMA PlainFirst ==
  ASSUME NEW s \in Seq(Names), Plain(s)
  PROVE  /\ ~First(s, {"clearSub", "clearUser", "refillUser"}) /\ ~First(s, {"keepUser", "keepSub", "refillUser"})
         /\ ~StaleSub(s) /\ ~StaleUser(s)
<1>1. s # <<>> => Head(s) \notin Special
  BY RestFacts
<1> QED BY <1>1, Heads DEF First, Special

\* A job that has no more to do is an idle one.
LEMMA LastAwait ==
  ASSUME NEW r, r.todo \in Seq(Names), r.todo # <<>>, Tail(r.todo) = <<>>
  PROVE  Goes(r, <<>>) = IdleJob
<1>1. <<>> \o Tail(r.todo) = <<>>
  BY EmptyPlain, JoinFacts
<1> QED BY <1>1 DEF Goes

\* The record of a job that goes on with what it has, having written to the panel or not.
LEMMA OwnRecord ==
  ASSUME NEW own, NEW j, JobOK(own, j), job[j].todo # <<>>, SubOK(own, j), NEW wrote
  PROVE  LET r == [job[j] EXCEPT !.wrote = wrote] IN
         /\ Record(own, j, job[j]) /\ Record(own, j, r)
         /\ r.todo = job[j].todo /\ r.sub = job[j].sub /\ r.remna = job[j].remna /\ r.usr = job[j].usr /\ r.user = job[j].user
         /\ r.wrote = wrote
<1> DEFINE r == [job[j] EXCEPT !.wrote = wrote]
<1>1. DOMAIN job[j] = JobFields
  BY DEF JobOK
<1>2. /\ DOMAIN r = JobFields /\ r.todo = job[j].todo /\ r.user = job[j].user /\ r.rescue = job[j].rescue
      /\ r.sub = job[j].sub /\ r.remna = job[j].remna /\ r.usr = job[j].usr /\ r.wrote = wrote
  BY <1>1 DEF JobFields
<1> HIDE DEF r
<1>3. Record(own, j, job[j]) /\ Record(own, j, r)
  BY <1>1, <1>2 DEF Record, SubOK
<1> QED BY <1>2, <1>3 DEF r

\* A job that goes on to the rest of its plain awaits.
LEMMA ContinueKeeps ==
  ASSUME NEW own, CopiesInv(own), NEW j \in Jobs, job[j].todo # <<>>, Plain(job[j].todo),
         NEW r, Record(own, j, r), job' = [job EXCEPT ![j] = Goes(r, <<>>)],
         UNCHANGED <<person, subs, userCache, subCache, agenda>>, disturbed \subseteq disturbed',
         DOMAIN account' = Users, \A u \in Users : account'[u] = None \/ DOMAIN account'[u] = AccountFields
  PROVE  CopiesInv(own)'
<1>1. /\ DOMAIN job = Jobs /\ JobOK(own, j) /\ DOMAIN job[j] = JobFields /\ job[j].todo \in Seq(Names)
      /\ Tail(job[j].todo) \in Seq(Names) /\ Plain(Tail(job[j].todo))
  BY Underway
<1>2. r.todo = job[j].todo /\ Suits(r, Tail(r.todo))
  BY <1>1 DEF Record, Suits, Free
<1>3. Went(own, j, r, Tail(r.todo))
  BY <1>1, <1>2, ContinueOK
<1>4. ~First(job[j].todo, {"clearSub", "clearUser", "refillUser"}) /\ ~First(Tail(r.todo), {"keepUser", "keepSub", "refillUser"})
  BY <1>1, <1>2, PlainFirst
<1> QED BY <1>3, <1>4, WentKeeps

\* What is shown while a handler works is a window.
LEMMA WindowKnown ==
  ASSUME DeskInv, NEW d \in Desks, job[d].todo # <<>>,
         Head(job[d].todo) \notin {"user", "keepUser", "sub", "keepSub", "MAIN", "MENU"}
  PROVE  desk[d].win \in Windows /\ Again(d) \in Seq(Names) /\ Plain(Again(d))
<1>1. Head(<<"MENU">>) = "MENU"
  OBVIOUS
<1>2. ~Opening(job[d].todo)
  BY <1>1 DEF Opening, OpenMain, OpenSub, OpenUser, First
<1>3. desk[d].win \in Windows
  BY <1>2 DEF DeskInv
<1> QED BY <1>3, RenderFacts DEF Again

\* What a handler at an ordinary await is.
LEMMA AtPlain ==
  ASSUME NEW own, CopiesInv(own), NEW d \in Desks, NEW step, At(d, step), step \notin Special \cup {"user", "sub"}
  PROVE  /\ d \in Jobs /\ job[d].todo # <<>> /\ Head(job[d].todo) = step /\ Plain(job[d].todo) /\ SubOK(own, d)
         /\ job[d].user = Target[d] /\ Target[d] \in Users
         /\ Tail(job[d].todo) \in Seq(Names) /\ Plain(Tail(job[d].todo)) /\ job[d].todo \in Seq(Names)
         /\ DOMAIN job[d] = JobFields /\ DOMAIN job = Jobs /\ JobOK(own, d)
         /\ DOMAIN account = Users /\ \A v \in Users : account[v] = None \/ DOMAIN account[v] = AccountFields
         /\ job[d].sub = None \/ Owned(own, job[d].sub, Target[d])
         /\ ~StaleSub(job[d].todo) /\ ~StaleUser(job[d].todo)
<1>1. d \in Jobs /\ job[d].todo # <<>> /\ Head(job[d].todo) = step
  BY JobAssumption DEF At, Idle
<1>2. Plain(job[d].todo) /\ SubOK(own, d)
  BY <1>1, PlainHead DEF CopiesInv
<1>3. /\ job[d].user = Target[d] /\ Target[d] \in Users /\ job[d].todo \in Seq(Names)
      /\ Tail(job[d].todo) \in Seq(Names) /\ Plain(Tail(job[d].todo))
      /\ DOMAIN job[d] = JobFields /\ DOMAIN job = Jobs /\ JobOK(own, d)
      /\ DOMAIN account = Users /\ \A v \in Users : account[v] = None \/ DOMAIN account[v] = AccountFields
  BY <1>1, <1>2, Underway
<1> QED BY <1>1, <1>2, <1>3, PlainFirst DEF SubOK

\* A window is shown, or cannot be; the main menu is.
LEMMA ShowKeeps ==
  ASSUME NEW own, CopiesInv(own), NEW d \in Desks, Show(d) \/ Menu(d), UNCHANGED agenda
  PROVE  CopiesInv(own)'
<1>0. d \in Jobs
  BY JobAssumption
<1>1. CASE Show(d)
  <2> DEFINE w == Head(job[d].todo)
  <2>1. w \in Windows /\ At(d, w) /\ w \notin Special \cup {"user", "sub"}
    BY <1>1, RenderFacts DEF Show, At
  <2>2. UNCHANGED <<person, subs, account, userCache, subCache, agenda>>
    BY <1>1 DEF Show, stores, caches
  <2>3. /\ job[d].todo # <<>> /\ Plain(job[d].todo) /\ SubOK(own, d) /\ DOMAIN job = Jobs
        /\ DOMAIN account = Users /\ \A v \in Users : account[v] = None \/ DOMAIN account[v] = AccountFields
    BY <2>1, AtPlain
  <2>4. CASE Raise(d)
    BY <1>0, <2>2, <2>3, <2>4, RaiseSteady, SteadyKeeps
  <2>5. CASE Continue(d) /\ Undisturbed
    <3>1. Record(own, d, job[d]) /\ job' = [job EXCEPT ![d] = Goes(job[d], <<>>)]
      BY <2>1, <2>3, <2>5, AtPlain, OwnRecord DEF Continue
    <3> QED BY <1>0, <2>2, <2>3, <2>5, <3>1, ContinueKeeps DEF Undisturbed
  <2> QED BY <1>1, <2>4, <2>5 DEF Show
<1>2. CASE Menu(d)
  <2>1. /\ job[d].todo # <<>> /\ Head(job[d].todo) = "MENU" /\ job' = [job EXCEPT ![d] = Goes(job[d], <<>>)]
        /\ UNCHANGED <<person, subs, account, userCache, subCache, disturbed, agenda>>
    BY <1>2 DEF Menu, Continue, At, Idle, stores, caches, history
  <2>2. /\ JobOK(own, d) /\ DOMAIN job[d] = JobFields /\ job[d].todo \in Seq(Names)
        /\ DOMAIN account = Users /\ \A v \in Users : account[v] = None \/ DOMAIN account[v] = AccountFields
    BY <1>0, <2>1, Underway
  <2>3. Tail(job[d].todo) = <<>>
    <3>1. job[d].todo = <<"MENU">>
      BY <2>1, <2>2, SpecialHeads
    <3> QED BY <3>1
  <2>4. Goes(job[d], <<>>) = IdleJob
    BY <2>1, <2>2, <2>3, LastAwait
  <2>5. DOMAIN IdleJob = JobFields /\ IdleJob.todo = <<>> /\ IdleJob.rescue = <<>> /\ IdleJob.sub = None
    BY DEF IdleJob, JobFields
  <2>6. job' = [job EXCEPT ![d] = IdleJob] /\ ~First(job[d].todo, {"clearSub", "clearUser", "refillUser"})
    BY <2>1, <2>4 DEF First
  <2>7. Steady(own, d)
    BY <1>0, <2>1, <2>2, <2>5, <2>6, EmptyPlain, OnwardSteady
  <2> QED BY <1>0, <2>7, SteadyKeeps
<1> QED BY <1>1, <1>2
-----------------------------------------------------------------------------
(* Decisions of a handler                                                  *)

\* An exception where nothing else changes.
LEMMA RaiseKeeps ==
  ASSUME NEW own, CopiesInv(own), NEW j \in Jobs, job[j].todo # <<>>, Raise(j),
         UNCHANGED <<person, subs, account, userCache, subCache, agenda>>
  PROVE  CopiesInv(own)'
<1>1. Steady(own, j)
  BY RaiseSteady
<1> QED BY <1>1, SteadyKeeps

\* At an await of a handler: what the window shown next reads.
LEMMA NextWindow ==
  ASSUME DeskInv, NEW d \in Desks, NEW step, At(d, step),
         step \notin {"user", "keepUser", "sub", "keepSub", "MAIN", "MENU"}
  PROVE  /\ Again(d) \in Seq(Names) /\ Plain(Again(d))
         /\ \A w \in {"MAIN", "SUBSCRIPTION", "DEVICES_LIST", "SYNC", "GIVE_SUBSCRIPTION", "GIVE_ACCESS"} :
               Render(w) \in Seq(Names) /\ Plain(Render(w))
<1>1. job[d].todo # <<>> /\ Head(job[d].todo) = step
  BY DEF At, Idle
<1>2. Again(d) \in Seq(Names) /\ Plain(Again(d))
  BY <1>1, WindowKnown
<1>3. {"MAIN", "SUBSCRIPTION", "DEVICES_LIST", "SYNC", "GIVE_SUBSCRIPTION", "GIVE_ACCESS"} \subseteq Windows
  BY GetterFacts, Zenon
<1> QED BY <1>2, <1>3, RenderFacts

\* Handlers that ask what to show next.
LEMMA AskKeeps ==
  ASSUME NEW own, CopiesInv(own), DeskInv, NEW d \in Desks, UNCHANGED agenda,
         WhetherSub(d) \/ Reset(d) \/ Devices(d) \/ Matching(d) \/ OfferPlans(d) \/ OfferAccess(d)
  PROVE  CopiesInv(own)'
<1>0. d \in Jobs
  BY JobAssumption
<1>1. CASE WhetherSub(d)
  <2>1. At(d, "whether")
    BY <1>1 DEF WhetherSub, Decide
  <2> DEFINE t == IF job[d].sub = None THEN Again(d) ELSE Render("SUBSCRIPTION")
  <2>2. t \in Seq(Names) /\ Plain(t)
    BY <2>1, NextWindow
  <2>3. Decide(d, "whether", t)
    BY <1>1 DEF WhetherSub
  <2> HIDE DEF t
  <2>4. "whether" \notin Special \cup {"user", "sub"}
    BY DEF Special
  <2> QED BY <2>2, <2>3, <2>4, DecideKeeps
<1>2. CASE Reset(d)
  <2>1. At(d, "reset") /\ "reset" \notin Special \cup {"user", "sub"}
    BY <1>2 DEF Reset, Special
  <2>2. Again(d) \in Seq(Names) /\ Plain(Again(d)) /\ job[d].todo # <<>>
    BY <2>1, NextWindow DEF At, Idle
  <2>3. CASE Raise(d) /\ UNCHANGED <<stores, caches, due, faults>>
    BY <1>0, <2>2, <2>3, RaiseKeeps DEF stores, caches
  <2>4. CASE Decide(d, "reset", Again(d))
    BY <2>1, <2>2, <2>4, DecideKeeps
  <2> QED BY <1>2, <2>3, <2>4 DEF Reset
<1>3. CASE Devices(d)
  <2>1. At(d, "devices") /\ "devices" \notin Special \cup {"user", "sub"}
    BY <1>3 DEF Devices, Special
  <2> DEFINE t == IF job[d].usr.account = None \/ account[Target[d]].devices = 0 THEN Again(d) ELSE Render("DEVICES_LIST")
  <2>2. t \in Seq(Names) /\ Plain(t) /\ job[d].todo # <<>>
    BY <2>1, NextWindow DEF At, Idle
  <2> HIDE DEF t
  <2>3. CASE Raise(d) /\ UNCHANGED <<stores, caches, due, faults>>
    BY <1>0, <2>2, <2>3, RaiseKeeps DEF stores, caches
  <2>4. CASE Decide(d, "devices", t)
    BY <2>1, <2>2, <2>4, DecideKeeps
  <2> QED BY <1>3, <2>3, <2>4 DEF Devices, t
<1>4. CASE Matching(d)
  <2> DEFINE s == job[d].sub
             a == account[Target[d]]
             t == IF (s = None /\ a = None) \/ Match(s, a) THEN Again(d) ELSE Render("SYNC")
  <2>1. Decide(d, "match", t)
    BY <1>4 DEF Matching
  <2>2. At(d, "match") /\ "match" \notin Special \cup {"user", "sub"}
    BY <2>1 DEF Decide, Special
  <2>3. t \in Seq(Names) /\ Plain(t)
    BY <2>2, NextWindow
  <2> HIDE DEF t
  <2> QED BY <2>1, <2>2, <2>3, DecideKeeps
<1>5. CASE OfferPlans(d)
  <2>1. PICK w \in {"MAIN", "GIVE_SUBSCRIPTION"} : Decide(d, "plans", Render(w))
    BY <1>5 DEF OfferPlans
  <2>2. At(d, "plans") /\ "plans" \notin Special \cup {"user", "sub"}
    BY <2>1 DEF Decide, Special
  <2>3. Render(w) \in Seq(Names) /\ Plain(Render(w))
    BY <2>2, NextWindow
  <2> QED BY <2>1, <2>2, <2>3, DecideKeeps
<1>6. CASE OfferAccess(d)
  <2>1. PICK w \in {"MAIN", "GIVE_ACCESS"} : Decide(d, "access", Render(w))
    BY <1>6 DEF OfferAccess
  <2>2. At(d, "access") /\ "access" \notin Special \cup {"user", "sub"}
    BY <2>1 DEF Decide, Special
  <2>3. Render(w) \in Seq(Names) /\ Plain(Render(w))
    BY <2>2, NextWindow
  <2> QED BY <2>1, <2>2, <2>3, DecideKeeps
<1> QED BY <1>1, <1>2, <1>3, <1>4, <1>5, <1>6

\* The message: shown again, armed or sent.
LEMMA SendKeeps ==
  ASSUME NEW own, CopiesInv(own), DeskInv, NEW d \in Desks, Send(d), UNCHANGED agenda
  PROVE  CopiesInv(own)'
<1>0. d \in Jobs
  BY JobAssumption
<1>1. At(d, "send") /\ "send" \notin Special \cup {"user", "sub"}
  BY DEF Send, Special
<1>2. /\ Again(d) \in Seq(Names) /\ Plain(Again(d)) /\ Render("MAIN") \in Seq(Names) /\ Plain(Render("MAIN"))
  BY <1>1, NextWindow
<1>3. \/ Decide(d, "send", Again(d)) \/ Arm(d, "message") \/ Decide(d, "send", Render("MAIN"))
  BY DEF Send
<1>4. CASE Decide(d, "send", Again(d)) \/ Decide(d, "send", Render("MAIN"))
  BY <1>1, <1>2, <1>4, DecideKeeps
<1>5. CASE Arm(d, "message")
  <2>1. /\ job' = [job EXCEPT ![d] = [@ EXCEPT !.todo = Again(d)]]
        /\ UNCHANGED <<person, subs, account, userCache, subCache, disturbed, agenda>>
    BY <1>5 DEF Arm, stores, caches, history
  <2>2. Plain(job[d].todo) /\ job[d].todo # <<>> /\ SubOK(own, d)
    BY <1>1, AtPlain
  <2> QED BY <1>0, <1>2, <2>1, <2>2, TodoKeeps
<1> QED BY <1>3, <1>4, <1>5
-----------------------------------------------------------------------------
(* Edits of the user and of the subscription                               *)

\* The copy, changed, is written to billing and kept.
LEMMA BillKeeps ==
  ASSUME NEW own, CopiesInv(own), NEW j \in Jobs, job[j].todo # <<>>, ~StaleSub(job[j].todo), ~StaleUser(job[j].todo),
         Plain(Tail(job[j].todo)), Owned(own, job[j].sub, job[j].user), NEW new, NEW changed,
         new.id = job[j].sub.id, DOMAIN new = SubFields, BillSub(j, new, changed, <<>>), UNCHANGED agenda
  PROVE  CopiesInv(own)'
<1> DEFINE e == <<>>
<1>1. PICK u : u = job[j].user
  OBVIOUS
<1>2. Tail(job[j].todo) \in Seq(Names)
  BY Underway
<1>3. e \in Seq(Names) /\ e \o Tail(job[j].todo) = Tail(job[j].todo) /\ BillSubKeeping(j, new, changed, new, e)
  BY <1>2, JoinFacts, EmptyPlain DEF BillSub
<1> HIDE DEF e
<1>4. Plain(e \o Tail(job[j].todo))
  BY <1>3
<1> QED BY <1>1, <1>3, <1>4, BillSubKeeps, Zenon

\* What an administrator edits leaves the subscription its identifier.
LEMMA EditedFacts ==
  ASSUME NEW s, DOMAIN s = SubFields, NEW ask
  PROVE  DOMAIN Edited(s, ask) = SubFields /\ Edited(s, ask).id = s.id
<1>1. CASE ask.field \in {"internal_squads", "external_squad"}
  BY <1>1 DEF Edited, SubFields
<1>2. CASE ask.field = "days"
  BY <1>2 DEF Edited, SubFields
<1>3. CASE ask.field \in Limits \ {"internal_squads", "external_squad"}
  BY <1>3 DEF Edited, SubFields, Limits
<1>4. CASE ask.field \notin Limits \cup {"days"}
  BY <1>4 DEF Edited, SubFields, Limits
<1> QED BY <1>1, <1>2, <1>3, <1>4

\* The user's field is written to billing, or the typed value is refused.
LEMMA SetUserKeeps ==
  ASSUME NEW own, CopiesInv(own), DeskInv, NEW d \in Desks, SetUser(d), UNCHANGED agenda
  PROVE  CopiesInv(own)'
<1>1. At(d, "set") /\ "set" \notin Special \cup {"user", "sub"}
  BY DEF SetUser, Special
<1>2. d \in Jobs /\ job[d].todo # <<>> /\ Plain(job[d].todo) /\ SubOK(own, d) /\ Again(d) \in Seq(Names) /\ Plain(Again(d))
  BY <1>1, AtPlain, NextWindow
<1> DEFINE ask == job[d].ask
           usr == job[d].usr
<1>3. PICK u : u = job[d].user
  OBVIOUS
<1>4. CASE ask.field = "blocked"
  <2>1. PICK v : v = ~usr.blocked
    OBVIOUS
  <2>2. BillUser(d, "blocked", v, <<"clearUser">>)
    BY <1>4, <2>1 DEF SetUser, BillUser
  <2> QED BY <1>2, <1>3, <2>2, BillUserKeeps, Zenon
<1>5. CASE ask.field = "role"
  <2>1. PICK v : v = ask.to
    OBVIOUS
  <2>2. BillUser(d, "role", v, <<"clearUser">>)
    BY <1>5, <2>1 DEF SetUser, BillUser
  <2> QED BY <1>2, <1>3, <2>2, BillUserKeeps, Zenon
<1>6. CASE ask.field = "discount"
  <2>1. PICK v : v = ask.to
    OBVIOUS
  <2>2. BillUser(d, "discount", v, <<"refillUser">>)
    BY <1>6, <2>1 DEF SetUser, BillUser
  <2> QED BY <1>2, <1>3, <2>2, BillUserKeeps, Zenon
<1>7. CASE ask.field = "points" /\ usr.points + ask.to >= 0
  <2>1. PICK v : v = usr.points + ask.to
    OBVIOUS
  <2>2. BillUser(d, "points", v, <<"refillUser">>)
    BY <1>7, <2>1 DEF SetUser, BillUser
  <2> QED BY <1>2, <1>3, <2>2, BillUserKeeps, Zenon
<1>8. CASE ask.field \notin {"blocked", "role", "discount"} /\ ~(ask.field = "points" /\ usr.points + ask.to >= 0)
  <2>1. Decide(d, "set", Again(d))
    BY <1>8 DEF SetUser
  <2> QED BY <1>1, <1>2, <2>1, DecideKeeps
<1> QED BY <1>4, <1>5, <1>6, <1>7, <1>8

\* A limit, the squads or the day are written to billing.
LEMMA EditKeeps ==
  ASSUME NEW own, CopiesInv(own), DeskInv, NEW d \in Desks, Edit(d), UNCHANGED agenda
  PROVE  CopiesInv(own)'
<1>1. At(d, "edit") /\ "edit" \notin Special \cup {"user", "sub"}
  BY DEF Edit, Special
<1>2. /\ d \in Jobs /\ job[d].todo # <<>> /\ Plain(job[d].todo) /\ Plain(Tail(job[d].todo)) /\ job[d].user = Target[d]
      /\ job[d].sub = None \/ Owned(own, job[d].sub, Target[d])
      /\ ~StaleSub(job[d].todo) /\ ~StaleUser(job[d].todo)
  BY <1>1, AtPlain
<1>3. Again(d) \in Seq(Names) /\ Plain(Again(d))
  BY <1>1, NextWindow
<1>4. CASE job[d].sub = None
  <2>1. Raise(d) /\ UNCHANGED <<stores, caches, due, faults>>
    BY <1>4 DEF Edit
  <2> QED BY <1>2, <2>1, RaiseKeeps DEF stores, caches
<1>5. CASE job[d].sub # None
  <2> DEFINE new == Edited(job[d].sub, job[d].ask)
  <2>1. Decide(d, "edit", Again(d)) \/ BillSub(d, new, {job[d].ask.field}, <<>>)
    BY <1>5 DEF Edit
  <2>2. CASE Decide(d, "edit", Again(d))
    BY <1>1, <1>3, <2>2, DecideKeeps
  <2>3. CASE BillSub(d, new, {job[d].ask.field}, <<>>)
    <3>1. Owned(own, job[d].sub, job[d].user) /\ DOMAIN job[d].sub = SubFields
      BY <1>2, <1>5 DEF Owned
    <3>2. DOMAIN new = SubFields /\ new.id = job[d].sub.id
      BY <3>1, EditedFacts
    <3> HIDE DEF new
    <3> QED BY <1>2, <2>3, <3>1, <3>2, BillKeeps
  <2> QED BY <2>1, <2>2, <2>3
<1> QED BY <1>4, <1>5

\* The panel's status is toggled, then billing's.
LEMMA ToggleKeeps ==
  ASSUME NEW own, CopiesInv(own), NEW d \in Desks, Toggle(d) \/ BillStatus(d), UNCHANGED agenda
  PROVE  CopiesInv(own)'
<1>0. d \in Jobs
  BY JobAssumption
<1>1. CASE Toggle(d)
  <2> DEFINE s == job[d].todo
  <2>1. s # <<>> /\ Head(s) = "toggle" /\ UNCHANGED <<person, subs, userCache, subCache, agenda>>
    BY <1>1 DEF Toggle, At, Idle, caches
  <2>2. /\ DOMAIN job = Jobs /\ JobOK(own, d) /\ job[d].user = Target[d] /\ Target[d] \in Users
        /\ DOMAIN account = Users /\ \A v \in Users : account[v] = None \/ DOMAIN account[v] = AccountFields
    BY <1>0, <2>1, Underway
  <2>3. ToggleStatus(s) /\ SubOK(own, d)
    BY <2>1, <2>2, SpecialHeads
  <2>4. CASE Raise(d) /\ UNCHANGED account
    BY <1>0, <2>1, <2>4, RaiseKeeps
  <2>5. CASE /\ job[d].sub # None /\ Reachable(Target[d], job[d].sub.account)
             /\ account' = [account EXCEPT ![Target[d]].status = PanelStatus(Toggled(job[d].sub), account[Target[d]].days)]
             /\ job' = [job EXCEPT ![d] = Goes([@ EXCEPT !.wrote = TRUE], <<>>)]
             /\ Disturb(d, Target[d])
    <3> DEFINE r == [job[d] EXCEPT !.wrote = TRUE]
    <3>1. Record(own, d, r) /\ r.todo = s /\ r.sub = job[d].sub
      BY <2>1, <2>2, <2>3, OwnRecord
    <3>2. job' = [job EXCEPT ![d] = Goes(r, <<>>)]
      BY <2>5
    <3> HIDE DEF r
    <3>3. Suits(r, Tail(r.todo))
      BY <2>3, <2>5, <3>1 DEF Suits, ToggleStatus
    <3>4. Went(own, d, r, Tail(r.todo))
      BY <1>0, <2>1, <2>2, <3>1, <3>2, <3>3, ContinueOK
    <3>5. ~First(s, {"clearSub", "clearUser", "refillUser"}) /\ ~First(Tail(r.todo), {"keepUser", "keepSub", "refillUser"})
      BY <2>1, <2>3, <3>1 DEF ToggleStatus, StatusOnly, First
    <3>6. DOMAIN account' = Users /\ \A v \in Users : account'[v] = None \/ DOMAIN account'[v] = AccountFields
      BY <2>2, <2>5 DEF Reachable
    <3>7. disturbed \subseteq disturbed'
      BY <2>5 DEF Disturb
    <3> QED BY <1>0, <2>1, <3>4, <3>5, <3>6, <3>7, WentKeeps
  <2> QED BY <1>1, <2>4, <2>5 DEF Toggle
<1>2. CASE BillStatus(d)
  <2> DEFINE s == job[d].todo
             new == [job[d].sub EXCEPT !.status = Toggled(job[d].sub)]
  <2>1. s # <<>> /\ Head(s) = "status" /\ BillSub(d, new, {"status"}, <<>>)
    BY <1>2 DEF BillStatus, At, Idle
  <2>2. JobOK(own, d)
    BY <1>0, <2>1, Underway
  <2>3. StatusOnly(s) /\ Owned(own, job[d].sub, job[d].user)
    BY <2>1, <2>2, SpecialHeads
  <2>4. Plain(Tail(s)) /\ ~StaleSub(s) /\ ~StaleUser(s)
    BY <2>1, <2>3, Heads DEF StatusOnly, First
  <2>5. DOMAIN new = SubFields /\ new.id = job[d].sub.id
    BY <2>3 DEF Owned, SubFields
  <2> HIDE DEF new
  <2> QED BY <1>0, <2>1, <2>3, <2>4, <2>5, BillKeeps
<1> QED BY <1>1, <1>2
-----------------------------------------------------------------------------
(* Devices, the deletion and the synchronisation                           *)

\* A handler that removes a device from the panel and shows what is left.
LEMMA UnlinkKeeps ==
  ASSUME NEW own, CopiesInv(own), NEW d \in Desks, Unlink(d), UNCHANGED agenda
  PROVE  CopiesInv(own)'
<1>1. At(d, "unlink") /\ "unlink" \notin Special \cup {"user", "sub"}
  BY DEF Unlink, Special
<1>2. /\ d \in Jobs /\ job[d].todo # <<>> /\ Plain(job[d].todo) /\ SubOK(own, d) /\ DOMAIN job[d] = JobFields
      /\ job[d].user = Target[d] /\ DOMAIN account = Users
      /\ \A v \in Users : account[v] = None \/ DOMAIN account[v] = AccountFields
  BY <1>1, AtPlain
<1>3. UNCHANGED <<person, subs, userCache, subCache, agenda>>
  BY DEF Unlink, caches
<1>4. CASE Raise(d) /\ UNCHANGED account
  BY <1>2, <1>3, <1>4, RaiseKeeps
<1>5. CASE /\ ~(job[d].usr.account # None /\ (~Reachable(Target[d], job[d].usr.account) \/ account[Target[d]].devices = 0))
           /\ account' = IF job[d].usr.account = None THEN account ELSE [account EXCEPT ![Target[d]].devices = @ - 1]
           /\ \E w \in {"DEVICES_LIST", "SUBSCRIPTION"} : job' = [job EXCEPT ![d].todo = Render(w)]
           /\ Undisturbed
  <2>1. PICK w \in {"DEVICES_LIST", "SUBSCRIPTION"} : job' = [job EXCEPT ![d].todo = Render(w)]
    BY <1>5
  <2> DEFINE g == [job[d] EXCEPT !.todo = Render(w)]
  <2>2. Render(w) \in Seq(Names) /\ Plain(Render(w))
    <3>1. w \in Windows
      BY GetterFacts, Zenon
    <3> QED BY <3>1, RenderFacts
  <2>3. job' = [job EXCEPT ![d] = g]
    BY <2>1
  <2>4. DOMAIN g = JobFields /\ g.todo = Render(w) /\ g.rescue = job[d].rescue /\ g.user = job[d].user /\ g.sub = job[d].sub
    BY <1>2 DEF JobFields
  <2> HIDE DEF g
  <2>5. g.sub = None \/ Owned(own, g.sub, g.user)
    BY <1>2, <2>4 DEF SubOK
  <2>6. DOMAIN account' = Users /\ \A v \in Users : account'[v] = None \/ DOMAIN account'[v] = AccountFields
    BY <1>2, <1>5 DEF Reachable
  <2>7. /\ g.todo \in Seq(Names) /\ Plain(g.todo) /\ g.rescue \in {<<>>, job[d].rescue} /\ (g.todo # <<>> => g.user = job[d].user)
        /\ disturbed \subseteq disturbed'
    BY <1>5, <2>2, <2>4 DEF Undisturbed
  <2> QED BY <1>2, <1>3, <2>3, <2>4, <2>5, <2>6, <2>7, OnwardKeeps
<1> QED BY <1>4, <1>5 DEF Unlink

\* The awaits of a deletion.
LEMMA DeletionFacts ==
  ASSUME NEW s \in Seq(Names), NEW t \in Seq(Names), Plain(s), Plain(t)
  PROVE  Deletion \o s \in Seq(Names) /\ DropU((Deletion \o s) \o t)
<1> DEFINE m == s \o t
<1>1. m \in Seq(Names) /\ Plain(m)
  BY JoinFacts
<1>2. "drop" \in Names /\ "clearUser" \in Names /\ "remove" \in Names /\ "remove" \notin Special
  BY DEF Names, Special, Ordinary
<1>3. Deletion \in Seq(Names)
  BY <1>2 DEF Deletion
<1>4. Deletion \o s \in Seq(Names) /\ (Deletion \o s) \o t = Deletion \o m
  BY <1>3, JoinFacts
<1> HIDE DEF m
<1>5. Deletion \o m = <<"drop">> \o (<<"clearUser">> \o (<<"remove">> \o m))
  BY <1>1, <1>2, StepByStep DEF Deletion
<1> DEFINE x == <<"remove">> \o m
<1>6. x \in Seq(Names) /\ x # <<>> /\ Head(x) = "remove" /\ Tail(x) = m
  BY <1>1, <1>2, ConsFacts
<1> HIDE DEF x
<1>7. Plain(x)
  BY <1>1, <1>2, <1>6, RestFacts
<1> DEFINE y == <<"clearUser">> \o x
<1>8. y \in Seq(Names) /\ y # <<>> /\ Head(y) = "clearUser" /\ Tail(y) = x
  BY <1>2, <1>6, ConsFacts
<1> HIDE DEF y
<1> DEFINE z == <<"drop">> \o y
<1>9. z \in Seq(Names) /\ z # <<>> /\ Head(z) = "drop" /\ Tail(z) = y
  BY <1>2, <1>8, ConsFacts
<1> HIDE DEF z
<1>10. DropU(z)
  BY <1>7, <1>8, <1>9 DEF DropU, ClearU, First
<1>11. z = (Deletion \o s) \o t
  BY <1>4, <1>5 DEF x, y, z
<1> QED BY <1>4, <1>10, <1>11

\* The subscription is deleted if the second press is quick enough.
LEMMA ConfirmKeeps ==
  ASSUME NEW own, CopiesInv(own), DeskInv, NEW d \in Desks, ConfirmDelete(d), UNCHANGED agenda
  PROVE  CopiesInv(own)'
<1>1. At(d, "confirm") /\ "confirm" \notin Special \cup {"user", "sub"}
  BY DEF ConfirmDelete, Special
<1>2. /\ d \in Jobs /\ job[d].todo # <<>> /\ Plain(job[d].todo) /\ SubOK(own, d) /\ Plain(Tail(job[d].todo))
      /\ job[d].user = Target[d] /\ (job[d].sub = None \/ Owned(own, job[d].sub, Target[d]))
      /\ ~StaleSub(job[d].todo) /\ ~StaleUser(job[d].todo) /\ Tail(job[d].todo) \in Seq(Names)
  BY <1>1, AtPlain
<1>3. Again(d) \in Seq(Names) /\ Plain(Again(d)) /\ Render("MAIN") \in Seq(Names) /\ Plain(Render("MAIN"))
  BY <1>1, NextWindow
<1>4. CASE Raise(d) /\ UNCHANGED <<stores, caches, due, faults, desk>>
  BY <1>2, <1>4, RaiseKeeps DEF stores, caches
<1>5. CASE Arm(d, "delete")
  <2>1. /\ job' = [job EXCEPT ![d] = [@ EXCEPT !.todo = Again(d)]]
        /\ UNCHANGED <<person, subs, account, userCache, subCache, disturbed, agenda>>
    BY <1>5 DEF Arm, stores, caches, history
  <2> QED BY <1>2, <1>3, <2>1, TodoKeeps
<1>6. CASE /\ job[d].sub # None
           /\ BillSub(d, [job[d].sub EXCEPT !.status = "DELETED"], {"status"}, Deletion \o Render("MAIN"))
  <2> DEFINE new == [job[d].sub EXCEPT !.status = "DELETED"]
             more == Deletion \o Render("MAIN")
  <2>1. more \in Seq(Names) /\ DropU(more \o Tail(job[d].todo))
    BY <1>2, <1>3, DeletionFacts
  <2>2. Owned(own, job[d].sub, job[d].user)
    BY <1>2, <1>6
  <2>3. DOMAIN new = SubFields /\ new.id = job[d].sub.id
    BY <2>2 DEF Owned, SubFields
  <2>4. BillSubKeeping(d, new, {"status"}, new, more)
    BY <1>6 DEF BillSub
  <2>5. PICK u : u = job[d].user
    OBVIOUS
  <2> HIDE DEF new, more
  <2> QED BY <1>2, <2>1, <2>2, <2>3, <2>4, <2>5, BillSubKeeps, Zenon
<1> QED BY <1>4, <1>5, <1>6 DEF ConfirmDelete

\* The account is removed from the panel.
LEMMA RemoveKeeps ==
  ASSUME NEW own, CopiesInv(own), NEW d \in Desks, Remove(d), UNCHANGED agenda
  PROVE  CopiesInv(own)'
<1>1. At(d, "remove") /\ "remove" \notin Special \cup {"user", "sub"}
  BY DEF Remove, Special
<1>2. /\ d \in Jobs /\ job[d].todo # <<>> /\ Plain(job[d].todo) /\ SubOK(own, d) /\ JobOK(own, d)
      /\ DOMAIN account = Users /\ \A v \in Users : account[v] = None \/ DOMAIN account[v] = AccountFields
  BY <1>1, AtPlain
<1>3. UNCHANGED <<person, subs, userCache, subCache, agenda>>
  BY DEF Remove, caches
<1>4. CASE Raise(d) /\ UNCHANGED account
  BY <1>2, <1>3, <1>4, RaiseKeeps
<1>5. CASE /\ account' = [account EXCEPT ![Target[d]] = None]
           /\ job' = [job EXCEPT ![d] = Goes([@ EXCEPT !.wrote = TRUE], <<>>)]
           /\ Disturb(d, Target[d])
  <2> DEFINE r == [job[d] EXCEPT !.wrote = TRUE]
  <2>1. Record(own, d, r)
    BY <1>2, OwnRecord
  <2>2. job' = [job EXCEPT ![d] = Goes(r, <<>>)]
    BY <1>5
  <2> HIDE DEF r
  <2>3. DOMAIN account' = Users /\ \A v \in Users : account'[v] = None \/ DOMAIN account'[v] = AccountFields
    BY <1>2, <1>5
  <2>4. disturbed \subseteq disturbed'
    BY <1>5 DEF Disturb
  <2> QED BY <1>2, <1>3, <2>1, <2>2, <2>3, <2>4, ContinueKeeps
<1> QED BY <1>4, <1>5 DEF Remove
\* The awaits of a synchronisation, before the rest of a handler.
LEMMA SyncFacts ==
  ASSUME NEW s \in Seq(Names), Plain(s)
  PROVE  /\ SyncUser \in Seq(Names) /\ SyncUser \o s \in Seq(Names) /\ SyncUser \o s # <<>>
         /\ UserApply(SyncUser \o s) /\ ~First(SyncUser \o s, {"keepUser", "keepSub", "refillUser"})
         /\ <<"restore">> \o SyncUser \in Seq(Names) /\ RestoreApply((<<"restore">> \o SyncUser) \o s)
<1>1. "user" \in Names /\ "sub" \in Names /\ "apply" \in Names /\ "restore" \in Names
  BY DEF Names, Special, Ordinary
<1>2. SyncUser \in Seq(Names) /\ <<"restore">> \in Seq(Names)
  BY <1>1 DEF SyncUser
<1>3. SyncUser \o s = <<"user">> \o (<<"sub">> \o (<<"apply">> \o s))
  BY <1>1, StepByStep DEF SyncUser
<1> DEFINE x == <<"apply">> \o s
<1>4. x \in Seq(Names) /\ x # <<>> /\ Head(x) = "apply" /\ Tail(x) = s
  BY <1>1, ConsFacts
<1> HIDE DEF x
<1> DEFINE y == <<"sub">> \o x
<1>5. y \in Seq(Names) /\ y # <<>> /\ Head(y) = "sub" /\ Tail(y) = x
  BY <1>1, <1>4, ConsFacts
<1> HIDE DEF y
<1> DEFINE z == <<"user">> \o y
<1>6. z \in Seq(Names) /\ z # <<>> /\ Head(z) = "user" /\ Tail(z) = y
  BY <1>1, <1>5, ConsFacts
<1> HIDE DEF z
<1>7. z = SyncUser \o s
  BY <1>3 DEF x, y, z
<1>8. UserApply(z) /\ ~First(z, {"keepUser", "keepSub", "refillUser"})
  BY <1>4, <1>5, <1>6 DEF UserApply, SubApply, ApplyOnly, First
<1> DEFINE w == <<"restore">> \o z
<1>9. w \in Seq(Names) /\ w # <<>> /\ Head(w) = "restore" /\ Tail(w) = z
  BY <1>1, <1>6, ConsFacts
<1> HIDE DEF w
<1>10. w = (<<"restore">> \o SyncUser) \o s
  BY <1>2, <1>7, JoinFacts DEF w
<1>11. RestoreApply(w)
  BY <1>6, <1>8, <1>9 DEF RestoreApply, First
<1>12. <<"restore">> \o SyncUser \in Seq(Names)
  BY <1>2, JoinFacts
<1> QED BY <1>2, <1>6, <1>7, <1>8, <1>10, <1>11, <1>12

\* A job that goes on with an account or a subscription in hand.
Handed(own, r) ==
    \/ (Free(r.todo) \/ (Applying(r.todo) /\ DOMAIN r.remna = AccountFields)) /\ (r.sub = None \/ Owned(own, r.sub, r.user))
    \/ CreateOnly(r.todo) /\ DOMAIN r.sub = SubFields
LEMMA HandsKeep ==
  ASSUME NEW own, CopiesInv(own), NEW j \in Jobs, job[j].todo # <<>>,
         ~First(job[j].todo, {"clearSub", "clearUser", "refillUser"}),
         NEW r, job' = [job EXCEPT ![j] = r], DOMAIN r = JobFields, r.user = job[j].user, r.rescue = job[j].rescue,
         r.todo \in Seq(Names), ~First(r.todo, {"keepUser", "keepSub", "refillUser"}),
         Handed(own, r),
         UNCHANGED <<person, subs, userCache, subCache, agenda>>, disturbed \subseteq disturbed',
         DOMAIN account' = Users, \A u \in Users : account'[u] = None \/ DOMAIN account'[u] = AccountFields
  PROVE  CopiesInv(own)'
<1>1. DOMAIN job = Jobs /\ JobOK(own, j)
  BY Underway
<1>2. CASE (Free(r.todo) \/ (Applying(r.todo) /\ DOMAIN r.remna = AccountFields)) /\ (r.sub = None \/ Owned(own, r.sub, r.user))
  <2>1. JobOK(own, j)' /\ Own(j) /\ job'[j] = r
    BY <1>1, <1>2, OnMissing
  <2>2. Steady(own, j)
    BY <2>1 DEF Steady
  <2> QED BY <2>2, SteadyKeeps
<1>3. CASE CreateOnly(r.todo) /\ DOMAIN r.sub = SubFields
  <2>1. Own(j) /\ job'[j] = r
    BY <1>1 DEF Own
  <2>2. r.user \in Users /\ (j \in Desks => r.user = Target[j]) /\ Rescue(j, r.rescue)
    BY <1>1 DEF JobOK
  <2>3. JobOK(own, j)'
    BY <1>3, <2>1, <2>2 DEF JobOK, Rescue
  <2>4. Steady(own, j)
    BY <2>1, <2>3 DEF Steady
  <2> QED BY <2>4, SteadyKeeps
<1> QED BY <1>2, <1>3 DEF Handed

\* A job that takes awaits before the rest of its plain ones.
LEMMA ThenKeeps ==
  ASSUME NEW own, CopiesInv(own), NEW j \in Jobs, job[j].todo # <<>>, Plain(job[j].todo), SubOK(own, j),
         NEW steps \in Seq(Names), Then(j, steps), Free(steps \o Tail(job[j].todo)),
         ~First(steps \o Tail(job[j].todo), {"keepUser", "keepSub", "refillUser"}),
         UNCHANGED <<person, subs, account, userCache, subCache, disturbed, agenda>>
  PROVE  CopiesInv(own)'
<1>1. /\ DOMAIN job = Jobs /\ JobOK(own, j) /\ job[j].todo \in Seq(Names)
      /\ DOMAIN account = Users /\ \A u \in Users : account[u] = None \/ DOMAIN account[u] = AccountFields
  BY Underway
<1> DEFINE t == steps \o Tail(job[j].todo)
<1>2. Record(own, j, job[j])
  BY <1>1, OwnRecord
<1>3. Suits(job[j], t) /\ job' = [job EXCEPT ![j] = Goes(job[j], steps)]
  BY DEF Suits, Then
<1>4. Went(own, j, job[j], t)
  BY <1>1, <1>2, <1>3, GoesOK
<1> HIDE DEF t
<1>5. ~First(job[j].todo, {"clearSub", "clearUser", "refillUser"}) /\ ~First(t, {"keepUser", "keepSub", "refillUser"})
  BY <1>1, PlainFirst DEF t
<1> QED BY <1>1, <1>4, <1>5, WentKeeps

\* What the panel says about the user is read; an account or its absence decides.
LEMMA FetchKeeps ==
  ASSUME NEW own, CopiesInv(own), NEW d \in Desks, Fetch(d), UNCHANGED agenda
  PROVE  CopiesInv(own)'
<1>1. At(d, "fetch") /\ "fetch" \notin Special \cup {"user", "sub"}
  BY DEF Fetch, Special
<1> DEFINE s == job[d].todo
<1>2. /\ d \in Jobs /\ s # <<>> /\ Plain(s) /\ SubOK(own, d) /\ JobOK(own, d) /\ DOMAIN job[d] = JobFields
      /\ DOMAIN account = Users /\ \A v \in Users : account[v] = None \/ DOMAIN account[v] = AccountFields
      /\ s \in Seq(Names) /\ Tail(s) \in Seq(Names) /\ Plain(Tail(s)) /\ job[d].user = Target[d] /\ Target[d] \in Users
      /\ ~StaleSub(s) /\ ~StaleUser(s)
      /\ job[d].sub = None \/ Owned(own, job[d].sub, Target[d])
  BY <1>1, AtPlain
<1> DEFINE steps == <<"dropActor", "clearActor">>
<1>3. steps \in Seq(Names) /\ Plain(steps)
  <2>1. "dropActor" \in Names /\ "clearActor" \in Names /\ "dropActor" \notin Special /\ "clearActor" \notin Special
    BY DEF Names, Special, Ordinary
  <2> QED BY <2>1 DEF Plain
<1>4. Fetch(d) <=>
        /\ At(d, "fetch")
        /\ IF account[Target[d]] = None
           THEN IF job[d].sub = None THEN Then(d, steps) /\ UNCHANGED <<stores, caches, history, faults>>
                ELSE BillSub(d, [job[d].sub EXCEPT !.status = "DELETED"], {"status"}, steps)
           ELSE /\ job' = [job EXCEPT ![d] = [Goes(@, SyncUser) EXCEPT !.remna = account[Target[d]]]]
                /\ UNCHANGED <<stores, caches, history, faults>>
        /\ UNCHANGED deskVars
  BY DEF Fetch
<1> HIDE DEF steps
<1>5. /\ steps \o Tail(s) \in Seq(Names) /\ Plain(steps \o Tail(s))
  BY <1>2, <1>3, JoinFacts
<1>6. CASE account[Target[d]] = None /\ job[d].sub = None
  <2>1. Then(d, steps) /\ UNCHANGED <<person, subs, account, userCache, subCache, disturbed, agenda>>
    BY <1>4, <1>6 DEF stores, caches, history
  <2>2. Free(steps \o Tail(s)) /\ ~First(steps \o Tail(s), {"keepUser", "keepSub", "refillUser"})
    BY <1>5, PlainFirst DEF Free
  <2> QED BY <1>2, <1>3, <2>1, <2>2, ThenKeeps
<1>7. CASE account[Target[d]] = None /\ job[d].sub # None
  <2> DEFINE new == [job[d].sub EXCEPT !.status = "DELETED"]
  <2>1. Owned(own, job[d].sub, job[d].user)
    BY <1>2, <1>7
  <2>2. DOMAIN new = SubFields /\ new.id = job[d].sub.id
    BY <2>1 DEF Owned, SubFields
  <2>3. BillSubKeeping(d, new, {"status"}, new, steps)
    BY <1>4, <1>7 DEF BillSub
  <2>4. PICK u : u = job[d].user
    OBVIOUS
  <2> HIDE DEF new
  <2> QED BY <1>2, <1>3, <1>5, <2>1, <2>2, <2>3, <2>4, BillSubKeeps, Zenon
<1>8. CASE account[Target[d]] # None
  <2> DEFINE t == SyncUser \o Tail(s)
             a == account[Target[d]]
             r == [job[d] EXCEPT !.todo = t, !.remna = a]
  <2>1. /\ t \in Seq(Names) /\ t # <<>> /\ UserApply(t) /\ ~First(t, {"keepUser", "keepSub", "refillUser"})
    BY <1>2, SyncFacts
  <2>2. /\ job' = [job EXCEPT ![d] = [Goes(job[d], SyncUser) EXCEPT !.remna = a]]
        /\ UNCHANGED <<person, subs, account, userCache, subCache, disturbed, agenda>>
    BY <1>4, <1>8 DEF stores, caches, history
  <2>3. Goes(job[d], SyncUser) = [job[d] EXCEPT !.todo = t]
    BY <2>1 DEF Goes
  <2> HIDE DEF t
  <2>4. [Goes(job[d], SyncUser) EXCEPT !.remna = a] = r
    BY <1>2, <2>3 DEF JobFields
  <2>5. /\ DOMAIN r = JobFields /\ r.todo = t /\ r.user = job[d].user /\ r.sub = job[d].sub /\ r.rescue = job[d].rescue
        /\ r.remna = a
    BY <1>2 DEF JobFields
  <2>6. DOMAIN a = AccountFields
    BY <1>2, <1>8
  <2> HIDE DEF r, a
  <2>7. /\ Handed(own, r)
        /\ r.todo \in Seq(Names) /\ ~First(r.todo, {"keepUser", "keepSub", "refillUser"})
    BY <1>2, <2>1, <2>5, <2>6 DEF Applying, Handed
  <2>8. ~First(s, {"clearSub", "clearUser", "refillUser"}) /\ job' = [job EXCEPT ![d] = r]
    BY <1>2, <2>2, <2>4, PlainFirst
  <2> QED BY <1>2, <2>2, <2>5, <2>7, <2>8, HandsKeep
<1> QED BY <1>6, <1>7, <1>8
\* What the panel said is written to billing, or a subscription is made of it.
LEMMA ApplyKeeps ==
  ASSUME NEW own, CopiesInv(own), NEW d \in Desks, Apply(d), UNCHANGED agenda
  PROVE  CopiesInv(own)'
<1>0. d \in Jobs
  BY JobAssumption
<1> DEFINE s == job[d].todo
<1>1. s # <<>> /\ Head(s) = "apply"
  BY DEF Apply, At, Idle
<1>2. /\ JobOK(own, d) /\ DOMAIN job[d] = JobFields /\ s \in Seq(Names) /\ Tail(s) \in Seq(Names)
      /\ DOMAIN account = Users /\ \A v \in Users : account[v] = None \/ DOMAIN account[v] = AccountFields
  BY <1>0, <1>1, Underway
<1>3. ApplyOnly(s) /\ SubOK(own, d) /\ DOMAIN job[d].remna = AccountFields
  BY <1>1, <1>2, SpecialHeads
<1>4. Plain(Tail(s)) /\ ~StaleSub(s) /\ ~StaleUser(s) /\ ~First(s, {"clearSub", "clearUser", "refillUser"})
  BY <1>1, <1>3, Heads DEF ApplyOnly, First
<1>5. CASE job[d].sub = None
  <2> DEFINE x == Imported(job[d].remna)
             e == <<"create">>
             t == e \o Tail(s)
             r == [job[d] EXCEPT !.todo = t, !.sub = x]
  <2>1. /\ job' = [job EXCEPT ![d] = [Goes(job[d], e) EXCEPT !.sub = x]]
        /\ UNCHANGED <<person, subs, account, userCache, subCache, disturbed, agenda>>
    BY <1>5 DEF Apply, stores, caches, history
  <2>2. t \in Seq(Names) /\ t # <<>> /\ Head(t) = "create" /\ Tail(t) = Tail(s)
    <3>1. "create" \in Names
      BY DEF Names, Special
    <3> QED BY <1>2, <3>1, ConsFacts
  <2>3. DOMAIN x = SubFields
    BY DEF Imported, SubFields
  <2>4. Goes(job[d], e) = [job[d] EXCEPT !.todo = t]
    BY <2>2 DEF Goes
  <2> HIDE DEF t, x, e
  <2>5. [Goes(job[d], e) EXCEPT !.sub = x] = r
    BY <1>2, <2>4 DEF JobFields
  <2>6. DOMAIN r = JobFields /\ r.todo = t /\ r.user = job[d].user /\ r.sub = x /\ r.rescue = job[d].rescue
    BY <1>2 DEF JobFields
  <2> HIDE DEF r
  <2>7. Handed(own, r) /\ r.todo \in Seq(Names) /\ ~First(r.todo, {"keepUser", "keepSub", "refillUser"})
    BY <1>4, <2>2, <2>3, <2>6 DEF Handed, CreateOnly, First
  <2>8. job' = [job EXCEPT ![d] = r]
    BY <2>1, <2>5
  <2> QED BY <1>0, <1>1, <1>2, <1>4, <2>1, <2>6, <2>7, <2>8, HandsKeep
<1>6. CASE job[d].sub # None
  <2> DEFINE new == Synced(job[d].sub, job[d].remna)
  <2>1. BillSub(d, new, Differing(job[d].sub, new), <<>>)
    BY <1>6 DEF Apply
  <2>2. Owned(own, job[d].sub, job[d].user)
    BY <1>3, <1>6 DEF SubOK
  <2>3. DOMAIN new = SubFields /\ new.id = job[d].sub.id
    BY <1>3, <2>2 DEF Owned, SubFields, AccountFields, Synced
  <2>4. PICK changed : changed = Differing(job[d].sub, new)
    OBVIOUS
  <2> HIDE DEF new
  <2>5. BillSub(d, new, changed, <<>>)
    BY <2>1, <2>4
  <2> QED BY <1>0, <1>1, <1>4, <2>2, <2>3, <2>5, BillKeeps
<1> QED BY <1>5, <1>6

\* The subscription is compared with the panel's account.
LEMMA CompareKeeps ==
  ASSUME NEW own, CopiesInv(own), NEW d \in Desks, Compare(d), UNCHANGED agenda
  PROVE  CopiesInv(own)'
<1>1. At(d, "compare") /\ "compare" \notin Special \cup {"user", "sub"}
  BY DEF Compare, Special
<1> DEFINE s == job[d].todo
<1>2. /\ d \in Jobs /\ s # <<>> /\ Plain(s) /\ SubOK(own, d) /\ Tail(s) \in Seq(Names) /\ Plain(Tail(s))
  BY <1>1, AtPlain
<1>3. UNCHANGED <<person, subs, account, userCache, subCache, disturbed, agenda>>
  BY DEF Compare, stores, caches, history
<1> DEFINE a == <<"remove">>
           b == <<"push">>
           c == <<"restore">> \o SyncUser
<1>4. Then(d, a) \/ Then(d, b) \/ Then(d, c)
  BY DEF Compare
<1>5. a \in Seq(Names) /\ Plain(a) /\ b \in Seq(Names) /\ Plain(b)
  BY DEF Names, Ordinary, Special, Plain
<1>6. c \in Seq(Names) /\ RestoreApply(c \o Tail(s))
  BY <1>2, SyncFacts
<1> HIDE DEF a, b, c
<1>7. ASSUME NEW x \in {a, b}, Then(d, x) PROVE CopiesInv(own)'
  <2>1. x \in Seq(Names) /\ x \o Tail(s) \in Seq(Names) /\ Plain(x \o Tail(s))
    BY <1>2, <1>5, JoinFacts
  <2>2. Free(x \o Tail(s)) /\ ~First(x \o Tail(s), {"keepUser", "keepSub", "refillUser"})
    BY <2>1, PlainFirst DEF Free
  <2> QED BY <1>2, <1>3, <1>7, <2>1, <2>2, ThenKeeps
<1>8. ASSUME Then(d, c) PROVE CopiesInv(own)'
  <2>1. Free(c \o Tail(s)) /\ ~First(c \o Tail(s), {"keepUser", "keepSub", "refillUser"})
    BY <1>6 DEF Free, RestoreApply, First
  <2> QED BY <1>2, <1>3, <1>6, <1>8, <2>1, ThenKeeps
<1> QED BY <1>4, <1>7, <1>8
\* The account is created again, an old one of the same name being removed first.
LEMMA RestoreKeeps ==
  ASSUME NEW own, CopiesInv(own), NEW d \in Desks, Restore(d), UNCHANGED agenda
  PROVE  CopiesInv(own)'
<1>0. d \in Jobs
  BY JobAssumption
<1> DEFINE s == job[d].todo
           u == Target[d]
           x == NewAccount(job[d].sub.account, job[d].usr, job[d].sub)
<1>1. /\ s # <<>> /\ Head(s) = "restore" /\ UNCHANGED <<person, subs, userCache, subCache, agenda>>
      /\ account' = [account EXCEPT ![u] = IF @ = None THEN x ELSE None]
      /\ job' = [job EXCEPT ![d] = [(IF account[u] = None THEN Goes(@, <<>>) ELSE @) EXCEPT !.wrote = TRUE, !.remna = x]]
  BY DEF Restore, At, Idle, caches
<1>2. /\ JobOK(own, d) /\ DOMAIN job[d] = JobFields /\ s \in Seq(Names) /\ Tail(s) \in Seq(Names)
      /\ DOMAIN account = Users /\ (\A v \in Users : account[v] = None \/ DOMAIN account[v] = AccountFields)
  BY <1>0, <1>1, Underway
<1>3. RestoreApply(s) /\ SubOK(own, d)
  BY <1>1, <1>2, SpecialHeads
<1>4. disturbed \subseteq disturbed'
  BY DEF Restore, Disturb
<1>5. DOMAIN x = AccountFields
  BY DEF NewAccount, AccountFields
<1>6. ~First(s, {"clearSub", "clearUser", "refillUser"})
  BY <1>1 DEF First
<1> HIDE DEF x
<1>7. DOMAIN account' = Users /\ \A v \in Users : account'[v] = None \/ DOMAIN account'[v] = AccountFields
  BY <1>1, <1>2, <1>5
<1>8. CASE account[u] = None
  <2> DEFINE t == Tail(s)
             r == [job[d] EXCEPT !.todo = t, !.wrote = TRUE, !.remna = x]
  <2>1. t # <<>> /\ UserApply(t) /\ ~First(t, {"keepUser", "keepSub", "refillUser"})
    BY <1>3 DEF RestoreApply, First
  <2>2. Goes(job[d], <<>>) = [job[d] EXCEPT !.todo = t]
    <3>1. <<>> \o t = t
      BY <1>2, JoinFacts
    <3> QED BY <2>1, <3>1 DEF Goes
  <2> HIDE DEF t
  <2>3. [Goes(job[d], <<>>) EXCEPT !.wrote = TRUE, !.remna = x] = r
    BY <1>2, <2>2 DEF JobFields
  <2>4. DOMAIN r = JobFields /\ r.todo = t /\ r.user = job[d].user /\ r.sub = job[d].sub /\ r.rescue = job[d].rescue /\ r.remna = x
    BY <1>2 DEF JobFields
  <2> HIDE DEF r
  <2>5. Handed(own, r) /\ r.todo \in Seq(Names) /\ ~First(r.todo, {"keepUser", "keepSub", "refillUser"})
    BY <1>2, <1>3, <1>5, <2>1, <2>4 DEF Handed, Applying, SubOK, t
  <2>6. job' = [job EXCEPT ![d] = r]
    BY <1>1, <1>8, <2>3
  <2> QED BY <1>0, <1>1, <1>4, <1>6, <1>7, <2>4, <2>5, <2>6, HandsKeep
<1>9. CASE account[u] # None
  <2> DEFINE r == [job[d] EXCEPT !.wrote = TRUE, !.remna = x]
  <2>1. DOMAIN r = JobFields /\ r.todo = s /\ r.user = job[d].user /\ r.sub = job[d].sub /\ r.rescue = job[d].rescue
    BY <1>2 DEF JobFields
  <2>2. job' = [job EXCEPT ![d] = r]
    BY <1>1, <1>9
  <2> HIDE DEF r
  <2>3. Handed(own, r) /\ r.todo \in Seq(Names) /\ ~First(r.todo, {"keepUser", "keepSub", "refillUser"})
    BY <1>1, <1>2, <1>3, <2>1 DEF Handed, Free, SubOK, First
  <2> QED BY <1>0, <1>1, <1>4, <1>6, <1>7, <2>1, <2>2, <2>3, HandsKeep
<1> QED BY <1>8, <1>9

\* A plan given by hand: the panel first.
LEMMA ProvisionKeeps ==
  ASSUME NEW own, CopiesInv(own), NEW d \in Desks, Provision(d), UNCHANGED agenda
  PROVE  CopiesInv(own)'
<1>0. d \in Jobs
  BY JobAssumption
<1> DEFINE s == job[d].todo
           u == Target[d]
           uuid == IF job[d].sub = None THEN accounts + 1 ELSE job[d].sub.account
           x == Planned(uuid)
<1>1. s # <<>> /\ Head(s) = "provision" /\ UNCHANGED <<person, subs, userCache, subCache, agenda>>
  BY DEF Provision, At, Idle, caches
<1>2. /\ JobOK(own, d) /\ DOMAIN job[d] = JobFields /\ s \in Seq(Names) /\ Tail(s) \in Seq(Names)
      /\ DOMAIN account = Users /\ (\A v \in Users : account[v] = None \/ DOMAIN account[v] = AccountFields)
  BY <1>0, <1>1, Underway
<1>3. ProvisionCreate(s)
  BY <1>1, <1>2, SpecialHeads
<1>4. CASE Raise(d) /\ UNCHANGED account
  BY <1>0, <1>1, <1>4, RaiseKeeps
<1>5. CASE /\ IF job[d].sub = None THEN TRUE ELSE Reachable(u, uuid)
           /\ account' = [account EXCEPT ![u] = IF job[d].sub = None THEN NewAccount(uuid, job[d].usr, x)
                                                ELSE Pushed(job[d].usr, x, @)]
           /\ job' = [job EXCEPT ![d] = [Goes(@, <<>>) EXCEPT !.sub = x, !.wrote = TRUE]]
           /\ Disturb(d, u)
  <2> DEFINE t == Tail(s)
             r == [job[d] EXCEPT !.todo = t, !.sub = x, !.wrote = TRUE]
  <2>1. t # <<>> /\ CreateOnly(t) /\ ~First(t, {"keepUser", "keepSub", "refillUser"})
    BY <1>3 DEF ProvisionCreate, CreateOnly, First
  <2>2. Goes(job[d], <<>>) = [job[d] EXCEPT !.todo = t]
    <3>1. <<>> \o t = t
      BY <1>2, JoinFacts
    <3> QED BY <2>1, <3>1 DEF Goes
  <2>3. DOMAIN x = SubFields
    BY DEF Planned, SubFields
  <2>4. DOMAIN account' = Users /\ \A v \in Users : account'[v] = None \/ DOMAIN account'[v] = AccountFields
    <3>1. DOMAIN NewAccount(uuid, job[d].usr, x) = AccountFields
      BY DEF NewAccount, AccountFields
    <3>2. account[u] # None => DOMAIN Pushed(job[d].usr, x, account[u]) = DOMAIN account[u]
      BY DEF Pushed
    <3>3. job[d].sub = None \/ account[u] # None
      BY <1>5 DEF Reachable
    <3> HIDE DEF x, uuid
    <3>4. PICK old : old = account[u]
      OBVIOUS
    <3>5. PICK n : n = IF job[d].sub = None THEN NewAccount(uuid, job[d].usr, x) ELSE Pushed(job[d].usr, x, old)
      OBVIOUS
    <3>6. account' = [account EXCEPT ![u] = n]
      BY <1>5, <3>4, <3>5
    <3>7. u \in Users => DOMAIN n = AccountFields
      BY <1>2, <3>1, <3>2, <3>3, <3>4, <3>5
    <3> QED BY <1>2, <3>6, <3>7
  <2> HIDE DEF t, x
  <2>5. [Goes(job[d], <<>>) EXCEPT !.sub = x, !.wrote = TRUE] = r
    BY <1>2, <2>2 DEF JobFields
  <2>6. DOMAIN r = JobFields /\ r.todo = t /\ r.user = job[d].user /\ r.sub = x /\ r.rescue = job[d].rescue
    BY <1>2 DEF JobFields
  <2>7. job' = [job EXCEPT ![d] = r]
    BY <1>5, <2>5
  <2> HIDE DEF r
  <2>8. Handed(own, r) /\ r.todo \in Seq(Names) /\ ~First(r.todo, {"keepUser", "keepSub", "refillUser"})
    BY <1>2, <2>1, <2>3, <2>6 DEF Handed, t
  <2>9. disturbed \subseteq disturbed' /\ ~First(s, {"clearSub", "clearUser", "refillUser"})
    BY <1>1, <1>5 DEF Disturb, First
  <2> QED BY <1>0, <1>1, <2>4, <2>6, <2>7, <2>8, <2>9, HandsKeep
<1> QED BY <1>4, <1>5 DEF Provision

\* The users with access to a plan are read and written back.
LEMMA AccessKeeps ==
  ASSUME NEW own, CopiesInv(own), NEW d \in Desks, ReadPlan(d) \/ GrantAccess(d), UNCHANGED agenda
  PROVE  CopiesInv(own)'
<1>1. PICK step \in {"plan", "grant"} : At(d, step)
  BY DEF ReadPlan, GrantAccess
<1>2. step \notin Special \cup {"user", "sub"}
  BY DEF Special
<1> DEFINE s == job[d].todo
<1>3. /\ d \in Jobs /\ s # <<>> /\ Plain(s) /\ SubOK(own, d) /\ JobOK(own, d) /\ DOMAIN job[d] = JobFields
      /\ DOMAIN account = Users /\ (\A v \in Users : account[v] = None \/ DOMAIN account[v] = AccountFields)
      /\ s \in Seq(Names) /\ Tail(s) \in Seq(Names) /\ Plain(Tail(s))
  BY <1>1, <1>2, AtPlain
<1>4. UNCHANGED <<person, subs, account, userCache, subCache, disturbed, agenda>>
  BY DEF ReadPlan, GrantAccess, stores, caches, history
<1>5. CASE ReadPlan(d)
  <2> DEFINE e == <<>>
             g == Goes(job[d], e)
             r == [g EXCEPT !.remna = allowed]
  <2>0. e \in Seq(Names) /\ e \o Tail(s) = Tail(s)
    BY <1>3, EmptyPlain, JoinFacts
  <2>1. job' = [job EXCEPT ![d] = r]
    BY <1>5 DEF ReadPlan
  <2> HIDE DEF e
  <2>2. /\ DOMAIN g = JobFields /\ g.todo = Tail(s) /\ g.rescue \in {<<>>, job[d].rescue}
        /\ g.sub = None \/ (g.sub = job[d].sub /\ g.todo # <<>>)
        /\ g.todo # <<>> => g.user = job[d].user
    <3>1. CASE Tail(s) = <<>>
      <4>1. g = IdleJob
        BY <2>0, <3>1 DEF Goes
      <4> QED BY <3>1, <4>1 DEF IdleJob, JobFields
    <3>2. CASE Tail(s) # <<>>
      <4>1. g = [job[d] EXCEPT !.todo = Tail(s)]
        BY <2>0, <3>2 DEF Goes
      <4> QED BY <1>3, <3>2, <4>1 DEF JobFields
    <3> QED BY <3>1, <3>2
  <2> HIDE DEF g
  <2>3. /\ DOMAIN r = JobFields /\ r.todo = Tail(s) /\ r.rescue = g.rescue /\ r.sub = g.sub /\ r.user = g.user
    BY <2>2 DEF JobFields
  <2> HIDE DEF r
  <2>4. /\ DOMAIN r = JobFields /\ r.todo \in Seq(Names) /\ Plain(r.todo) /\ r.rescue \in {<<>>, job[d].rescue}
        /\ (r.todo # <<>> => r.user = job[d].user) /\ (r.sub = None \/ Owned(own, r.sub, r.user))
    BY <1>3, <2>2, <2>3 DEF SubOK
  <2> QED BY <1>3, <1>4, <2>1, <2>4, OnwardKeeps
<1>6. CASE GrantAccess(d)
  <2>1. job' = [job EXCEPT ![d] = Goes(job[d], <<>>)] /\ Record(own, d, job[d])
    BY <1>3, <1>6, OwnRecord DEF GrantAccess, Continue
  <2> QED BY <1>3, <1>4, <2>1, ContinueKeeps
<1> QED BY <1>5, <1>6
-----------------------------------------------------------------------------
(* Handlers that are started                                               *)

Beginnings ==
    {<<"sub", "whether">>, <<"sub", "reset">>, <<"user", "devices">>, <<"user", "sub", "match">>, <<"user", "plans">>,
     <<"access">>, <<"user", "set">>, <<"user", "sub", "edit">>, <<"user", "sub", "edit", "push">>,
     <<"user", "sub", "confirm">>, <<"user", "unlink">>, <<"user", "sub", "fetch">>, <<"user", "sub", "compare">>,
     <<"plan", "grant">>, <<"user", "send">>}

\* A few ordinary awaits.
LEMMA FewAwaits ==
  ASSUME NEW a \in Ordinary, NEW b \in Ordinary
  PROVE  /\ <<a>> \in Seq(Names) /\ Plain(<<a>>)
         /\ <<a, b>> \in Seq(Names) /\ Plain(<<a, b>>)
         /\ \A c \in Ordinary :
               /\ <<a, b, c>> \in Seq(Names) /\ Plain(<<a, b, c>>)
               /\ \A d \in Ordinary : <<a, b, c, d>> \in Seq(Names) /\ Plain(<<a, b, c, d>>)
<1>1. Ordinary \subseteq Names /\ Ordinary \cap Special = {}
  BY Zenon DEF Names, Ordinary, Special
<1>2. <<a>> \in Seq(Names) /\ Plain(<<a>>)
  BY <1>1 DEF Plain
<1>3. <<a, b>> \in Seq(Names) /\ Plain(<<a, b>>)
  BY <1>1 DEF Plain
<1>4. ASSUME NEW c \in Ordinary PROVE <<a, b, c>> \in Seq(Names) /\ Plain(<<a, b, c>>)
  BY <1>1 DEF Plain
<1>5. ASSUME NEW c \in Ordinary, NEW d \in Ordinary PROVE <<a, b, c, d>> \in Seq(Names) /\ Plain(<<a, b, c, d>>)
  BY <1>1 DEF Plain
<1> QED BY <1>2, <1>3, <1>4, <1>5

\* The awaits handlers begin with.
LEMMA ListFacts ==
  ASSUME NEW t \in Beginnings
  PROVE  /\ t \in Seq(Names) /\ Plain(t)
         /\ \A w \in Windows : t \o Render(w) \in Seq(Names) /\ Plain(t \o Render(w))
<1>1. {"user", "sub", "set", "edit", "push", "whether", "reset", "devices", "unlink", "confirm", "match", "fetch", "compare",
       "plans", "access", "plan", "grant", "send"} \subseteq Ordinary
  BY Zenon DEF Ordinary
<1>2. t \in Seq(Names) /\ Plain(t)
  <2>1. CASE t = <<"sub", "whether">>
    BY <1>1, <2>1, FewAwaits
  <2>2. CASE t = <<"sub", "reset">>
    BY <1>1, <2>2, FewAwaits
  <2>3. CASE t = <<"user", "devices">>
    BY <1>1, <2>3, FewAwaits
  <2>4. CASE t = <<"user", "sub", "match">>
    BY <1>1, <2>4, FewAwaits
  <2>5. CASE t = <<"user", "plans">>
    BY <1>1, <2>5, FewAwaits
  <2>6. CASE t = <<"access">>
    BY <1>1, <2>6, FewAwaits
  <2>7. CASE t = <<"user", "set">>
    BY <1>1, <2>7, FewAwaits
  <2>8. CASE t = <<"user", "sub", "edit">>
    BY <1>1, <2>8, FewAwaits
  <2>9. CASE t = <<"user", "sub", "edit", "push">>
    BY <1>1, <2>9, FewAwaits
  <2>10. CASE t = <<"user", "sub", "confirm">>
    BY <1>1, <2>10, FewAwaits
  <2>11. CASE t = <<"user", "unlink">>
    BY <1>1, <2>11, FewAwaits
  <2>12. CASE t = <<"user", "sub", "fetch">>
    BY <1>1, <2>12, FewAwaits
  <2>13. CASE t = <<"user", "sub", "compare">>
    BY <1>1, <2>13, FewAwaits
  <2>14. CASE t = <<"plan", "grant">>
    BY <1>1, <2>14, FewAwaits
  <2>15. CASE t = <<"user", "send">>
    BY <1>1, <2>15, FewAwaits
  <2> QED BY <2>1, <2>2, <2>3, <2>4, <2>5, <2>6, <2>7, <2>8, <2>9, <2>10, <2>11, <2>12, <2>13, <2>14, <2>15 DEF Beginnings
<1> QED BY <1>2, RenderFacts, JoinFacts

\* A handler with plain awaits is started.
LEMMA HandleKeeps ==
  ASSUME NEW own, CopiesInv(own), NEW d \in Desks, Idle(d), NEW ask, NEW todo \in Seq(Names),
         Plain(todo) \/ ((SubToggle(todo) \/ UserProvision(todo)) /\ ~First(todo, {"keepUser", "keepSub", "refillUser"})),
         Handle(d, ask, todo), UNCHANGED agenda
  PROVE  CopiesInv(own)'
<1>1. d \in Jobs
  BY JobAssumption
<1>2. Target[d] \in Users
  BY DeskAssumption
<1> DEFINE rescue == <<"MENU">>
<1>3. Rescue(d, rescue)
  <2>1. "MENU" \in Names
    BY DEF Names, Special
  <2> QED BY <2>1 DEF Rescue
<1>4. Begin(d, Target[d], ask, todo, rescue) /\ UNCHANGED <<person, subs, account, userCache, subCache, disturbed, agenda>>
  BY DEF Handle, stores, caches, history
<1> HIDE DEF rescue
<1>5. PICK u : u = Target[d]
  OBVIOUS
<1>6. Begin(d, u, ask, todo, rescue)
  BY <1>4, <1>5
<1>7. Steady(own, d)
  BY <1>1, <1>2, <1>3, <1>4, <1>5, <1>6, BeginSteady, Zenon
<1> QED BY <1>1, <1>7, SteadyKeeps

LEMMA PlainHandle ==
  ASSUME NEW own, CopiesInv(own), NEW d \in Desks, Idle(d), NEW ask, NEW todo \in Seq(Names), Plain(todo),
         Handle(d, ask, todo), UNCHANGED agenda
  PROVE  CopiesInv(own)'
BY HandleKeeps, Zenon

\* A button is pressed that edits nothing.
LEMMA ClickKeeps ==
  ASSUME NEW own, CopiesInv(own), NEW d \in Desks, DeskClick(d), UNCHANGED agenda
  PROVE  CopiesInv(own)'
<1>0. {"MAIN", "SUBSCRIPTION_DURATION", "TRANSACTIONS_LIST", "TRANSACTION", "MESSAGE"} \subseteq Windows
  BY GetterFacts, Zenon
<1>1. \A w \in Windows : Render(w) \in Seq(Names) /\ Plain(Render(w))
  BY RenderFacts
<1>2. CASE Open(d)
  BY <1>0, <1>1, <1>2, PlainHandle DEF Open, Pressing
<1>3. CASE OnCurrentSubscription(d)
  <2>1. Idle(d) /\ Handle(d, NoAsk, <<"sub", "whether">>)
    BY <1>3 DEF OnCurrentSubscription, Look, Pressing
  <2> QED BY <2>1, ListFacts, PlainHandle DEF Beginnings
<1>4. CASE OnResetTraffic(d)
  <2>1. Idle(d) /\ Handle(d, NoAsk, <<"sub", "reset">>)
    BY <1>4 DEF OnResetTraffic, Look, Pressing
  <2> QED BY <2>1, ListFacts, PlainHandle DEF Beginnings
<1>5. CASE OnDevices(d)
  <2>1. Idle(d) /\ Handle(d, NoAsk, <<"user", "devices">>)
    BY <1>5 DEF OnDevices, Look, Pressing
  <2> QED BY <2>1, ListFacts, PlainHandle DEF Beginnings
<1>6. CASE OnSync(d)
  <2>1. Idle(d) /\ Handle(d, NoAsk, <<"user", "sub", "match">>)
    BY <1>6 DEF OnSync, Look, Pressing
  <2> QED BY <2>1, ListFacts, PlainHandle DEF Beginnings
<1>7. CASE OnGiveSubscription(d)
  <2>1. Idle(d) /\ Handle(d, NoAsk, <<"user", "plans">>)
    BY <1>7 DEF OnGiveSubscription, Look, Pressing
  <2> QED BY <2>1, ListFacts, PlainHandle DEF Beginnings
<1>8. CASE OnSubscriptionSelect(d)
  BY <1>0, <1>1, <1>8, PlainHandle DEF OnSubscriptionSelect, Look, Pressing
<1>9. CASE OnGiveAccess(d)
  <2>1. Idle(d) /\ Handle(d, NoAsk, <<"access">>)
    BY <1>9 DEF OnGiveAccess, Look, Pressing
  <2> QED BY <2>1, ListFacts, PlainHandle DEF Beginnings
<1>10. CASE OnTransactions(d)
  <2>1. /\ Idle(d) /\ desk[d].win = "MAIN"
        /\ Handle(d, NoAsk, IF Target[d] \in Payers THEN Render("TRANSACTIONS_LIST") ELSE Again(d))
    BY <1>10 DEF OnTransactions, Look, Pressing
  <2>2. \E w \in Windows : Handle(d, NoAsk, Render(w))
    BY <1>0, <2>1 DEF Again
  <2> QED BY <1>1, <2>1, <2>2, PlainHandle
<1>11. CASE OnTransactionSelect(d)
  BY <1>0, <1>1, <1>11, PlainHandle DEF OnTransactionSelect, Look, Pressing
<1>12. CASE OnContentInput(d)
  <2>1. Idle(d) /\ desk[d].win = "MESSAGE" /\ Handle(d, NoAsk, Render(desk[d].win))
    BY <1>12 DEF OnContentInput, Pressing, Again
  <2>2. Handle(d, NoAsk, Render("MESSAGE"))
    BY <2>1
  <2> QED BY <1>0, <1>1, <2>1, <2>2, PlainHandle
<1>13. CASE \E w \in Windows : SwitchTo(d, w)
  BY <1>1, <1>13, PlainHandle DEF SwitchTo, Look, Pressing
<1>14. CASE \E w \in {"DISCOUNT", "POINTS", "TRAFFIC_LIMIT", "DEVICE_LIMIT", "EXPIRE_TIME"} : OnInvalidInput(d, w)
  <2>1. PICK t \in {<<"user", "set">>, <<"user", "sub", "edit">>} : Idle(d) /\ Handle(d, Invalid, t)
    BY <1>14 DEF OnInvalidInput, Pressing
  <2> QED BY <2>1, ListFacts, PlainHandle DEF Beginnings
<1> QED BY <1>2, <1>3, <1>4, <1>5, <1>6, <1>7, <1>8, <1>9, <1>10, <1>11, <1>12, <1>13, <1>14 DEF DeskClick
\* The awaits of a toggle and of a plan given by hand.
LEMMA SpecialLists ==
  ASSUME NEW s \in Seq(Names), Plain(s)
  PROVE  /\ <<"sub", "toggle", "status">> \o s \in Seq(Names) /\ SubToggle(<<"sub", "toggle", "status">> \o s)
         /\ ~First(<<"sub", "toggle", "status">> \o s, {"keepUser", "keepSub", "refillUser"})
         /\ <<"user", "sub", "provision", "create">> \o s \in Seq(Names)
         /\ UserProvision(<<"user", "sub", "provision", "create">> \o s)
         /\ ~First(<<"user", "sub", "provision", "create">> \o s, {"keepUser", "keepSub", "refillUser"})
<1>1. {"user", "sub", "toggle", "status", "provision", "create"} \subseteq Names
  BY Zenon DEF Names, Special, Ordinary
<1>2. /\ <<"sub", "toggle", "status">> \o s \in Seq(Names) /\ SubToggle(<<"sub", "toggle", "status">> \o s)
      /\ ~First(<<"sub", "toggle", "status">> \o s, {"keepUser", "keepSub", "refillUser"})
  <2>1. <<"sub", "toggle", "status">> \o s = <<"sub">> \o (<<"toggle">> \o (<<"status">> \o s))
    BY <1>1, StepByStep
  <2> DEFINE x == <<"status">> \o s
  <2>2. x \in Seq(Names) /\ x # <<>> /\ Head(x) = "status" /\ Tail(x) = s
    BY <1>1, ConsFacts
  <2> HIDE DEF x
  <2> DEFINE y == <<"toggle">> \o x
  <2>3. y \in Seq(Names) /\ y # <<>> /\ Head(y) = "toggle" /\ Tail(y) = x
    BY <1>1, <2>2, ConsFacts
  <2> HIDE DEF y
  <2> DEFINE z == <<"sub">> \o y
  <2>4. z \in Seq(Names) /\ z # <<>> /\ Head(z) = "sub" /\ Tail(z) = y
    BY <1>1, <2>3, ConsFacts
  <2> HIDE DEF z
  <2>5. SubToggle(z) /\ ~First(z, {"keepUser", "keepSub", "refillUser"})
    BY <2>2, <2>3, <2>4 DEF SubToggle, ToggleStatus, StatusOnly, First
  <2>6. z = <<"sub", "toggle", "status">> \o s
    BY <2>1 DEF x, y, z
  <2> QED BY <2>4, <2>5, <2>6
<1>3. /\ <<"user", "sub", "provision", "create">> \o s \in Seq(Names)
      /\ UserProvision(<<"user", "sub", "provision", "create">> \o s)
      /\ ~First(<<"user", "sub", "provision", "create">> \o s, {"keepUser", "keepSub", "refillUser"})
  <2> DEFINE w == <<"create">> \o s
  <2>1. w \in Seq(Names) /\ w # <<>> /\ Head(w) = "create" /\ Tail(w) = s
    BY <1>1, ConsFacts
  <2>2. <<"user", "sub", "provision", "create">> \o s = <<"user", "sub", "provision">> \o w
    <3> DEFINE front == <<"user", "sub", "provision">>
               back == <<"create">>
    <3>1. front \in Seq(Names) /\ back \in Seq(Names)
      BY <1>1
    <3>2. <<"user", "sub", "provision", "create">> = front \o back
      OBVIOUS
    <3> HIDE DEF front, back
    <3>3. (front \o back) \o s = front \o (back \o s)
      BY <3>1, JoinFacts
    <3> QED BY <3>2, <3>3 DEF front, back
  <2> HIDE DEF w
  <2>3. <<"user", "sub", "provision">> \o w = <<"user">> \o (<<"sub">> \o (<<"provision">> \o w))
    <3>1. "user" \in Names /\ "sub" \in Names /\ "provision" \in Names /\ w \in Seq(Names)
      BY <1>1, <2>1
    <3>2. \A c \in Names : <<"user", "sub", c>> \o w = <<"user">> \o (<<"sub">> \o (<<c>> \o w))
      BY <3>1, StepByStep, Zenon
    <3> QED BY <3>1, <3>2, Zenon
  <2> DEFINE x == <<"provision">> \o w
  <2>4. x \in Seq(Names) /\ x # <<>> /\ Head(x) = "provision" /\ Tail(x) = w
    BY <1>1, <2>1, ConsFacts
  <2> HIDE DEF x
  <2> DEFINE y == <<"sub">> \o x
  <2>5. y \in Seq(Names) /\ y # <<>> /\ Head(y) = "sub" /\ Tail(y) = x
    BY <1>1, <2>4, ConsFacts
  <2> HIDE DEF y
  <2> DEFINE z == <<"user">> \o y
  <2>6. z \in Seq(Names) /\ z # <<>> /\ Head(z) = "user" /\ Tail(z) = y
    BY <1>1, <2>5, ConsFacts
  <2> HIDE DEF z
  <2>7. UserProvision(z) /\ ~First(z, {"keepUser", "keepSub", "refillUser"})
    BY <2>1, <2>4, <2>5, <2>6 DEF UserProvision, SubProvision, ProvisionCreate, CreateOnly, First
  <2>8. z = <<"user", "sub", "provision", "create">> \o s
    BY <2>2, <2>3 DEF x, y, z
  <2> QED BY <2>6, <2>7, <2>8
<1> QED BY <1>2, <1>3

\* A button is pressed, or a value typed, that edits something.
LEMMA EditsKeep ==
  ASSUME NEW own, CopiesInv(own), NEW d \in Desks, DeskEdit(d), UNCHANGED agenda
  PROVE  CopiesInv(own)'
<1>0. {"MAIN", "ROLE", "POINTS", "SUBSCRIPTION", "INTERNAL_SQUADS", "EXTERNAL_SQUADS", "EXPIRE_TIME", "GIVE_ACCESS"} \subseteq Windows
  BY GetterFacts, Zenon
<1>1. ASSUME NEW t \in Beginnings, NEW w \in Windows, NEW ask, Idle(d), Handle(d, ask, t \o Render(w)) PROVE CopiesInv(own)'
  BY <1>1, ListFacts, PlainHandle
<1>2. ASSUME NEW t \in Beginnings, NEW ask, Idle(d), Handle(d, ask, t) PROVE CopiesInv(own)'
  BY <1>2, ListFacts, PlainHandle
<1>3. /\ <<"user", "set">> \in Beginnings /\ <<"user", "sub", "edit", "push">> \in Beginnings
      /\ <<"user", "sub", "confirm">> \in Beginnings /\ <<"user", "unlink">> \in Beginnings
      /\ <<"user", "sub", "fetch">> \in Beginnings /\ <<"user", "sub", "compare">> \in Beginnings
      /\ <<"plan", "grant">> \in Beginnings /\ <<"user", "send">> \in Beginnings
  BY DEF Beginnings
<1>4. CASE OnBlockToggle(d)
  BY <1>0, <1>1, <1>3, <1>4 DEF OnBlockToggle, Change, Pressing
<1>5. CASE \E role \in DOMAIN Rank : OnRoleSelect(d, role)
  BY <1>0, <1>1, <1>3, <1>5 DEF OnRoleSelect, Change, Pressing
<1>6. CASE \E rate \in Rates : OnDiscount(d, rate)
  BY <1>0, <1>1, <1>3, <1>6 DEF OnDiscount, Change, Pressing
<1>7. CASE \E sum \in Sums : OnPoints(d, sum)
  BY <1>0, <1>1, <1>3, <1>7 DEF OnPoints, Change, Pressing
<1>8. ASSUME NEW w, NEW field, NEW to, NEW next \in Windows, EditSub(d, w, field, to, next) PROVE CopiesInv(own)'
  BY <1>1, <1>3, <1>8 DEF EditSub, Change, Pressing
<1>9. CASE \E value \in Values : OnTrafficLimit(d, value) \/ OnDeviceLimit(d, value)
  BY <1>0, <1>8, <1>9 DEF OnTrafficLimit, OnDeviceLimit
<1>10. CASE OnInternalSquad(d) \/ OnExternalSquad(d) \/ \E delta \in Deltas : OnDuration(d, delta)
  BY <1>0, <1>8, <1>10 DEF OnInternalSquad, OnExternalSquad, OnDuration
<1>11. CASE OnSubscriptionDelete(d)
  BY <1>2, <1>3, <1>11 DEF OnSubscriptionDelete, Change, Pressing
<1>12. CASE OnDeviceDelete(d)
  BY <1>2, <1>3, <1>12 DEF OnDeviceDelete, Change, Pressing
<1>13. CASE OnSend(d)
  BY <1>2, <1>3, <1>13 DEF OnSend, Change, Pressing
<1>14. CASE OnPlanSelect(d)
  BY <1>0, <1>1, <1>3, <1>14 DEF OnPlanSelect, Change, Pressing
<1>15. CASE OnSyncFromRemnawave(d)
  <2>1. PICK t \in Beginnings : StartSync(d, t \o Render("MAIN"))
    BY <1>3, <1>15 DEF OnSyncFromRemnawave
  <2> QED BY <1>0, <2>1, ListFacts, StartSyncKeeps
<1>16. CASE OnSyncFromRemnashop(d)
  <2>1. PICK t \in Beginnings : StartSync(d, t \o Render("MAIN"))
    BY <1>3, <1>16 DEF OnSyncFromRemnashop
  <2> QED BY <1>0, <2>1, ListFacts, StartSyncKeeps
<1>17. Render("SUBSCRIPTION") \in Seq(Names) /\ Plain(Render("SUBSCRIPTION")) /\ Render("MAIN") \in Seq(Names) /\ Plain(Render("MAIN"))
  BY <1>0, RenderFacts
<1>18. CASE OnActiveToggle(d)
  <2> DEFINE t == <<"sub", "toggle", "status">> \o Render("SUBSCRIPTION")
  <2>1. t \in Seq(Names) /\ SubToggle(t) /\ ~First(t, {"keepUser", "keepSub", "refillUser"})
    BY <1>17, SpecialLists
  <2>2. Idle(d) /\ Handle(d, NoAsk, t)
    BY <1>18 DEF OnActiveToggle, Change, Pressing
  <2> HIDE DEF t
  <2> QED BY <2>1, <2>2, HandleKeeps, Zenon
<1>19. CASE OnSubscriptionDuration(d)
  <2> DEFINE t == <<"user", "sub", "provision", "create">> \o Render("MAIN")
  <2>1. t \in Seq(Names) /\ UserProvision(t) /\ ~First(t, {"keepUser", "keepSub", "refillUser"})
    BY <1>17, SpecialLists
  <2>2. Idle(d) /\ Handle(d, NoAsk, t)
    BY <1>19 DEF OnSubscriptionDuration, Change, Pressing
  <2> HIDE DEF t
  <2> QED BY <2>1, <2>2, HandleKeeps, Zenon
<1> QED BY <1>4, <1>5, <1>6, <1>7, <1>9, <1>10, <1>11, <1>12, <1>13, <1>14, <1>15, <1>16, <1>18, <1>19 DEF DeskEdit
-----------------------------------------------------------------------------
(* The commands and the tasks                                              *)

\* What such a job is at an ordinary await.
LEMMA TaskPlain ==
  ASSUME NEW own, CopiesInv(own), NEW j \in Jobs, NEW step, At(j, step), step \notin Special \cup {"user", "sub"}
  PROVE  /\ job[j].todo # <<>> /\ Head(job[j].todo) = step /\ Plain(job[j].todo) /\ SubOK(own, j)
         /\ job[j].user \in Users /\ job[j].todo \in Seq(Names)
         /\ Tail(job[j].todo) \in Seq(Names) /\ Plain(Tail(job[j].todo))
         /\ DOMAIN job[j] = JobFields /\ DOMAIN job = Jobs /\ JobOK(own, j)
         /\ DOMAIN account = Users /\ \A v \in Users : account[v] = None \/ DOMAIN account[v] = AccountFields
         /\ job[j].sub = None \/ Owned(own, job[j].sub, job[j].user)
         /\ ~StaleSub(job[j].todo) /\ ~StaleUser(job[j].todo)
<1>1. job[j].todo # <<>> /\ Head(job[j].todo) = step
  BY DEF At, Idle
<1>2. Plain(job[j].todo) /\ SubOK(own, j)
  BY <1>1, PlainHead DEF CopiesInv
<1>3. /\ job[j].user \in Users /\ job[j].todo \in Seq(Names)
      /\ Tail(job[j].todo) \in Seq(Names) /\ Plain(Tail(job[j].todo))
      /\ DOMAIN job[j] = JobFields /\ DOMAIN job = Jobs /\ JobOK(own, j)
      /\ DOMAIN account = Users /\ \A v \in Users : account[v] = None \/ DOMAIN account[v] = AccountFields
  BY <1>1, <1>2, Underway
<1> QED BY <1>1, <1>2, <1>3, PlainFirst DEF SubOK

\* A job stops.
LEMMA StopKeeps ==
  ASSUME NEW own, CopiesInv(own), NEW j \in Jobs, job[j].todo # <<>>, Stop(j),
         First(job[j].todo, {"clearSub", "clearUser", "refillUser"}) => job[j].user \in disturbed',
         UNCHANGED <<person, subs, account, userCache, subCache, agenda>>, disturbed \subseteq disturbed'
  PROVE  CopiesInv(own)'
<1>1. /\ DOMAIN IdleJob = JobFields /\ IdleJob.todo = <<>> /\ IdleJob.rescue = <<>> /\ IdleJob.sub = None
  BY DEF IdleJob, JobFields
<1>2. job' = [job EXCEPT ![j] = IdleJob]
  BY DEF Stop
<1>3. DOMAIN account = Users /\ \A u \in Users : account[u] = None \/ DOMAIN account[u] = AccountFields
  BY DEF CopiesInv, StoresOK
<1>4. Steady(own, j)
  BY <1>1, <1>2, <1>3, EmptyPlain, OnwardSteady
<1> QED BY <1>4, SteadyKeeps

\* A job takes other awaits, and may take another rescue.
Ready(own, r) ==
    \/ Plain(r.todo) /\ (r.sub = None \/ Owned(own, r.sub, r.user))
    \/ ExtendFirst(r.todo) /\ Owned(own, r.sub, r.user)
LEMMA ReadyKeeps ==
  ASSUME NEW own, CopiesInv(own), NEW j \in Jobs, job[j].todo # <<>>, Plain(job[j].todo), NEW r,
         job' = [job EXCEPT ![j] = r], DOMAIN r = JobFields, r.user = job[j].user, Rescue(j, r.rescue),
         r.todo \in Seq(Names), Ready(own, r),
         UNCHANGED <<person, subs, account, userCache, subCache, agenda>>, disturbed \subseteq disturbed'
  PROVE  CopiesInv(own)'
<1>1. /\ DOMAIN job = Jobs /\ job[j].todo \in Seq(Names) /\ job[j].user \in Users /\ (j \in Desks => job[j].user = Target[j])
      /\ DOMAIN account = Users /\ \A u \in Users : account[u] = None \/ DOMAIN account[u] = AccountFields
  BY Underway
<1>2. job'[j] = r /\ Own(j)
  BY <1>1 DEF Own
<1>3. JobOK(own, j)'
  BY <1>1, <1>2 DEF JobOK, Ready, Rescue, Free, SubOK, Owned
<1>4. ~First(job[j].todo, {"clearSub", "clearUser", "refillUser"})
  BY <1>1, PlainFirst
<1>5. ~First(r.todo, {"keepUser", "keepSub", "refillUser"})
  <2>1. CASE Plain(r.todo)
    BY <2>1, PlainFirst
  <2>2. CASE ExtendFirst(r.todo)
    BY <2>2 DEF ExtendFirst, First
  <2> QED BY <2>1, <2>2 DEF Ready
<1>6. Steady(own, j)
  BY <1>1, <1>2, <1>3, <1>4, <1>5 DEF Steady
<1> QED BY <1>6, SteadyKeeps

\* A job goes on to the rest of its plain awaits and changes nothing here.
LEMMA GoOnKeeps ==
  ASSUME NEW own, CopiesInv(own), NEW j \in Jobs, NEW step, At(j, step), step \notin Special \cup {"user", "sub"},
         Continue(j), UNCHANGED <<person, subs, account, userCache, subCache, disturbed, agenda>>
  PROVE  CopiesInv(own)'
<1>1. /\ job[j].todo # <<>> /\ Plain(job[j].todo) /\ SubOK(own, j) /\ JobOK(own, j)
      /\ DOMAIN account = Users /\ \A v \in Users : account[v] = None \/ DOMAIN account[v] = AccountFields
  BY TaskPlain
<1>2. Record(own, j, job[j]) /\ job' = [job EXCEPT ![j] = Goes(job[j], <<>>)]
  BY <1>1, OwnRecord DEF Continue
<1> QED BY <1>1, <1>2, ContinueKeeps

\* What a command and the tasks begin with.
LEMMA TaskLists ==
  /\ Grantable \in Seq(Names) /\ Plain(Grantable)
  /\ \A reward : Giving(reward) \in Seq(Names) /\ Plain(Giving(reward))
  /\ <<"sub", "pending">> \in Seq(Names) /\ Plain(<<"sub", "pending">>)
  /\ <<"sub", "aim">> \in Seq(Names) /\ Plain(<<"sub", "aim">>) /\ <<"unlock">> \in Seq(Names) /\ Plain(<<"unlock">>)
  /\ <<"user", "flush">> \in Seq(Names) /\ Plain(<<"user", "flush">>)
  /\ <<"days", "push", "issue", "flush">> \in Seq(Names) /\ Plain(<<"days", "push", "issue", "flush">>)
  /\ <<"discount">> \o <<"push", "done", "unlock">> \in Seq(Names) /\ Plain(<<"discount">> \o <<"push", "done", "unlock">>)
  /\ <<"extend", "mark", "discount">> \o <<"push", "done", "unlock">> \in Seq(Names)
  /\ ExtendFirst(<<"extend", "mark", "discount">> \o <<"push", "done", "unlock">>)
<1>0. {"user", "sub", "seen", "eligible", "lock", "aim", "mark", "discount", "push", "done", "unlock", "points", "issue", "days",
       "pending", "flush"} \subseteq Ordinary
  BY Zenon DEF Ordinary
<1>9. Ordinary \subseteq Names /\ Ordinary \cap Special = {} /\ "extend" \in Names
  BY Zenon DEF Names, Ordinary, Special
<1>1. Grantable \in Seq(Names) /\ Plain(Grantable)
  BY <1>0, <1>9 DEF Grantable, Plain
<1>2. ASSUME NEW reward PROVE Giving(reward) \in Seq(Names) /\ Plain(Giving(reward))
  <2>1. <<"user", "points", "issue">> \in Seq(Names) /\ Plain(<<"user", "points", "issue">>)
    BY <1>0, FewAwaits
  <2>2. <<"user", "sub", "days", "push", "issue">> \in Seq(Names) /\ Plain(<<"user", "sub", "days", "push", "issue">>)
    BY <1>0, <1>9 DEF Plain
  <2> QED BY <2>1, <2>2 DEF Giving
<1>3. <<"sub", "pending">> \in Seq(Names) /\ Plain(<<"sub", "pending">>)
  BY <1>0, FewAwaits
<1>4. <<"sub", "aim">> \in Seq(Names) /\ Plain(<<"sub", "aim">>)
  BY <1>0, FewAwaits
<1>5. <<"unlock">> \in Seq(Names) /\ Plain(<<"unlock">>)
  BY <1>0, FewAwaits
<1>6. <<"user", "flush">> \in Seq(Names) /\ Plain(<<"user", "flush">>)
  BY <1>0, FewAwaits
<1>7. <<"days", "push", "issue", "flush">> \in Seq(Names) /\ Plain(<<"days", "push", "issue", "flush">>)
  BY <1>0, FewAwaits
<1> DEFINE last == <<"push", "done", "unlock">>
           short == <<"discount">>
<1>8. last \in Seq(Names) /\ Plain(last) /\ short \in Seq(Names) /\ Plain(short)
  BY <1>0, FewAwaits
<1> HIDE DEF last, short
<1>10. short \o last \in Seq(Names) /\ Plain(short \o last)
  BY <1>8, JoinFacts
<1>11. <<"extend", "mark", "discount">> \o last \in Seq(Names) /\ ExtendFirst(<<"extend", "mark", "discount">> \o last)
  <2>1. "mark" \in Names /\ "discount" \in Names /\ "mark" \notin Special /\ "discount" \notin Special
    BY <1>0, <1>9
  <2>2. <<"extend", "mark", "discount">> \o last = <<"extend">> \o (<<"mark">> \o (<<"discount">> \o last))
    BY <1>8, <1>9, <2>1, StepByStep
  <2> DEFINE x == <<"discount">> \o last
  <2>3. x \in Seq(Names) /\ x # <<>> /\ Head(x) = "discount" /\ Tail(x) = last
    BY <1>8, <2>1, ConsFacts
  <2> HIDE DEF x
  <2>4. Plain(x)
    BY <1>8, <2>1, <2>3, RestFacts
  <2> DEFINE y == <<"mark">> \o x
  <2>5. y \in Seq(Names) /\ y # <<>> /\ Head(y) = "mark" /\ Tail(y) = x
    BY <2>1, <2>3, ConsFacts
  <2> HIDE DEF y
  <2>6. Plain(y)
    BY <2>1, <2>4, <2>5, RestFacts
  <2> DEFINE z == <<"extend">> \o y
  <2>7. z \in Seq(Names) /\ z # <<>> /\ Head(z) = "extend" /\ Tail(z) = y
    BY <1>9, <2>5, ConsFacts
  <2> HIDE DEF z
  <2>8. ExtendFirst(z)
    BY <2>6, <2>7 DEF ExtendFirst, First
  <2>9. z = <<"extend", "mark", "discount">> \o last
    BY <2>2 DEF x, y, z
  <2> QED BY <2>7, <2>8, <2>9
<1> QED BY <1>1, <1>2, <1>3, <1>4, <1>5, <1>6, <1>7, <1>10, <1>11 DEF last, short
\* A command or a task is started.
LEMMA BeginKeeps ==
  ASSUME NEW own, CopiesInv(own), NEW j \in Jobs \ Desks,
         (j \in Runs /\ \E u \in Loyal : BeginGrant(j, u)) \/ BeginGive(j) \/ BeginFlush(j), UNCHANGED agenda
  PROVE  CopiesInv(own)'
<1>1. Idle(j) /\ UNCHANGED <<person, subs, account, userCache, subCache, disturbed, agenda>>
  BY DEF BeginGrant, BeginGive, BeginFlush, stores, caches, history
<1>2. ASSUME NEW u \in Users, NEW ask, NEW todo \in Seq(Names), Plain(todo), NEW rescue \in {<<>>, todo},
             Begin(j, u, ask, todo, rescue)
      PROVE  CopiesInv(own)'
  <2>1. Rescue(j, rescue)
    BY <1>2, EmptyPlain DEF Rescue
  <2>2. Steady(own, j)
    BY <1>1, <1>2, <2>1, BeginSteady, Zenon
  <2> QED BY <2>2, SteadyKeeps
<1>3. CASE \E u \in Loyal : BeginGrant(j, u)
  <2> DEFINE e == <<>>
             t == Grantable
  <2>1. PICK u \in Users : Begin(j, u, NoAsk, t, e)
    BY <1>3, JobAssumption DEF BeginGrant
  <2>2. t \in Seq(Names) /\ Plain(t) /\ e \in {<<>>, t}
    BY TaskLists
  <2> HIDE DEF t, e
  <2> QED BY <1>2, <2>1, <2>2
<1>4. CASE BeginGive(j)
  <2> DEFINE ask == [field |-> "reward", to |-> RewardOf[j]]
             t == Giving(ask.to)
  <2>1. Begin(j, Winner, ask, t, t)
    BY <1>4 DEF BeginGive
  <2>2. t \in Seq(Names) /\ Plain(t) /\ Winner \in Users
    BY TaskLists, JobAssumption
  <2> HIDE DEF t, ask
  <2> QED BY <1>2, <2>1, <2>2
<1>5. CASE BeginFlush(j)
  <2> DEFINE e == <<>>
             t == <<"sub", "pending">>
  <2>1. Begin(j, Winner, NoAsk, t, e)
    BY <1>5 DEF BeginFlush
  <2>2. t \in Seq(Names) /\ Plain(t) /\ e \in {<<>>, t} /\ Winner \in Users
    BY TaskLists, JobAssumption
  <2> HIDE DEF t, e
  <2> QED BY <1>2, <2>1, <2>2
<1> QED BY <1>3, <1>4, <1>5

\* The process dies.
LEMMA CrashKeeps ==
  ASSUME NEW own, CopiesInv(own), NEW j \in Jobs, Crash(j), UNCHANGED agenda
  PROVE  CopiesInv(own)'
<1>1. /\ job[j].todo # <<>> /\ Stop(j) /\ UNCHANGED <<person, subs, account, userCache, subCache, agenda>>
      /\ disturbed \subseteq disturbed' /\ (job[j].wrote => job[j].user \in disturbed')
  BY DEF Crash, Idle, stores, caches
<1>2. JobOK(own, j)
  BY <1>1, Underway
<1>3. First(job[j].todo, {"clearSub", "clearUser", "refillUser"}) => job[j].user \in disturbed'
  BY <1>1, <1>2, SpecialHeads DEF First
<1> QED BY <1>1, <1>3, StopKeeps

\* The loyalty run before it writes.
LEMMA RunKeeps ==
  ASSUME NEW own, CopiesInv(own), NEW j \in Jobs \ Desks, ReadState(j) \/ Eligible(j) \/ TakeLock(j) \/ Aim(j), UNCHANGED agenda
  PROVE  CopiesInv(own)'
<1>1. CASE ReadState(j)
  <2>1. At(j, "seen") /\ "seen" \notin Special \cup {"user", "sub"} /\ UNCHANGED <<person, subs, account, userCache, subCache, disturbed, agenda>>
    BY <1>1 DEF ReadState, Special, Locally, stores, caches, history
  <2> DEFINE s == job[j].todo
  <2>2. /\ s # <<>> /\ Plain(s) /\ SubOK(own, j) /\ JobOK(own, j) /\ DOMAIN job[j] = JobFields /\ Plain(Tail(s))
        /\ s \in Seq(Names) /\ Tail(s) \in Seq(Names)
        /\ DOMAIN account = Users /\ \A v \in Users : account[v] = None \/ DOMAIN account[v] = AccountFields
    BY <2>1, TaskPlain
  <2>3. CASE Stop(j)
    BY <2>1, <2>2, <2>3, PlainFirst, StopKeeps
  <2>4. CASE job' = [job EXCEPT ![j] = [Goes(@, <<>>) EXCEPT !.ask = state[job[j].user]]]
    <3> DEFINE e == <<>>
               g == Goes(job[j], e)
               r == [g EXCEPT !.ask = state[job[j].user]]
    <3>0. e \in Seq(Names) /\ e \o Tail(s) = Tail(s)
      BY <2>2, EmptyPlain, JoinFacts
    <3>1. job' = [job EXCEPT ![j] = r]
      BY <2>4
    <3> HIDE DEF e
    <3>2. /\ DOMAIN g = JobFields /\ g.todo = Tail(s) /\ g.rescue \in {<<>>, job[j].rescue}
          /\ g.sub = None \/ (g.sub = job[j].sub /\ g.todo # <<>>)
          /\ g.todo # <<>> => g.user = job[j].user
      <4>1. CASE Tail(s) = <<>>
        <5>1. g = IdleJob
          BY <3>0, <4>1 DEF Goes
        <5> QED BY <4>1, <5>1 DEF IdleJob, JobFields
      <4>2. CASE Tail(s) # <<>>
        <5>1. g = [job[j] EXCEPT !.todo = Tail(s)]
          BY <3>0, <4>2 DEF Goes
        <5> QED BY <2>2, <4>2, <5>1 DEF JobFields
      <4> QED BY <4>1, <4>2
    <3> HIDE DEF g
    <3>3. /\ DOMAIN r = JobFields /\ r.todo = Tail(s) /\ r.rescue = g.rescue /\ r.sub = g.sub /\ r.user = g.user
      BY <3>2 DEF JobFields
    <3> HIDE DEF r
    <3>4. /\ DOMAIN r = JobFields /\ r.todo \in Seq(Names) /\ Plain(r.todo) /\ r.rescue \in {<<>>, job[j].rescue}
          /\ (r.todo # <<>> => r.user = job[j].user) /\ (r.sub = None \/ Owned(own, r.sub, r.user))
      BY <2>2, <3>2, <3>3 DEF SubOK
    <3> QED BY <2>1, <2>2, <3>1, <3>4, OnwardKeeps
  <2> QED BY <1>1, <2>3, <2>4 DEF ReadState
<1>2. CASE Eligible(j)
  <2>1. At(j, "eligible") /\ "eligible" \notin Special \cup {"user", "sub"} /\ UNCHANGED <<person, subs, account, userCache, subCache, disturbed, agenda>>
    BY <1>2 DEF Eligible, Special, Locally, stores, caches, history
  <2>2. job[j].todo # <<>> /\ Plain(job[j].todo) /\ job[j].todo \in Seq(Names)
    BY <2>1, TaskPlain
  <2>3. CASE Stop(j)
    BY <2>1, <2>2, <2>3, PlainFirst, StopKeeps
  <2>4. CASE Continue(j)
    BY <2>1, <2>4, GoOnKeeps
  <2> QED BY <1>2, <2>3, <2>4 DEF Eligible
<1>3. CASE TakeLock(j)
  <2>1. At(j, "lock") /\ "lock" \notin Special \cup {"user", "sub"} /\ UNCHANGED <<person, subs, account, userCache, subCache, disturbed, agenda>>
    BY <1>3 DEF TakeLock, Special, Locally, stores, caches, history
  <2>2. job[j].todo # <<>> /\ Plain(job[j].todo) /\ job[j].todo \in Seq(Names) /\ SubOK(own, j) /\ DOMAIN job[j] = JobFields
    BY <2>1, TaskPlain
  <2>3. CASE Stop(j)
    BY <2>1, <2>2, <2>3, PlainFirst, StopKeeps
  <2> DEFINE t == <<"sub", "aim">>
             c == <<"unlock">>
             r == [job[j] EXCEPT !.todo = t, !.rescue = c]
  <2>4. CASE job' = [job EXCEPT ![j] = r]
    <3>1. t \in Seq(Names) /\ Plain(t) /\ c \in Seq(Names) /\ Plain(c)
      BY TaskLists
    <3> HIDE DEF t, c
    <3>2. DOMAIN r = JobFields /\ r.todo = t /\ r.user = job[j].user /\ r.sub = job[j].sub /\ r.rescue = c
      BY <2>2 DEF JobFields
    <3>5. job' = [job EXCEPT ![j] = r]
      BY <2>4
    <3> HIDE DEF r
    <3>3. Rescue(j, r.rescue)
      BY <3>1, <3>2 DEF Rescue
    <3>4. Ready(own, r) /\ r.todo \in Seq(Names)
      BY <2>2, <3>1, <3>2 DEF Ready, SubOK
    <3> QED BY <2>1, <2>2, <3>2, <3>3, <3>4, <3>5, ReadyKeeps
  <2> QED BY <1>3, <2>3, <2>4 DEF TakeLock
<1>4. CASE Aim(j)
  <2>1. At(j, "aim") /\ "aim" \notin Special \cup {"user", "sub"} /\ UNCHANGED <<person, subs, account, userCache, subCache, agenda>>
    BY <1>4 DEF Aim, Special, stores, caches
  <2>2. /\ job[j].todo # <<>> /\ Plain(job[j].todo) /\ job[j].todo \in Seq(Names) /\ SubOK(own, j) /\ DOMAIN job[j] = JobFields
        /\ Rescue(j, job[j].rescue)
    BY <2>1, TaskPlain DEF JobOK
  <2>3. CASE Raise(j)
    BY <2>1, <2>2, <2>3, RaiseKeeps
  <2> DEFINE last == <<"push", "done", "unlock">>
  <2>4. CASE /\ job[j].sub # None /\ Undisturbed
             /\ \E ask : job' = [job EXCEPT ![j] = [@ EXCEPT !.ask = ask, !.todo = Granting(ask) \o last]]
    <3>1. PICK ask : job' = [job EXCEPT ![j] = [@ EXCEPT !.ask = ask, !.todo = Granting(ask) \o last]]
      BY <2>4
    <3> DEFINE t == Granting(ask) \o last
               r == [job[j] EXCEPT !.ask = ask, !.todo = t]
    <3>2. t \in Seq(Names) /\ (Plain(t) \/ ExtendFirst(t))
      <4>1. CASE ask.field = "extended"
        BY <4>1, TaskLists DEF Granting
      <4>2. CASE ask.field # "extended"
        BY <4>2, TaskLists DEF Granting
      <4> QED BY <4>1, <4>2
    <3>3. job' = [job EXCEPT ![j] = r]
      BY <3>1
    <3> HIDE DEF t, last
    <3>4. DOMAIN r = JobFields /\ r.todo = t /\ r.user = job[j].user /\ r.sub = job[j].sub /\ r.rescue = job[j].rescue
      BY <2>2 DEF JobFields
    <3> HIDE DEF r
    <3>5. Ready(own, r) /\ r.todo \in Seq(Names) /\ Rescue(j, r.rescue) /\ disturbed \subseteq disturbed'
      BY <2>2, <2>4, <3>2, <3>4 DEF Ready, SubOK, Undisturbed
    <3> QED BY <2>1, <2>2, <3>3, <3>4, <3>5, ReadyKeeps
  <2> QED BY <1>4, <2>3, <2>4 DEF Aim
<1> QED BY <1>1, <1>2, <1>3, <1>4
\* The loyalty run extends the subscription, unless its goal was reached before.
LEMMA ExtendKeeps ==
  ASSUME NEW own, CopiesInv(own), NEW j \in Jobs, Extend(j), UNCHANGED agenda
  PROVE  CopiesInv(own)'
<1> DEFINE s == job[j].todo
           old == job[j].sub
           new == [old EXCEPT !.days = job[j].ask.to]
           e == <<>>
<1>1. s # <<>> /\ Head(s) = "extend"
  BY DEF Extend, At, Idle
<1>2. /\ DOMAIN job = Jobs /\ JobOK(own, j) /\ DOMAIN job[j] = JobFields /\ s \in Seq(Names) /\ Tail(s) \in Seq(Names)
      /\ StoresOK(own) /\ DOMAIN account = Users
      /\ (\A v \in Users : account[v] = None \/ DOMAIN account[v] = AccountFields)
  BY <1>1, Underway
<1>3. ExtendFirst(s) /\ Owned(own, job[j].sub, job[j].user)
  BY <1>1, <1>2, SpecialHeads
<1>4. /\ Plain(Tail(s)) /\ ~StaleSub(s) /\ ~StaleUser(s) /\ ~First(s, {"clearSub", "clearUser", "refillUser"})
      /\ e \in Seq(Names) /\ e \o Tail(s) = Tail(s)
  BY <1>1, <1>2, <1>3, Heads, JoinFacts, EmptyPlain DEF ExtendFirst, First
<1>5. CASE BillSubKeeping(j, new, {"days"}, Billed(new, {"days"})[old.id], e)
  <2>1. DOMAIN new = SubFields /\ new.id = old.id /\ DOMAIN subs[old.id] = SubFields /\ subs[old.id].id = old.id /\ old.id \in DOMAIN subs
    BY <1>2, <1>3 DEF Owned, SubFields, StoresOK
  <2>2. PICK kept : kept = Billed(new, {"days"})[old.id]
    OBVIOUS
  <2> HIDE DEF new
  <2>3. kept = [f \in DOMAIN subs[old.id] |-> IF f \in {"days"} THEN new[f] ELSE subs[old.id][f]]
    BY <2>1, <2>2 DEF Billed
  <2>4. DOMAIN kept = SubFields /\ kept.id = old.id
    BY <2>1, <2>3 DEF SubFields
  <2>5. BillSubKeeping(j, new, {"days"}, kept, e)
    BY <1>5, <2>2
  <2>6. PICK u : u = job[j].user
    OBVIOUS
  <2> HIDE DEF e
  <2>7. Plain(e \o Tail(s))
    BY <1>4
  <2> QED BY <1>1, <1>3, <1>4, <2>1, <2>4, <2>5, <2>6, <2>7, BillSubKeeps, Zenon
<1>6. CASE Continue(j) /\ Locally
  <2>1. job' = [job EXCEPT ![j] = Goes(job[j], <<>>)] /\ UNCHANGED <<person, subs, account, userCache, subCache, disturbed, agenda>>
    BY <1>6 DEF Continue, Locally, stores, caches, history
  <2>2. Record(own, j, job[j]) /\ Suits(job[j], Tail(s))
    BY <1>1, <1>2, <1>3, <1>4, OwnRecord DEF SubOK, Suits, Free
  <2>3. Went(own, j, job[j], Tail(s))
    BY <1>2, <2>1, <2>2, ContinueOK
  <2>4. ~First(Tail(s), {"keepUser", "keepSub", "refillUser"})
    BY <1>2, <1>4, PlainFirst
  <2> QED BY <1>2, <1>4, <2>1, <2>3, <2>4, WentKeeps
<1> QED BY <1>5, <1>6 DEF Extend

\* Records of how far a run or a reward came.
LEMMA MarkKeeps ==
  ASSUME NEW own, CopiesInv(own), NEW j \in Jobs, Mark(j) \/ Done(j) \/ Unlock(j) \/ Issue(j), UNCHANGED agenda
  PROVE  CopiesInv(own)'
<1>1. PICK step \in {"mark", "done", "unlock", "issue"} : At(j, step)
  BY DEF Mark, Done, SetState, Unlock, Issue
<1>2. step \notin Special \cup {"user", "sub"}
  BY DEF Special
<1>3. Continue(j) /\ UNCHANGED <<person, subs, account, userCache, subCache, disturbed, agenda>>
  BY DEF Mark, Done, SetState, Unlock, Issue, Locally, stores, caches, history
<1> QED BY <1>1, <1>2, <1>3, GoOnKeeps

\* A discount or points for the user.
LEMMA GiftKeeps ==
  ASSUME NEW own, CopiesInv(own), NEW j \in Jobs, GiveDiscount(j) \/ GivePoints(j), UNCHANGED agenda
  PROVE  CopiesInv(own)'
<1>1. PICK step \in {"discount", "points"} : At(j, step)
  BY DEF GiveDiscount, GivePoints
<1>2. step \notin Special \cup {"user", "sub"}
  BY DEF Special
<1>3. job[j].todo # <<>> /\ Plain(job[j].todo) /\ SubOK(own, j)
  BY <1>1, <1>2, TaskPlain
<1>4. PICK u : u = job[j].user
  OBVIOUS
<1>5. CASE GiveDiscount(j)
  <2>1. CASE BillUser(j, "discount", LoyaltyDiscount, <<"refillUser">>)
    BY <1>3, <1>4, <2>1, BillUserKeeps, Zenon
  <2>2. CASE Continue(j) /\ Locally
    BY <1>1, <1>2, <2>2, GoOnKeeps DEF Locally, stores, caches, history
  <2> QED BY <1>5, <2>1, <2>2 DEF GiveDiscount
<1>6. CASE GivePoints(j)
  <2>1. PICK v : v = job[j].usr.points + Amount[job[j].ask.to]
    OBVIOUS
  <2>2. BillUser(j, "points", v, <<"clearUser">>)
    BY <1>6, <2>1 DEF GivePoints, BillUser
  <2> QED BY <1>3, <1>4, <2>2, BillUserKeeps, Zenon
<1> QED BY <1>5, <1>6

\* Days for the subscription.
LEMMA DaysKeep ==
  ASSUME NEW own, CopiesInv(own), NEW j \in Jobs, GiveDays(j), UNCHANGED agenda
  PROVE  CopiesInv(own)'
<1>1. At(j, "days") /\ "days" \notin Special \cup {"user", "sub"}
  BY DEF GiveDays, Special
<1>2. /\ job[j].todo # <<>> /\ Plain(job[j].todo) /\ Plain(Tail(job[j].todo)) /\ job[j].todo \in Seq(Names)
      /\ job[j].sub = None \/ Owned(own, job[j].sub, job[j].user)
      /\ ~StaleSub(job[j].todo) /\ ~StaleUser(job[j].todo)
  BY <1>1, TaskPlain
<1>3. CASE Stop(j) /\ Locally
  BY <1>2, <1>3, PlainFirst, StopKeeps DEF Locally, stores, caches, history
<1> DEFINE new == Later(job[j].sub, job[j].ask.to)
<1>4. CASE job[j].sub # None /\ BillSub(j, new, {"days"}, <<>>)
  <2>1. Owned(own, job[j].sub, job[j].user)
    BY <1>2, <1>4
  <2>2. DOMAIN new = SubFields /\ new.id = job[j].sub.id
    BY <2>1 DEF Owned, SubFields, Later
  <2> HIDE DEF new
  <2> QED BY <1>2, <1>4, <2>1, <2>2, BillKeeps
<1> QED BY <1>3, <1>4 DEF GiveDays

\* The flush takes the rewards that wait, one after the other.
LEMMA FlushKeeps ==
  ASSUME NEW own, CopiesInv(own), NEW j \in Jobs \ Desks, ListPending(j) \/ Flush(j), UNCHANGED agenda
  PROVE  CopiesInv(own)'
<1>1. PICK step \in {"pending", "flush"} : At(j, step)
  BY DEF ListPending, Flush
<1>2. step \notin Special \cup {"user", "sub"}
  BY DEF Special
<1>3. UNCHANGED <<person, subs, account, userCache, subCache, disturbed, agenda>>
  BY DEF ListPending, Flush, Locally, stores, caches, history
<1>4. /\ job[j].todo # <<>> /\ Plain(job[j].todo) /\ job[j].todo \in Seq(Names) /\ SubOK(own, j) /\ DOMAIN job[j] = JobFields
      /\ Rescue(j, job[j].rescue)
  BY <1>1, <1>2, TaskPlain DEF JobOK
<1>5. CASE Stop(j)
  BY <1>3, <1>4, <1>5, PlainFirst, StopKeeps
<1>6. ASSUME NEW ask, NEW remna, NEW t \in Seq(Names), Plain(t),
             job' = [job EXCEPT ![j] = [@ EXCEPT !.ask = ask, !.remna = remna, !.todo = t]]
      PROVE  CopiesInv(own)'
  <2> DEFINE r == [job[j] EXCEPT !.ask = ask, !.remna = remna, !.todo = t]
  <2>1. DOMAIN r = JobFields /\ r.todo = t /\ r.user = job[j].user /\ r.sub = job[j].sub /\ r.rescue = job[j].rescue
    BY <1>4 DEF JobFields
  <2>2. job' = [job EXCEPT ![j] = r]
    BY <1>6
  <2> HIDE DEF r
  <2>3. Ready(own, r) /\ r.todo \in Seq(Names) /\ Rescue(j, r.rescue)
    BY <1>4, <1>6, <2>1 DEF Ready, SubOK
  <2> QED BY <1>3, <1>4, <2>1, <2>2, <2>3, ReadyKeeps
<1>7. CASE ListPending(j)
  <2> DEFINE t == <<"user", "flush">>
  <2>1. Stop(j) \/ job' = [job EXCEPT ![j] = [@ EXCEPT !.remna = Banked, !.todo = t]]
    BY <1>7 DEF ListPending
  <2>2. CASE job' = [job EXCEPT ![j] = [@ EXCEPT !.remna = Banked, !.todo = t]]
    <3>1. t \in Seq(Names) /\ Plain(t)
      BY TaskLists
    <3> HIDE DEF t
    <3>2. [job[j] EXCEPT !.remna = Banked, !.todo = t] = [job[j] EXCEPT !.ask = job[j].ask, !.remna = Banked, !.todo = t]
      BY <1>4 DEF JobFields
    <3> QED BY <1>6, <2>2, <3>1, <3>2
  <2> QED BY <1>5, <2>1, <2>2
<1>8. CASE Flush(j)
  <2> DEFINE t == <<"days", "push", "issue", "flush">>
  <2>1. CASE Stop(j)
    BY <1>5, <2>1
  <2>2. CASE \E reward \in job[j].remna :
               job' = [job EXCEPT ![j] = [@ EXCEPT !.ask = [field |-> "reward", to |-> reward], !.remna = job[j].remna \ {reward}, !.todo = t]]
    <3>1. t \in Seq(Names) /\ Plain(t)
      BY TaskLists
    <3>2. PICK ask, remna : job' = [job EXCEPT ![j] = [@ EXCEPT !.ask = ask, !.remna = remna, !.todo = t]]
      BY <2>2
    <3> HIDE DEF t
    <3> QED BY <1>6, <3>1, <3>2
  <2> QED BY <1>8, <2>1, <2>2 DEF Flush
<1> QED BY <1>7, <1>8

\* Any step of a command or a task.
LEMMA GrantsKeep ==
  ASSUME NEW own, CopiesInv(own), NEW j \in Jobs \ Desks, GrantsNext(j), UNCHANGED agenda
  PROVE  CopiesInv(own)'
<1>1. CASE (j \in Runs /\ \E u \in Loyal : BeginGrant(j, u)) \/ (j \in Givers /\ BeginGive(j)) \/ (j \in Flushers /\ BeginFlush(j))
  BY <1>1, BeginKeeps
<1>2. CASE Crash(j)
  BY <1>2, CrashKeeps
<1>3. CASE Interruptible(j)
  BY <1>3, AwaitKeeps DEF Interruptible
<1>4. CASE ReadState(j) \/ Eligible(j) \/ TakeLock(j) \/ Aim(j)
  BY <1>4, RunKeeps
<1>5. CASE Extend(j)
  BY <1>5, ExtendKeeps
<1>6. CASE Mark(j) \/ Done(j) \/ Unlock(j) \/ Issue(j)
  BY <1>6, MarkKeeps
<1>7. CASE GiveDiscount(j) \/ GivePoints(j)
  BY <1>7, GiftKeeps
<1>8. CASE GiveDays(j)
  BY <1>8, DaysKeep
<1>9. CASE ListPending(j) \/ Flush(j)
  BY <1>9, FlushKeeps
<1> QED BY <1>1, <1>2, <1>3, <1>4, <1>5, <1>6, <1>7, <1>8, <1>9 DEF GrantsNext, GrantStep
-----------------------------------------------------------------------------
(* The desks                                                               *)

\* A handler of the dashboard that does not open, show or leave a window stays at its own.
Stayed(d) ==
    /\ DOMAIN desk' = DOMAIN desk /\ \A k \in DOMAIN desk : k # d => desk'[k] = desk[k]
    /\ DOMAIN desk'[d] = DOMAIN desk[d] /\ desk'[d].win = desk[d].win

LEMMA StayedFacts ==
  ASSUME DeskInv, NEW d \in Desks
  PROVE  /\ UNCHANGED desk => Stayed(d)
         /\ \A x : desk' = [desk EXCEPT ![d].armed = x] => Stayed(d)
         /\ \A x : desk' = [desk EXCEPT ![d].payload = x] => Stayed(d)
<1>1. DOMAIN desk = Desks /\ DOMAIN desk[d] = {"win", "shown", "payload", "armed"}
  BY DEF DeskInv
<1>2. UNCHANGED desk => Stayed(d)
  BY DEF Stayed
<1>3. ASSUME NEW x, desk' = [desk EXCEPT ![d].armed = x] PROVE Stayed(d)
  BY <1>1, <1>3 DEF Stayed
<1>4. ASSUME NEW x, desk' = [desk EXCEPT ![d].payload = x] PROVE Stayed(d)
  BY <1>1, <1>4 DEF Stayed
<1> QED BY <1>2, <1>3, <1>4

\* A button is pressed in a window that is shown.
LEMMA PressedFacts ==
  ASSUME DeskInv, NEW d \in Desks, DeskClick(d) \/ DeskEdit(d), ~Open(d)
  PROVE  desk[d].win \in Windows /\ Stayed(d)
<1>1. ASSUME NEW w, NEW todo, Look(d, w, todo) PROVE desk[d].win = w /\ UNCHANGED desk
  BY <1>1 DEF Look, Pressing, deskVars
<1>2. ASSUME NEW w, NEW ask, NEW todo, Change(d, w, ask, todo) PROVE desk[d].win = w /\ UNCHANGED desk
  BY <1>2 DEF Change, Pressing
<1>3. ASSUME NEW todo, StartSync(d, todo) PROVE desk[d].win = "SYNC" /\ UNCHANGED desk
  BY <1>3 DEF StartSync, Pressing
<1>4. {"MAIN", "SUBSCRIPTION", "DEVICES_LIST", "TRAFFIC_LIMIT", "DEVICE_LIMIT", "INTERNAL_SQUADS", "EXTERNAL_SQUADS", "EXPIRE_TIME",
       "DISCOUNT", "POINTS", "MESSAGE", "ROLE", "SYNC", "GIVE_ACCESS", "GIVE_SUBSCRIPTION", "SUBSCRIPTION_DURATION",
       "TRANSACTIONS_LIST"} \subseteq Windows
  BY GetterFacts, Zenon
<1>5. CASE DeskClick(d)
  <2>1. CASE \/ OnCurrentSubscription(d) \/ OnResetTraffic(d) \/ OnDevices(d)
             \/ OnSync(d) \/ OnGiveSubscription(d) \/ OnSubscriptionSelect(d) \/ OnGiveAccess(d)
             \/ OnTransactions(d) \/ OnTransactionSelect(d)
    BY <1>1, <1>4, <2>1, StayedFacts DEF OnCurrentSubscription, OnResetTraffic, OnDevices, OnSync, OnGiveSubscription,
       OnSubscriptionSelect, OnGiveAccess, OnTransactions, OnTransactionSelect
  <2>2. CASE OnContentInput(d)
    BY <1>4, <2>2, StayedFacts DEF OnContentInput, Pressing
  <2>3. CASE \E w \in Windows : SwitchTo(d, w)
    BY <1>1, <2>3, StayedFacts DEF SwitchTo
  <2>4. CASE \E w \in {"DISCOUNT", "POINTS", "TRAFFIC_LIMIT", "DEVICE_LIMIT", "EXPIRE_TIME"} : OnInvalidInput(d, w)
    BY <1>4, <2>4, StayedFacts DEF OnInvalidInput, Pressing, deskVars
  <2> QED BY <1>5, <2>1, <2>2, <2>3, <2>4 DEF DeskClick
<1>6. CASE DeskEdit(d)
  <2>1. ASSUME NEW w, NEW field, NEW to, NEW next, EditSub(d, w, field, to, next) PROVE desk[d].win = w /\ UNCHANGED desk
    BY <1>2, <2>1 DEF EditSub
  <2>2. CASE \/ OnBlockToggle(d) \/ \E role \in DOMAIN Rank : OnRoleSelect(d, role)
             \/ \E rate \in Rates : OnDiscount(d, rate)
             \/ \E sum \in Sums : OnPoints(d, sum)
    <3>1. \E w \in {"MAIN", "ROLE", "DISCOUNT", "POINTS"} : \E ask, todo : Change(d, w, ask, todo)
      BY <2>2, Zenon DEF OnBlockToggle, OnRoleSelect, OnDiscount, OnPoints
    <3>2. desk[d].win \in {"MAIN", "ROLE", "DISCOUNT", "POINTS"} /\ UNCHANGED desk
      BY <1>2, <3>1
    <3> QED BY <1>4, <3>2, StayedFacts
  <2>3. CASE \/ \E value \in Values : OnTrafficLimit(d, value) \/ OnDeviceLimit(d, value)
             \/ OnInternalSquad(d) \/ OnExternalSquad(d)
             \/ \E delta \in Deltas : OnDuration(d, delta)
    BY <1>4, <2>1, <2>3, StayedFacts DEF OnTrafficLimit, OnDeviceLimit, OnInternalSquad, OnExternalSquad, OnDuration
  <2>4. CASE \/ OnActiveToggle(d) \/ OnSubscriptionDelete(d) \/ OnDeviceDelete(d)
             \/ OnSubscriptionDuration(d) \/ OnPlanSelect(d) \/ OnSend(d)
    BY <1>2, <1>4, <2>4, StayedFacts DEF OnActiveToggle, OnSubscriptionDelete, OnDeviceDelete, OnSubscriptionDuration, OnPlanSelect, OnSend
  <2>5. CASE OnSyncFromRemnawave(d) \/ OnSyncFromRemnashop(d)
    BY <1>3, <1>4, <2>5, StayedFacts DEF OnSyncFromRemnawave, OnSyncFromRemnashop
  <2> QED BY <1>6, <2>2, <2>3, <2>4, <2>5 DEF DeskEdit
<1> QED BY <1>5, <1>6

\* What a handler does between its reads and the window it shows.
Inside(d) ==
    \/ SetUser(d) \/ WhetherSub(d) \/ Edit(d) \/ Toggle(d) \/ BillStatus(d) \/ Reset(d)
    \/ Devices(d) \/ Unlink(d) \/ ConfirmDelete(d) \/ Drop(d) \/ Remove(d)
    \/ Matching(d) \/ Fetch(d) \/ DropActor(d) \/ ClearActor(d) \/ Apply(d) \/ Compare(d) \/ Restore(d)
    \/ OfferPlans(d) \/ Provision(d) \/ CreateSub(d) \/ PointTo(d)
    \/ OfferAccess(d) \/ ReadPlan(d) \/ GrantAccess(d) \/ Send(d)

LEMMA InsideFacts ==
  ASSUME DeskInv, NEW d \in Desks, Inside(d)
  PROVE  desk[d].win \in Windows /\ Stayed(d)
<1>1. /\ job[d].todo # <<>>
      /\ Head(job[d].todo) \in {"set", "whether", "edit", "toggle", "status", "reset", "devices", "unlink", "confirm", "drop", "remove",
            "match", "fetch", "dropActor", "clearActor", "apply", "compare", "restore", "plans", "provision", "create", "point",
            "access", "plan", "grant", "send"}
  BY DEF Inside, SetUser, WhetherSub, Edit, Toggle, BillStatus, Reset, Devices, Unlink, ConfirmDelete, Drop, Remove, Matching, Fetch,
     DropActor, ClearActor, Apply, Compare, Restore, OfferPlans, Provision, CreateSub, PointTo, OfferAccess, ReadPlan, GrantAccess,
     Send, Decide, Unset, At, Idle
<1>2. desk[d].win \in Windows
  BY <1>1, WindowKnown
<1>3. Stayed(d)
  <2>1. CASE ConfirmDelete(d)
    <3>1. Arm(d, "delete") \/ UNCHANGED desk
      BY <2>1 DEF ConfirmDelete
    <3> QED BY <3>1, StayedFacts DEF Arm
  <2>2. CASE Send(d)
    <3>1. Arm(d, "message") \/ UNCHANGED desk
      BY <2>2 DEF Send
    <3> QED BY <3>1, StayedFacts DEF Arm
  <2>3. CASE SetUser(d) \/ WhetherSub(d) \/ Edit(d) \/ Toggle(d) \/ BillStatus(d) \/ Reset(d)
    BY <2>3, StayedFacts DEF SetUser, WhetherSub, Edit, Toggle, BillStatus, Reset, deskVars
  <2>4. CASE Devices(d) \/ Unlink(d) \/ Drop(d) \/ Remove(d) \/ Matching(d) \/ Fetch(d) \/ DropActor(d) \/ ClearActor(d)
    BY <2>4, StayedFacts DEF Devices, Unlink, Drop, Remove, Matching, Fetch, DropActor, ClearActor, deskVars
  <2>5. CASE Apply(d) \/ Compare(d) \/ Restore(d) \/ OfferPlans(d) \/ Provision(d) \/ CreateSub(d) \/ PointTo(d)
    BY <2>5, StayedFacts DEF Apply, Compare, Restore, OfferPlans, Provision, CreateSub, PointTo, deskVars
  <2>6. CASE OfferAccess(d) \/ ReadPlan(d) \/ GrantAccess(d)
    BY <2>6, StayedFacts DEF OfferAccess, ReadPlan, GrantAccess, deskVars
  <2> QED BY <2>1, <2>2, <2>3, <2>4, <2>5, <2>6 DEF Inside
<1> QED BY <1>2, <1>3
\* The awaits of a dashboard that is being opened.
LEMMA OpenedFacts ==
  ASSUME NEW s \in Seq(Names), Opening(s), s # <<>>
  PROVE  /\ Head(s) \in {"user", "keepUser", "sub", "keepSub", "MAIN", "MENU"} /\ Opening(Tail(s))
         /\ Head(s) = "user" => Opening(<<"keepUser">> \o Tail(s))
         /\ Head(s) = "sub" => Opening(<<"keepSub">> \o Tail(s))
<1>1. Tail(s) \in Seq(Names) /\ "keepUser" \in Names /\ "keepSub" \in Names
  BY RestFacts DEF Names, Special
<1> DEFINE k == <<"keepUser">> \o Tail(s)
           l == <<"keepSub">> \o Tail(s)
<1>2. k # <<>> /\ Head(k) = "keepUser" /\ Tail(k) = Tail(s) /\ l # <<>> /\ Head(l) = "keepSub" /\ Tail(l) = Tail(s)
  BY <1>1, ConsFacts
<1> HIDE DEF k, l
<1>3. CASE s = <<"MENU">>
  <2>1. Head(s) = "MENU" /\ Tail(s) = <<>>
    BY <1>3
  <2> QED BY <2>1 DEF Opening
<1>4. CASE OpenMain(s)
  BY <1>4 DEF Opening, OpenMain, First
<1>5. CASE OpenSub(s)
  <2>1. Head(s) \in {"sub", "keepSub"} /\ OpenMain(Tail(s)) /\ OpenSub(l)
    BY <1>2, <1>5 DEF OpenSub, First
  <2> QED BY <2>1 DEF Opening, l
<1>6. CASE OpenUser(s)
  <2>1. Head(s) \in {"user", "keepUser"} /\ OpenSub(Tail(s)) /\ OpenUser(k)
    BY <1>2, <1>6 DEF OpenUser, First
  <2> QED BY <2>1 DEF Opening, k
<1> QED BY <1>3, <1>4, <1>5, <1>6 DEF Opening

\* After an exception the main menu is left to be shown, if that.
LEMMA RaisedFacts ==
  ASSUME NEW own, CopiesInv(own), NEW d \in Desks, Raise(d)
  PROVE  Opening(job'[d].todo)
<1>1. d \in Jobs /\ DOMAIN job = Jobs /\ job[d].rescue \in {<<>>, <<"MENU">>}
  BY JobAssumption DEF CopiesInv, JobOK, Rescue
<1>2. CASE job[d].rescue = <<>>
  <2>1. job'[d] = IdleJob
    BY <1>1, <1>2 DEF Raise
  <2> QED BY <2>1 DEF IdleJob, Opening
<1>3. CASE job[d].rescue # <<>>
  <2>1. job'[d] = [IdleJob EXCEPT !.user = job[d].user, !.ask = job[d].ask, !.todo = job[d].rescue]
    BY <1>1, <1>3 DEF Raise
  <2>2. job'[d].todo = job[d].rescue
    BY <2>1 DEF IdleJob
  <2> QED BY <1>1, <2>2 DEF Opening
<1> QED BY <1>2, <1>3

\* A job that goes on has the rest of its awaits left.
LEMMA RestLeft ==
  ASSUME NEW own, CopiesInv(own), NEW j \in Jobs, job[j].todo # <<>>, NEW r, DOMAIN r = JobFields, r.todo = job[j].todo,
         job' = [job EXCEPT ![j] = Goes(r, <<>>)]
  PROVE  job'[j].todo = Tail(job[j].todo)
<1>1. job[j].todo \in Seq(Names) /\ DOMAIN job = Jobs
  BY Underway
<1> DEFINE e == <<>>
<1>2. e \in Seq(Names) /\ job' = [job EXCEPT ![j] = Goes(r, e)]
  BY EmptyPlain
<1>3. e \o Tail(job[j].todo) = Tail(job[j].todo)
  BY <1>1, RestFacts, JoinFacts
<1> HIDE DEF e
<1>4. Goes(r, e).todo = e \o Tail(r.todo)
  BY <1>1, <1>2, GoesFacts
<1> QED BY <1>1, <1>2, <1>3, <1>4

\* A dashboard that is being opened is opened step by step.
LEMMA OpeningKeeps ==
  ASSUME NEW own, CopiesInv(own), NEW d \in Desks, AwaitStep(d) \/ Fault(d), Opening(job[d].todo)
  PROVE  Opening(job'[d].todo)
<1> DEFINE s == job[d].todo
<1>0. d \in Jobs
  BY JobAssumption
<1>1. CASE Fault(d)
  BY <1>1, RaisedFacts DEF Fault
<1>2. CASE AwaitStep(d)
  <2>1. s # <<>>
    BY <1>2 DEF AwaitStep, ReadUser, KeepUser, ReadSub, KeepSub, ClearSub, ClearUser, RefillUser, Push, At, Idle
  <2>2. s \in Seq(Names) /\ DOMAIN job[d] = JobFields /\ DOMAIN job = Jobs
    BY <1>0, <2>1, Underway
  <2>3. /\ Head(s) \in {"user", "keepUser", "sub", "keepSub", "MAIN", "MENU"} /\ Opening(Tail(s))
        /\ Head(s) = "user" => Opening(<<"keepUser">> \o Tail(s))
        /\ Head(s) = "sub" => Opening(<<"keepSub">> \o Tail(s))
    BY <2>1, <2>2, OpenedFacts
  <2>4. ReadUser(d) \/ KeepUser(d) \/ ReadSub(d) \/ KeepSub(d)
    BY <1>2, <2>3 DEF AwaitStep, ClearSub, ClearUser, RefillUser, Push, At
  <2>5. CASE KeepUser(d) \/ KeepSub(d)
    <3>1. job' = [job EXCEPT ![d] = Goes(job[d], <<>>)]
      BY <2>5 DEF KeepUser, KeepSub, Continue
    <3> QED BY <1>0, <2>1, <2>2, <2>3, <3>1, RestLeft
  <2>6. CASE ReadUser(d)
    <3>1. Head(s) = "user"
      BY <2>6 DEF ReadUser, At
    <3>2. CASE job' = [job EXCEPT ![d] = [@ EXCEPT !.usr = UserView(job[d].user), !.todo = <<"keepUser">> \o Tail(job[d].todo)]]
      <4>1. job'[d].todo = <<"keepUser">> \o Tail(s)
        BY <1>0, <2>2, <3>2 DEF JobFields
      <4> QED BY <2>3, <3>1, <4>1
    <3>3. CASE job' = [job EXCEPT ![d] = Goes([@ EXCEPT !.usr = userCache[job[d].user].value], <<>>)]
      <4> DEFINE r == [job[d] EXCEPT !.usr = userCache[job[d].user].value]
      <4>1. DOMAIN r = JobFields /\ r.todo = s
        BY <2>2 DEF JobFields
      <4>2. job' = [job EXCEPT ![d] = Goes(r, <<>>)]
        BY <3>3
      <4> HIDE DEF r
      <4> QED BY <1>0, <2>1, <2>3, <4>1, <4>2, RestLeft
    <3> QED BY <2>6, <3>2, <3>3 DEF ReadUser
  <2>7. CASE ReadSub(d)
    <3>1. Head(s) = "sub"
      BY <2>7 DEF ReadSub, At
    <3>2. CASE job' = [job EXCEPT ![d] = [@ EXCEPT !.sub = Current(job[d].user), !.todo = <<"keepSub">> \o Tail(job[d].todo)]]
      <4>1. job'[d].todo = <<"keepSub">> \o Tail(s)
        BY <1>0, <2>2, <3>2 DEF JobFields
      <4> QED BY <2>3, <3>1, <4>1
    <3>3. CASE job' = [job EXCEPT ![d] = Goes([@ EXCEPT !.sub = subCache[job[d].user].value], <<>>)]
      <4> DEFINE r == [job[d] EXCEPT !.sub = subCache[job[d].user].value]
      <4>1. DOMAIN r = JobFields /\ r.todo = s
        BY <2>2 DEF JobFields
      <4>2. job' = [job EXCEPT ![d] = Goes(r, <<>>)]
        BY <3>3
      <4> HIDE DEF r
      <4> QED BY <1>0, <2>1, <2>3, <4>1, <4>2, RestLeft
    <3> QED BY <2>7, <3>2, <3>3 DEF ReadSub
  <2> QED BY <2>4, <2>5, <2>6, <2>7
<1> QED BY <1>1, <1>2

\* The awaits of the main window.
LEMMA MainOpening == Opening(Render("MAIN"))
<1>1. "MAIN" \in Windows
  BY GetterFacts, Zenon
<1>2. /\ MainGetter \in Getters /\ "MAIN" \in DOMAIN MainGetter
  BY DEF Getters, MainGetter
<1>3. \A g \in Getters : "MAIN" \in DOMAIN g => g = MainGetter
  BY DEF Getters, MainGetter, SubscriptionGetter, DevicesGetter, LimitGetters, SquadGetters, ExpireGetter, UserGetters,
     RoleGetter, SyncGetter, PlanGetters, TransactionGetters
<1>4. (CHOOSE g \in Getters : "MAIN" \in DOMAIN g) = MainGetter
  BY <1>2, <1>3
<1>5. Getter["MAIN"] = <<"user", "sub">>
  <2>1. Getter["MAIN"] = (CHOOSE g \in Getters : "MAIN" \in DOMAIN g)["MAIN"]
    BY <1>1, Zenon DEF Getter
  <2>2. Getter["MAIN"] = MainGetter["MAIN"]
    BY <1>4, <2>1, Zenon
  <2>3. MainGetter["MAIN"] = <<"user", "sub">>
    BY DEF MainGetter
  <2> QED BY <2>2, <2>3
<1>6. {"user", "sub", "MAIN"} \subseteq Names
  <2>1. {"user", "sub"} \subseteq Names
    BY Zenon DEF Names, Ordinary
  <2> QED BY <1>1, <2>1 DEF Names
<1> DEFINE e == <<>>
           x == <<"MAIN">> \o e
           y == <<"sub">> \o x
           z == <<"user">> \o y
<1>7. e \in Seq(Names) /\ x = <<"MAIN">>
  BY <1>6, EmptyPlain, JoinFacts
<1>8. x \in Seq(Names) /\ x # <<>> /\ Head(x) = "MAIN" /\ Tail(x) = e
  BY <1>6, <1>7, ConsFacts
<1> HIDE DEF x
<1>9. y \in Seq(Names) /\ y # <<>> /\ Head(y) = "sub" /\ Tail(y) = x
  BY <1>6, <1>8, ConsFacts
<1> HIDE DEF y
<1>10. z \in Seq(Names) /\ z # <<>> /\ Head(z) = "user" /\ Tail(z) = y
  BY <1>6, <1>9, ConsFacts
<1> HIDE DEF z
<1>11. OpenUser(z)
  BY <1>8, <1>9, <1>10 DEF OpenUser, OpenSub, OpenMain, First
<1>12. <<"user", "sub">> \o x = z
  BY <1>6, <1>8, StepByStep DEF z, y
<1>13. Render("MAIN") = z
  BY <1>5, <1>7, <1>12 DEF Render
<1> QED BY <1>11, <1>13 DEF Opening
-----------------------------------------------------------------------------
(* Every step of the accounts                                              *)

\* A step of a handler keeps the copies; a new subscription gets its user.
LEMMA DeskStepKeeps ==
  ASSUME NEW own, CopiesInv(own), DeskInv, NEW d \in Desks, DeskStep(d), UNCHANGED agenda
  PROVE  \E own2 \in [Subs -> Users] : CopiesInv(own2)'
<1>0. own \in [Subs -> Users] /\ d \in Jobs
  BY JobAssumption DEF CopiesInv, StoresOK
<1>1. CASE CreateSub(d)
  BY <1>1, CreateSubKeeps
<1>2. CASE ~CreateSub(d)
  <2>1. CopiesInv(own)'
    <3>1. CASE AwaitStep(d) \/ Fault(d) \/ Show(d) \/ Menu(d)
      BY <1>0, <3>1, AwaitKeeps, ShowKeeps, Zenon
    <3>2. CASE SetUser(d) \/ Edit(d) \/ Toggle(d) \/ BillStatus(d)
      BY <3>2, SetUserKeeps, EditKeeps, ToggleKeeps, Zenon
    <3>3. CASE WhetherSub(d) \/ Reset(d) \/ Devices(d) \/ Matching(d) \/ OfferPlans(d) \/ OfferAccess(d)
      BY <3>3, AskKeeps, Zenon
    <3>4. CASE Unlink(d) \/ ConfirmDelete(d) \/ Drop(d) \/ DropActor(d) \/ Remove(d)
      BY <3>4, UnlinkKeeps, ConfirmKeeps, DropKeeps, RemoveKeeps, Zenon
    <3>5. CASE Fetch(d) \/ ClearActor(d) \/ Apply(d) \/ Compare(d) \/ Restore(d)
      BY <3>5, FetchKeeps, ClearActorKeeps, ApplyKeeps, CompareKeeps, RestoreKeeps, Zenon
    <3>6. CASE Provision(d) \/ PointTo(d) \/ ReadPlan(d) \/ GrantAccess(d) \/ Send(d)
      BY <3>6, ProvisionKeeps, PointToKeeps, AccessKeeps, SendKeeps, Zenon
    <3> QED BY <1>2, <3>1, <3>2, <3>3, <3>4, <3>5, <3>6 DEF DeskStep
  <2> QED BY <1>0, <2>1
<1> QED BY <1>1, <1>2

\* The copies after any step.
LEMMA NextKeeps ==
  ASSUME NEW own, CopiesInv(own), DeskInv, Next
  PROVE  \E own2 \in [Subs -> Users] : CopiesInv(own2)'
<1>1. own \in [Subs -> Users] /\ agenda.jobs \subseteq Jobs /\ UNCHANGED agenda
  BY DEF CopiesInv, StoresOK, Next
<1>2. ASSUME NEW d \in agenda.jobs \cap Desks, DeskNext(d)
      PROVE  \E own2 \in [Subs -> Users] : CopiesInv(own2)'
  <2>1. CASE DeskClick(d) \/ DeskEdit(d)
    <3>1. CopiesInv(own)'
      BY <1>1, <1>2, <2>1, ClickKeeps, EditsKeep
    <3> QED BY <1>1, <3>1
  <2>2. CASE DeskStep(d)
    BY <1>1, <1>2, <2>2, DeskStepKeeps
  <2> QED BY <1>2, <2>1, <2>2 DEF DeskNext
<1>3. ASSUME NEW j \in agenda.jobs \ Desks, GrantsNext(j)
      PROVE  \E own2 \in [Subs -> Users] : CopiesInv(own2)'
  <2>1. CopiesInv(own)'
    BY <1>1, <1>3, GrantsKeep
  <2> QED BY <1>1, <2>1
<1> QED BY <1>2, <1>3 DEF Next

\* A handler that opens or shows a window, and one that is waiting or raises.
LEMMA WindowKeeps ==
  ASSUME NEW own, CopiesInv(own), DeskInv, NEW d \in Desks, DeskNext(d)
  PROVE  /\ DOMAIN desk' = Desks /\ \A k \in Desks : k # d => desk'[k] = desk[k]
         /\ DOMAIN desk'[d] = {"win", "shown", "payload", "armed"}
         /\ desk'[d].win \in Windows \/ (desk'[d].win = "MENU" /\ Opening(job'[d].todo))
<1> DEFINE Good == /\ DOMAIN desk' = Desks /\ \A k \in Desks : k # d => desk'[k] = desk[k]
                   /\ DOMAIN desk'[d] = {"win", "shown", "payload", "armed"}
                   /\ desk'[d].win \in Windows \/ (desk'[d].win = "MENU" /\ Opening(job'[d].todo))
<1>0. /\ d \in Jobs /\ DOMAIN job = Jobs /\ DOMAIN job[d] = JobFields
      /\ DOMAIN desk = Desks /\ DOMAIN desk[d] = {"win", "shown", "payload", "armed"}
      /\ desk[d].win \in Windows \/ (desk[d].win = "MENU" /\ Opening(job[d].todo))
  BY JobAssumption DEF CopiesInv, JobOK, DeskInv
<1>1. ASSUME desk[d].win \in Windows, Stayed(d) PROVE Good
  BY <1>0, <1>1 DEF Stayed
<1>2. DOMAIN ClosedDesk = {"win", "shown", "payload", "armed"} /\ ClosedDesk.win = "MENU"
  BY DEF ClosedDesk
<1>3. CASE Open(d)
  <2>1. desk' = [desk EXCEPT ![d] = ClosedDesk]
    BY <1>3 DEF Open
  <2>2. job'[d].todo = Render("MAIN")
    <3>1. job' = [job EXCEPT ![d] = [IdleJob EXCEPT !.user = Target[d], !.ask = NoAsk, !.todo = Render("MAIN"), !.rescue = <<"MENU">>]]
      BY <1>3 DEF Open, Handle, Begin
    <3> QED BY <1>0, <3>1 DEF IdleJob
  <2> QED BY <1>0, <1>2, <2>1, <2>2, MainOpening
<1>4. CASE (DeskClick(d) \/ DeskEdit(d)) /\ ~Open(d)
  BY <1>1, <1>4, PressedFacts
<1>5. CASE AwaitStep(d) /\ UNCHANGED deskVars
  BY <1>0, <1>5, OpeningKeeps DEF deskVars
<1>6. CASE Fault(d) /\ UNCHANGED deskVars
  BY <1>0, <1>6, OpeningKeeps DEF deskVars
<1>7. CASE Inside(d)
  BY <1>1, <1>7, InsideFacts
<1>8. CASE Menu(d)
  <2>1. desk' = [desk EXCEPT ![d] = ClosedDesk] /\ At(d, "MENU") /\ Continue(d)
    BY <1>8 DEF Menu
  <2>2. job[d].todo # <<>> /\ Head(job[d].todo) = "MENU"
    BY <2>1 DEF At, Idle
  <2>3. Tail(job[d].todo) = <<>>
    <3>1. JobOK(own, d)
      BY <1>0 DEF CopiesInv
    <3>2. job[d].todo = <<"MENU">>
      BY <2>2, <3>1, SpecialHeads
    <3> QED BY <3>2
  <2>4. job' = [job EXCEPT ![d] = Goes(job[d], <<>>)]
    BY <2>1 DEF Continue
  <2>5. job'[d].todo = <<>>
    BY <1>0, <2>2, <2>3, <2>4, RestLeft
  <2> QED BY <1>0, <1>2, <2>1, <2>5 DEF Opening
<1>9. CASE Show(d)
  <2> DEFINE w == Head(job[d].todo)
  <2>1. w \in Windows
    BY <1>9 DEF Show
  <2>2. CASE Raise(d) /\ UNCHANGED desk
    BY <1>0, <2>2, RaisedFacts
  <2>3. CASE desk' = [desk EXCEPT ![d].win = w, ![d].shown = Drawn(d, w), ![d].payload = IF w = "MAIN" THEN FALSE ELSE @]
    <3> HIDE DEF w
    <3>1. DOMAIN desk' = Desks /\ \A k \in Desks : k # d => desk'[k] = desk[k]
      BY <1>0, <2>3
    <3>2. DOMAIN desk'[d] = {"win", "shown", "payload", "armed"} /\ desk'[d].win = w
      BY <1>0, <2>3
    <3> QED BY <2>1, <3>1, <3>2
  <2>4. desk' = [desk EXCEPT ![d].win = w, ![d].shown = Drawn(d, w), ![d].payload = IF w = "MAIN" THEN FALSE ELSE @]
        \/ (Raise(d) /\ UNCHANGED desk)
    BY <1>9 DEF Show
  <2> QED BY <2>2, <2>3, <2>4
<1>10. Open(d) \/ ((DeskClick(d) \/ DeskEdit(d)) /\ ~Open(d)) \/ DeskStep(d)
  BY DEF DeskNext
<1>11. DeskStep(d) => \/ AwaitStep(d) /\ UNCHANGED deskVars
                      \/ Fault(d) /\ UNCHANGED deskVars
                      \/ Inside(d) \/ Menu(d) \/ Show(d)
  BY DEF DeskStep, Inside
<1> QED BY <1>3, <1>4, <1>5, <1>6, <1>7, <1>8, <1>9, <1>10, <1>11

\* What the desks show after any step.
LEMMA DesksKeep ==
  ASSUME NEW own, CopiesInv(own), DeskInv, Next
  PROVE  DeskInv'
<1>0. Desks \subseteq Jobs /\ DOMAIN job = Jobs
  BY JobAssumption DEF CopiesInv
<1>1. ASSUME NEW d \in agenda.jobs \cap Desks, DeskNext(d) PROVE DeskInv'
  <2>1. Own(d)
    BY <1>1, DeskOwn
  <2>2. \A k \in Desks : k # d => job'[k] = job[k]
    BY <1>0, <2>1 DEF Own
  <2>3. /\ DOMAIN desk' = Desks /\ \A k \in Desks : k # d => desk'[k] = desk[k]
        /\ DOMAIN desk'[d] = {"win", "shown", "payload", "armed"}
        /\ desk'[d].win \in Windows \/ (desk'[d].win = "MENU" /\ Opening(job'[d].todo))
    BY <1>1, WindowKeeps
  <2> QED BY <2>2, <2>3 DEF DeskInv
<1>2. ASSUME NEW j \in agenda.jobs \ Desks, GrantsNext(j) PROVE DeskInv'
  <2>1. Own(j) /\ UNCHANGED desk
    BY <1>2, GrantOwn DEF GrantsNext, deskVars
  <2>2. \A k \in Desks : job'[k] = job[k]
    BY <1>0, <1>2, <2>1 DEF Own
  <2> QED BY <2>1, <2>2 DEF DeskInv
<1>3. (\E d \in agenda.jobs \cap Desks : DeskNext(d)) \/ (\E j \in agenda.jobs \ Desks : GrantsNext(j))
  BY DEF Next
<1> QED BY <1>1, <1>2, <1>3
-----------------------------------------------------------------------------
(* The copies of every behaviour                                           *)

CopiesOK == (\E own \in [Subs -> Users] : CopiesInv(own)) /\ DeskInv

LEMMA CopiesStart == Init => CopiesOK
<1> SUFFICES ASSUME Init PROVE CopiesOK
  OBVIOUS
<1>1. PICK s \in Start : /\ DashboardInit(s.agenda.at) /\ agenda = s.agenda
                         /\ AccountInit(s.people, s.subscriptions, s.panel, s.apart)
  BY DEF Init
<1>2. /\ s.agenda.jobs \subseteq Jobs /\ s.agenda.at \in Windows \cup {"MENU"}
      /\ DOMAIN s.people = Users /\ DOMAIN s.panel = Users /\ DOMAIN s.subscriptions \subseteq Subs
      /\ \A id \in DOMAIN s.subscriptions : s.subscriptions[id] \in SubRecords /\ s.subscriptions[id].id = id
      /\ \A u \in Users : /\ s.panel[u] \in AccountRecords \cup {None}
                          /\ "current" \in DOMAIN s.people[u]
                          /\ s.people[u].current \in DOMAIN s.subscriptions \cup {None}
      /\ \A u, v \in Users : s.people[u].current = s.people[v].current => u = v \/ s.people[u].current = None
  <2>1. \A p \in UserRecords : "current" \in DOMAIN p
    BY DEF UserRecords
  <2> QED BY <1>1, <2>1, StartAssumption
<1>3. /\ person = s.people /\ subs = s.subscriptions /\ account = s.panel
      /\ userCache = [u \in Users |-> Empty] /\ subCache = [u \in Users |-> Empty]
      /\ job = [j \in Jobs |-> IdleJob]
      /\ desk = [d \in Desks |-> [ClosedDesk EXCEPT !.win = s.agenda.at,
                                        !.shown = IF s.agenda.at = "SUBSCRIPTION" THEN {"edit", "toggle"} ELSE {}]]
  BY <1>1 DEF AccountInit, DashboardInit
<1> DEFINE Holder(id) == IF \E u \in Users : person[u].current = id THEN CHOOSE u \in Users : person[u].current = id
                         ELSE Winner
           own == [id \in Subs |-> Holder(id)]
<1>4. own \in [Subs -> Users]
  BY JobAssumption
<1>5. ASSUME NEW u \in Users, person[u].current # None
      PROVE  person[u].current \in DOMAIN subs /\ own[person[u].current] = u
  <2> DEFINE id == person[u].current
  <2>1. id \in DOMAIN subs /\ id \in Subs
    BY <1>2, <1>3, <1>5
  <2>2. Holder(id) \in Users /\ person[Holder(id)].current = id
    OBVIOUS
  <2>3. Holder(id) = u
    BY <1>2, <1>3, <1>5, <2>2
  <2> QED BY <2>1, <2>3
<1> HIDE DEF own
<1>6. StoresOK(own)
  <2>1. \A id \in DOMAIN subs : DOMAIN subs[id] = SubFields /\ subs[id].id = id
    BY <1>2, <1>3 DEF SubRecords, SubFields
  <2>2. \A u \in Users : account[u] = None \/ DOMAIN account[u] = AccountFields
    BY <1>2, <1>3 DEF AccountRecords, AccountFields
  <2>3. DOMAIN userCache = Users /\ DOMAIN subCache = Users /\ \A u \in Users : ~subCache[u].cached /\ ~userCache[u].cached
    BY <1>3 DEF Empty
  <2> QED BY <1>2, <1>3, <1>4, <1>5, <2>1, <2>2, <2>3 DEF StoresOK
<1>7. \A j \in Jobs : /\ job[j] = IdleJob /\ job[j].todo = <<>> /\ job[j].rescue = <<>> /\ job[j].sub = None
                      /\ DOMAIN job[j] = JobFields
  BY <1>3 DEF IdleJob, JobFields
<1>8. ASSUME NEW j \in Jobs PROVE JobOK(own, j)
  <2>1. Free(job[j].todo) /\ SubOK(own, j) /\ job[j].todo \in Seq(Names)
    BY <1>7, EmptyPlain DEF Free, SubOK
  <2>2. Rescue(j, job[j].rescue)
    BY <1>7, EmptyPlain DEF Rescue
  <2> QED BY <1>7, <2>1, <2>2 DEF JobOK
<1>9. ASSUME NEW u \in Users PROVE FreshFor(u)
  <2>1. ~subCache[u].cached /\ ~userCache[u].cached
    BY <1>3 DEF Empty
  <2>2. \A j \in Jobs : ~At(j, "keepSub") /\ ~At(j, "keepUser") /\ ~At(j, "refillUser")
    BY <1>7 DEF At, Idle
  <2> QED BY <2>1, <2>2 DEF FreshFor
<1>10. CopiesInv(own)
  BY <1>1, <1>2, <1>3, <1>6, <1>8, <1>9 DEF CopiesInv
<1>11. DeskInv
  <2> SUFFICES ASSUME NEW d \in Desks
               PROVE  /\ DOMAIN desk[d] = {"win", "shown", "payload", "armed"}
                      /\ desk[d].win \in Windows \/ (desk[d].win = "MENU" /\ Opening(job[d].todo))
    BY <1>3 DEF DeskInv
  <2>1. DOMAIN desk[d] = {"win", "shown", "payload", "armed"} /\ desk[d].win = s.agenda.at
    BY <1>3 DEF ClosedDesk
  <2>2. Opening(job[d].todo)
    BY <1>7, JobAssumption DEF Opening
  <2> QED BY <1>2, <2>1, <2>2
<1> QED BY <1>4, <1>10, <1>11 DEF CopiesOK

LEMMA CopiesStutter ==
  ASSUME NEW own, CopiesInv(own), DeskInv, UNCHANGED vars
  PROVE  CopiesInv(own)' /\ DeskInv'
<1>1. /\ person' = person /\ subs' = subs /\ account' = account /\ userCache' = userCache /\ subCache' = subCache
      /\ job' = job /\ disturbed' = disturbed /\ desk' = desk /\ agenda' = agenda
  BY DEF vars, accountVars, deskVars, stores, caches, history
<1>2. StoresOK(own)'
  BY <1>1 DEF CopiesInv, StoresOK, Owned
<1>3. ASSUME NEW j \in Jobs PROVE JobOK(own, j)'
  <2>1. JobOK(own, j)
    BY DEF CopiesInv
  <2> QED BY <1>1, <2>1 DEF JobOK, SubOK, Owned, Rescue
<1>4. ASSUME NEW u \in Users \ disturbed PROVE FreshFor(u)'
  <2>1. FreshFor(u)
    BY DEF CopiesInv
  <2>2. Current(u)' = Current(u) /\ UserView(u)' = UserView(u)
    BY <1>1 DEF Current, UserView, ViewOf
  <2>3. \A j, s : At(j, s)' = At(j, s)
    BY <1>1 DEF At, Idle
  <2> QED BY <1>1, <2>1, <2>2, <2>3 DEF FreshFor
<1>5. CopiesInv(own)'
  BY <1>1, <1>2, <1>3, <1>4 DEF CopiesInv
<1>6. DeskInv'
  BY <1>1 DEF DeskInv
<1> QED BY <1>5, <1>6

LEMMA CopiesStep == CopiesOK /\ [Next]_vars => CopiesOK'
<1> SUFFICES ASSUME CopiesOK, [Next]_vars PROVE CopiesOK'
  OBVIOUS
<1>1. PICK own \in [Subs -> Users] : CopiesInv(own)
  BY DEF CopiesOK
<1>2. DeskInv
  BY DEF CopiesOK
<1>3. CASE Next
  <2>1. \E own2 \in [Subs -> Users] : CopiesInv(own2)'
    BY <1>1, <1>2, <1>3, NextKeeps
  <2>2. DeskInv'
    BY <1>1, <1>2, <1>3, DesksKeep
  <2> QED BY <2>1, <2>2 DEF CopiesOK
<1>4. CASE UNCHANGED vars
  BY <1>1, <1>2, <1>4, CopiesStutter DEF CopiesOK
<1> QED BY <1>3, <1>4

\* A copy that lacks something has a job about to clear it: none of those, and it is fresh.
LEMMA CopiesEnough == CopiesOK => CacheFresh
<1> SUFFICES ASSUME CopiesOK, NEW u \in Users \ disturbed, ~Clearing(u) PROVE FreshCopies(u)
  BY DEF CacheFresh
<1>1. PICK own \in [Subs -> Users] : CopiesInv(own)
  BY DEF CopiesOK
<1>2. FreshFor(u)
  BY <1>1 DEF CopiesInv
<1>3. ASSUME NEW j \in Jobs, job[j].user = u PROVE ~StaleSub(job[j].todo) /\ ~StaleUser(job[j].todo)
  <2>1. job[j].todo \in Seq(Names)
    BY <1>1 DEF CopiesInv, JobOK
  <2>2. ASSUME job[j].todo # <<>> PROVE Head(job[j].todo) \notin {"clearSub", "clearUser", "refillUser"}
    <3>1. 1 \in DOMAIN job[j].todo /\ Head(job[j].todo) = job[j].todo[1]
      BY <2>1, <2>2, RestFacts
    <3> QED BY <1>3, <3>1 DEF Clearing
  <2> QED BY <2>2 DEF StaleSub, StaleUser, ClearS, ClearUS, ClearSU, ClearSUDropU, ClearU, ClearUDropU, Refilled, First
<1> QED BY <1>2, <1>3 DEF FreshFor, FreshCopies

\* Without a race or a failed write, a copy in Redis is what billing would answer once
\* no job has a copy left to clear or to fill, whatever the jobs do and in any order
\* (redis_cache, clear_subscription_cache, clear_user_cache).
THEOREM CopiesFresh == Spec => []CacheFresh
<1>1. Init => CopiesOK
  BY CopiesStart
<1>2. CopiesOK /\ [Next]_vars => CopiesOK'
  BY CopiesStep
<1>3. CopiesOK => CacheFresh
  BY CopiesEnough
<1> QED BY <1>1, <1>2, <1>3, PTL DEF Spec
=============================================================================
