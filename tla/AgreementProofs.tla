------------------------- MODULE AgreementProofs --------------------------
(*************************************************************************)
(* Proof that billing has what is due and agrees with the panel: nothing *)
(* given to a user of Accounts is lost, the bot itself never shortens a  *)
(* subscription, and the two stores agree about a user who is at rest.   *)
(*                                                                       *)
(* KeptInv says that a job about to use a copy has in hand what billing  *)
(* says (Held), unless its user was disturbed, and that billing has what *)
(* is due.  A step is quiet if it leaves billing alone and takes nothing new *)
(* in hand; the others have a lemma of their own.                        *)
(*                                                                       *)
(* MendInv says that where the two stores disagree about a user who was not *)
(* disturbed, a job has written the one and still has the other ahead    *)
(* (Mends), and that a job about to write the one has in hand what the other *)
(* says (Aware).                                                         *)
(*************************************************************************)
EXTENDS StoresProofs

-----------------------------------------------------------------------------
(* What a job has in hand and will still use                               *)

SubUses ==
    {"edit", "push", "toggle", "status", "confirm", "fetch", "apply", "compare", "restore", "provision", "create", "point",
     "lock", "aim", "extend", "days", "pending", "flush"}
SubIn(s) == Reaches(s, SubUses, Names)
PointsIn(s) == Reaches(s, {"set", "points"}, Names)

\* A copy that will still be used is what billing says: the points of a user, the current
\* subscription; a subscription that is about to be created, or to be pointed to, is not yet.
Held(r, points, current, bills) ==
    /\ PointsIn(r.todo) /\ r.usr # None => r.usr.points = points
    /\ SubIn(r.todo) /\ r.sub # None =>
          r.sub = current \/ CreateOnly(r.todo) \/ (PointUS(r.todo) /\ r.sub = bills[r.sub.id])

\* Nothing that was given to an undisturbed user is lost, as all jobs hold what billing says.
KeptFor(u) ==
    /\ person[u].points = due[u].points /\ DaysOf(u) = due[u].days
    /\ \A j \in Jobs : job[j].user = u => Held(job[j], person[u].points, Current(u), subs)
KeptInv == \A u \in Users \ disturbed : KeptFor(u)

\* A use ahead by the head and the rest of a list.
LEMMA InFirst ==
  ASSUME NEW s \in Seq(Names), s # <<>>
  PROVE  /\ SubIn(s) <=> Head(s) \in SubUses \/ SubIn(Tail(s))
         /\ PointsIn(s) <=> Head(s) \in {"set", "points"} \/ PointsIn(Tail(s))
<1>1. Head(s) \in Names
  BY RestFacts
<1> QED BY <1>1, ReachesFirst DEF SubIn, PointsIn

\* The same, of a list with a given head and rest.
LEMMA ConsIn ==
  ASSUME NEW h, NEW t, NEW s, Cons(s, h, t)
  PROVE  /\ SubIn(s) <=> h \in SubUses \/ SubIn(t)
         /\ PointsIn(s) <=> h \in {"set", "points"} \/ PointsIn(t)
BY InFirst DEF Cons

\* Smooth lists use no copy, nor does what is dull; and nothing after an await that closes
\* a handler does.
LEMMA SmoothIn == \A s \in Seq(Smooth) : ~SubIn(s) /\ ~PointsIn(s)
<1> SUFFICES ASSUME NEW s \in Seq(Smooth) PROVE ~SubIn(s) /\ ~PointsIn(s)
  OBVIOUS
<1>1. \A i \in DOMAIN s : s[i] \in Smooth
  OBVIOUS
<1>2. Smooth \cap SubUses = {} /\ Smooth \cap {"set", "points"} = {}
  <2>1. SubUses \cup {"set", "points"} \subseteq (Special \ {"MENU"}) \cup Uses \cup {"toggle", "status", "provision", "create", "point", "apply", "restore", "extend"}
    BY DEF SubUses, Uses, Special
  <2>2. {"toggle", "status", "provision", "create", "point", "apply", "restore", "extend"} \subseteq Special \ {"MENU"}
    BY DEF Special
  <2> QED BY <2>1, <2>2, SmoothNames
<1>3. \A i \in DOMAIN s : s[i] \notin SubUses /\ s[i] \notin {"set", "points"}
  BY <1>1, <1>2
<1> QED BY <1>3, ReachesNone DEF SubIn, PointsIn

\* A dull list uses neither copy.
LEMMA DullIn == \A s \in Seq(Names) : Dull(s) => ~SubIn(s) /\ ~PointsIn(s)
<1> SUFFICES ASSUME NEW s \in Seq(Names), Dull(s) PROVE ~SubIn(s) /\ ~PointsIn(s)
  OBVIOUS
<1>1. \A i \in DOMAIN s : s[i] \notin SubUses /\ s[i] \notin {"set", "points"}
  BY DEF Dull, SubUses, Uses, Special
<1> QED BY <1>1, ReachesNone DEF SubIn, PointsIn

\* Who will still use a copy holds it.
LEMMA UserHolds ==
  ASSUME NEW k, (SubIn(job[k].todo) /\ job[k].sub # None) \/ (PointsIn(job[k].todo) /\ job[k].usr # None)
  PROVE  Holds(k, job[k].user)
<1>1. SubUses \subseteq Writes /\ {"set", "points"} \subseteq Writes
  BY WritesAssumption DEF SubUses
<1>2. \E i \in DOMAIN job[k].todo : job[k].todo[i] \in Writes
  BY <1>1 DEF SubIn, PointsIn, Reaches
<1> QED BY <1>2 DEF Holds

\* A job that does not hold the user has nothing stale in hand.
LEMMA FreeHeld ==
  ASSUME NEW k, ~Holds(k, job[k].user)
  PROVE  \A points, current, bills : Held(job[k], points, current, bills)
BY UserHolds DEF Held

\* Nor has one without copies.
LEMMA NoneHeld ==
  ASSUME NEW r, r.usr = None, r.sub = None
  PROVE  \A points, current, bills : Held(r, points, current, bills)
BY DEF Held

\* What a job keeps in hand when it goes on.
Follows(r, q) ==
    /\ q.usr # None => q.usr = r.usr
    /\ q.sub # None => q.sub = r.sub
    /\ PointsIn(q.todo) /\ q.usr # None => PointsIn(r.todo)
    /\ SubIn(q.todo) /\ q.sub # None => SubIn(r.todo) /\ ~First(r.todo, {"create", "point"})
\* A job that goes on with less keeps what it holds.
LEMMA FollowsHeld ==
  ASSUME NEW r, NEW q, Follows(r, q), NEW points, NEW current, NEW bills, Held(r, points, current, bills)
  PROVE  Held(q, points, current, bills)
<1>1. CreateOnly(r.todo) \/ PointUS(r.todo) => First(r.todo, {"create", "point"})
  BY DEF CreateOnly, PointUS, First
<1> QED BY <1>1 DEF Follows, Held

\* A subscription that a job is about to point to is one of its user's.
LEMMA PointOwned ==
  ASSUME NEW own, NEW k, JobOK(own, k), PointUS(job[k].todo)
  PROVE  job[k].sub.id \in DOMAIN subs /\ own[job[k].sub.id] = job[k].user
<1>1. job[k].todo # <<>> /\ Head(job[k].todo) = "point"
  BY DEF PointUS, First
<1> QED BY <1>1, SpecialHeads DEF Owned

\* A step that writes nothing at billing of a user it does not disturb.
Spared ==
    /\ \A v \in Users \ disturbed' : person'[v] = person[v] /\ due'[v] = due[v]
    /\ \A id \in DOMAIN subs : id \in DOMAIN subs' /\ subs'[id] = subs[id]
\* What is spared stays current.
LEMMA SparedFacts ==
  ASSUME NEW own, StoresOK(own), Spared, NEW v \in Users \ disturbed'
  PROVE  Current(v)' = Current(v) /\ DaysOf(v)' = DaysOf(v)
<1>1. Current(v)' = Current(v)
  BY DEF Current, StoresOK, Spared
<1> QED BY <1>1 DEF DaysOf

\* A step that writes nothing keeps the invariant if its own job does.
LEMMA SparedKept ==
  ASSUME KeptInv, NEW own, CopiesInv(own), NEW j \in Jobs, Own(j), Spared, disturbed \subseteq disturbed',
         job'[j].user \in Users \ disturbed' =>
            Held(job'[j], person[job'[j].user].points, Current(job'[j].user), subs')
  PROVE  KeptInv'
<1> SUFFICES ASSUME NEW u \in Users \ disturbed' PROVE KeptFor(u)'
  BY DEF KeptInv
<1>0. DOMAIN job = Jobs /\ StoresOK(own) /\ \A k \in Jobs : JobOK(own, k)
  BY DEF CopiesInv
<1>1. KeptFor(u)
  BY DEF KeptInv
<1>2. Current(u)' = Current(u) /\ DaysOf(u)' = DaysOf(u) /\ person'[u] = person[u] /\ due'[u] = due[u]
  BY <1>0, SparedFacts DEF Spared
<1>3. ASSUME NEW k \in Jobs, job'[k].user = u PROVE Held(job'[k], person[u].points, Current(u), subs')
  <2>1. CASE k = j
    BY <1>3, <2>1
  <2>2. CASE k # j
    <3>1. job'[k] = job[k]
      BY <1>0, <2>2 DEF Own
    <3>2. Held(job[k], person[u].points, Current(u), subs)
      BY <1>1, <1>3, <3>1 DEF KeptFor
    <3>3. PointUS(job[k].todo) => subs'[job[k].sub.id] = subs[job[k].sub.id]
      BY <1>0, PointOwned DEF Spared
    <3> QED BY <3>1, <3>2, <3>3 DEF Held
  <2> QED BY <2>1, <2>2
<1> QED BY <1>1, <1>2, <1>3 DEF KeptFor

Quietly(j) ==
    /\ Spared /\ disturbed \subseteq disturbed'
    /\ job'[j].user \in {job[j].user, None} /\ Follows(job[j], job'[j])
\* A quiet step keeps the invariant.
LEMMA QuietlyKept ==
  ASSUME KeptInv, NEW own, CopiesInv(own), NEW j \in Jobs, Own(j), Quietly(j)
  PROVE  KeptInv'
<1>1. ASSUME job'[j].user \in Users \ disturbed'
      PROVE  Held(job'[j], person[job'[j].user].points, Current(job'[j].user), subs')
  <2>1. job'[j].user = job[j].user
    BY <1>1, AccountAssumption DEF Quietly
  <2>2. job[j].user \in Users \ disturbed
    BY <1>1, <2>1 DEF Quietly
  <2>3. Held(job[j], person[job[j].user].points, Current(job[j].user), subs)
    BY <2>2 DEF KeptInv, KeptFor
  <2>4. JobOK(own, j)
    BY DEF CopiesInv
  <2>5. PointUS(job[j].todo) => subs'[job[j].sub.id] = subs[job[j].sub.id]
    BY <2>4, PointOwned DEF Quietly, Spared
  <2>6. Held(job[j], person[job[j].user].points, Current(job[j].user), subs')
    BY <2>3, <2>5 DEF Held
  <2> QED BY <2>1, <2>6, FollowsHeld DEF Quietly
<1> QED BY <1>1, SparedKept DEF Quietly

\* A step that writes at billing, of one user only.
Wrote(own, j, u) ==
    /\ job'[j].user \in {u, None} /\ disturbed \subseteq disturbed'
    /\ \A v \in Users : v # u => person'[v] = person[v] /\ due'[v] = due[v]
    /\ \A id \in DOMAIN subs : id \in DOMAIN subs' /\ (own[id] # u => subs'[id] = subs[id])
\* A step that writes keeps the invariant if nobody else holds the user and what was written is due.
LEMMA WriterKept ==
  ASSUME KeptInv, NEW own, CopiesInv(own), NEW j \in Jobs, Own(j), NEW u \in Users, Wrote(own, j, u),
         u \notin disturbed' =>
            /\ person'[u].points = due'[u].points /\ DaysOf(u)' = due'[u].days
            /\ \A k \in Jobs : k # j => ~Holds(k, u)
            /\ job'[j].user = u => Held(job'[j], person'[u].points, Current(u)', subs')
  PROVE  KeptInv'
<1> SUFFICES ASSUME NEW v \in Users \ disturbed' PROVE KeptFor(v)'
  BY DEF KeptInv
<1>0. DOMAIN job = Jobs /\ StoresOK(own) /\ (\A k \in Jobs : JobOK(own, k)) /\ None \notin Users
  BY AccountAssumption DEF CopiesInv
<1>1. KeptFor(v)
  BY DEF KeptInv, Wrote
<1>2. \A k \in Jobs : k # j => job'[k] = job[k]
  BY <1>0 DEF Own
<1>3. CASE v = u
  <2>1. ASSUME NEW k \in Jobs, job'[k].user = u PROVE Held(job'[k], person'[u].points, Current(u)', subs')
    <3>1. CASE k = j
      BY <1>3, <2>1, <3>1
    <3>2. CASE k # j
      <4>1. ~Holds(k, job[k].user) /\ job'[k] = job[k]
        BY <1>2, <1>3, <2>1, <3>2
      <4> QED BY <4>1, FreeHeld
    <3> QED BY <3>1, <3>2
  <2> QED BY <1>3, <2>1 DEF KeptFor
<1>4. CASE v # u
  <2>1. person'[v] = person[v] /\ due'[v] = due[v]
    BY <1>4 DEF Wrote
  <2>2. Current(v)' = Current(v)
    BY <1>0, <1>4, <2>1 DEF Current, StoresOK, Wrote
  <2>3. DaysOf(v)' = DaysOf(v)
    BY <2>2 DEF DaysOf
  <2>4. ASSUME NEW k \in Jobs, job'[k].user = v PROVE Held(job'[k], person[v].points, Current(v), subs')
    <3>1. k # j
      BY <1>0, <1>4, <2>4 DEF Wrote
    <3>2. job'[k] = job[k]
      BY <1>2, <3>1
    <3>3. Held(job[k], person[v].points, Current(v), subs)
      BY <1>1, <2>4, <3>2 DEF KeptFor
    <3>4. PointUS(job[k].todo) => job[k].sub.id \in DOMAIN subs /\ own[job[k].sub.id] # u
      BY <1>0, <1>4, <2>4, <3>2, PointOwned
    <3>5. PointUS(job[k].todo) => subs'[job[k].sub.id] = subs[job[k].sub.id]
      BY <3>4 DEF Wrote
    <3> QED BY <3>2, <3>3, <3>5 DEF Held
  <2> QED BY <1>1, <2>1, <2>2, <2>3, <2>4 DEF KeptFor
<1> QED BY <1>3, <1>4

-----------------------------------------------------------------------------
(* Steps that write nothing at billing                                     *)

\* A step that leaves billing alone, of a job that goes on, stops or takes other awaits.
LEMMA Alike ==
  ASSUME UNCHANGED <<person, subs, due>>
  PROVE  Spared
BY DEF Spared

\* Nobody is undisturbed again.
LEMMA Disturbs ==
  /\ \A j, u : Disturb(j, u) => disturbed \subseteq disturbed'
  /\ \A j : Raise(j) => disturbed \subseteq disturbed'
BY DEF Disturb, Raise

\* A job that goes on with its copies, or none, follows what it was.
LEMMA GoneRecord ==
  ASSUME NEW own, NEW j, Engaged(own, j), Head(job[j].todo) \notin {"create", "point"},
         NEW r, DOMAIN r = JobFields, r.todo = job[j].todo, r.user = job[j].user, r.usr \in {job[j].usr, None}, r.sub \in {job[j].sub, None},
         NEW q, q = Goes(r, <<>>)
  PROVE  q.user \in {job[j].user, None} /\ Follows(job[j], q)
<1>0. job[j].todo \in Seq(Names) /\ job[j].todo # <<>> /\ Tail(job[j].todo) \in Seq(Names)
  BY EngagedFacts
<1> DEFINE g == Goes(r, <<>>)
<1>1. /\ g.todo = <<>> \o Tail(r.todo) /\ (g.todo # <<>> => g.user = r.user /\ g.sub = r.sub /\ g.usr = r.usr)
      /\ (g.todo = <<>> => g = IdleJob)
  <2>1. <<>> \in Seq(Names) /\ r.todo \in Seq(Names) /\ r.todo # <<>>
    BY <1>0
  <2>2. g.todo = <<>> \o Tail(r.todo) /\ (g.todo # <<>> => g.user = r.user /\ g.sub = r.sub /\ g.usr = r.usr)
    BY <2>1, GoesFacts
  <2>3. <<>> \o Tail(r.todo) = <<>> => g = IdleJob
    BY DEF Goes
  <2> QED BY <2>2, <2>3
<1> HIDE DEF g
<1>2. g.todo = Tail(job[j].todo)
  BY <1>0, <1>1, JoinFacts
<1>3. IdleJob.user = None /\ IdleJob.usr = None /\ IdleJob.sub = None
  BY DEF IdleJob
<1>4. /\ SubIn(Tail(job[j].todo)) => SubIn(job[j].todo)
      /\ PointsIn(Tail(job[j].todo)) => PointsIn(job[j].todo)
  BY <1>0, InFirst
<1>5. ~First(job[j].todo, {"create", "point"})
  BY DEF First
<1>6. q = g
  BY DEF g
<1>7. CASE g.todo = <<>>
  BY <1>1, <1>3, <1>6, <1>7 DEF Follows
<1>8. CASE g.todo # <<>>
  BY <1>1, <1>2, <1>4, <1>5, <1>6, <1>8 DEF Follows
<1> QED BY <1>7, <1>8

\* The same of the job after such a step.
LEMMA GoneFollows ==
  ASSUME NEW own, NEW j, Engaged(own, j), Head(job[j].todo) \notin {"create", "point"},
         NEW r, DOMAIN r = JobFields, r.todo = job[j].todo, r.user = job[j].user, r.usr \in {job[j].usr, None}, r.sub \in {job[j].sub, None},
         job'[j] = Goes(r, <<>>)
  PROVE  job'[j].user \in {job[j].user, None} /\ Follows(job[j], job'[j])
<1> DEFINE q == Goes(r, <<>>)
<1>1. q.user \in {job[j].user, None} /\ Follows(job[j], q)
  <2>1. q = Goes(r, <<>>)
    OBVIOUS
  <2> QED BY <2>1, GoneRecord
<1>2. job'[j] = q
  OBVIOUS
<1> HIDE DEF q
<1> QED BY <1>1, <1>2

\* A job without copies follows any.
LEMMA EmptyFollows ==
  ASSUME NEW r, NEW q, q.usr = None, q.sub = None
  PROVE  Follows(r, q)
BY DEF Follows

\* A job that turns to a list with fewer uses follows what it was.
LEMMA TurnFollows ==
  ASSUME NEW r, NEW q, q.usr \in {r.usr, None}, q.sub \in {r.sub, None}, ~PointsIn(q.todo),
         SubIn(q.todo) => First(r.todo, SubUses \ {"create", "point"}), r.todo \in Seq(Names)
  PROVE  Follows(r, q)
<1>1. First(r.todo, SubUses \ {"create", "point"}) => SubIn(r.todo) /\ ~First(r.todo, {"create", "point"})
  BY InFirst DEF First
<1> QED BY <1>1 DEF Follows

\* Going on is quiet.
LEMMA GoneQuiet ==
  ASSUME NEW own, NEW j, Engaged(own, j), Continue(j), Head(job[j].todo) \notin {"create", "point"}, Spared, disturbed \subseteq disturbed'
  PROVE  Quietly(j)
<1>1. DOMAIN job[j] = JobFields /\ job'[j] = Goes(job[j], <<>>)
  BY EngagedFacts DEF Continue
<1> QED BY <1>1, GoneFollows DEF Quietly

\* So is going on after a write of the panel.
LEMMA WroteQuiet ==
  ASSUME NEW own, NEW j, Engaged(own, j), Head(job[j].todo) \notin {"create", "point"},
         job' = [job EXCEPT ![j] = Goes([@ EXCEPT !.wrote = TRUE], <<>>)], Spared, disturbed \subseteq disturbed'
  PROVE  Quietly(j)
<1> DEFINE q == [job[j] EXCEPT !.wrote = TRUE]
<1>1. /\ DOMAIN q = JobFields /\ q.todo = job[j].todo /\ q.user = job[j].user /\ q.usr = job[j].usr /\ q.sub = job[j].sub
      /\ job'[j] = Goes(q, <<>>)
  BY EngagedFacts DEF JobFields
<1> HIDE DEF q
<1> QED BY <1>1, GoneFollows DEF Quietly

\* So is raising or stopping.
LEMMA LeftQuiet ==
  ASSUME NEW own, NEW j, Engaged(own, j), Raise(j) \/ Stop(j), Spared, disturbed \subseteq disturbed'
  PROVE  Quietly(j)
<1>0. DOMAIN job = Jobs /\ j \in Jobs
  BY EngagedFacts
<1>1. IdleJob.user = None /\ IdleJob.usr = None /\ IdleJob.sub = None /\ DOMAIN IdleJob = JobFields
  BY DEF IdleJob, JobFields
<1>2. job'[j].user \in {job[j].user, None} /\ job'[j].usr = None /\ job'[j].sub = None
  <2>1. CASE Stop(j)
    BY <1>0, <1>1, <2>1 DEF Stop
  <2>2. CASE Raise(j)
    <3> DEFINE q == [IdleJob EXCEPT !.user = job[j].user, !.ask = job[j].ask, !.todo = job[j].rescue]
    <3>1. q.user = job[j].user /\ q.usr = None /\ q.sub = None
      BY DEF IdleJob
    <3>2. job'[j] \in {IdleJob, q}
      BY <1>0, <2>2 DEF Raise
    <3> HIDE DEF q
    <3> QED BY <1>1, <3>1, <3>2
  <2> QED BY <2>1, <2>2
<1> QED BY <1>2, EmptyFollows DEF Quietly

\* So is choosing what to draw.
LEMMA DecideQuiet ==
  ASSUME NEW own, NEW j, Engaged(own, j), NEW todo \in Seq(Smooth), job' = [job EXCEPT ![j].todo = todo],
         Spared, disturbed \subseteq disturbed'
  PROVE  Quietly(j)
<1>1. /\ job'[j].todo = todo /\ job'[j].user = job[j].user /\ job'[j].usr = job[j].usr /\ job'[j].sub = job[j].sub
      /\ job[j].todo \in Seq(Names)
  BY EngagedFacts DEF JobFields
<1>2. ~PointsIn(todo) /\ ~SubIn(todo)
  BY SmoothIn
<1>3. ~PointsIn(job'[j].todo) /\ ~SubIn(job'[j].todo) /\ job'[j].usr \in {job[j].usr, None} /\ job'[j].sub \in {job[j].sub, None}
  BY <1>1, <1>2
<1>4. Follows(job[j], job'[j])
  BY <1>3 DEF Follows
<1> QED BY <1>1, <1>4 DEF Quietly

\* The awaits that every job may have, but the two reads.
LEMMA AwaitQuiet ==
  ASSUME NEW own, NEW j, Engaged(own, j), AwaitStep(j) \/ Fault(j), ~ReadUser(j), ~ReadSub(j)
  PROVE  Quietly(j)
<1>1. UNCHANGED <<person, subs, due>>
  BY DEF AwaitStep, KeepUser, KeepSub, ClearSub, ClearUser, RefillUser, Push, Fault, stores, history
<1>2. Spared
  BY <1>1, Alike
<1>3. CASE KeepUser(j) \/ KeepSub(j) \/ ClearSub(j) \/ ClearUser(j) \/ RefillUser(j)
  <2>1. Continue(j) /\ Head(job[j].todo) \notin {"create", "point"} /\ disturbed \subseteq disturbed'
    BY <1>3 DEF KeepUser, KeepSub, ClearSub, ClearUser, RefillUser, At, history
  <2> QED BY <1>2, <2>1, GoneQuiet
<1>4. CASE Push(j)
  <2>1. Head(job[j].todo) = "push"
    BY <1>4 DEF Push, At
  <2>2. CASE Raise(j)
    BY <1>2, <2>2, Disturbs, LeftQuiet
  <2>3. CASE ~Raise(j)
    <3>1. job' = [job EXCEPT ![j] = Goes([@ EXCEPT !.wrote = TRUE], <<>>)] /\ Disturb(j, job[j].user)
      BY <1>4, <2>3 DEF Push
    <3>2. Head(job[j].todo) \notin {"create", "point"}
      BY <2>1
    <3> QED BY <1>2, <3>1, <3>2, Disturbs, WroteQuiet
  <2> QED BY <2>2, <2>3
<1>5. CASE Fault(j)
  BY <1>2, <1>5, Disturbs, LeftQuiet DEF Fault
<1> QED BY <1>3, <1>4, <1>5 DEF AwaitStep

\* Who is about to clear or to replace a copy has something in hand.
LEMMA StaleHolds ==
  ASSUME NEW own, CopiesInv(own), RecordsOK, NEW k \in Jobs, StaleSub(job[k].todo) \/ StaleUser(job[k].todo)
  PROVE  Holds(k, job[k].user) /\ First(job[k].todo, {"clearSub", "clearUser", "refillUser"})
<1>1. First(job[k].todo, {"clearSub", "clearUser", "refillUser"})
  BY Heads DEF First
<1>2. job[k].todo \in Seq(Names) /\ job[k].todo # <<>> /\ Head(job[k].todo) \in {"clearSub", "clearUser", "refillUser"}
  BY <1>1 DEF CopiesInv, JobOK, First
<1>3. ClearsAhead(job[k].todo)
  <2>1. Head(job[k].todo) \in Clears
    BY <1>2 DEF Clears
  <2> QED BY <1>2, <2>1, AheadFirst
<1>4. job[k].usr # None \/ job[k].sub # None
  BY <1>3 DEF RecordsOK, RecordOK, Sound
<1>5. \E i \in DOMAIN job[k].todo : job[k].todo[i] \in Writes
  <2>1. 1 \in DOMAIN job[k].todo /\ job[k].todo[1] = Head(job[k].todo)
    BY <1>2
  <2>2. {"clearSub", "clearUser", "refillUser"} \subseteq Writes
    BY WritesAssumption
  <2> QED BY <1>2, <2>1, <2>2
<1> QED BY <1>1, <1>4, <1>5 DEF Holds

\* A copy in Redis that is read without a race is what billing says.
LEMMA FreshRead ==
  ASSUME NEW own, NEW j, Engaged(own, j), NEW u, u = job[j].user, Head(job[j].todo) \in {"user", "sub"}, Disturb(j, u), u \notin disturbed'
  PROVE  /\ userCache[u].cached => userCache[u].value = UserView(u)
         /\ subCache[u].cached => subCache[u].value = Current(u)
<1>0. u \in Users /\ CopiesInv(own) /\ RecordsOK /\ j \in Jobs /\ job[j].todo # <<>>
  BY EngagedFacts DEF Engaged
<1>1. u \notin disturbed /\ \A k \in Jobs : k # j => ~Holds(k, u)
  BY DEF Disturb
<1>2. FreshFor(u)
  BY <1>0, <1>1 DEF CopiesInv
<1>3. ASSUME NEW k \in Jobs, job[k].user = u, StaleSub(job[k].todo) \/ StaleUser(job[k].todo) PROVE FALSE
  <2>1. Holds(k, u) /\ First(job[k].todo, {"clearSub", "clearUser", "refillUser"})
    BY <1>0, <1>3, StaleHolds
  <2>2. k = j
    BY <1>1, <2>1
  <2> QED BY <2>1, <2>2 DEF First
<1> QED BY <1>2, <1>3 DEF FreshFor

\* What an answer that is taken in hand leaves as it is.
LEMMA ReadHeld ==
  ASSUME NEW own, NEW j, Engaged(own, j), KeptInv, NEW u, u = job[j].user, u \notin disturbed,
         Head(job[j].todo) \in {"user", "sub"}, NEW q, NEW h \in {"keepUser", "keepSub"},
         q.todo = Tail(job[j].todo) \/ q.todo = <<h>> \o Tail(job[j].todo),
         \/ q.usr \in {job[j].usr, None}
         \/ q.usr.points = person[u].points,
         q.sub \in {job[j].sub, None, Current(u)}
  PROVE  Held(q, person[u].points, Current(u), subs)
<1>0. /\ job[j].todo \in Seq(Names) /\ job[j].todo # <<>> /\ Tail(job[j].todo) \in Seq(Names) /\ u \in Users /\ j \in Jobs
  BY EngagedFacts
<1>1. /\ SubIn(Tail(job[j].todo)) => SubIn(job[j].todo)
      /\ PointsIn(Tail(job[j].todo)) => PointsIn(job[j].todo)
  BY <1>0, InFirst
<1>2. /\ SubIn(q.todo) => SubIn(Tail(job[j].todo))
      /\ PointsIn(q.todo) => PointsIn(Tail(job[j].todo))
  <2>1. CASE q.todo = <<h>> \o Tail(job[j].todo)
    <3>1. h \in Names
      BY TaskNames
    <3>2. Cons(q.todo, h, Tail(job[j].todo))
      BY <1>0, <2>1, <3>1, ConsMade
    <3>3. h \notin SubUses /\ h \notin {"set", "points"}
      BY DEF SubUses
    <3> QED BY <3>2, <3>3, ConsIn
  <2> QED BY <2>1
<1>3. Held(job[j], person[u].points, Current(u), subs)
  BY <1>0 DEF KeptInv, KeptFor
<1>4. ~CreateOnly(job[j].todo) /\ ~PointUS(job[j].todo)
  BY DEF CreateOnly, PointUS, First
<1>5. PointsIn(q.todo) /\ q.usr # None => q.usr.points = person[u].points
  BY <1>1, <1>2, <1>3 DEF Held
<1>6. SubIn(q.todo) /\ q.sub # None => q.sub = Current(u)
  BY <1>1, <1>2, <1>3, <1>4 DEF Held
<1> QED BY <1>5, <1>6 DEF Held

\* A read keeps the invariant if the copy it took is what billing says.
LEMMA ReadKept ==
  ASSUME NEW own, NEW j, Engaged(own, j), KeptInv, Own(j), NEW u, u = job[j].user,
         Head(job[j].todo) \in {"user", "sub"}, UNCHANGED <<person, subs, due>>, disturbed \subseteq disturbed',
         job'[j].user \in {u, None},
         job'[j].user = u /\ u \notin disturbed' => Held(job'[j], person[u].points, Current(u), subs)
  PROVE  KeptInv'
<1>0. u \in Users /\ CopiesInv(own) /\ j \in Jobs /\ None \notin Users
  BY EngagedFacts, AccountAssumption DEF Engaged
<1>1. Spared
  BY Alike
<1>2. ASSUME job'[j].user \in Users \ disturbed'
      PROVE  Held(job'[j], person[job'[j].user].points, Current(job'[j].user), subs')
  BY <1>0, <1>2
<1> QED BY <1>0, <1>1, <1>2, SparedKept

\* Reading the user does.
LEMMA ReadUserKept ==
  ASSUME NEW own, NEW j, Engaged(own, j), KeptInv, ReadUser(j)
  PROVE  KeptInv'
<1> DEFINE u == job[j].user
<1>0. /\ j \in Jobs /\ DOMAIN job = Jobs /\ job[j].todo # <<>> /\ Head(job[j].todo) = "user" /\ DOMAIN job[j] = JobFields
      /\ job[j].todo \in Seq(Names) /\ u \in Users /\ UNCHANGED <<person, subs, due>>
  BY EngagedFacts DEF ReadUser, At, stores
<1>o. Own(j)
  BY AwaitOwn DEF AwaitStep
<1>v. UserView(u).points = person[u].points
  BY DEF UserView, ViewOf
<1>1. CASE /\ userCache[u].cached
           /\ job' = [job EXCEPT ![j] = Goes([@ EXCEPT !.usr = userCache[u].value], <<>>)]
           /\ Disturb(j, u)
  <2> DEFINE r == [job[j] EXCEPT !.usr = userCache[u].value]
             q == Goes(r, <<>>)
  <2>1. /\ DOMAIN r = JobFields /\ r.user = u /\ r.usr = userCache[u].value /\ r.sub = job[j].sub /\ r.todo = job[j].todo
        /\ job'[j] = q
    BY <1>0, <1>1 DEF JobFields
  <2> HIDE DEF r, u
  <2>2. <<>> \in Seq(Names) /\ <<>> \o Tail(job[j].todo) = Tail(job[j].todo)
    BY <1>0, JoinFacts
  <2>3. /\ q.todo = Tail(job[j].todo) /\ (q.todo # <<>> => q.user = u /\ q.sub = r.sub /\ q.usr = r.usr)
        /\ (q.todo = <<>> => q = IdleJob)
    <3>1. r.todo \in Seq(Names) /\ r.todo # <<>>
      BY <1>0, <2>1
    <3>2. q.todo = <<>> \o Tail(r.todo) /\ (q.todo # <<>> => q.user = r.user /\ q.sub = r.sub /\ q.usr = r.usr)
      BY <2>1, <2>2, <3>1, GoesFacts
    <3>3. <<>> \o Tail(r.todo) = <<>> => q = IdleJob
      BY DEF Goes
    <3> QED BY <2>1, <2>2, <3>2, <3>3
  <2>4. IdleJob.user = None /\ IdleJob.usr = None /\ IdleJob.sub = None
    BY DEF IdleJob
  <2> HIDE DEF q
  <2>5. q.user \in {u, None} /\ (q.usr = None \/ q.usr = userCache[u].value) /\ q.sub \in {job[j].sub, None}
    BY <2>1, <2>3, <2>4
  <2>6. ASSUME u \notin disturbed' PROVE Held(q, person[u].points, Current(u), subs)
    <3>1. userCache[u].value = UserView(u) /\ u \notin disturbed
      BY <1>0, <1>1, <2>6, FreshRead DEF u, Disturb
    <3>2. q.usr \in {job[j].usr, None} \/ q.usr.points = person[u].points
      BY <1>v, <2>5, <3>1
    <3> QED BY <1>0, <2>3, <2>5, <3>1, <3>2, ReadHeld DEF u
  <2>7. disturbed \subseteq disturbed'
    BY <1>1, Disturbs DEF u
  <2> QED BY <1>0, <1>o, <2>1, <2>5, <2>6, <2>7, ReadKept DEF u
<1>2. CASE /\ job' = [job EXCEPT ![j] = [@ EXCEPT !.usr = UserView(u), !.todo = <<"keepUser">> \o Tail(job[j].todo)]]
           /\ Undisturbed
  <2> DEFINE q == [job[j] EXCEPT !.usr = UserView(u), !.todo = <<"keepUser">> \o Tail(job[j].todo)]
  <2>1. /\ q.user = u /\ q.usr = UserView(u) /\ q.sub = job[j].sub /\ q.todo = <<"keepUser">> \o Tail(job[j].todo)
        /\ job'[j] = q
    BY <1>0, <1>2 DEF JobFields
  <2> HIDE DEF q
  <2>2. q.usr.points = person[u].points
    BY <1>v, <2>1
  <2>3. disturbed' = disturbed
    BY <1>2 DEF Undisturbed
  <2>4. ASSUME u \notin disturbed' PROVE Held(q, person[u].points, Current(u), subs)
    BY <1>0, <2>1, <2>2, <2>3, <2>4, ReadHeld
  <2> QED BY <1>0, <1>o, <2>1, <2>3, <2>4, ReadKept
<1> QED BY <1>1, <1>2 DEF ReadUser

\* Reading the subscription does.
LEMMA ReadSubKept ==
  ASSUME NEW own, NEW j, Engaged(own, j), KeptInv, ReadSub(j)
  PROVE  KeptInv'
<1> DEFINE u == job[j].user
<1>0. /\ j \in Jobs /\ DOMAIN job = Jobs /\ job[j].todo # <<>> /\ Head(job[j].todo) = "sub" /\ DOMAIN job[j] = JobFields
      /\ job[j].todo \in Seq(Names) /\ u \in Users /\ UNCHANGED <<person, subs, due>>
  BY EngagedFacts DEF ReadSub, At, stores
<1>o. Own(j)
  BY AwaitOwn DEF AwaitStep
<1>1. CASE /\ subCache[u].cached
           /\ job' = [job EXCEPT ![j] = Goes([@ EXCEPT !.sub = subCache[u].value], <<>>)]
           /\ Disturb(j, u)
  <2> DEFINE r == [job[j] EXCEPT !.sub = subCache[u].value]
             q == Goes(r, <<>>)
  <2>1. /\ DOMAIN r = JobFields /\ r.user = u /\ r.sub = subCache[u].value /\ r.usr = job[j].usr /\ r.todo = job[j].todo
        /\ job'[j] = q
    BY <1>0, <1>1 DEF JobFields
  <2> HIDE DEF r, u
  <2>2. <<>> \in Seq(Names) /\ <<>> \o Tail(job[j].todo) = Tail(job[j].todo)
    BY <1>0, JoinFacts
  <2>3. /\ q.todo = Tail(job[j].todo) /\ (q.todo # <<>> => q.user = u /\ q.sub = r.sub /\ q.usr = r.usr)
        /\ (q.todo = <<>> => q = IdleJob)
    <3>1. r.todo \in Seq(Names) /\ r.todo # <<>>
      BY <1>0, <2>1
    <3>2. q.todo = <<>> \o Tail(r.todo) /\ (q.todo # <<>> => q.user = r.user /\ q.sub = r.sub /\ q.usr = r.usr)
      BY <2>1, <2>2, <3>1, GoesFacts
    <3>3. <<>> \o Tail(r.todo) = <<>> => q = IdleJob
      BY DEF Goes
    <3> QED BY <2>1, <2>2, <3>2, <3>3
  <2>4. IdleJob.user = None /\ IdleJob.usr = None /\ IdleJob.sub = None
    BY DEF IdleJob
  <2> HIDE DEF q
  <2>5. q.user \in {u, None} /\ (q.sub = None \/ q.sub = subCache[u].value) /\ q.usr \in {job[j].usr, None}
    BY <2>1, <2>3, <2>4
  <2>6. ASSUME u \notin disturbed' PROVE Held(q, person[u].points, Current(u), subs)
    <3>1. subCache[u].value = Current(u) /\ u \notin disturbed
      BY <1>0, <1>1, <2>6, FreshRead DEF u, Disturb
    <3>2. q.sub \in {job[j].sub, None, Current(u)}
      BY <2>5, <3>1
    <3> QED BY <1>0, <2>3, <2>5, <3>1, <3>2, ReadHeld DEF u
  <2>7. disturbed \subseteq disturbed'
    BY <1>1, Disturbs DEF u
  <2> QED BY <1>0, <1>o, <2>1, <2>5, <2>6, <2>7, ReadKept DEF u
<1>2. CASE /\ job' = [job EXCEPT ![j] = [@ EXCEPT !.sub = Current(u), !.todo = <<"keepSub">> \o Tail(job[j].todo)]]
           /\ Undisturbed
  <2> DEFINE q == [job[j] EXCEPT !.sub = Current(u), !.todo = <<"keepSub">> \o Tail(job[j].todo)]
  <2>1. /\ q.user = u /\ q.sub = Current(u) /\ q.usr = job[j].usr /\ q.todo = <<"keepSub">> \o Tail(job[j].todo)
        /\ job'[j] = q
    BY <1>0, <1>2 DEF JobFields
  <2> HIDE DEF q
  <2>3. disturbed' = disturbed
    BY <1>2 DEF Undisturbed
  <2>4. ASSUME u \notin disturbed' PROVE Held(q, person[u].points, Current(u), subs)
    BY <1>0, <2>1, <2>3, <2>4, ReadHeld
  <2> QED BY <1>0, <1>o, <2>1, <2>3, <2>4, ReadKept
<1> QED BY <1>1, <1>2 DEF ReadSub

\* So do the awaits every job may have, and an exception.
LEMMA AwaitKept ==
  ASSUME NEW own, NEW j, Engaged(own, j), KeptInv, Own(j), AwaitStep(j) \/ Fault(j)
  PROVE  KeptInv'
<1>1. CASE ReadUser(j) \/ ReadSub(j)
  BY <1>1, ReadUserKept, ReadSubKept
<1>2. CASE ~ReadUser(j) /\ ~ReadSub(j)
  <2>1. Quietly(j) /\ CopiesInv(own) /\ j \in Jobs
    BY <1>2, AwaitQuiet DEF Engaged
  <2> QED BY <2>1, QuietlyKept
<1> QED BY <1>1, <1>2

\* A handler that decides what to show, and one that fails, leave billing alone.
LEMMA DecidedQuiet ==
  ASSUME NEW own, NEW j, Engaged(own, j), NEW step, NEW todo \in Seq(Smooth), Decide(j, step, todo)
  PROVE  Quietly(j)
<1>1. /\ UNCHANGED <<person, subs, due, disturbed>> /\ job' = [job EXCEPT ![j].todo = todo]
  BY DEF Decide, stores, history
<1> QED BY <1>1, Alike, DecideQuiet

\* An exception is quiet.
LEMMA RaisedQuiet ==
  ASSUME NEW own, NEW j, Engaged(own, j), Raise(j), UNCHANGED <<person, subs, due>>
  PROVE  Quietly(j)
BY Alike, Disturbs, LeftQuiet

\* The handlers of the dashboard that decide what to show next.
LEMMA DecidersQuiet ==
  ASSUME NEW own, NEW d \in Desks, DeskInv, Engaged(own, d),
         WhetherSub(d) \/ Matching(d) \/ OfferPlans(d) \/ OfferAccess(d) \/ Reset(d) \/ Devices(d) \/ Send(d)
  PROVE  Quietly(d)
<1>0. job[d].todo # <<>>
  BY EngagedFacts
<1>1. ASSUME WhetherSub(d) PROVE Quietly(d)
  <2>1. Again(d) \in Seq(Smooth) /\ Render("SUBSCRIPTION") \in Seq(Smooth)
    BY <1>0, <1>1, AgainSmooth DEF WhetherSub, Decide, At
  <2> QED BY <1>0, <1>1, <2>1, DecidedQuiet DEF WhetherSub
<1>2. ASSUME Matching(d) PROVE Quietly(d)
  <2>1. Again(d) \in Seq(Smooth) /\ Render("SYNC") \in Seq(Smooth)
    BY <1>0, <1>2, AgainSmooth DEF Matching, Decide, At
  <2> QED BY <1>0, <1>2, <2>1, DecidedQuiet DEF Matching
<1>3. ASSUME OfferPlans(d) PROVE Quietly(d)
  <2>1. Render("MAIN") \in Seq(Smooth) /\ Render("GIVE_SUBSCRIPTION") \in Seq(Smooth)
    BY <1>0, <1>3, AgainSmooth DEF OfferPlans, Decide, At
  <2>2. PICK w \in {"MAIN", "GIVE_SUBSCRIPTION"} : Decide(d, "plans", Render(w))
    BY <1>3 DEF OfferPlans
  <2>3. Render(w) \in Seq(Smooth)
    BY <2>1
  <2> QED BY <1>0, <2>2, <2>3, DecidedQuiet
<1>4. ASSUME OfferAccess(d) PROVE Quietly(d)
  <2>1. Render("MAIN") \in Seq(Smooth) /\ Render("GIVE_ACCESS") \in Seq(Smooth)
    BY <1>0, <1>4, AgainSmooth DEF OfferAccess, Decide, At
  <2>2. PICK w \in {"MAIN", "GIVE_ACCESS"} : Decide(d, "access", Render(w))
    BY <1>4 DEF OfferAccess
  <2>3. Render(w) \in Seq(Smooth)
    BY <2>1
  <2> QED BY <1>0, <2>2, <2>3, DecidedQuiet
<1>5. ASSUME Reset(d) PROVE Quietly(d)
  <2>1. Again(d) \in Seq(Smooth)
    BY <1>0, <1>5, AgainSmooth DEF Reset, At
  <2>2. CASE Decide(d, "reset", Again(d))
    BY <1>0, <2>1, <2>2, DecidedQuiet
  <2>3. CASE Raise(d) /\ UNCHANGED <<stores, caches, due, faults>>
    BY <1>0, <2>3, RaisedQuiet DEF stores
  <2> QED BY <1>5, <2>2, <2>3 DEF Reset
<1>6. ASSUME Devices(d) PROVE Quietly(d)
  <2>1. Again(d) \in Seq(Smooth) /\ Render("DEVICES_LIST") \in Seq(Smooth)
    BY <1>0, <1>6, AgainSmooth DEF Devices, At
  <2>2. CASE \E w : w \in Seq(Smooth) /\ Decide(d, "devices", w)
    BY <1>0, <2>2, DecidedQuiet
  <2>3. CASE Raise(d) /\ UNCHANGED <<stores, caches, due, faults>>
    BY <1>0, <2>3, RaisedQuiet DEF stores
  <2> QED BY <1>6, <2>1, <2>2, <2>3 DEF Devices
<1>7. ASSUME Send(d) PROVE Quietly(d)
  <2>1. Again(d) \in Seq(Smooth) /\ Render("MAIN") \in Seq(Smooth)
    BY <1>0, <1>7, AgainSmooth DEF Send, At
  <2>2. CASE Decide(d, "send", Again(d)) \/ Decide(d, "send", Render("MAIN"))
    BY <1>0, <2>1, <2>2, DecidedQuiet
  <2>3. CASE Arm(d, "message")
    <3>1. UNCHANGED <<person, subs, due, disturbed>> /\ job' = [job EXCEPT ![d].todo = Again(d)]
      BY <2>3 DEF Arm, stores, history
    <3> QED BY <2>1, <3>1, Alike, DecideQuiet
  <2> QED BY <1>7, <2>2, <2>3 DEF Send
<1> QED BY <1>1, <1>2, <1>3, <1>4, <1>5, <1>6, <1>7

\* A window is drawn, the main menu shown, access given, the administrator's own copy cleared.
LEMMA ShowQuiet ==
  ASSUME NEW own, NEW d \in Desks, Engaged(own, d), Show(d) \/ Menu(d) \/ GrantAccess(d) \/ ClearActor(d)
  PROVE  Quietly(d)
<1>1. CASE Show(d)
  <2>1. Head(job[d].todo) \notin {"create", "point"}
    BY <1>1, GetterFacts, Zenon DEF Show
  <2>2. UNCHANGED <<person, subs, due>> /\ (Raise(d) \/ (Continue(d) /\ Undisturbed))
    BY <1>1 DEF Show, stores
  <2>3. CASE Raise(d)
    BY <2>2, <2>3, RaisedQuiet
  <2>4. CASE Continue(d) /\ Undisturbed
    BY <2>1, <2>2, <2>4, Alike, GoneQuiet DEF Undisturbed
  <2> QED BY <2>2, <2>3, <2>4
<1>2. CASE Menu(d) \/ GrantAccess(d) \/ ClearActor(d)
  <2>1. UNCHANGED <<person, subs, due, disturbed>> /\ Continue(d) /\ Head(job[d].todo) \in {"MENU", "grant", "clearActor"}
    BY <1>2 DEF Menu, GrantAccess, ClearActor, stores, history, At
  <2>2. Head(job[d].todo) \notin {"create", "point"}
    BY <2>1
  <2> QED BY <2>1, <2>2, Alike, GoneQuiet
<1> QED BY <1>1, <1>2

\* The writes of the panel: the account is banned or removed, a device unlinked.
LEMMA PanelQuiet ==
  ASSUME NEW own, NEW d \in Desks, DeskInv, Engaged(own, d), Toggle(d) \/ Remove(d) \/ Unlink(d)
  PROVE  Quietly(d)
<1>0. UNCHANGED <<person, subs, due>> /\ job[d].todo # <<>>
  BY EngagedFacts DEF Toggle, Remove, Unlink
<1>1. CASE Raise(d)
  BY <1>0, <1>1, RaisedQuiet
<1>2. CASE Toggle(d) /\ ~Raise(d)
  <2>1. Head(job[d].todo) = "toggle" /\ job' = [job EXCEPT ![d] = Goes([@ EXCEPT !.wrote = TRUE], <<>>)] /\ Disturb(d, Target[d])
    BY <1>2 DEF Toggle, At
  <2>2. Head(job[d].todo) \notin {"create", "point"}
    BY <2>1
  <2> QED BY <1>0, <2>1, <2>2, Alike, Disturbs, WroteQuiet
<1>3. CASE Remove(d) /\ ~Raise(d)
  <2>1. Head(job[d].todo) = "remove" /\ job' = [job EXCEPT ![d] = Goes([@ EXCEPT !.wrote = TRUE], <<>>)] /\ Disturb(d, Target[d])
    BY <1>3 DEF Remove, At
  <2>2. Head(job[d].todo) \notin {"create", "point"}
    BY <2>1
  <2> QED BY <1>0, <2>1, <2>2, Alike, Disturbs, WroteQuiet
<1>4. CASE Unlink(d) /\ ~Raise(d)
  <2>1. Head(job[d].todo) = "unlink" /\ Undisturbed
        /\ \E w \in {"DEVICES_LIST", "SUBSCRIPTION"} : job' = [job EXCEPT ![d].todo = Render(w)]
    BY <1>4 DEF Unlink, At
  <2>2. PICK w \in {"DEVICES_LIST", "SUBSCRIPTION"} : job' = [job EXCEPT ![d].todo = Render(w)]
    BY <2>1
  <2>3. Render(w) \in Seq(Smooth)
    BY <1>0, <2>1, AgainSmooth
  <2> QED BY <1>0, <2>1, <2>2, <2>3, Alike, DecideQuiet DEF Undisturbed
<1> QED BY <1>1, <1>2, <1>3, <1>4

\* The administrator loses the own pointer: nobody else's.
LEMMA DropActorQuiet ==
  ASSUME NEW own, NEW d \in Desks, Engaged(own, d), DropActor(d)
  PROVE  Quietly(d)
<1>0. DOMAIN person = Users /\ DOMAIN due = Users /\ Actor[d] \in Users
  BY EngagedFacts, DeskAssumption DEF StoresTyped, DueTyped
<1>1. /\ person' = [person EXCEPT ![Actor[d]].current = None] /\ due' = [due EXCEPT ![Actor[d]].days = 0]
      /\ job' = [job EXCEPT ![d] = Goes([@ EXCEPT !.wrote = TRUE], <<>>)] /\ UNCHANGED subs
      /\ disturbed' = disturbed \cup {Actor[d]} /\ Head(job[d].todo) = "dropActor"
  BY DEF DropActor, Unset, At
<1>2. Spared
  BY <1>0, <1>1 DEF Spared
<1>3. Head(job[d].todo) \notin {"create", "point"} /\ disturbed \subseteq disturbed'
  BY <1>1
<1> QED BY <1>1, <1>2, <1>3, WroteQuiet

\* The list of users with access is read.
LEMMA ReadPlanQuiet ==
  ASSUME NEW own, NEW d \in Desks, Engaged(own, d), ReadPlan(d)
  PROVE  Quietly(d)
<1>0. /\ DOMAIN job = Jobs /\ d \in Jobs /\ DOMAIN job[d] = JobFields /\ job[d].todo \in Seq(Names) /\ job[d].todo # <<>>
  BY EngagedFacts
<1>1. /\ UNCHANGED <<person, subs, due, disturbed>> /\ Head(job[d].todo) = "plan"
      /\ job' = [job EXCEPT ![d] = [Goes(@, <<>>) EXCEPT !.remna = allowed]]
  BY DEF ReadPlan, At, stores, history
<1> DEFINE g == Goes(job[d], <<>>)
<1>2. job'[d] = [g EXCEPT !.remna = allowed]
  BY <1>0, <1>1
<1>3. DOMAIN g = JobFields
  <2>1. <<>> \in Seq(Names)
    OBVIOUS
  <2> QED BY <1>0, <2>1, GoesFacts
<1>4. /\ job'[d].user = g.user /\ job'[d].usr = g.usr /\ job'[d].sub = g.sub /\ job'[d].todo = g.todo
  BY <1>2, <1>3 DEF JobFields
<1>5. g.user \in {job[d].user, None} /\ Follows(job[d], g)
  <2>1. g = Goes(job[d], <<>>)
    OBVIOUS
  <2>2. Head(job[d].todo) \notin {"create", "point"}
    BY <1>1
  <2> QED BY <1>0, <2>1, <2>2, GoneRecord
<1>6. Follows(job[d], job'[d])
  BY <1>4, <1>5 DEF Follows
<1> QED BY <1>1, <1>4, <1>5, <1>6, Alike DEF Quietly

\* Lists that set no points.
NoPoints(s) == s \in Seq(Names) /\ \A i \in DOMAIN s : s[i] \notin {"set", "points"}
\* A list without points uses no points.
LEMMA PointsFree == \A s : NoPoints(s) => ~PointsIn(s)
BY ReachesNone DEF NoPoints, PointsIn
\* Nor does one such list after another.
LEMMA PointsJoin == \A s, t : NoPoints(s) /\ NoPoints(t) => NoPoints(s \o t)
<1> SUFFICES ASSUME NEW s, NEW t, NoPoints(s), NoPoints(t) PROVE NoPoints(s \o t)
  OBVIOUS
<1> DEFINE S == Names \ {"set", "points"}
<1>1. s \in Seq(S) /\ t \in Seq(S)
  BY DEF NoPoints
<1> HIDE DEF S
<1>2. s \o t \in Seq(S)
  BY <1>1
<1>3. \A i \in DOMAIN (s \o t) : (s \o t)[i] \in S
  BY <1>2
<1>4. s \o t \in Seq(Names)
  BY DEF NoPoints
<1> QED BY <1>3, <1>4 DEF S, NoPoints
\* The lists that do not write points.
LEMMA PointsNone ==
  /\ NoPoints(<<"dropActor", "clearActor">>) /\ NoPoints(SyncUser) /\ NoPoints(<<"remove">>) /\ NoPoints(<<"push">>)
  /\ NoPoints(<<"restore">> \o SyncUser) /\ NoPoints(<<"sub", "aim">>) /\ NoPoints(<<"user", "flush">>)
  /\ NoPoints(<<"days", "push", "issue", "flush">>) /\ NoPoints(<<"create">>)
  /\ NoPoints(<<"point", "clearUser", "clearSub">>)
  /\ \A ask : NoPoints(Granting(ask) \o <<"push", "done", "unlock">>)
<1>1. {"user", "sub", "apply", "remove", "push", "restore", "aim", "flush", "days", "issue", "create", "discount", "extend", "mark",
       "done", "unlock", "point", "clearUser", "clearSub"} \subseteq Names
  BY TaskNames
<1>2. "dropActor" \in Names /\ "clearActor" \in Names
  BY DEF Names, Ordinary
<1>3. NoPoints(<<"dropActor", "clearActor">>) /\ NoPoints(<<"remove">>) /\ NoPoints(<<"push">>) /\ NoPoints(<<"create">>)
  BY <1>1, <1>2 DEF NoPoints
<1>4. NoPoints(SyncUser) /\ NoPoints(<<"restore">>)
  BY <1>1 DEF NoPoints, SyncUser
<1>5. NoPoints(<<"restore">> \o SyncUser)
  BY <1>4, PointsJoin
<1>6. NoPoints(<<"sub", "aim">>) /\ NoPoints(<<"user", "flush">>)
  BY <1>1 DEF NoPoints
<1>7. NoPoints(<<"days", "push", "issue", "flush">>)
  BY <1>1 DEF NoPoints
<1>8. NoPoints(<<"point", "clearUser", "clearSub">>)
  BY <1>1 DEF NoPoints
<1>9. NoPoints(<<"push", "done", "unlock">>) /\ NoPoints(<<"discount">>) /\ NoPoints(<<"extend", "mark", "discount">>)
  BY <1>1 DEF NoPoints
<1>10. ASSUME NEW ask PROVE NoPoints(Granting(ask) \o <<"push", "done", "unlock">>)
  <2>1. NoPoints(Granting(ask))
    BY <1>9 DEF Granting
  <2> HIDE DEF Granting
  <2> QED BY <1>9, <2>1, PointsJoin
<1> QED BY <1>3, <1>4, <1>5, <1>6, <1>7, <1>8, <1>10
\* A dull list does not.
LEMMA PointsDull == \A t \in Seq(Names) : Dull(t) => NoPoints(t)
BY DEF Dull, NoPoints, Uses, Special

\* A job that takes other awaits, of which none sets points, from one that used its subscription.
LEMMA TurnQuiet ==
  ASSUME NEW own, NEW j, Engaged(own, j), UNCHANGED <<person, subs, due>>, disturbed \subseteq disturbed',
         NEW q, job'[j] = q, q.user = job[j].user, q.usr = job[j].usr, q.sub = job[j].sub, NoPoints(q.todo),
         Head(job[j].todo) \in SubUses \ {"create", "point"}
  PROVE  Quietly(j)
<1>0. job[j].todo \in Seq(Names) /\ job[j].todo # <<>>
  BY EngagedFacts
<1>1. SubIn(job[j].todo) /\ ~First(job[j].todo, {"create", "point"})
  BY <1>0, InFirst DEF First
<1>2. ~PointsIn(q.todo)
  BY PointsFree
<1>3. Follows(job[j], q)
  BY <1>1, <1>2 DEF Follows
<1>4. Follows(job[j], job'[j])
  BY <1>3
<1> QED BY <1>4, Alike DEF Quietly

\* More awaits before the rest.
LEMMA ThenQuiet ==
  ASSUME NEW own, NEW j, Engaged(own, j), UNCHANGED <<person, subs, due>>, disturbed \subseteq disturbed',
         NEW steps, NoPoints(steps), steps # <<>>, Head(job[j].todo) \in {"fetch", "compare"},
         NEW q, job'[j] = q, q.user = Goes(job[j], steps).user, q.usr = Goes(job[j], steps).usr,
         q.sub = Goes(job[j], steps).sub, q.todo = Goes(job[j], steps).todo
  PROVE  Quietly(j)
<1>0. job[j].todo \in Seq(Names) /\ job[j].todo # <<>> /\ DOMAIN job[j] = JobFields /\ steps \in Seq(Names)
  BY EngagedFacts DEF NoPoints
<1> DEFINE t == Tail(job[j].todo)
           g == Goes(job[j], steps)
<1>1. t \in Seq(Names) /\ Dull(t)
  BY ClosedDull
<1>2. g.todo = steps \o t /\ steps \o t # <<>>
  <2>1. g.todo = steps \o t
    BY <1>0, GoesFacts
  <2> HIDE DEF t
  <2> QED BY <1>0, <1>1, <2>1
<1>3. g.user = job[j].user /\ g.usr = job[j].usr /\ g.sub = job[j].sub
  BY <1>0, <1>2, GoesFacts
<1>4. NoPoints(steps \o t)
  <2>1. NoPoints(t)
    BY <1>1, PointsDull
  <2> HIDE DEF t
  <2> QED BY <2>1, PointsJoin
<1>5. Head(job[j].todo) \in SubUses \ {"create", "point"}
  BY DEF SubUses
<1>6. q.user = job[j].user /\ q.usr = job[j].usr /\ q.sub = job[j].sub /\ q.todo = steps \o t
  BY <1>2, <1>3
<1> HIDE DEF g, t
<1> QED BY <1>4, <1>5, <1>6, TurnQuiet

\* Comparing billing with the panel is quiet.
LEMMA CompareQuiet ==
  ASSUME NEW own, NEW d \in Desks, Engaged(own, d), Compare(d)
  PROVE  Quietly(d)
<1>0. /\ DOMAIN job = Jobs /\ d \in Jobs /\ UNCHANGED <<person, subs, due, disturbed>> /\ Head(job[d].todo) = "compare"
      /\ \E steps \in {<<"remove">>, <<"push">>, <<"restore">> \o SyncUser} : Then(d, steps)
  BY EngagedFacts DEF Compare, At, stores, history
<1>1. PICK steps \in {<<"remove">>, <<"push">>, <<"restore">> \o SyncUser} : Then(d, steps)
  BY <1>0
<1>2. NoPoints(steps) /\ steps # <<>>
  <2>1. <<"restore">> \o SyncUser # <<>>
    <3>1. "restore" \in Names /\ SyncUser \in Seq(Names)
      BY TaskNames, PointsNone DEF NoPoints
    <3> QED BY <3>1, ConsFacts
  <2>2. NoPoints(steps)
    BY <1>1, PointsNone
  <2>3. steps \in {<<"remove">>, <<"push">>} => steps # <<>>
    OBVIOUS
  <2> QED BY <1>1, <2>1, <2>2, <2>3
<1> DEFINE q == Goes(job[d], steps)
<1>3. job'[d] = q
  BY <1>0, <1>1 DEF Then
<1>4. q.user = Goes(job[d], steps).user /\ q.usr = Goes(job[d], steps).usr /\ q.sub = Goes(job[d], steps).sub
      /\ q.todo = Goes(job[d], steps).todo
  OBVIOUS
<1> HIDE DEF q
<1> QED BY <1>0, <1>2, <1>3, <1>4, ThenQuiet

\* The account is fetched, or is not there and neither is the subscription.
LEMMA FetchQuiet ==
  ASSUME NEW own, NEW d \in Desks, Engaged(own, d), Fetch(d), account[Target[d]] # None \/ job[d].sub = None
  PROVE  Quietly(d)
<1>0. /\ DOMAIN job = Jobs /\ d \in Jobs /\ Head(job[d].todo) = "fetch" /\ DOMAIN job[d] = JobFields
      /\ job[d].todo \in Seq(Names) /\ job[d].todo # <<>>
  BY EngagedFacts DEF Fetch, At
<1>1. CASE account[Target[d]] = None
  <2>1. Then(d, <<"dropActor", "clearActor">>) /\ UNCHANGED <<person, subs, due, disturbed>>
    BY <1>1 DEF Fetch, stores, history
  <2> DEFINE steps == <<"dropActor", "clearActor">>
             q == Goes(job[d], steps)
  <2>2. job'[d] = q
    BY <1>0, <2>1 DEF Then
  <2>3. NoPoints(steps) /\ steps # <<>>
    BY PointsNone
  <2>4. q.user = Goes(job[d], steps).user /\ q.usr = Goes(job[d], steps).usr /\ q.sub = Goes(job[d], steps).sub
        /\ q.todo = Goes(job[d], steps).todo
    OBVIOUS
  <2> HIDE DEF q, steps
  <2> QED BY <1>0, <2>1, <2>2, <2>3, <2>4, ThenQuiet
<1>2. CASE account[Target[d]] # None
  <2>1. /\ job' = [job EXCEPT ![d] = [Goes(@, SyncUser) EXCEPT !.remna = account[Target[d]]]]
        /\ UNCHANGED <<person, subs, due, disturbed>>
    BY <1>2 DEF Fetch, stores, history
  <2> DEFINE g == Goes(job[d], SyncUser)
             q == [g EXCEPT !.remna = account[Target[d]]]
  <2>2. job'[d] = q
    BY <1>0, <2>1
  <2>3. NoPoints(SyncUser) /\ SyncUser # <<>> /\ SyncUser \in Seq(Names)
    BY PointsNone DEF SyncUser, NoPoints
  <2>4. DOMAIN g = JobFields
    BY <1>0, <2>3, GoesFacts
  <2>5. q.user = g.user /\ q.usr = g.usr /\ q.sub = g.sub /\ q.todo = g.todo
    BY <2>4 DEF JobFields
  <2>6. q.user = Goes(job[d], SyncUser).user /\ q.usr = Goes(job[d], SyncUser).usr /\ q.sub = Goes(job[d], SyncUser).sub
        /\ q.todo = Goes(job[d], SyncUser).todo
    BY <2>5
  <2> HIDE DEF q, g
  <2> QED BY <1>0, <2>1, <2>2, <2>3, <2>6, ThenQuiet
<1> QED BY <1>1, <1>2

\* The account is made anew, the old one of that name removed first.
LEMMA RestoreQuiet ==
  ASSUME NEW own, NEW d \in Desks, Engaged(own, d), Restore(d)
  PROVE  Quietly(d)
<1>0. /\ DOMAIN job = Jobs /\ d \in Jobs /\ DOMAIN job[d] = JobFields /\ job[d].todo \in Seq(Names) /\ job[d].todo # <<>>
      /\ Head(job[d].todo) = "restore" /\ UNCHANGED <<person, subs, due>> /\ Disturb(d, Target[d])
  BY EngagedFacts DEF Restore, At
<1> DEFINE new == NewAccount(job[d].sub.account, job[d].usr, job[d].sub)
           g == IF account[Target[d]] = None THEN Goes(job[d], <<>>) ELSE job[d]
           q == [g EXCEPT !.wrote = TRUE, !.remna = new]
<1>1. job'[d] = q
  BY <1>0 DEF Restore
<1>2. DOMAIN g = JobFields
  <2>1. <<>> \in Seq(Names)
    OBVIOUS
  <2>2. DOMAIN Goes(job[d], <<>>) = JobFields
    BY <1>0, <2>1, GoesFacts
  <2> QED BY <1>0, <2>2
<1>3. q.user = g.user /\ q.usr = g.usr /\ q.sub = g.sub /\ q.todo = g.todo
  BY <1>2 DEF JobFields
<1>4. g.user \in {job[d].user, None} /\ Follows(job[d], g)
  <2>1. CASE g = job[d]
    <3>1. ~First(job[d].todo, {"create", "point"})
      BY <1>0 DEF First
    <3> QED BY <2>1, <3>1 DEF Follows
  <2>2. CASE g = Goes(job[d], <<>>)
    <3>1. Head(job[d].todo) \notin {"create", "point"}
      BY <1>0
    <3> HIDE DEF g
    <3> QED BY <1>0, <2>2, <3>1, GoneRecord
  <2> QED BY <2>1, <2>2
<1>5. Follows(job[d], q)
  BY <1>3, <1>4 DEF Follows
<1>6. job'[d].user \in {job[d].user, None} /\ Follows(job[d], job'[d])
  BY <1>1, <1>3, <1>4, <1>5
<1> QED BY <1>0, <1>6, Alike, Disturbs DEF Quietly

\* The awaits of the loyalty runs, the referral tasks and the flushes that write nothing at billing.
LEMMA PassQuiet ==
  ASSUME NEW own, NEW j, Engaged(own, j), Eligible(j) \/ Mark(j) \/ Done(j) \/ Unlock(j) \/ Issue(j)
  PROVE  Quietly(j)
<1>1. UNCHANGED <<person, subs, due, disturbed>> /\ (Stop(j) \/ Continue(j))
  BY DEF Eligible, Mark, Done, Unlock, Issue, SetState, Locally, stores, history
<1>2. Head(job[j].todo) \in {"eligible", "mark", "done", "unlock", "issue"}
  BY DEF Eligible, Mark, Done, Unlock, Issue, SetState, At
<1>3. Head(job[j].todo) \notin {"create", "point"}
  BY <1>2
<1> QED BY <1>1, <1>3, Alike, GoneQuiet, LeftQuiet

\* Reading a run's state is quiet.
LEMMA ReadStateQuiet ==
  ASSUME NEW own, NEW j, Engaged(own, j), ReadState(j)
  PROVE  Quietly(j)
<1>0. /\ DOMAIN job = Jobs /\ j \in Jobs /\ DOMAIN job[j] = JobFields /\ job[j].todo \in Seq(Names) /\ job[j].todo # <<>>
      /\ UNCHANGED <<person, subs, due, disturbed>> /\ Head(job[j].todo) = "seen"
  BY EngagedFacts DEF ReadState, At, Locally, stores, history
<1>1. CASE Stop(j)
  BY <1>0, <1>1, Alike, LeftQuiet
<1>2. CASE ~Stop(j)
  <2> DEFINE g == Goes(job[j], <<>>)
             q == [g EXCEPT !.ask = state[job[j].user]]
  <2>1. job'[j] = q
    BY <1>0, <1>2 DEF ReadState
  <2>2. DOMAIN g = JobFields
    <3>1. <<>> \in Seq(Names)
      OBVIOUS
    <3> QED BY <1>0, <3>1, GoesFacts
  <2>3. q.user = g.user /\ q.usr = g.usr /\ q.sub = g.sub /\ q.todo = g.todo
    BY <2>2 DEF JobFields
  <2>4. g.user \in {job[j].user, None} /\ Follows(job[j], g)
    <3>1. g = Goes(job[j], <<>>)
      OBVIOUS
    <3>2. Head(job[j].todo) \notin {"create", "point"}
      BY <1>0
    <3> QED BY <1>0, <3>1, <3>2, GoneRecord
  <2>5. Follows(job[j], q)
    BY <2>3, <2>4 DEF Follows
  <2>6. job'[j].user \in {job[j].user, None} /\ Follows(job[j], job'[j])
    BY <2>1, <2>3, <2>4, <2>5
  <2> QED BY <1>0, <2>6, Alike DEF Quietly
<1> QED BY <1>1, <1>2

\* Taking the lock is quiet.
LEMMA TakeLockQuiet ==
  ASSUME NEW own, NEW j, Engaged(own, j), TakeLock(j)
  PROVE  Quietly(j)
<1>0. /\ DOMAIN job = Jobs /\ j \in Jobs /\ DOMAIN job[j] = JobFields
      /\ UNCHANGED <<person, subs, due, disturbed>> /\ Head(job[j].todo) \in SubUses \ {"create", "point"}
  BY EngagedFacts DEF TakeLock, At, Locally, stores, history, SubUses
<1> DEFINE q == [job[j] EXCEPT !.todo = <<"sub", "aim">>, !.rescue = <<"unlock">>]
<1>1. q.user = job[j].user /\ q.usr = job[j].usr /\ q.sub = job[j].sub /\ q.todo = <<"sub", "aim">>
  BY <1>0 DEF JobFields
<1>2. Stop(j) \/ job'[j] = q
  BY <1>0 DEF TakeLock
<1> HIDE DEF q
<1>3. NoPoints(q.todo)
  BY <1>1, PointsNone
<1>4. CASE Stop(j)
  BY <1>0, <1>4, Alike, LeftQuiet
<1>5. CASE job'[j] = q
  BY <1>0, <1>1, <1>3, <1>5, TurnQuiet
<1> QED BY <1>2, <1>4, <1>5

\* Choosing the goal is quiet.
LEMMA AimQuiet ==
  ASSUME NEW own, NEW j, Engaged(own, j), Aim(j)
  PROVE  Quietly(j)
<1>0. /\ DOMAIN job = Jobs /\ j \in Jobs /\ DOMAIN job[j] = JobFields
      /\ UNCHANGED <<person, subs, due>> /\ Head(job[j].todo) \in SubUses \ {"create", "point"}
  BY EngagedFacts DEF Aim, At, stores, SubUses
<1>1. CASE Raise(j)
  BY <1>0, <1>1, RaisedQuiet
<1>2. CASE ~Raise(j)
  <2>1. PICK ask : job' = [job EXCEPT ![j] = [@ EXCEPT !.ask = ask, !.todo = Granting(ask) \o <<"push", "done", "unlock">>]]
    BY <1>2 DEF Aim
  <2>2. disturbed' = disturbed
    BY <1>2 DEF Aim, Undisturbed
  <2> DEFINE l == Granting(ask) \o <<"push", "done", "unlock">>
             q == [job[j] EXCEPT !.ask = ask, !.todo = l]
  <2>3. NoPoints(l)
    BY PointsNone
  <2> HIDE DEF l
  <2>4. q.user = job[j].user /\ q.usr = job[j].usr /\ q.sub = job[j].sub /\ q.todo = l
    BY <1>0 DEF JobFields
  <2>5. job'[j] = q
    BY <1>0, <2>1 DEF l
  <2> HIDE DEF q
  <2> QED BY <1>0, <2>2, <2>3, <2>4, <2>5, TurnQuiet
<1> QED BY <1>1, <1>2

\* Listing and taking pending rewards is quiet.
LEMMA ListingQuiet ==
  ASSUME NEW own, NEW j, Engaged(own, j), ListPending(j) \/ Flush(j)
  PROVE  Quietly(j)
<1>0. /\ DOMAIN job = Jobs /\ j \in Jobs /\ DOMAIN job[j] = JobFields
      /\ UNCHANGED <<person, subs, due, disturbed>> /\ Head(job[j].todo) \in SubUses \ {"create", "point"}
  BY EngagedFacts DEF ListPending, Flush, At, Locally, stores, history, SubUses
<1>1. CASE Stop(j)
  BY <1>0, <1>1, Alike, LeftQuiet
<1>2. CASE ~Stop(j)
  <2> DEFINE l == IF ListPending(j) THEN <<"user", "flush">> ELSE <<"days", "push", "issue", "flush">>
  <2>1. NoPoints(l)
    BY PointsNone
  <2>2. PICK ask, remna : job' = [job EXCEPT ![j] = [@ EXCEPT !.ask = ask, !.remna = remna, !.todo = l]]
    <3>1. CASE ListPending(j)
      <4>1. job' = [job EXCEPT ![j] = [@ EXCEPT !.remna = Banked, !.todo = <<"user", "flush">>]]
        BY <1>2, <3>1 DEF ListPending
      <4>2. [job[j] EXCEPT !.remna = Banked, !.todo = <<"user", "flush">>]
               = [job[j] EXCEPT !.ask = job[j].ask, !.remna = Banked, !.todo = <<"user", "flush">>]
        BY <1>0 DEF JobFields
      <4>3. job' = [job EXCEPT ![j] = [@ EXCEPT !.ask = job[j].ask, !.remna = Banked, !.todo = l]]
        BY <1>0, <3>1, <4>1, <4>2
      <4> QED BY <4>3
    <3>2. CASE ~ListPending(j)
      BY <1>2, <3>2 DEF Flush
    <3> QED BY <3>1, <3>2
  <2> HIDE DEF l
  <2> DEFINE q == [job[j] EXCEPT !.ask = ask, !.remna = remna, !.todo = l]
  <2>3. q.user = job[j].user /\ q.usr = job[j].usr /\ q.sub = job[j].sub /\ q.todo = l
    BY <1>0 DEF JobFields
  <2>4. job'[j] = q
    BY <1>0, <2>2
  <2> HIDE DEF q
  <2> QED BY <1>0, <2>1, <2>3, <2>4, TurnQuiet
<1> QED BY <1>1, <1>2

\* A goal that was reached before, a discount that is there, a subscription that is not paid, a crash.
LEMMA SkipQuiet ==
  ASSUME NEW own, NEW j, Engaged(own, j),
         \/ Extend(j) /\ ~(job[j].sub.days < job[j].ask.to)
         \/ GiveDiscount(j) /\ ~(job[j].usr.discount < LoyaltyDiscount)
         \/ GiveDays(j) /\ (job[j].sub = None \/ (job[j].sub # None /\ job[j].sub.trial))
         \/ Crash(j)
  PROVE  Quietly(j)
<1>1. UNCHANGED <<person, subs, due>> /\ disturbed \subseteq disturbed'
  BY DEF Extend, GiveDiscount, GiveDays, Crash, Locally, stores, history
<1>2. Stop(j) \/ (Continue(j) /\ Head(job[j].todo) \in {"extend", "discount"})
  BY DEF Extend, GiveDiscount, GiveDays, Crash, At
<1>3. CASE Stop(j)
  BY <1>1, <1>3, Alike, LeftQuiet
<1>4. CASE Continue(j) /\ Head(job[j].todo) \in {"extend", "discount"}
  <2>1. Head(job[j].todo) \notin {"create", "point"}
    BY <1>4
  <2> QED BY <1>1, <1>4, <2>1, Alike, GoneQuiet
<1> QED BY <1>2, <1>3, <1>4

\* A job that begins has nothing in hand.
LEMMA BegunKept ==
  ASSUME NEW own, NEW j, Standing(own, j), KeptInv, Own(j), NEW u, NEW ask, NEW todo, NEW rescue, Begin(j, u, ask, todo, rescue),
         UNCHANGED <<person, subs, due, disturbed>>
  PROVE  KeptInv'
<1> DEFINE q == [IdleJob EXCEPT !.user = u, !.ask = ask, !.todo = todo, !.rescue = rescue]
<1>1. job'[j] = q /\ CopiesInv(own) /\ j \in Jobs
  BY DEF Begin, Standing, CopiesInv
<1>2. q.usr = None /\ q.sub = None
  BY DEF IdleJob
<1> HIDE DEF q
<1>3. \A points, current, bills : Held(q, points, current, bills)
  BY <1>2, NoneHeld
<1>4. Held(job'[j], person[job'[j].user].points, Current(job'[j].user), subs')
  BY <1>1, <1>3
<1> QED BY <1>1, <1>4, Alike, SparedKept
\* A click that starts a handler keeps the invariant.
LEMMA HandledKept ==
  ASSUME NEW own, NEW d, Standing(own, d), KeptInv, Own(d), NEW ask, NEW todo, Handle(d, ask, todo)
  PROVE  KeptInv'
<1>1. Begin(d, Target[d], ask, todo, <<"MENU">>) /\ UNCHANGED <<person, subs, due, disturbed>>
  BY DEF Handle, stores, history
<1> QED BY <1>1, BegunKept
\* Every click that only draws does.
LEMMA ClickKept ==
  ASSUME NEW own, NEW d, Standing(own, d), KeptInv, Own(d), DeskClick(d)
  PROVE  KeptInv'
<1>1. \E ask, todo : Handle(d, ask, todo)
  BY DEF DeskClick, Open, OnCurrentSubscription, OnResetTraffic, OnDevices, OnSync, OnGiveSubscription, OnSubscriptionSelect,
         OnGiveAccess, OnTransactions, OnTransactionSelect, OnContentInput, SwitchTo, OnInvalidInput, Look
<1> QED BY <1>1, HandledKept
\* A run, a task or a flush that begins does.
LEMMA TaskBegunKept ==
  ASSUME NEW own, NEW j, Standing(own, j), KeptInv, Own(j), (\E u : BeginGrant(j, u)) \/ BeginGive(j) \/ BeginFlush(j)
  PROVE  KeptInv'
<1>1. /\ \E u, ask, todo, rescue : Begin(j, u, ask, todo, rescue)
      /\ UNCHANGED <<person, subs, due, disturbed>>
  BY DEF BeginGrant, BeginGive, BeginFlush, stores, history
<1> QED BY <1>1, BegunKept

-----------------------------------------------------------------------------
(* Steps that write billing                                                *)

\* A job with a subscription in hand that is not the current one yet.
LEMMA NewSubKept ==
  ASSUME NEW own, NEW j, Engaged(own, j), KeptInv, Own(j), Spared, disturbed \subseteq disturbed', NEW q, job'[j] = q,
         q.user \in {job[j].user, None}, q.usr \in {job[j].usr, None}, PointsIn(q.todo) => PointsIn(job[j].todo),
         CreateOnly(q.todo) \/ (PointUS(q.todo) /\ q.sub = subs'[q.sub.id])
  PROVE  KeptInv'
<1>0. j \in Jobs /\ CopiesInv(own) /\ None \notin Users
  BY AccountAssumption DEF Engaged
<1>1. ASSUME q.user \in Users \ disturbed' PROVE Held(q, person[q.user].points, Current(q.user), subs')
  <2>1. q.user = job[j].user /\ job[j].user \in Users \ disturbed
    BY <1>0, <1>1
  <2>2. Held(job[j], person[job[j].user].points, Current(job[j].user), subs)
    BY <1>0, <2>1 DEF KeptInv, KeptFor
  <2>3. PointsIn(q.todo) /\ q.usr # None => q.usr.points = person[q.user].points
    BY <2>1, <2>2 DEF Held
  <2> QED BY <2>3 DEF Held
<1>2. job'[j].user \in Users \ disturbed' =>
         Held(job'[j], person[job'[j].user].points, Current(job'[j].user), subs')
  BY <1>1
<1> QED BY <1>0, <1>2, SparedKept

\* A subscription is imported from the panel.
LEMMA ImportKept ==
  ASSUME NEW own, NEW d \in Desks, Engaged(own, d), KeptInv, Own(d), Apply(d), job[d].sub = None
  PROVE  KeptInv'
<1> DEFINE t == Tail(job[d].todo)
           l == <<"create">> \o t
           g == Goes(job[d], <<"create">>)
           q == [g EXCEPT !.sub = Imported(job[d].remna)]
<1>0. /\ DOMAIN job = Jobs /\ d \in Jobs /\ DOMAIN job[d] = JobFields /\ job[d].todo \in Seq(Names) /\ job[d].todo # <<>>
      /\ Head(job[d].todo) = "apply" /\ UNCHANGED <<person, subs, due, disturbed>> /\ JobOK(own, d)
      /\ job' = [job EXCEPT ![d] = [Goes(@, <<"create">>) EXCEPT !.sub = Imported(job[d].remna)]]
  BY EngagedFacts DEF Apply, At, stores, history
<1>1. t \in Seq(Names) /\ Dull(t) /\ Plain(t)
  BY <1>0, ClosedDull, SpecialHeads DEF ApplyOnly
<1>2. <<"create">> \in Seq(Names) /\ "create" \in Names
  BY TaskNames
<1>3. Cons(l, "create", t)
  BY <1>1, <1>2, ConsMade
<1>4. g.todo = l /\ l # <<>> /\ DOMAIN g = JobFields
  BY <1>0, <1>2, <1>3, GoesFacts DEF Cons
<1>5. g.user = job[d].user /\ g.usr = job[d].usr
  BY <1>0, <1>2, <1>4, GoesFacts
<1>6. q.user = g.user /\ q.usr = g.usr /\ q.todo = g.todo
  BY <1>4 DEF JobFields
<1>7. job'[d] = q
  BY <1>0
<1>8. NoPoints(l)
  <2>1. NoPoints(t) /\ NoPoints(<<"create">>)
    BY <1>1, PointsDull, PointsNone
  <2> HIDE DEF t
  <2> QED BY <2>1, PointsJoin
<1> HIDE DEF q, g, l
<1>9. CreateOnly(q.todo)
  BY <1>1, <1>3, <1>4, <1>6 DEF Cons, CreateOnly, First
<1>10. ~PointsIn(q.todo)
  BY <1>4, <1>6, <1>8, PointsFree
<1> QED BY <1>0, <1>5, <1>6, <1>7, <1>9, <1>10, Alike, NewSubKept

\* A plan is given: the account first.
LEMMA ProvisionKept ==
  ASSUME NEW own, NEW d \in Desks, Engaged(own, d), KeptInv, Own(d), Provision(d)
  PROVE  KeptInv'
<1> DEFINE t == Tail(job[d].todo)
           g == Goes(job[d], <<>>)
<1>0. /\ DOMAIN job = Jobs /\ d \in Jobs /\ DOMAIN job[d] = JobFields /\ job[d].todo \in Seq(Names) /\ job[d].todo # <<>>
      /\ Head(job[d].todo) = "provision" /\ UNCHANGED <<person, subs, due>> /\ JobOK(own, d)
  BY EngagedFacts DEF Provision, At
<1>1. CASE Raise(d)
  BY <1>0, <1>1, RaisedQuiet, QuietlyKept DEF Engaged
<1>2. CASE ~Raise(d)
  <2>1. PICK x : job' = [job EXCEPT ![d] = [Goes(@, <<>>) EXCEPT !.sub = x, !.wrote = TRUE]] /\ Disturb(d, Target[d])
    BY <1>2 DEF Provision
  <2> DEFINE q == [g EXCEPT !.sub = x, !.wrote = TRUE]
  <2>2. CreateOnly(t) /\ t # <<>> /\ t \in Seq(Names) /\ <<>> \o t = t /\ <<>> \in Seq(Names)
    BY <1>0, SpecialHeads, JoinFacts DEF ProvisionCreate, CreateOnly, First
  <2>3. g.todo = t /\ DOMAIN g = JobFields /\ g.user = job[d].user /\ g.usr = job[d].usr
    <3>1. /\ g.todo = <<>> \o Tail(job[d].todo) /\ DOMAIN g = JobFields
          /\ (g.todo # <<>> => g.user = job[d].user /\ g.usr = job[d].usr)
      BY <1>0, <2>2, GoesFacts
    <3>2. g.todo = t
      BY <2>2, <3>1
    <3> QED BY <2>2, <3>1, <3>2
  <2>4. q.user = g.user /\ q.usr = g.usr /\ q.todo = g.todo
    BY <2>3 DEF JobFields
  <2>5. job'[d] = q
    BY <1>0, <2>1
  <2>6. PointsIn(t) => PointsIn(job[d].todo)
    BY <1>0, InFirst
  <2>7. disturbed \subseteq disturbed'
    BY <2>1, Disturbs
  <2> HIDE DEF q, g, t
  <2> QED BY <1>0, <2>2, <2>3, <2>4, <2>5, <2>6, <2>7, Alike, NewSubKept
<1> QED BY <1>1, <1>2

\* A subscription is created, and not pointed to yet.
LEMMA CreateSubKept ==
  ASSUME NEW own, NEW d \in Desks, Engaged(own, d), KeptInv, Own(d), CreateSub(d)
  PROVE  KeptInv'
<1> DEFINE t == Tail(job[d].todo)
           more == <<"point", "clearUser", "clearSub">>
           l == more \o t
           g == Goes(job[d], more)
<1>0. /\ DOMAIN job = Jobs /\ d \in Jobs /\ DOMAIN job[d] = JobFields /\ job[d].todo \in Seq(Names) /\ job[d].todo # <<>>
      /\ Head(job[d].todo) = "create" /\ UNCHANGED <<person, due, disturbed>> /\ JobOK(own, d)
  BY EngagedFacts DEF CreateSub, At, history
<1>1. PICK id \in Subs :
         /\ id \notin DOMAIN subs
         /\ subs' = [other \in DOMAIN subs \cup {id} |->
                         IF other = id THEN [job[d].sub EXCEPT !.id = id] ELSE subs[other]]
         /\ job' = [job EXCEPT ![d] = [Goes(@, <<"point", "clearUser", "clearSub">>) EXCEPT !.sub.id = id, !.wrote = TRUE]]
  BY DEF CreateSub
<1>2. t \in Seq(Names) /\ Dull(t) /\ Plain(t) /\ DOMAIN job[d].sub = SubFields
  BY <1>0, ClosedDull, SpecialHeads DEF CreateOnly
<1>3. "point" \in Names /\ "clearUser" \in Names /\ "clearSub" \in Names
  BY TaskNames
<1>4. PICK a, b : Cons(b, "clearSub", t) /\ Cons(a, "clearUser", b) /\ Cons(l, "point", a)
  BY <1>2, <1>3, Chain3
<1>5. more \in Seq(Names)
  BY <1>3
<1>6. g.todo = l /\ l # <<>> /\ DOMAIN g = JobFields
  <2>1. l # <<>>
    BY <1>4 DEF Cons
  <2> HIDE DEF more
  <2> QED BY <1>0, <1>5, <2>1, GoesFacts
<1>7. g.user = job[d].user /\ g.usr = job[d].usr /\ g.sub = job[d].sub
  <2> HIDE DEF more
  <2> QED BY <1>0, <1>5, <1>6, GoesFacts
<1> DEFINE q == [g EXCEPT !.sub.id = id, !.wrote = TRUE]
<1>8. q.user = g.user /\ q.usr = g.usr /\ q.todo = g.todo /\ q.sub = [g.sub EXCEPT !.id = id]
  BY <1>6 DEF JobFields
<1>9. job'[d] = q
  BY <1>0, <1>1
<1>10. NoPoints(l)
  <2>1. NoPoints(t) /\ NoPoints(more)
    BY <1>2, PointsDull, PointsNone
  <2> HIDE DEF t, more
  <2> QED BY <2>1, PointsJoin
<1>11. Spared
  BY <1>0, <1>1 DEF Spared
<1> HIDE DEF q, g, l
<1>12. PointUS(q.todo)
  BY <1>2, <1>4, <1>6, <1>8 DEF Cons, PointUS, ClearUS, ClearS, First
<1>13. ~PointsIn(q.todo)
  BY <1>6, <1>8, <1>10, PointsFree
<1>14. q.sub = subs'[q.sub.id]
  <2>1. q.sub.id = id
    BY <1>2, <1>7, <1>8 DEF SubFields
  <2>2. subs'[id] = [job[d].sub EXCEPT !.id = id]
    BY <1>1
  <2> QED BY <1>7, <1>8, <2>1, <2>2
<1> QED BY <1>0, <1>7, <1>8, <1>9, <1>11, <1>12, <1>13, <1>14, NewSubKept

\* A synchronisation that begins alone on fresh copies begins a new account of what is due.
LEMMA StartSyncKept ==
  ASSUME NEW own, NEW d, Standing(own, d), d \in Desks, KeptInv, Own(d), NEW todo, StartSync(d, todo)
  PROVE  KeptInv'
<1> DEFINE u == Target[d]
           q == [IdleJob EXCEPT !.user = Target[d], !.wrote = TRUE, !.todo = todo, !.rescue = <<"MENU">>]
<1>0. /\ d \in Jobs /\ DOMAIN job = Jobs /\ u \in Users /\ CopiesInv(own) /\ None \notin Users /\ DOMAIN due = Users
      /\ UNCHANGED <<person, subs>>
  BY DeskAssumption, AccountAssumption DEF Standing, StoresTyped, DueTyped, CopiesInv, StartSync, stores
<1>1. job'[d] = q /\ \A k \in Jobs : k # d => job'[k] = job[k]
  BY <1>0 DEF StartSync, Own
<1>2. q.usr = None /\ q.sub = None /\ q.user = u
  BY DEF IdleJob
<1> HIDE DEF q
<1>3. \A points, current, bills : Held(q, points, current, bills)
  BY <1>2, NoneHeld
<1>4. CASE UNCHANGED history
  <2>1. Held(job'[d], person[job'[d].user].points, Current(job'[d].user), subs')
    BY <1>1, <1>3
  <2>2. UNCHANGED <<due, disturbed>>
    BY <1>4 DEF history
  <2> QED BY <1>0, <2>1, <2>2, Alike, SparedKept
<1>5. CASE Alone(d) /\ due' = [due EXCEPT ![u] = [points |-> person[u].points, days |-> DaysOf(u)]] /\ disturbed' = disturbed \ {u}
  <2> SUFFICES ASSUME NEW v \in Users \ disturbed' PROVE KeptFor(v)'
    BY DEF KeptInv
  <2>1. Current(v)' = Current(v) /\ DaysOf(v)' = DaysOf(v)
    BY <1>0 DEF Current, DaysOf
  <2>2. CASE v = u
    <3>1. ASSUME NEW k \in Jobs, job'[k].user = u PROVE k = d
      BY <1>1, <1>5, <3>1 DEF Alone
    <3>2. \A k \in Jobs : job'[k].user = u => Held(job'[k], person'[u].points, Current(u)', subs')
      BY <1>1, <1>3, <3>1
    <3>3. due'[u].points = person[u].points /\ due'[u].days = DaysOf(u)
      BY <1>0, <1>5
    <3> QED BY <1>0, <2>1, <2>2, <3>2, <3>3 DEF KeptFor
  <2>3. CASE v # u
    <3>1. v \notin disturbed /\ due'[v] = due[v]
      BY <1>0, <1>5, <2>3
    <3>2. KeptFor(v)
      BY <3>1 DEF KeptInv
    <3>3. ASSUME NEW k \in Jobs, job'[k].user = v PROVE Held(job'[k], person'[v].points, Current(v)', subs')
      <4>1. k # d
        BY <1>1, <1>2, <2>3, <3>3
      <4>2. job'[k] = job[k]
        BY <1>1, <4>1
      <4>3. Held(job[k], person[v].points, Current(v), subs)
        BY <3>2, <3>3, <4>2 DEF KeptFor
      <4> QED BY <1>0, <2>1, <4>2, <4>3
    <3> QED BY <1>0, <2>1, <3>1, <3>2, <3>3 DEF KeptFor
  <2> QED BY <2>2, <2>3
<1>6. UNCHANGED history \/ (Alone(d) /\ due' = [due EXCEPT ![u] = [points |-> person[u].points, days |-> DaysOf(u)]] /\ disturbed' = disturbed \ {u})
  BY DEF StartSync
<1> QED BY <1>4, <1>5, <1>6
\* A click that starts a change does.
LEMMA DeskEditKept ==
  ASSUME NEW own, NEW d \in Desks, Standing(own, d), KeptInv, Own(d), DeskEdit(d)
  PROVE  KeptInv'
<1>1. (\E ask, todo : Handle(d, ask, todo)) \/ (\E todo : StartSync(d, todo))
  BY DEF DeskEdit, OnBlockToggle, OnRoleSelect, OnDiscount, OnPoints, OnTrafficLimit, OnDeviceLimit, OnInternalSquad,
         OnExternalSquad, OnDuration, EditSub, OnActiveToggle, OnSubscriptionDelete, OnDeviceDelete, OnSyncFromRemnawave,
         OnSyncFromRemnashop, OnSubscriptionDuration, OnPlanSelect, OnSend, Change, Look
<1> QED BY <1>1, HandledKept, StartSyncKept

\* Points that are set after awaits that set none are set by the rest.
LEMMA PointsPast ==
  ASSUME NEW s, NoPoints(s), NEW t \in Seq(Names), PointsIn(s \o t)
  PROVE  PointsIn(t)
<1>1. PICK i \in DOMAIN (s \o t) : (s \o t)[i] \in {"set", "points"}
  BY DEF PointsIn, Reaches
<1>2. s \in Seq(Names)
  BY DEF NoPoints
<1>3. i > Len(s)
  <2>1. ASSUME i <= Len(s) PROVE FALSE
    <3>1. i \in DOMAIN s /\ (s \o t)[i] = s[i]
      BY <1>2, <2>1
    <3> QED BY <1>1, <3>1 DEF NoPoints
  <2> QED BY <1>2, <2>1
<1>4. (i - Len(s)) \in DOMAIN t /\ (s \o t)[i] = t[i - Len(s)]
  BY <1>2, <1>3
<1>5. \A k \in DOMAIN t : t[k] \in Names
  OBVIOUS
<1> QED BY <1>1, <1>4, <1>5 DEF PointsIn, Reaches

\* The fields of a subscription that billing takes from the copy that was changed.
LEMMA BilledFields ==
  ASSUME NEW new \in SubRecords, NEW changed, new.id \in DOMAIN subs, DOMAIN subs[new.id] = SubFields,
         \A f \in SubFields \ changed : new[f] = subs[new.id][f]
  PROVE  /\ Billed(new, changed)[new.id] = new /\ DOMAIN Billed(new, changed) = DOMAIN subs
         /\ \A id \in DOMAIN subs : id # new.id => Billed(new, changed)[id] = subs[id]
<1>1. Billed(new, changed)[new.id] = [f \in SubFields |-> IF f \in changed THEN new[f] ELSE subs[new.id][f]]
  BY DEF Billed
<1>2. new = [f \in SubFields |-> new[f]]
  BY DEF SubRecords, SubFields
<1>3. [f \in SubFields |-> IF f \in changed THEN new[f] ELSE subs[new.id][f]] = [f \in SubFields |-> new[f]]
  OBVIOUS
<1> QED BY <1>1, <1>2, <1>3 DEF Billed

\* The copy a job writes is the current subscription, which is what was written then, unless
\* another job has a copy of it in hand too.
LEMMA BilledCurrent ==
  ASSUME NEW own, NEW j, Engaged(own, j), KeptInv, Head(job[j].todo) \in SubUses \ {"create", "point"},
         NEW new, NEW changed, NEW kept, NEW more, SubT(job[j].sub, accounts), Owned(own, job[j].sub, job[j].user),
         SubT(new, accounts), new.id = job[j].sub.id, \A f \in SubFields \ changed : new[f] = job[j].sub[f],
         BillSubKeeping(j, new, changed, kept, more), NEW u, u = job[j].user, u \notin disturbed'
  PROVE  /\ job[j].sub = Current(u) /\ person[u].current = job[j].sub.id /\ Current(u)' = new
         /\ Billed(new, changed)[new.id] = new
<1> DEFINE s == job[j].sub
<1>0. /\ CopiesInv(own) /\ StoresOK(own) /\ j \in Jobs /\ u \in Users /\ job[j].todo \in Seq(Names) /\ job[j].todo # <<>>
      /\ None \notin SubRecords
  BY EngagedFacts DEF CopiesInv
<1>1. subs' = Billed(new, changed) /\ person' = person /\ Disturb(j, u)
  BY DEF BillSubKeeping
<1>2. s \in SubRecords /\ new \in SubRecords /\ s.id \in DOMAIN subs /\ DOMAIN subs[s.id] = SubFields
  BY <1>0 DEF SubT, Owned, StoresOK
<1>3. u \notin disturbed
  BY <1>1 DEF Disturb
<1>4. Held(job[j], person[u].points, Current(u), subs)
  BY <1>0, <1>3 DEF KeptInv, KeptFor
<1>5. s # None /\ s = Current(u)
  <2>1. SubIn(job[j].todo) /\ s # None
    BY <1>0, <1>2, InFirst
  <2>2. ~CreateOnly(job[j].todo) /\ ~PointUS(job[j].todo)
    BY DEF CreateOnly, PointUS, First
  <2> QED BY <1>4, <2>1, <2>2 DEF Held
<1>6. person[u].current = s.id /\ person[u].current # None /\ subs[s.id] = s
  <2>1. person[u].current # None /\ subs[person[u].current] = s
    BY <1>5 DEF Current
  <2>2. person[u].current \in DOMAIN subs
    BY <1>0, <2>1 DEF StoresOK
  <2>3. subs[person[u].current].id = person[u].current
    BY <1>0, <2>2 DEF StoresOK
  <2> QED BY <2>1, <2>3
<1>7. Billed(new, changed)[new.id] = new
  BY <1>2, <1>6, BilledFields
<1>8. Current(u)' = subs'[s.id]
  BY <1>1, <1>6 DEF Current
<1> QED BY <1>1, <1>5, <1>6, <1>7, <1>8

\* A subscription is written from the copy a job has in hand.
LEMMA BillSubKept ==
  ASSUME NEW own, NEW j, Engaged(own, j), KeptInv, Own(j), Head(job[j].todo) \in SubUses \ {"create", "point"},
         NEW new, NEW changed, NEW kept, NEW more, NoPoints(more),
         SubT(job[j].sub, accounts), Owned(own, job[j].sub, job[j].user), SubT(new, accounts), new.id = job[j].sub.id,
         \A f \in SubFields \ changed : new[f] = job[j].sub[f], kept \in {new, Billed(new, changed)[new.id]},
         BillSubKeeping(j, new, changed, kept, more)
  PROVE  KeptInv'
<1>u. PICK u : u = job[j].user
  OBVIOUS
<1> DEFINE s == job[j].sub
           t == Tail(job[j].todo)
           steps == <<"clearSub", "clearUser">> \o more
           q == [job[j] EXCEPT !.sub = kept, !.wrote = TRUE, !.todo = steps \o t]
<1>0. /\ CopiesInv(own) /\ StoresOK(own) /\ StoresTyped /\ j \in Jobs /\ DOMAIN job = Jobs /\ DOMAIN job[j] = JobFields
      /\ u \in Users /\ t \in Seq(Names) /\ job[j].todo \in Seq(Names) /\ job[j].todo # <<>> /\ None \notin SubRecords
  BY <1>u, EngagedFacts DEF CopiesInv
<1>1. /\ subs' = Billed(new, changed) /\ person' = person /\ Disturb(j, u)
      /\ due' = IF "days" \in changed /\ person[u].current = new.id
                THEN [due EXCEPT ![u].days = @ + new.days - s.days] ELSE due
      /\ job' = [job EXCEPT ![j] = q]
  BY <1>u DEF BillSubKeeping
<1>2. job'[j] = q /\ q.user = u /\ q.usr = job[j].usr /\ q.sub = kept /\ q.todo = steps \o t
  BY <1>u, <1>0, <1>1 DEF JobFields
<1>3. NoPoints(steps)
  <2>1. "clearSub" \in Names /\ "clearUser" \in Names
    BY TaskNames
  <2>2. NoPoints(<<"clearSub", "clearUser">>)
    BY <2>1 DEF NoPoints
  <2> QED BY <2>2, PointsJoin
<1> HIDE DEF q, steps
<1>4. /\ s \in SubRecords /\ new \in SubRecords /\ DOMAIN s = SubFields /\ s.id \in DOMAIN subs /\ own[s.id] = u
      /\ DOMAIN subs[s.id] = SubFields
  BY <1>u, <1>0 DEF SubT, Owned, StoresOK
<1>5. DOMAIN subs' = DOMAIN subs /\ \A id \in DOMAIN subs : id # s.id => subs'[id] = subs[id]
  BY <1>1, <1>4 DEF Billed
<1>6. disturbed \subseteq disturbed' /\ \A v \in Users : v # u => due'[v] = due[v]
  BY <1>0, <1>1, Disturbs DEF StoresTyped, DueTyped
<1>7. Wrote(own, j, u)
  BY <1>1, <1>2, <1>4, <1>5, <1>6 DEF Wrote
<1>8. ASSUME u \notin disturbed'
      PROVE  /\ person'[u].points = due'[u].points /\ DaysOf(u)' = due'[u].days
             /\ \A k \in Jobs : k # j => ~Holds(k, u)
             /\ Held(q, person'[u].points, Current(u)', subs')
  <2>1. u \notin disturbed /\ \A k \in Jobs : k # j => ~Holds(k, u)
    BY <1>1, <1>8 DEF Disturb
  <2>2. KeptFor(u) /\ Held(job[j], person[u].points, Current(u), subs)
    BY <1>u, <1>0, <2>1 DEF KeptInv, KeptFor
  <2>3. s = Current(u) /\ person[u].current = s.id /\ Current(u)' = new /\ Billed(new, changed)[new.id] = new
    BY <1>u, <1>8, BilledCurrent
  <2>6. Current(u)' = new /\ kept = new
    BY <2>3
  <2>7. DaysOf(u)' = new.days /\ DaysOf(u) = s.days
    BY <1>0, <1>4, <2>3, <2>6 DEF DaysOf
  <2>8. DaysOf(u)' = due'[u].days /\ person'[u].points = due'[u].points
    <3>1. due[u].days = s.days /\ person[u].points = due[u].points /\ DOMAIN due = Users /\ DOMAIN due[u] = {"points", "days"}
      BY <1>0, <2>2, <2>7 DEF KeptFor, StoresTyped, DueTyped
    <3>2. CASE "days" \in changed
      <4>1. due' = [due EXCEPT ![u].days = @ + new.days - s.days]
        BY <1>1, <2>3, <1>4, <3>2
      <4>2. due'[u].days = due[u].days + new.days - s.days /\ due'[u].points = due[u].points
        BY <1>0, <3>1, <4>1
      <4>3. s.days \in Nat /\ new.days \in Nat
        BY <1>4 DEF SubRecords
      <4>4. s.days + new.days - s.days = new.days
        BY <4>3
      <4> QED BY <1>1, <2>7, <3>1, <4>2, <4>4
    <3>3. CASE "days" \notin changed
      <4>1. due' = due /\ new.days = s.days
        BY <1>1, <3>3 DEF SubFields
      <4> QED BY <1>1, <2>7, <3>1, <4>1
    <3> QED BY <3>2, <3>3
  <2>9. PointsIn(q.todo) /\ q.usr # None => q.usr.points = person'[u].points
    <3>1. PointsIn(steps \o t) => PointsIn(t)
      BY <1>0, <1>3, PointsPast
    <3>2. PointsIn(t) => PointsIn(job[j].todo)
      BY <1>0, InFirst
    <3> QED BY <1>1, <1>2, <2>2, <3>1, <3>2 DEF Held
  <2> QED BY <1>2, <2>1, <2>6, <2>8, <2>9 DEF Held
<1> QED BY <1>0, <1>2, <1>7, <1>8, WriterKept

\* A field of a user is written: points from the copy in hand.
LEMMA BillUserKept ==
  ASSUME NEW own, NEW j, Engaged(own, j), KeptInv, Own(j), Head(job[j].todo) \in {"set", "points", "discount"},
         NEW field, NEW value,
         \/ field = "blocked" /\ value \in BOOLEAN
         \/ field = "role" /\ value \in DOMAIN Rank
         \/ field = "discount" /\ value \in Nat
         \/ field = "points" /\ value \in Nat /\ Head(job[j].todo) \in {"set", "points"} /\ job[j].usr \in UserViews,
         NEW h \in {"clearUser", "refillUser"}, BillUser(j, field, value, <<h>>)
  PROVE  KeptInv'
<1>u. PICK u : u = job[j].user
  OBVIOUS
<1> DEFINE t == Tail(job[j].todo)
           p == [person[u] EXCEPT ![field] = value]
           l == <<h>> \o t
<1>0. /\ CopiesInv(own) /\ StoresOK(own) /\ StoresTyped /\ j \in Jobs /\ DOMAIN job = Jobs /\ DOMAIN job[j] = JobFields
      /\ u \in Users /\ t \in Seq(Names) /\ job[j].todo \in Seq(Names) /\ job[j].todo # <<>> /\ DOMAIN person = Users
      /\ person[u] \in UserRecords /\ DOMAIN due = Users /\ DOMAIN due[u] = {"points", "days"} /\ JobOK(own, j)
      /\ None \notin UserViews
  BY <1>u, EngagedFacts, RecordsAssumption DEF CopiesInv, StoresOK, StoresTyped, PersonsTyped, DueTyped
<1>1. /\ subs' = subs /\ person' = [person EXCEPT ![u] = p] /\ Disturb(j, u)
      /\ due' = IF field = "points" THEN [due EXCEPT ![u].points = @ + value - job[j].usr.points] ELSE due
      /\ job' = [job EXCEPT ![j] = [@ EXCEPT !.usr = ViewOf(person'[u]), !.wrote = TRUE, !.todo = <<h>> \o Tail(job[j].todo)]]
  BY <1>u DEF BillUser
<1>2. p.current = person[u].current /\ (field # "points" => p.points = person[u].points) /\ (field = "points" => p.points = value)
  BY <1>0 DEF UserRecords
<1> HIDE DEF p
<1>3. person'[u] = p
  BY <1>0, <1>1
<1>5. job'[j] = [job[j] EXCEPT !.usr = ViewOf(person'[u]), !.wrote = TRUE, !.todo = l]
  BY <1>0, <1>1
<1>6. /\ job'[j].user = u /\ job'[j].usr = ViewOf(person'[u]) /\ job'[j].sub = job[j].sub /\ job'[j].todo = l
  BY <1>u, <1>0, <1>5 DEF JobFields
<1>7. h \in Names /\ h \notin SubUses /\ h \notin {"set", "points"}
  BY TaskNames DEF SubUses
<1>8. Cons(l, h, t)
  BY <1>0, <1>7, ConsMade
<1> HIDE DEF l
<1>9. disturbed \subseteq disturbed' /\ (\A v \in Users : v # u => due'[v] = due[v] /\ person'[v] = person[v])
  BY <1>0, <1>1, Disturbs
<1>10. Wrote(own, j, u)
  BY <1>1, <1>6, <1>9 DEF Wrote
<1>11. ASSUME u \notin disturbed'
       PROVE  /\ person'[u].points = due'[u].points /\ DaysOf(u)' = due'[u].days
              /\ \A k \in Jobs : k # j => ~Holds(k, u)
              /\ Held(job'[j], person'[u].points, Current(u)', subs')
  <2>1. u \notin disturbed /\ \A k \in Jobs : k # j => ~Holds(k, u)
    BY <1>1, <1>11 DEF Disturb
  <2>2. KeptFor(u) /\ Held(job[j], person[u].points, Current(u), subs)
    BY <1>u, <1>0, <2>1 DEF KeptInv, KeptFor
  <2>3. Current(u)' = Current(u)
    BY <1>1, <1>2, <1>3 DEF Current
  <2>4. DaysOf(u)' = DaysOf(u)
    BY <2>3 DEF DaysOf
  <2>5. due'[u].days = due[u].days /\ person'[u].points = due'[u].points
    <3>1. person[u].points = due[u].points /\ person[u].points \in Nat
      BY <1>0, <2>2 DEF KeptFor, UserRecords
    <3>2. CASE field = "points"
      <4>1. due' = [due EXCEPT ![u].points = @ + value - job[j].usr.points] /\ value \in Nat
        BY <1>1, <3>2
      <4>2. due'[u].points = due[u].points + value - job[j].usr.points /\ due'[u].days = due[u].days
        BY <1>0, <4>1
      <4>3. PointsIn(job[j].todo) /\ job[j].usr # None
        BY <1>0, <3>2, InFirst
      <4>4. job[j].usr.points = person[u].points
        BY <2>2, <4>3 DEF Held
      <4>5. due[u].points + value - job[j].usr.points = value
        BY <3>1, <4>1, <4>4
      <4> QED BY <1>2, <1>3, <3>2, <4>2, <4>5
    <3>3. CASE field # "points"
      BY <1>1, <1>2, <1>3, <3>1, <3>3
    <3> QED BY <3>2, <3>3
  <2>6. ViewOf(person'[u]).points = person'[u].points
    BY DEF ViewOf
  <2>7. SubIn(l) => SubIn(job[j].todo)
    BY <1>0, <1>7, <1>8, ConsIn, InFirst
  <2>8. ~CreateOnly(job[j].todo) /\ ~PointUS(job[j].todo)
    BY DEF CreateOnly, PointUS, First
  <2>9. SubIn(l) /\ job[j].sub # None => job[j].sub = Current(u)
    BY <2>2, <2>7, <2>8 DEF Held
  <2>10. KeptFor(u)
    BY <2>2
  <2> QED BY <1>6, <2>1, <2>3, <2>4, <2>5, <2>6, <2>9, <2>10 DEF Held, KeptFor
<1>12. job'[j].user = u /\ CopiesInv(own)
  BY <1>0, <1>6
<1> QED BY <1>0, <1>10, <1>11, <1>12, WriterKept

\* The copy of a subscription that is about to be written is the user's, as billing has it by its identifier.
LEMMA SubOwned ==
  ASSUME NEW own, NEW j, Engaged(own, j), job[j].sub # None,
         Head(job[j].todo) \in {"edit", "confirm", "fetch", "days", "status", "extend", "apply"}
  PROVE  /\ SubT(job[j].sub, accounts) /\ Owned(own, job[j].sub, job[j].user) /\ job[j].sub.id \in DOMAIN subs
         /\ Head(job[j].todo) \in SubUses \ {"create", "point"} /\ DOMAIN job[j].sub = SubFields
<1>1. JobOK(own, j) /\ job[j].todo # <<>> /\ (job[j].sub = None \/ SubT(job[j].sub, accounts))
  BY EngagedFacts
<1>2. SubOK(own, j) \/ Owned(own, job[j].sub, job[j].user)
  <2>1. CASE Head(job[j].todo) \in {"status", "extend", "apply"}
    BY <1>1, <2>1, SpecialHeads
  <2>2. CASE Head(job[j].todo) \in {"edit", "confirm", "fetch", "days"}
    <3>1. Head(job[j].todo) \notin Special \cup {"user", "sub"}
      BY <2>2 DEF Special
    <3> QED BY <1>1, <3>1, PlainHead
  <2> QED BY <2>1, <2>2
<1>3. SubT(job[j].sub, accounts) /\ Owned(own, job[j].sub, job[j].user)
  BY <1>1, <1>2 DEF SubOK
<1>4. Head(job[j].todo) \in SubUses \ {"create", "point"}
  BY DEF SubUses
<1> QED BY <1>3, <1>4 DEF Owned

\* The empty list writes no points.
LEMMA NoPointsEmpty == NoPoints(<<>>)
BY DEF NoPoints

\* An edit changes the field it was asked to change only.
LEMMA EditedRest ==
  ASSUME NEW s, NEW ask, s \in SubRecords, NEW f \in SubFields, f # ask.field
  PROVE  Edited(s, ask)[f] = s[f]
<1>1. DOMAIN s = SubFields
  BY DEF SubRecords, SubFields
<1>2. CASE ask.field \in {"internal_squads", "external_squad"}
  <2>1. Edited(s, ask) = [s EXCEPT ![ask.field] = 1 - @]
    BY <1>2 DEF Edited
  <2> QED BY <1>1, <2>1
<1>3. CASE ask.field = "days"
  <2>1. Edited(s, ask) = [s EXCEPT !.days = @ + ask.to]
    BY <1>3 DEF Edited
  <2> QED BY <1>1, <1>3, <2>1
<1>4. CASE ask.field \in {"traffic_limit", "device_limit"}
  <2>1. Edited(s, ask) = [s EXCEPT ![ask.field] = ask.to]
    BY <1>4 DEF Edited
  <2> QED BY <1>1, <2>1
<1>5. CASE ask.field \notin {"internal_squads", "external_squad", "days", "traffic_limit", "device_limit"}
  <2>1. Edited(s, ask) = s
    BY <1>5 DEF Edited
  <2> QED BY <2>1
<1> QED BY <1>2, <1>3, <1>4, <1>5

\* An administrator's edit.
LEMMA EditKept ==
  ASSUME NEW own, NEW d \in Desks, DeskInv, Engaged(own, d), KeptInv, Own(d), Edit(d)
  PROVE  KeptInv'
<1> DEFINE s == job[d].sub
           new == Edited(s, job[d].ask)
<1>0. /\ job[d].todo # <<>> /\ AskOK(d, job[d].ask) /\ Head(job[d].todo) = "edit" /\ d \in Jobs /\ CopiesInv(own)
  BY EngagedFacts DEF RecordOK, Edit, At
<1>1. Again(d) \in Seq(Smooth)
  BY <1>0, AgainSmooth
<1>2. CASE s = None
  <2>1. Raise(d) /\ UNCHANGED <<person, subs, due>>
    BY <1>2 DEF Edit, stores
  <2> QED BY <1>0, <2>1, RaisedQuiet, QuietlyKept
<1>3. CASE s # None
  <2>1. Decide(d, "edit", Again(d)) \/
        (~(job[d].ask.field = "days" /\ new.days < Today) /\ BillSub(d, new, {job[d].ask.field}, <<>>))
    BY <1>3 DEF Edit
  <2>2. CASE Decide(d, "edit", Again(d))
    BY <1>0, <1>1, <2>2, DecidedQuiet, QuietlyKept
  <2>3. CASE ~(job[d].ask.field = "days" /\ new.days < Today) /\ BillSub(d, new, {job[d].ask.field}, <<>>)
    <3>1. SubT(s, accounts) /\ Owned(own, s, job[d].user) /\ Head(job[d].todo) \in SubUses \ {"create", "point"}
      BY <1>0, <1>3, SubOwned
    <3>2. job[d].ask.field = "days" => s.days + job[d].ask.to >= Today
      <4>1. ASSUME job[d].ask.field = "days" PROVE s.days + job[d].ask.to >= Today
        <5>1. s \in SubRecords /\ s.days \in Nat /\ job[d].ask.to \in Int /\ Today \in Nat
          BY <1>0, <3>1, <4>1, AccountAssumption DEF SubT, SubRecords, AskOK
        <5>2. new = [s EXCEPT !.days = @ + job[d].ask.to]
          BY <4>1 DEF Edited
        <5>3. new.days = s.days + job[d].ask.to
          BY <5>1, <5>2 DEF SubRecords
        <5> QED BY <2>3, <4>1, <5>1, <5>3
      <4> QED BY <4>1
    <3>3. SubT(new, accounts) /\ new.id = s.id
      BY <1>0, <3>1, <3>2, EditedTyped
    <3>4. \A f \in SubFields \ {job[d].ask.field} : new[f] = s[f]
      BY <3>1, EditedRest DEF SubT
    <3> HIDE DEF new
    <3>5. BillSubKeeping(d, new, {job[d].ask.field}, new, <<>>)
      BY <2>3 DEF BillSub
    <3> QED BY <3>1, <3>3, <3>4, <3>5, NoPointsEmpty, BillSubKept
  <2> QED BY <2>1, <2>2, <2>3
<1> QED BY <1>2, <1>3

\* A new status, with whatever follows it.
LEMMA StatusKept ==
  ASSUME NEW own, NEW j, Engaged(own, j), KeptInv, Own(j), job[j].sub # None, Head(job[j].todo) \in {"confirm", "fetch", "status"},
         NEW status \in {"ACTIVE", "DISABLED", "EXPIRED", "DELETED"}, NEW more, NoPoints(more),
         BillSub(j, [job[j].sub EXCEPT !.status = status], {"status"}, more)
  PROVE  KeptInv'
<1> DEFINE s == job[j].sub
           new == [s EXCEPT !.status = status]
<1>1. SubT(s, accounts) /\ Owned(own, s, job[j].user) /\ Head(job[j].todo) \in SubUses \ {"create", "point"} /\ DOMAIN s = SubFields
  BY SubOwned
<1>2. SubT(new, accounts) /\ new.id = s.id
  BY <1>1 DEF SubT, SubRecords
<1>3. \A f \in SubFields \ {"status"} : new[f] = s[f]
  BY <1>1
<1> HIDE DEF new
<1>4. BillSubKeeping(j, new, {"status"}, new, more)
  BY DEF BillSub, new
<1> QED BY <1>1, <1>2, <1>3, <1>4, BillSubKept

\* Writing the status to billing keeps the invariant.
LEMMA BillStatusKept ==
  ASSUME NEW own, NEW d \in Desks, Engaged(own, d), KeptInv, Own(d), BillStatus(d)
  PROVE  KeptInv'
<1>0. job[d].todo # <<>> /\ Head(job[d].todo) = "status" /\ Sound(job[d], accounts)
  BY EngagedFacts DEF BillStatus, At
<1>1. job[d].sub # None
  BY <1>0 DEF Sound, First, Needs
<1>2. Toggled(job[d].sub) \in {"ACTIVE", "DISABLED", "EXPIRED", "DELETED"}
  BY DEF Toggled
<1>3. BillSub(d, [job[d].sub EXCEPT !.status = Toggled(job[d].sub)], {"status"}, <<>>)
  BY DEF BillStatus
<1> QED BY <1>0, <1>1, <1>2, <1>3, NoPointsEmpty, StatusKept

\* A synchronisation that looks at the panel.
LEMMA FetchKept ==
  ASSUME NEW own, NEW d \in Desks, Engaged(own, d), KeptInv, Own(d), Fetch(d)
  PROVE  KeptInv'
<1>0. Head(job[d].todo) = "fetch" /\ d \in Jobs /\ CopiesInv(own)
  BY EngagedFacts DEF Fetch, At
<1>1. CASE account[Target[d]] # None \/ job[d].sub = None
  BY <1>0, <1>1, FetchQuiet, QuietlyKept
<1>2. CASE account[Target[d]] = None /\ job[d].sub # None
  <2>1. BillSub(d, [job[d].sub EXCEPT !.status = "DELETED"], {"status"}, <<"dropActor", "clearActor">>)
    BY <1>2 DEF Fetch
  <2> QED BY <1>0, <1>2, <2>1, PointsNone, StatusKept
<1> QED BY <1>1, <1>2

\* A synchronisation that writes what the panel said.
LEMMA ApplyKept ==
  ASSUME NEW own, NEW d \in Desks, Engaged(own, d), KeptInv, Own(d), Apply(d)
  PROVE  KeptInv'
<1> DEFINE s == job[d].sub
           a == job[d].remna
           new == Synced(s, a)
<1>0. Head(job[d].todo) = "apply" /\ d \in Jobs /\ CopiesInv(own) /\ Sound(job[d], accounts) /\ job[d].todo # <<>>
      /\ job[d].todo \in Seq(Names)
  BY EngagedFacts DEF Apply, At
<1>1. CASE s = None
  BY <1>1, ImportKept
<1>2. CASE s # None
  <2>1. SubT(s, accounts) /\ Owned(own, s, job[d].user) /\ Head(job[d].todo) \in SubUses \ {"create", "point"} /\ DOMAIN s = SubFields
    BY <1>0, <1>2, SubOwned
  <2>2. AccT(a, accounts)
    <3>1. ApplyDue(job[d].todo)
      BY <1>0, AheadFirst
    <3> QED BY <1>0, <3>1 DEF Sound
  <2>3. SubT(new, accounts) /\ new.id = s.id
    BY <2>1, <2>2, SyncedTyped
  <2>4. BillSub(d, new, Differing(s, new), <<>>)
    BY <1>2 DEF Apply
  <2> HIDE DEF new
  <2>5. \A f \in SubFields \ Differing(s, new) : new[f] = s[f]
    BY <2>1 DEF Differing
  <2>6. BillSubKeeping(d, new, Differing(s, new), new, <<>>)
    BY <2>4 DEF BillSub
  <2> QED BY <2>1, <2>3, <2>5, <2>6, NoPointsEmpty, BillSubKept
<1> QED BY <1>1, <1>2

\* A deletion that is armed, or confirmed.
LEMMA ConfirmKept ==
  ASSUME NEW own, NEW d \in Desks, DeskInv, Engaged(own, d), KeptInv, Own(d), ConfirmDelete(d)
  PROVE  KeptInv'
<1>0. job[d].todo # <<>> /\ Head(job[d].todo) = "confirm" /\ d \in Jobs /\ CopiesInv(own)
  BY EngagedFacts DEF ConfirmDelete, At
<1>1. CASE Raise(d) /\ UNCHANGED <<stores, caches, due, faults, desk>>
  BY <1>0, <1>1, RaisedQuiet, QuietlyKept DEF stores
<1>2. CASE Arm(d, "delete")
  <2>1. job' = [job EXCEPT ![d].todo = Again(d)] /\ UNCHANGED <<person, subs, due, disturbed>>
    BY <1>2 DEF Arm, stores, history
  <2>2. Again(d) \in Seq(Smooth)
    BY <1>0, AgainSmooth
  <2>3. Spared /\ disturbed \subseteq disturbed'
    BY <2>1, Alike
  <2> QED BY <1>0, <2>1, <2>2, <2>3, DecideQuiet, QuietlyKept
<1>3. CASE /\ job[d].sub # None
           /\ BillSub(d, [job[d].sub EXCEPT !.status = "DELETED"], {"status"}, Deletion \o Render("MAIN"))
  <2>1. NoPoints(Deletion)
    <3>1. "drop" \in Names /\ "clearUser" \in Names /\ "remove" \in Names
      BY DEF Names, Special, Ordinary
    <3> QED BY <3>1 DEF Deletion, NoPoints
  <2>2. NoPoints(Render("MAIN"))
    <3>1. Render("MAIN") \in Seq(Smooth)
      BY <1>0, AgainSmooth
    <3> QED BY <3>1, SmoothDull, PointsDull
  <2>3. NoPoints(Deletion \o Render("MAIN"))
    BY <2>1, <2>2, PointsJoin
  <2> QED BY <1>0, <1>3, <2>3, StatusKept
<1> QED BY <1>1, <1>2, <1>3 DEF ConfirmDelete

\* A job that goes on with its list takes nothing new in hand.
LEMMA GoneHand ==
  ASSUME NEW r, DOMAIN r = JobFields, r.todo \in Seq(Names), r.todo # <<>>, NEW q, q = Goes(r, <<>>)
  PROVE  /\ q.user \in {r.user, None} /\ q.usr \in {r.usr, None} /\ q.sub \in {r.sub, None}
         /\ PointsIn(q.todo) => PointsIn(r.todo)
         /\ SubIn(q.todo) => SubIn(Tail(r.todo))
<1>1. Tail(r.todo) \in Seq(Names) /\ <<>> \o Tail(r.todo) = Tail(r.todo)
  BY RestFacts, JoinFacts
<1>2. q = IF Tail(r.todo) = <<>> THEN IdleJob ELSE [r EXCEPT !.todo = Tail(r.todo)]
  BY <1>1 DEF Goes
<1>3. CASE Tail(r.todo) = <<>>
  <2>1. q.user = None /\ q.usr = None /\ q.sub = None /\ q.todo = <<>>
    BY <1>2, <1>3 DEF IdleJob
  <2> QED BY <1>3, <2>1, InFirst
<1>4. CASE Tail(r.todo) # <<>>
  <2>1. q.user = r.user /\ q.usr = r.usr /\ q.sub = r.sub /\ q.todo = Tail(r.todo)
    BY <1>2, <1>4 DEF JobFields
  <2> QED BY <2>1, InFirst
<1> QED BY <1>3, <1>4

\* After the pointer is removed a handler uses no subscription any more.
LEMMA DropRest ==
  ASSUME NEW own, NEW j, Engaged(own, j), Head(job[j].todo) = "drop"
  PROVE  ~SubIn(Tail(job[j].todo))
<1> DEFINE s == job[j].todo
           t == Tail(s)
           r == Tail(t)
<1>0. JobOK(own, j) /\ s # <<>> /\ s \in Seq(Names) /\ Sound(job[j], accounts)
  BY EngagedFacts
<1>1. t # <<>> /\ t \in Seq(Names) /\ Head(t) = "clearUser" /\ Plain(r) /\ r \in Seq(Names)
  <2>1. DropU(s)
    BY <1>0, SpecialHeads
  <2>2. t # <<>> /\ Head(t) = "clearUser" /\ Plain(r)
    BY <2>1 DEF DropU, ClearU, First
  <2> QED BY <1>0, <2>2, RestFacts
<1>2. DropAhead(s) /\ RemoveNext(s) /\ After(s, Closing, Uses)
  <2>1. DropAhead(s)
    BY <1>0, AheadFirst
  <2> HIDE DEF t, r
  <2> QED BY <1>0, <2>1 DEF Sound
<1> HIDE DEF r
<1>3. RemoveNext(t) /\ After(t, Closing, Uses)
  BY <1>0, <1>2, AheadFirst
<1> HIDE DEF t
<1>4. RemoveNext(Tail(t)) /\ After(Tail(t), Closing, Uses)
  BY <1>1, <1>3, AheadFirst
<1>5. RemoveNext(r) /\ After(r, Closing, Uses)
  BY <1>4 DEF r
<1>6. r # <<>>
  BY <1>5 DEF RemoveNext, Reaches
<1>7. Head(r) \notin Special /\ Plain(Tail(r)) /\ Tail(r) \in Seq(Names)
  BY <1>1, <1>6, RestFacts
<1>8. Head(r) = "remove"
  <2>1. Head(r) \notin Removing
    BY <1>7 DEF Special, Removing
  <2> QED BY <1>1, <1>5, <1>6, <2>1, AheadFirst
<1>9. Dull(Tail(r))
  <2>1. "remove" \in Closing
    BY DEF Closing
  <2> QED BY <1>1, <1>5, <1>6, <1>7, <1>8, <2>1, ClosingDull
<1>10. ~SubIn(r)
  <2>1. "remove" \notin SubUses
    BY DEF SubUses
  <2> QED BY <1>1, <1>6, <1>7, <1>8, <1>9, <2>1, DullIn, InFirst
<1>11. ~SubIn(t)
  <2>1. "clearUser" \notin SubUses /\ ~SubIn(Tail(t))
    BY <1>10 DEF SubUses, r
  <2> QED BY <1>1, <2>1, InFirst
<1> QED BY <1>11 DEF t

\* The pointer to the current subscription is removed.
LEMMA DropKept ==
  ASSUME NEW own, NEW d \in Desks, Engaged(own, d), KeptInv, Own(d), Drop(d)
  PROVE  KeptInv'
<1>u. PICK u : u = Target[d]
  OBVIOUS
<1> DEFINE r == [job[d] EXCEPT !.wrote = TRUE]
           q == Goes(r, <<>>)
           p == [person[u] EXCEPT !.current = None]
<1>0. /\ CopiesInv(own) /\ StoresOK(own) /\ StoresTyped /\ d \in Jobs /\ DOMAIN job = Jobs /\ DOMAIN job[d] = JobFields
      /\ u \in Users /\ job[d].todo \in Seq(Names) /\ job[d].todo # <<>> /\ DOMAIN person = Users /\ JobOK(own, d)
      /\ person[u] \in UserRecords /\ DOMAIN due = Users /\ DOMAIN due[u] = {"points", "days"} /\ job[d].user = u
      /\ Head(job[d].todo) = "drop"
  BY <1>u, EngagedFacts DEF CopiesInv, StoresOK, StoresTyped, PersonsTyped, DueTyped, Drop, Unset, At
<1>1. /\ subs' = subs /\ person' = [person EXCEPT ![u].current = None] /\ due' = [due EXCEPT ![u].days = 0]
      /\ job' = [job EXCEPT ![d] = Goes([@ EXCEPT !.wrote = TRUE], <<>>)]
      /\ disturbed' = IF subCache[u].cached \/ \E k \in Jobs \ {d} : Holds(k, u) THEN disturbed \cup {u} ELSE disturbed
  BY <1>u DEF Drop, Unset
<1>2. DOMAIN r = JobFields /\ r.todo = job[d].todo /\ r.user = u /\ r.usr = job[d].usr /\ r.sub = job[d].sub
  BY <1>0 DEF JobFields
<1>3. job'[d] = q
  BY <1>0, <1>1
<1> HIDE DEF r, q
<1>4. /\ q.user \in {u, None} /\ q.usr \in {job[d].usr, None} /\ (PointsIn(q.todo) => PointsIn(job[d].todo)) /\ ~SubIn(q.todo)
  <2>1. q = Goes(r, <<>>)
    BY DEF q
  <2>2. /\ q.user \in {u, None} /\ q.usr \in {job[d].usr, None} /\ (PointsIn(q.todo) => PointsIn(job[d].todo))
        /\ (SubIn(q.todo) => SubIn(Tail(job[d].todo)))
    BY <1>0, <1>2, <2>1, GoneHand
  <2>3. ~SubIn(Tail(job[d].todo))
    BY <1>0, DropRest
  <2> QED BY <2>2, <2>3
<1>5. p.current = None /\ p.points = person[u].points /\ person'[u] = p
  BY <1>0, <1>1 DEF UserRecords
<1>6. due'[u].days = 0 /\ due'[u].points = due[u].points
  BY <1>0, <1>1
<1>7. Wrote(own, d, u)
  BY <1>0, <1>1, <1>3, <1>4 DEF Wrote
<1> HIDE DEF p
<1>8. ASSUME u \notin disturbed'
      PROVE  /\ person'[u].points = due'[u].points /\ DaysOf(u)' = due'[u].days
             /\ \A k \in Jobs : k # d => ~Holds(k, u)
             /\ Held(q, person'[u].points, Current(u)', subs')
  <2>1. u \notin disturbed /\ \A k \in Jobs : k # d => ~Holds(k, u)
    BY <1>1, <1>8
  <2>2. KeptFor(u) /\ Held(job[d], person[u].points, Current(u), subs)
    BY <1>0, <2>1 DEF KeptInv, KeptFor
  <2>3. DaysOf(u)' = 0
    BY <1>5 DEF DaysOf, Current
  <2>4. person[u].points = due[u].points
    BY <2>2 DEF KeptFor
  <2>5. PointsIn(q.todo) /\ q.usr # None => q.usr.points = person'[u].points
    BY <1>4, <1>5, <2>2 DEF Held
  <2> QED BY <1>4, <1>5, <1>6, <2>1, <2>3, <2>4, <2>5 DEF Held
<1> QED BY <1>0, <1>3, <1>7, <1>8, WriterKept

\* A subscription that was created is pointed to.
LEMMA PointToKept ==
  ASSUME NEW own, NEW d \in Desks, Engaged(own, d), KeptInv, Own(d), PointTo(d)
  PROVE  KeptInv'
<1>u. PICK u : u = Target[d]
  OBVIOUS
<1> DEFINE s == job[d].sub
           q == Goes(job[d], <<>>)
           p == [person[u] EXCEPT !.current = s.id]
<1>0. /\ CopiesInv(own) /\ StoresOK(own) /\ StoresTyped /\ d \in Jobs /\ DOMAIN job = Jobs /\ DOMAIN job[d] = JobFields
      /\ u \in Users /\ job[d].todo \in Seq(Names) /\ job[d].todo # <<>> /\ DOMAIN person = Users /\ JobOK(own, d)
      /\ person[u] \in UserRecords /\ DOMAIN due = Users /\ DOMAIN due[u] = {"points", "days"} /\ job[d].user = u
      /\ Head(job[d].todo) = "point" /\ None \notin SubRecords /\ (s = None \/ SubT(s, accounts)) /\ Sound(job[d], accounts)
  BY <1>u, EngagedFacts DEF CopiesInv, StoresOK, StoresTyped, PersonsTyped, DueTyped, PointTo, At
<1>1. /\ subs' = subs /\ person' = [person EXCEPT ![u].current = s.id] /\ due' = [due EXCEPT ![u].days = s.days]
      /\ Continue(d) /\ Disturb(d, u)
  BY <1>u DEF PointTo
<1>2. job'[d] = q
  BY <1>0, <1>1 DEF Continue
<1> HIDE DEF q
<1>3. q.user \in {u, None} /\ q.usr \in {job[d].usr, None} /\ q.sub \in {s, None} /\ (PointsIn(q.todo) => PointsIn(job[d].todo))
  <2>1. q = Goes(job[d], <<>>)
    BY DEF q
  <2> QED BY <1>0, <2>1, GoneHand
<1>4. s # None /\ s.id \in DOMAIN subs /\ s.id # None /\ SubIn(job[d].todo)
  <2>1. s # None
    BY <1>0 DEF Sound, First, Needs
  <2>2. s.id \in DOMAIN subs
    BY <1>0, SpecialHeads DEF Owned
  <2>3. s.id # None
    BY <1>0, <2>2, AccountAssumption DEF StoresOK
  <2>4. "point" \in SubUses
    BY DEF SubUses
  <2> QED BY <1>0, <2>1, <2>2, <2>3, <2>4, InFirst
<1>5. p.current = s.id /\ p.points = person[u].points /\ person'[u] = p
  BY <1>0, <1>1 DEF UserRecords
<1>6. due'[u].days = s.days /\ due'[u].points = due[u].points
  BY <1>0, <1>1
<1>7. disturbed \subseteq disturbed'
  BY <1>1, Disturbs
<1>8. Wrote(own, d, u)
  BY <1>0, <1>1, <1>2, <1>3, <1>7 DEF Wrote
<1> HIDE DEF p
<1>9. ASSUME u \notin disturbed'
      PROVE  /\ person'[u].points = due'[u].points /\ DaysOf(u)' = due'[u].days
             /\ \A k \in Jobs : k # d => ~Holds(k, u)
             /\ Held(q, person'[u].points, Current(u)', subs')
  <2>1. u \notin disturbed /\ \A k \in Jobs : k # d => ~Holds(k, u)
    BY <1>1, <1>9 DEF Disturb
  <2>2. KeptFor(u) /\ Held(job[d], person[u].points, Current(u), subs)
    BY <1>0, <2>1 DEF KeptInv, KeptFor
  <2>3. s = subs[s.id]
    <3>1. ~CreateOnly(job[d].todo)
      BY <1>0 DEF CreateOnly, First
    <3>2. s = Current(u) \/ s = subs[s.id]
      BY <1>4, <2>2, <3>1 DEF Held
    <3>3. ASSUME s = Current(u) PROVE s = subs[s.id]
      <4>1. person[u].current # None /\ s = subs[person[u].current]
        BY <1>4, <3>3 DEF Current
      <4>2. subs[person[u].current].id = person[u].current
        BY <1>0, <4>1 DEF StoresOK
      <4> QED BY <4>1, <4>2
    <3> QED BY <3>2, <3>3
  <2>4. Current(u)' = s
    BY <1>1, <1>4, <1>5, <2>3 DEF Current
  <2>5. DaysOf(u)' = s.days
    BY <1>4, <2>4 DEF DaysOf
  <2>6. person[u].points = due[u].points
    BY <2>2 DEF KeptFor
  <2>7. PointsIn(q.todo) /\ q.usr # None => q.usr.points = person'[u].points
    BY <1>3, <1>5, <2>2 DEF Held
  <2>8. q.sub # None => q.sub = Current(u)'
    BY <1>3, <2>4
  <2> QED BY <1>5, <1>6, <2>1, <2>5, <2>6, <2>7, <2>8 DEF Held
<1> QED BY <1>0, <1>2, <1>8, <1>9, WriterKept

\* What a run or a task writes over the days of a subscription.
LEMMA ExtendFacts ==
  ASSUME NEW own, NEW j, Engaged(own, j), j \in Runs, Extend(j), job[j].sub.days < job[j].ask.to
  PROVE  LET s == job[j].sub
             new == [s EXCEPT !.days = job[j].ask.to] IN
         /\ SubT(s, accounts) /\ Owned(own, s, job[j].user) /\ Head(job[j].todo) \in SubUses \ {"create", "point"}
         /\ SubT(new, accounts) /\ new.id = s.id /\ new.days >= s.days
         /\ \A f \in SubFields \ {"days"} : new[f] = s[f]
         /\ BillSubKeeping(j, new, {"days"}, Billed(new, {"days"})[new.id], <<>>)
<1> DEFINE s == job[j].sub
           new == [s EXCEPT !.days = job[j].ask.to]
<1>0. /\ RecordOK(j, job[j], accounts) /\ Sound(job[j], accounts) /\ job[j].todo # <<>> /\ Head(job[j].todo) = "extend"
  BY EngagedFacts DEF Extend, At
<1>1. s # None
  BY <1>0 DEF Sound, First, Needs
<1>2. SubT(s, accounts) /\ Owned(own, s, job[j].user) /\ Head(job[j].todo) \in SubUses \ {"create", "point"} /\ DOMAIN s = SubFields
  BY <1>0, <1>1, SubOwned
<1>3. job[j].ask.to \in Nat
  BY <1>0 DEF RecordOK, AskOK
<1>4. SubT(new, accounts) /\ new.id = s.id
  BY <1>2, <1>3, DaysTyped
<1>5. new.days = job[j].ask.to /\ \A f \in SubFields \ {"days"} : new[f] = s[f]
  BY <1>2 DEF SubFields
<1>6. new.days >= s.days
  <2>1. s.days \in Nat
    BY <1>2 DEF SubT, SubRecords
  <2> QED BY <1>3, <1>5, <2>1
<1>7. BillSubKeeping(j, new, {"days"}, Billed(new, {"days"})[s.id], <<>>)
  BY DEF Extend
<1> HIDE DEF new
<1>8. BillSubKeeping(j, new, {"days"}, Billed(new, {"days"})[new.id], <<>>)
  BY <1>4, <1>7
<1> QED BY <1>2, <1>4, <1>5, <1>6, <1>8 DEF new

\* What a referral task that gives days writes: a later day.
LEMMA DaysFacts ==
  ASSUME NEW own, NEW j, Engaged(own, j), GiveDays(j), job[j].ask.to \in Rewards,
         ~(job[j].sub = None \/ (job[j].sub # None /\ job[j].sub.trial))
  PROVE  LET s == job[j].sub
             new == Later(s, job[j].ask.to) IN
         /\ SubT(s, accounts) /\ Owned(own, s, job[j].user) /\ Head(job[j].todo) \in SubUses \ {"create", "point"}
         /\ SubT(new, accounts) /\ new.id = s.id /\ new.days >= s.days
         /\ \A f \in SubFields \ {"days"} : new[f] = s[f]
         /\ BillSubKeeping(j, new, {"days"}, new, <<>>)
<1> DEFINE s == job[j].sub
           more == Amount[job[j].ask.to]
           new == Later(s, job[j].ask.to)
<1>0. /\ job[j].todo # <<>> /\ Head(job[j].todo) = "days"
  BY EngagedFacts DEF GiveDays, At
<1>1. s # None
  OBVIOUS
<1>2. SubT(s, accounts) /\ Owned(own, s, job[j].user) /\ Head(job[j].todo) \in SubUses \ {"create", "point"} /\ DOMAIN s = SubFields
  BY <1>0, <1>1, SubOwned
<1>3. s.days \in Nat /\ Today \in Nat /\ more \in Nat
  BY <1>2, AccountAssumption, GrantAssumption DEF SubT, SubRecords
<1>4. s.days \in Int /\ Today \in Int
  BY <1>3
<1>5. Max({s.days, Today}) \in {s.days, Today} /\ Max({s.days, Today}) >= s.days
  BY <1>4, MaxDay
<1>6. Max({s.days, Today}) + more \in Nat /\ Max({s.days, Today}) + more >= s.days
  <2> DEFINE m == Max({s.days, Today})
  <2>1. m \in Nat /\ m >= s.days
    BY <1>3, <1>5
  <2> HIDE DEF m, more
  <2>2. m + more \in Nat /\ m + more >= s.days
    BY <1>3, <2>1
  <2> QED BY <2>2 DEF m
<1>7. new = [s EXCEPT !.days = Max({s.days, Today}) + more]
  BY DEF Later
<1>8. SubT(new, accounts) /\ new.id = s.id
  BY <1>2, <1>6, <1>7, DaysTyped
<1>9. new.days >= s.days /\ \A f \in SubFields \ {"days"} : new[f] = s[f]
  BY <1>2, <1>6, <1>7 DEF SubFields
<1>10. BillSubKeeping(j, new, {"days"}, new, <<>>)
  BY DEF GiveDays, BillSub
<1> HIDE DEF new
<1> QED BY <1>2, <1>8, <1>9, <1>10 DEF new

\* A run or a task that gives days.
LEMMA GivenDaysKept ==
  ASSUME NEW own, NEW j, Engaged(own, j), KeptInv, Own(j), (Extend(j) /\ j \in Runs) \/ (GiveDays(j) /\ job[j].ask.to \in Rewards)
  PROVE  KeptInv'
<1>0. j \in Jobs /\ CopiesInv(own)
  BY EngagedFacts
<1>1. CASE Extend(j) /\ ~(job[j].sub.days < job[j].ask.to)
  BY <1>0, <1>1, SkipQuiet, QuietlyKept
<1>2. CASE GiveDays(j) /\ (job[j].sub = None \/ (job[j].sub # None /\ job[j].sub.trial))
  BY <1>0, <1>2, SkipQuiet, QuietlyKept
<1>3. CASE Extend(j) /\ j \in Runs /\ job[j].sub.days < job[j].ask.to
  <2> DEFINE new == [job[j].sub EXCEPT !.days = job[j].ask.to]
  <2>1. /\ SubT(job[j].sub, accounts) /\ Owned(own, job[j].sub, job[j].user) /\ Head(job[j].todo) \in SubUses \ {"create", "point"}
        /\ SubT(new, accounts) /\ new.id = job[j].sub.id
        /\ \A f \in SubFields \ {"days"} : new[f] = job[j].sub[f]
        /\ BillSubKeeping(j, new, {"days"}, Billed(new, {"days"})[new.id], <<>>)
    BY <1>3, ExtendFacts
  <2> HIDE DEF new
  <2> QED BY <2>1, NoPointsEmpty, BillSubKept
<1>4. CASE GiveDays(j) /\ job[j].ask.to \in Rewards /\ ~(job[j].sub = None \/ (job[j].sub # None /\ job[j].sub.trial))
  <2> DEFINE new == Later(job[j].sub, job[j].ask.to)
  <2>1. /\ SubT(job[j].sub, accounts) /\ Owned(own, job[j].sub, job[j].user) /\ Head(job[j].todo) \in SubUses \ {"create", "point"}
        /\ SubT(new, accounts) /\ new.id = job[j].sub.id
        /\ \A f \in SubFields \ {"days"} : new[f] = job[j].sub[f]
        /\ BillSubKeeping(j, new, {"days"}, new, <<>>)
    BY <1>4, DaysFacts
  <2> HIDE DEF new
  <2> QED BY <2>1, NoPointsEmpty, BillSubKept
<1> QED BY <1>1, <1>2, <1>3, <1>4

\* An administrator sets a field of the user.
LEMMA SetUserKept ==
  ASSUME NEW own, NEW d \in Desks, DeskInv, Engaged(own, d), KeptInv, Own(d), SetUser(d)
  PROVE  KeptInv'
<1> DEFINE usr == job[d].usr
           ask == job[d].ask
<1>0. /\ job[d].todo # <<>> /\ job[d].todo \in Seq(Names) /\ Sound(job[d], accounts) /\ AskOK(d, ask)
      /\ Head(job[d].todo) = "set" /\ d \in Jobs /\ CopiesInv(own)
  BY EngagedFacts DEF RecordOK, SetUser, At
<1>1. usr \in UserViews
  <2>1. UserNext(job[d].todo)
    BY <1>0, AheadFirst DEF UserUses
  <2> QED BY <1>0, <2>1 DEF Sound
<1>2. /\ usr.points \in Nat /\ usr.blocked \in BOOLEAN
      /\ ask.field = "role" => ask.to \in DOMAIN Rank
      /\ ask.field = "discount" => ask.to \in Nat
      /\ ask.field = "points" => ask.to \in Int
  BY <1>0, <1>1 DEF UserViews, AskOK
<1>3. Again(d) \in Seq(Smooth)
  BY <1>0, AgainSmooth
<1>4. \/ BillUser(d, "blocked", ~usr.blocked, <<"clearUser">>)
      \/ ask.field = "role" /\ BillUser(d, "role", ask.to, <<"clearUser">>)
      \/ ask.field = "discount" /\ BillUser(d, "discount", ask.to, <<"refillUser">>)
      \/ ask.field = "points" /\ usr.points + ask.to >= 0 /\ BillUser(d, "points", usr.points + ask.to, <<"refillUser">>)
      \/ Decide(d, "set", Again(d))
  BY DEF SetUser
<1>5. CASE BillUser(d, "blocked", ~usr.blocked, <<"clearUser">>)
  <2>1. (~usr.blocked) \in BOOLEAN
    BY <1>2
  <2> QED BY <1>0, <1>5, <2>1, BillUserKept
<1>6. CASE ask.field = "role" /\ BillUser(d, "role", ask.to, <<"clearUser">>)
  BY <1>0, <1>2, <1>6, BillUserKept
<1>7. CASE ask.field = "discount" /\ BillUser(d, "discount", ask.to, <<"refillUser">>)
  BY <1>0, <1>2, <1>7, BillUserKept
<1>8. CASE ask.field = "points" /\ usr.points + ask.to >= 0 /\ BillUser(d, "points", usr.points + ask.to, <<"refillUser">>)
  <2>1. usr.points + ask.to \in Nat
    BY <1>2, <1>8
  <2> QED BY <1>0, <1>1, <1>8, <2>1, BillUserKept
<1>9. CASE Decide(d, "set", Again(d))
  BY <1>0, <1>3, <1>9, DecidedQuiet, QuietlyKept
<1> QED BY <1>4, <1>5, <1>6, <1>7, <1>8, <1>9

\* A discount or points are given.
LEMMA GiftKept ==
  ASSUME NEW own, NEW j, Engaged(own, j), KeptInv, Own(j), GiveDiscount(j) \/ (GivePoints(j) /\ job[j].ask.to \in Rewards)
  PROVE  KeptInv'
<1>0. /\ Sound(job[j], accounts) /\ job[j].todo # <<>> /\ job[j].todo \in Seq(Names) /\ j \in Jobs /\ CopiesInv(own)
  BY EngagedFacts
<1>1. CASE GiveDiscount(j) /\ ~(job[j].usr.discount < LoyaltyDiscount)
  BY <1>0, <1>1, SkipQuiet, QuietlyKept
<1>2. CASE GiveDiscount(j) /\ job[j].usr.discount < LoyaltyDiscount
  <2>1. Head(job[j].todo) = "discount" /\ BillUser(j, "discount", LoyaltyDiscount, <<"refillUser">>)
    BY <1>2 DEF GiveDiscount, At
  <2> QED BY <2>1, GrantAssumption, BillUserKept
<1>3. CASE GivePoints(j) /\ job[j].ask.to \in Rewards
  <2>1. Head(job[j].todo) = "points"
    BY <1>3 DEF GivePoints, At
  <2>2. job[j].usr \in UserViews
    <3>1. UserNext(job[j].todo)
      BY <1>0, <2>1, AheadFirst DEF UserUses
    <3> QED BY <1>0, <3>1 DEF Sound
  <2>3. job[j].usr.points + Amount[job[j].ask.to] \in Nat
    BY <1>3, <2>2, GrantAssumption DEF UserViews
  <2>4. BillUser(j, "points", job[j].usr.points + Amount[job[j].ask.to], <<"clearUser">>)
    BY <1>3 DEF GivePoints
  <2> QED BY <2>1, <2>2, <2>3, <2>4, BillUserKept
<1> QED BY <1>1, <1>2, <1>3

-----------------------------------------------------------------------------
(* Every step of the accounts                                              *)

\* Every await of a handler.
LEMMA DeskStepKept ==
  ASSUME NEW own, NEW d \in Desks, DeskInv, Engaged(own, d), KeptInv, Own(d), DeskStep(d)
  PROVE  KeptInv'
<1>0. CopiesInv(own) /\ d \in Jobs
  BY EngagedFacts
<1>1. CASE AwaitStep(d) \/ Fault(d)
  BY <1>1, AwaitKept
<1>2. CASE Show(d) \/ Menu(d) \/ GrantAccess(d) \/ ClearActor(d)
  BY <1>0, <1>2, ShowQuiet, QuietlyKept
<1>3. CASE WhetherSub(d) \/ Matching(d) \/ OfferPlans(d) \/ OfferAccess(d) \/ Reset(d) \/ Devices(d) \/ Send(d)
  BY <1>0, <1>3, DecidersQuiet, QuietlyKept
<1>4. CASE Toggle(d) \/ Remove(d) \/ Unlink(d)
  BY <1>0, <1>4, PanelQuiet, QuietlyKept
<1>5. CASE DropActor(d) \/ Compare(d) \/ Restore(d) \/ ReadPlan(d)
  BY <1>0, <1>5, DropActorQuiet, CompareQuiet, RestoreQuiet, ReadPlanQuiet, QuietlyKept
<1>6. CASE SetUser(d) \/ Edit(d) \/ BillStatus(d) \/ ConfirmDelete(d)
  BY <1>6, SetUserKept, EditKept, BillStatusKept, ConfirmKept
<1>7. CASE Fetch(d) \/ Apply(d) \/ Drop(d) \/ PointTo(d)
  BY <1>7, FetchKept, ApplyKept, DropKept, PointToKept
<1>8. CASE Provision(d) \/ CreateSub(d)
  BY <1>8, ProvisionKept, CreateSubKept
<1> QED BY <1>1, <1>2, <1>3, <1>4, <1>5, <1>6, <1>7, <1>8 DEF DeskStep

\* Every step of a handler keeps the invariant.
LEMMA DeskNextKept ==
  ASSUME NEW own, NEW d \in Desks, DeskInv, Standing(own, d), KeptInv, Own(d), DeskNext(d)
  PROVE  KeptInv'
<1>1. CASE DeskStep(d)
  <2>1. job[d].todo # <<>>
    BY <1>1, DeskBusy
  <2>2. Engaged(own, d)
    BY <2>1, JobAssumption DEF Standing, Engaged
  <2> QED BY <1>1, <2>2, DeskStepKept
<1> QED BY <1>1, ClickKept, DeskEditKept DEF DeskNext

\* What a step of a run, a task or a flush can be.
LEMMA TaskSteps ==
  ASSUME NEW own, AccountsInv, NEW j \in Jobs \ Desks, Standing(own, j), GrantsNext(j)
  PROVE  \/ (\E u : BeginGrant(j, u)) \/ BeginGive(j) \/ BeginFlush(j)
         \/ /\ Engaged(own, j)
            /\ \/ AwaitStep(j) \/ Fault(j) \/ Crash(j)
               \/ ReadState(j) \/ Eligible(j) \/ TakeLock(j) \/ Aim(j) \/ Mark(j) \/ Done(j) \/ Unlock(j)
               \/ Issue(j) \/ ListPending(j) \/ Flush(j) \/ GiveDiscount(j)
               \/ (Extend(j) /\ j \in Runs)
               \/ (GiveDays(j) /\ job[j].ask.to \in Rewards)
               \/ (GivePoints(j) /\ job[j].ask.to \in Rewards)
<1>1. CASE job[j].todo = <<>>
  <2>1. Idle(j) /\ ~AwaitStep(j)
    BY <1>1, AwaitBusy DEF Idle
  <2> QED BY <2>1 DEF GrantsNext, GrantStep, Interruptible, Fault, Crash, ReadState, Eligible, TakeLock, Aim, Extend, Mark,
         Done, SetState, GiveDiscount, Unlock, GivePoints, GiveDays, Issue, ListPending, Flush, At
<1>2. CASE job[j].todo # <<>>
  <2>1. Engaged(own, j)
    BY <1>2 DEF Standing, Engaged, AccountsInv, TasksOK
  <2>2. LET h == Head(job[j].todo) IN
         /\ h = "extend" => j \in Runs
         /\ h \in {"points", "days", "issue"} => job[j].ask.to \in Rewards
    BY <1>2, KindsOfTask
  <2>3. Extend(j) => Head(job[j].todo) = "extend"
    BY DEF Extend, At
  <2>4. GiveDays(j) => Head(job[j].todo) = "days"
    BY DEF GiveDays, At
  <2>5. GivePoints(j) => Head(job[j].todo) = "points"
    BY DEF GivePoints, At
  <2>6. Interruptible(j) => AwaitStep(j) \/ Fault(j)
    BY DEF Interruptible
  <2>7. \/ (\E u : BeginGrant(j, u)) \/ BeginGive(j) \/ BeginFlush(j)
        \/ Interruptible(j) \/ Crash(j)
        \/ ReadState(j) \/ Eligible(j) \/ TakeLock(j) \/ Aim(j) \/ Mark(j) \/ Done(j) \/ Unlock(j)
        \/ Issue(j) \/ ListPending(j) \/ Flush(j) \/ Extend(j) \/ GiveDays(j) \/ GiveDiscount(j) \/ GivePoints(j)
    BY Zenon DEF GrantsNext, GrantStep
  <2>8. (Extend(j) => j \in Runs) /\ (GiveDays(j) \/ GivePoints(j) => job[j].ask.to \in Rewards)
    BY <2>2, <2>3, <2>4, <2>5
  <2>9. CASE (\E u : BeginGrant(j, u)) \/ BeginGive(j) \/ BeginFlush(j)
    BY Zenon, <2>9
  <2>10. CASE Interruptible(j) \/ Crash(j)
    BY Zenon, <2>1, <2>6, <2>10
  <2>11. CASE Extend(j) \/ GiveDays(j) \/ GivePoints(j)
    BY Zenon, <2>1, <2>8, <2>11
  <2>12. CASE \/ ReadState(j) \/ Eligible(j) \/ TakeLock(j) \/ Aim(j) \/ Mark(j) \/ Done(j) \/ Unlock(j)
              \/ Issue(j) \/ ListPending(j) \/ Flush(j) \/ GiveDiscount(j)
    BY Zenon, <2>1, <2>12
  <2> QED BY Zenon, <2>7, <2>9, <2>10, <2>11, <2>12
<1> QED BY <1>1, <1>2

\* Every step of a run, a task or a flush keeps the invariant.
LEMMA GrantsKept ==
  ASSUME NEW own, AccountsInv, NEW j \in Jobs \ Desks, Standing(own, j), KeptInv, Own(j), GrantsNext(j)
  PROVE  KeptInv'
<1>0. CopiesInv(own) /\ j \in Jobs
  BY DEF Standing
<1>1. CASE (\E u : BeginGrant(j, u)) \/ BeginGive(j) \/ BeginFlush(j)
  BY <1>1, TaskBegunKept
<1>2. CASE Engaged(own, j) /\ (AwaitStep(j) \/ Fault(j))
  BY <1>2, AwaitKept
<1>3. CASE Engaged(own, j) /\ (Crash(j) \/ ReadState(j) \/ TakeLock(j) \/ Aim(j))
  BY <1>0, <1>3, SkipQuiet, ReadStateQuiet, TakeLockQuiet, AimQuiet, QuietlyKept
<1>4. CASE Engaged(own, j) /\ (Eligible(j) \/ Mark(j) \/ Done(j) \/ Unlock(j) \/ Issue(j))
  BY <1>0, <1>4, PassQuiet, QuietlyKept
<1>5. CASE Engaged(own, j) /\ (ListPending(j) \/ Flush(j))
  BY <1>0, <1>5, ListingQuiet, QuietlyKept
<1>6. CASE Engaged(own, j) /\ ((Extend(j) /\ j \in Runs) \/ (GiveDays(j) /\ job[j].ask.to \in Rewards))
  BY <1>6, GivenDaysKept
<1>7. CASE Engaged(own, j) /\ (GiveDiscount(j) \/ (GivePoints(j) /\ job[j].ask.to \in Rewards))
  BY <1>7, GiftKept
<1> QED BY <1>1, <1>2, <1>3, <1>4, <1>5, <1>6, <1>7, TaskSteps

\* At first what is due is what billing has, and nobody has a copy in hand.
LEMMA KeptStart == Init => KeptInv
<1> SUFFICES ASSUME Init, NEW u \in Users \ disturbed PROVE KeptFor(u)
  BY DEF KeptInv
<1>1. /\ job = [j \in Jobs |-> IdleJob]
      /\ due = [v \in Users |-> [points |-> person[v].points, days |-> DaysOf(v)]]
  BY DEF Init, AccountInit
<1>2. due[u].points = person[u].points /\ due[u].days = DaysOf(u)
  BY <1>1
<1>3. \A j \in Jobs : job[j].usr = None /\ job[j].sub = None
  BY <1>1 DEF IdleJob
<1>4. \A j \in Jobs : Held(job[j], person[u].points, Current(u), subs)
  BY <1>3, NoneHeld
<1> QED BY <1>2, <1>4 DEF KeptFor

\* Every step keeps the invariant.
LEMMA KeptStep == TypedInv /\ KeptInv /\ [Next]_vars => KeptInv'
<1> SUFFICES ASSUME TypedInv, KeptInv, [Next]_vars PROVE KeptInv'
  OBVIOUS
<1>1. PICK own : CopiesInv(own)
  BY DEF TypedInv, CopiesOK
<1>2. DOMAIN job = Jobs /\ agenda.jobs \subseteq Jobs
  BY <1>1 DEF CopiesInv
<1>3. ASSUME NEW d \in agenda.jobs \cap Desks, DeskNext(d) PROVE KeptInv'
  <2>1. d \in Jobs /\ Standing(own, d) /\ DeskInv
    BY <1>1, <1>2 DEF Standing, TypedInv, CopiesOK
  <2> QED BY <1>3, <2>1, DeskOwn, DeskNextKept
<1>4. ASSUME NEW j \in agenda.jobs \ Desks, GrantsNext(j) PROVE KeptInv'
  <2>1. j \in Jobs \ Desks /\ Standing(own, j) /\ AccountsInv
    BY <1>1, <1>2 DEF Standing, TypedInv
  <2> QED BY <1>4, <2>1, GrantOwn, GrantsKept
<1>5. CASE UNCHANGED vars
  <2>1. UNCHANGED <<person, subs, due, disturbed, job>>
    BY <1>5 DEF vars, accountVars, stores, history
  <2> QED BY <2>1 DEF KeptInv, KeptFor, DaysOf, Current
<1> QED BY <1>3, <1>4, <1>5 DEF Next

\* Points and days given or taken by an administrator, the loyalty command or a referral are
\* all there, for every number of users, jobs and faults: no job writes over what another
\* gave, as long as they do not overlap (user.py add_points, subscription.py update).
THEOREM GiftsKept == Spec => []NothingLost
<1>1. Init => TypedInv /\ KeptInv
  BY AccountsStart, CopiesStart, TypesStart, KeptStart DEF TypedInv
<1>2. (TypedInv /\ KeptInv) /\ [Next]_vars => (TypedInv /\ KeptInv)'
  BY TypesStep, KeptStep
<1>3. TypedInv /\ KeptInv => NothingLost
  BY DEF KeptInv, KeptFor, NothingLost
<1> QED BY <1>1, <1>2, <1>3, PTL DEF Spec

-----------------------------------------------------------------------------
(* Days are never taken away                                               *)

\* A subscription that is not written, and still the user's, has the days it had.
LEMMA DaysRest ==
  ASSUME NEW own, CopiesInv(own), StoresTyped, NEW u \in Users, Current(u) # None,
         person'[u].current = person[u].current,
         person[u].current \in DOMAIN subs => subs'[person[u].current] = subs[person[u].current]
  PROVE  DaysOf(u)' >= DaysOf(u)
<1>1. person[u].current # None /\ Current(u) = subs[person[u].current]
  BY DEF Current
<1>2. person[u].current \in DOMAIN subs
  BY <1>1 DEF CopiesInv, StoresOK
<1>3. Current(u)' = Current(u)
  BY <1>1, <1>2 DEF Current
<1>4. Current(u) \in SubRecords
  BY <1>1, <1>2 DEF StoresTyped, BillsTyped, SubT
<1>5. DaysOf(u) \in Nat /\ DaysOf(u)' = DaysOf(u)
  BY <1>3, <1>4 DEF DaysOf, SubRecords
<1> QED BY <1>5

\* Days a job adds to the subscription billing knows are days the user has.
LEMMA DaysAdded ==
  ASSUME NEW own, NEW j, Engaged(own, j), KeptInv, Head(job[j].todo) \in SubUses \ {"create", "point"},
         NEW new, NEW kept, SubT(job[j].sub, accounts), Owned(own, job[j].sub, job[j].user),
         SubT(new, accounts), new.id = job[j].sub.id, new.days >= job[j].sub.days,
         \A f \in SubFields \ {"days"} : new[f] = job[j].sub[f],
         BillSubKeeping(j, new, {"days"}, kept, <<>>), NEW u, u = job[j].user, u \notin disturbed'
  PROVE  DaysOf(u)' >= DaysOf(u)
<1>1. job[j].sub = Current(u) /\ Current(u)' = new
  BY BilledCurrent
<1>2. new \in SubRecords /\ job[j].sub \in SubRecords
  BY DEF SubT
<1>3. new # None /\ job[j].sub # None
  BY <1>2, RecordsAssumption
<1>4. DaysOf(u) = job[j].sub.days
  BY <1>1, <1>3 DEF DaysOf
<1>5. DaysOf(u)' = new.days
  BY <1>1, <1>3 DEF DaysOf
<1> QED BY <1>4, <1>5

\* A step of a run, a task or a flush never shortens the subscription of its undisturbed user.
LEMMA LongerStep ==
  ASSUME NEW own, AccountsInv, NEW j \in Jobs \ Desks, Standing(own, j), KeptInv, Own(j), GrantsNext(j),
         NEW u \in Users, u = job[j].user, u \notin disturbed', Current(u) # None
  PROVE  DaysOf(u)' >= DaysOf(u)
<1>0. CopiesInv(own) /\ StoresTyped /\ j \in Jobs
  BY DEF Standing
<1>1. CASE UNCHANGED <<person, subs>>
  BY <1>0, <1>1, DaysRest
<1>2. CASE (\E v : BeginGrant(j, v)) \/ BeginGive(j) \/ BeginFlush(j)
  <2>1. UNCHANGED <<person, subs>>
    BY <1>2 DEF BeginGrant, BeginGive, BeginFlush, stores
  <2> QED BY <2>1, <1>1
<1>3. CASE AwaitStep(j) \/ Fault(j) \/ Crash(j)
  <2>1. UNCHANGED <<person, subs>>
    BY <1>3 DEF AwaitStep, Fault, Crash, ReadUser, KeepUser, ReadSub, KeepSub, ClearSub, ClearUser, RefillUser, Push, stores
  <2> QED BY <2>1, <1>1
<1>4. CASE \/ ReadState(j) \/ Eligible(j) \/ TakeLock(j) \/ Aim(j) \/ Mark(j) \/ Done(j) \/ Unlock(j)
           \/ Issue(j) \/ ListPending(j) \/ Flush(j)
  <2>1. UNCHANGED <<person, subs>>
    BY <1>4 DEF ReadState, Eligible, TakeLock, Aim, Mark, Done, SetState, Unlock, Issue, ListPending, Flush, Locally, stores
  <2> QED BY <2>1, <1>1
<1>5. CASE Engaged(own, j) /\ Extend(j) /\ j \in Runs
  <2>1. CASE ~(job[j].sub.days < job[j].ask.to)
    <3>1. UNCHANGED <<person, subs>>
      BY <1>5, <2>1 DEF Extend, Locally, stores
    <3> QED BY <3>1, <1>1
  <2>2. CASE job[j].sub.days < job[j].ask.to
    <3> DEFINE new == [job[j].sub EXCEPT !.days = job[j].ask.to]
    <3>1. /\ SubT(job[j].sub, accounts) /\ Owned(own, job[j].sub, job[j].user) /\ Head(job[j].todo) \in SubUses \ {"create", "point"}
          /\ SubT(new, accounts) /\ new.id = job[j].sub.id /\ new.days >= job[j].sub.days
          /\ \A f \in SubFields \ {"days"} : new[f] = job[j].sub[f]
          /\ BillSubKeeping(j, new, {"days"}, Billed(new, {"days"})[new.id], <<>>)
      BY <1>5, <2>2, ExtendFacts
    <3> HIDE DEF new
    <3> QED BY <1>5, <3>1, DaysAdded
  <2> QED BY <2>1, <2>2
<1>6. CASE Engaged(own, j) /\ GiveDays(j) /\ job[j].ask.to \in Rewards
  <2>1. CASE job[j].sub = None \/ (job[j].sub # None /\ job[j].sub.trial)
    <3>1. UNCHANGED <<person, subs>>
      BY <1>6, <2>1 DEF GiveDays, Locally, stores
    <3> QED BY <3>1, <1>1
  <2>2. CASE ~(job[j].sub = None \/ (job[j].sub # None /\ job[j].sub.trial))
    <3> DEFINE new == Later(job[j].sub, job[j].ask.to)
    <3>1. /\ SubT(job[j].sub, accounts) /\ Owned(own, job[j].sub, job[j].user) /\ Head(job[j].todo) \in SubUses \ {"create", "point"}
          /\ SubT(new, accounts) /\ new.id = job[j].sub.id /\ new.days >= job[j].sub.days
          /\ \A f \in SubFields \ {"days"} : new[f] = job[j].sub[f]
          /\ BillSubKeeping(j, new, {"days"}, new, <<>>)
      BY <1>6, <2>2, DaysFacts
    <3> HIDE DEF new
    <3> QED BY <1>6, <3>1, DaysAdded
  <2> QED BY <2>1, <2>2
<1>7. CASE GiveDiscount(j) \/ GivePoints(j)
  <2>1. CASE UNCHANGED <<person, subs>>
    BY <2>1, <1>1
  <2>2. CASE \E f \in {"discount", "points"} : \E n, more : BillUser(j, f, n, more)
    <3>1. PICK f \in {"discount", "points"} : \E n, more : BillUser(j, f, n, more)
      BY <2>2
    <3>12. PICK n, more : BillUser(j, f, n, more)
      BY <3>1
    <3>2. subs' = subs /\ person' = [person EXCEPT ![u] = [@ EXCEPT ![f] = n]]
      BY <3>12 DEF BillUser
    <3>3. person[u] \in UserRecords
      BY <1>0 DEF StoresTyped, PersonsTyped
    <3>4. person'[u].current = person[u].current
      BY <3>2, <3>3 DEF UserRecords
    <3> QED BY <1>0, <3>2, <3>4, DaysRest
  <2> QED BY <1>7, <2>1, <2>2 DEF GiveDiscount, GivePoints, Locally, stores
<1> QED BY <1>2, <1>3, <1>4, <1>5, <1>6, <1>7, TaskSteps

\* What the bot gives by itself, by the loyalty command or for a referral, never shortens a
\* subscription, for every number of users, jobs, rewards and faults (loyalty_reward.py:110-160,
\* referrals.py:60-83, referral.py:149-152).
THEOREM GiftsNeverShorten == Spec => NeverShortens
<1> DEFINE Longer(u, j) == (job[j].user = u /\ job'[j] # job[j] /\ u \notin disturbed') =>
                              (Current(u) # None => DaysOf(u)' >= DaysOf(u))
<1>1. ASSUME TypedInv, KeptInv, Next PROVE \A u \in Users, j \in Jobs \ Desks : Longer(u, j)
  <2> SUFFICES ASSUME NEW u \in Users, NEW j \in Jobs \ Desks, job[j].user = u, job'[j] # job[j], u \notin disturbed',
                      Current(u) # None
               PROVE DaysOf(u)' >= DaysOf(u)
    OBVIOUS
  <2>1. PICK own : CopiesInv(own)
    BY <1>1 DEF TypedInv, CopiesOK
  <2>2. DOMAIN job = Jobs /\ agenda.jobs \subseteq Jobs
    BY <2>1 DEF CopiesInv
  <2>3. ASSUME NEW d \in agenda.jobs \cap Desks, DeskNext(d) PROVE FALSE
    BY <2>2, <2>3, DeskOwn DEF Own
  <2>4. ASSUME NEW k \in agenda.jobs \ Desks, GrantsNext(k) PROVE DaysOf(u)' >= DaysOf(u)
    <3>1. Own(k)
      BY <2>4, GrantOwn
    <3>2. k = j
      BY <2>2, <3>1 DEF Own
    <3>3. Standing(own, j) /\ AccountsInv
      BY <1>1, <2>1 DEF Standing, TypedInv
    <3> QED BY <1>1, <2>4, <3>1, <3>2, <3>3, LongerStep
  <2> QED BY <1>1, <2>3, <2>4 DEF Next
<1>2. TypedInv /\ KeptInv /\ [Next]_vars => [\A u \in Users, j \in Jobs \ Desks : Longer(u, j)]_vars
  BY <1>1
<1>3. Init => TypedInv /\ KeptInv
  BY AccountsStart, CopiesStart, TypesStart, KeptStart DEF TypedInv
<1>4. (TypedInv /\ KeptInv) /\ [Next]_vars => (TypedInv /\ KeptInv)'
  BY TypesStep, KeptStep
<1> QED BY <1>2, <1>3, <1>4, PTL DEF Spec, NeverShortens

-----------------------------------------------------------------------------
(* Billing and the panel                                                   *)

\* Accounts alike but for their devices.
Like(a, b) == a = b \/ (a # None /\ b # None /\ \A f \in AccountFields \ {"devices"} : a[f] = b[f])
\* An account with the limits and the day of a subscription, whatever its ban.
Tied(s, a) == a # None /\ a.uuid = s.account /\ \A f \in Shared : s[f] = a[f]

\* A job that wrote one of the stores and has the other still ahead.
Mending(r) ==
    /\ r.wrote
    /\ \/ PushNext(r.todo) \/ RemoveNext(r.todo) \/ SyncAhead(r.todo) \/ ApplyAhead(r.todo)
       \/ First(r.todo, {"status", "create", "point"})
Mends(r, s, a) == Mending(r) /\ (First(r.todo, {"status"}) => Tied(s, a))

\* What a job that is about to write one of the stores knows of the other.
Comparing(s) == Sync1(s) \/ (First(s, {"keepSub"}) /\ Sync1(Tail(s)))
Aware(r, s, a) ==
    /\ First(r.todo, {"create", "point"}) => Agrees(r.sub, a)
    /\ First(r.todo, {"status"}) => a # None /\ ((a.status = "DISABLED") <=> (Toggled(r.sub) = "DISABLED"))
    /\ ApplyDue(r.todo) => a # None /\ Like(a, r.remna)
    /\ RemoveNext(r.todo) /\ ~DropAhead(r.todo) => s = None
    /\ Comparing(r.todo) => r.sub = s

\* Where billing and the panel disagree about an undisturbed user, a job is about to end that.
Mended(u) ==
    \/ Agree(Current(u), account[u])
    \/ \E l \in Jobs : job[l].user = u /\ Mends(job[l], Current(u), account[u])
MendFor(u) == Mended(u) /\ \A j \in Jobs : job[j].user = u => Aware(job[j], Current(u), account[u])
MendInv == \A u \in Users \ disturbed : MendFor(u)

\* The part of a step's job: it leaves the stores agreeing, or goes on to mend them.
Turned(j, u) ==
    /\ Agree(Current(u), account[u]) \/ Mends(job[j], Current(u), account[u]) =>
          Agree(Current(u)', account'[u]) \/ (job'[j].user = u /\ Mends(job'[j], Current(u)', account'[u]))
    /\ job'[j].user = u => Aware(job'[j], Current(u)', account'[u])
Same(u) == Current(u)' = Current(u) /\ Like(account[u], account'[u])

\* What an account is alike to agrees with the same subscriptions.
LEMMA LikeAgrees ==
  ASSUME NEW a, NEW b, Like(a, b)
  PROVE  /\ \A s : Agrees(s, a) <=> Agrees(s, b)
         /\ \A s : Agree(s, a) <=> Agree(s, b)
         /\ \A s : Tied(s, a) <=> Tied(s, b)
         /\ \A r, s : Mends(r, s, a) <=> Mends(r, s, b)
         /\ \A r, s : Aware(r, s, a) <=> Aware(r, s, b)
<1>1. (a = None) <=> (b = None)
  BY DEF Like
<1>2. a # None => a.uuid = b.uuid /\ a.status = b.status /\ \A f \in Shared : a[f] = b[f]
  BY DEF Like, AccountFields, Shared, Limits
<1>3. \A s : Agrees(s, a) <=> Agrees(s, b)
  BY <1>1, <1>2 DEF Agrees
<1>4. \A s : Agree(s, a) <=> Agree(s, b)
  BY <1>1, <1>3 DEF Agree
<1>5. \A s : Tied(s, a) <=> Tied(s, b)
  BY <1>1, <1>2 DEF Tied
<1>6. \A c : Like(a, c) <=> Like(b, c)
  BY DEF Like
<1>7. \A r, s : Aware(r, s, a) <=> Aware(r, s, b)
  BY <1>1, <1>2, <1>3, <1>6 DEF Aware
<1> QED BY <1>3, <1>4, <1>5, <1>7 DEF Mends

\* Who needs to know something of the stores, or is about to write billing's status, holds the user.
LEMMA AwareHolds ==
  ASSUME NEW own, CopiesInv(own), RecordsOK, NEW k \in Jobs, ~Holds(k, job[k].user)
  PROVE  ~First(job[k].todo, {"status"}) /\ \A s, a : Aware(job[k], s, a)
<1> DEFINE todo == job[k].todo
           r == job[k]
<1>0. todo \in Seq(Names) /\ Sound(r, accounts)
  BY DEF CopiesInv, JobOK, RecordsOK, RecordOK
<1>1. CASE todo = <<>>
  <2>1. \A heads : ~First(todo, heads)
    BY <1>1 DEF First
  <2>2. ~ApplyDue(todo) /\ ~RemoveNext(todo)
    BY <1>1 DEF ApplyDue, RemoveNext, Reaches
  <2> QED BY <2>1, <2>2 DEF Aware, Comparing, Sync1
<1>2. CASE todo # <<>>
  <2>1. /\ r.usr = None \/ ~(UserNext(todo) \/ ApplyAhead(todo))
        /\ r.sub = None \/ ~First(todo, Needs)
        /\ (r.usr = None /\ r.sub = None) \/ ~ClearsAhead(todo)
    <3>1. ~(r.usr # None \/ r.sub # None) \/ ~(UserNext(todo) \/ ApplyAhead(todo) \/ First(todo, Needs) \/ ClearsAhead(todo))
      <4>1. \A aims : (\E i \in DOMAIN todo : todo[i] \in aims) /\ aims \subseteq Writes => ~(r.usr # None \/ r.sub # None)
        BY DEF Holds
      <4>2. UserUses \subseteq Writes /\ {"apply"} \subseteq Writes /\ Needs \subseteq Writes /\ Clears \subseteq Writes
        BY WritesAssumption DEF UserUses, Needs, Clears
      <4>3. \A aims, past : Reaches(todo, aims, past) => \E i \in DOMAIN todo : todo[i] \in aims
        BY DEF Reaches
      <4>4. First(todo, Needs) => \E i \in DOMAIN todo : todo[i] \in Needs
        BY <1>0, <1>2 DEF First
      <4>5. UserNext(todo) \/ ApplyAhead(todo) \/ ClearsAhead(todo) => ~(r.usr # None \/ r.sub # None)
        BY <4>1, <4>2, <4>3 DEF UserNext, ApplyAhead, ClearsAhead
      <4>6. First(todo, Needs) => ~(r.usr # None \/ r.sub # None)
        BY <4>1, <4>2, <4>4
      <4> QED BY <4>5, <4>6
    <3> QED BY <3>1
  <2>2. ~UserNext(todo) /\ ~ApplyAhead(todo) /\ ~First(todo, Needs) /\ ~ClearsAhead(todo)
    BY <1>0, <2>1 DEF Sound
  <2>3. ~First(todo, {"create", "point"}) /\ ~First(todo, {"status"}) /\ ~ApplyDue(todo)
    BY <2>2, AheadMore DEF First, Needs
  <2>4. ~RemoveNext(todo)
    <3>1. Head(todo) \notin UserUses /\ Head(todo) \notin Clears
      BY <1>0, <1>2, <2>2, AheadFirst
    <3> QED BY <1>0, <1>2, <3>1, AheadFirst DEF UserUses, Clears, Removing
  <2>5. ~Comparing(todo)
    <3>1. ~Sync1(todo)
      BY <1>0, <1>2, <2>2, AheadFirst DEF Sync1, First, UserUses
    <3>2. ~First(todo, {"keepSub"})
      BY <1>2 DEF Holds, Filling, At, Idle, First
    <3> QED BY <3>1, <3>2 DEF Comparing
  <2> QED BY <2>3, <2>4, <2>5 DEF Aware
<1> QED BY <1>1, <1>2

\* A step that keeps what others know, or is of a user nobody else holds, keeps the
\* invariant if its own job does its part.
LEMMA TurnMended ==
  ASSUME MendInv, NEW own, CopiesInv(own), RecordsOK, NEW j \in Jobs, Own(j), disturbed \subseteq disturbed',
         job'[j].user \in {job[j].user, None},
         \A v \in Users \ disturbed' : Same(v) \/ (v = job[j].user /\ \A k \in Jobs : k # j => ~Holds(k, v)),
         \A v \in Users \ disturbed' : v = job[j].user => Turned(j, v)
  PROVE  MendInv'
<1> SUFFICES ASSUME NEW v \in Users \ disturbed' PROVE Mended(v)' /\ (\A k \in Jobs : job[k].user = v => Aware(job[k], Current(v), account[v]))'
  BY DEF MendInv, MendFor
<1>0. DOMAIN job = Jobs /\ v \in Users \ disturbed /\ v # None
  BY AccountAssumption DEF CopiesInv
<1>1. Mended(v) /\ \A k \in Jobs : job[k].user = v => Aware(job[k], Current(v), account[v])
  BY <1>0 DEF MendInv, MendFor
<1>2. \A k \in Jobs : k # j => job'[k] = job[k]
  BY <1>0 DEF Own
<1>3. \A k \in Jobs : k # j /\ job[k].user = v =>
        /\ Aware(job[k], Current(v)', account'[v])
        /\ Mends(job[k], Current(v), account[v]) => Mends(job[k], Current(v)', account'[v])
  <2> SUFFICES ASSUME NEW k \in Jobs, k # j, job[k].user = v
               PROVE  /\ Aware(job[k], Current(v)', account'[v])
                      /\ Mends(job[k], Current(v), account[v]) => Mends(job[k], Current(v)', account'[v])
    OBVIOUS
  <2>1. CASE Same(v)
    BY <1>1, <2>1, LikeAgrees DEF Same
  <2>2. CASE ~Holds(k, v)
    <3>1. ~First(job[k].todo, {"status"}) /\ \A s, a : Aware(job[k], s, a)
      BY <2>2, AwareHolds
    <3> QED BY <3>1 DEF Mends
  <2> QED BY <2>1, <2>2
<1>4. job'[j].user = v => Aware(job'[j], Current(v)', account'[v])
  <2>1. job'[j].user = v => job[j].user = v
    BY <1>0
  <2> QED BY <2>1 DEF Turned
<1>5. \A k \in Jobs : job'[k].user = v => Aware(job'[k], Current(v)', account'[v])
  BY <1>2, <1>3, <1>4
<1>6. CASE \E l \in Jobs : l # j /\ job[l].user = v /\ Mends(job[l], Current(v), account[v])
  <2>1. PICK l \in Jobs : l # j /\ job[l].user = v /\ Mends(job[l], Current(v), account[v])
    BY <1>6
  <2>2. job'[l].user = v /\ Mends(job'[l], Current(v)', account'[v])
    BY <1>2, <1>3, <2>1
  <2>3. Mended(v)'
    BY <2>2 DEF Mended
  <2> QED BY <1>5, <2>3
<1>7. CASE ~\E l \in Jobs : l # j /\ job[l].user = v /\ Mends(job[l], Current(v), account[v])
  <2>1. Agree(Current(v), account[v]) \/ (job[j].user = v /\ Mends(job[j], Current(v), account[v]))
    BY <1>1, <1>7 DEF Mended
  <2>2. CASE job[j].user = v
    <3>1. Agree(Current(v)', account'[v]) \/ (job'[j].user = v /\ Mends(job'[j], Current(v)', account'[v]))
      BY <2>1, <2>2 DEF Turned
    <3>2. Mended(v)'
      BY <3>1 DEF Mended
    <3> QED BY <1>5, <3>2
  <2>3. CASE job[j].user # v
    <3>1. Agree(Current(v), account[v]) /\ Same(v)
      BY <2>1, <2>3
    <3>2. Agree(Current(v)', account'[v])
      BY <3>1, LikeAgrees DEF Same
    <3>3. Mended(v)'
      BY <3>2 DEF Mended
    <3> QED BY <1>5, <3>3
  <2> QED BY <2>2, <2>3
<1> QED BY <1>6, <1>7

\* A dull list, and one that relies on no copy, need to know nothing.
LEMMA DullAware ==
  ASSUME NEW q, q.todo \in Seq(Names), Dull(q.todo)
  PROVE  \A s, a : Aware(q, s, a)
<1>1. Hushed(q.todo) /\ ~First(q.todo, (Special \ {"MENU"}) \cup Uses)
  BY DullHushed, DullFacts
<1>2. ~First(q.todo, {"create", "point"}) /\ ~First(q.todo, {"status"}) /\ ~Comparing(q.todo)
  BY <1>1 DEF First, Special, Uses, Comparing, Sync1
<1> QED BY <1>1, <1>2 DEF Aware, Hushed

\* Nor does a list that relies on no copy.
LEMMA BareAware ==
  ASSUME NEW q, q.todo \in Seq(Names), Bare(q.todo, q.ask)
  PROVE  \A s, a : Aware(q, s, a)
<1>1. ~First(q.todo, {"create", "point"}) /\ ~First(q.todo, {"status"}) /\ ~ApplyDue(q.todo) /\ ~RemoveNext(q.todo)
  BY AheadMore DEF Bare, First, Needs
<1>2. ~Comparing(q.todo)
  <2>1. ~UserNext(q.todo)
    BY DEF Bare
  <2>2. ~Sync1(q.todo)
    BY <2>1, AheadFirst DEF Sync1, First, UserUses
  <2>3. First(q.todo, {"keepSub"}) => ~Sync1(Tail(q.todo))
    <3> SUFFICES ASSUME First(q.todo, {"keepSub"}), Sync1(Tail(q.todo)) PROVE FALSE
      OBVIOUS
    <3>1. q.todo # <<>> /\ Head(q.todo) = "keepSub" /\ Tail(q.todo) \in Seq(Names)
      BY RestFacts DEF First
    <3>2. Tail(q.todo) # <<>> /\ Head(Tail(q.todo)) \in UserUses
      BY DEF Sync1, First, UserUses
    <3>3. UserNext(Tail(q.todo))
      BY <3>1, <3>2, AheadFirst
    <3> QED BY <2>1, <3>1, <3>3, AheadFirst
  <2> QED BY <2>2, <2>3 DEF Comparing
<1> QED BY <1>1, <1>2 DEF Aware

\* An idle job knows nothing and mends nothing.
LEMMA IdleAware ==
  /\ \A s, a : Aware(IdleJob, s, a)
  /\ ~Mending(IdleJob) /\ IdleJob.user = None
<1>1. <<>> \in Seq(Names) /\ Dull(<<>>) /\ IdleJob.todo = <<>> /\ IdleJob.user = None /\ ~IdleJob.wrote
  BY NoneBare DEF IdleJob
<1> QED BY <1>1, DullAware DEF Mending

\* Where a job that mends may be.
Menders ==
    Pushing \cup Removing \cup
    {"push", "remove", "status", "create", "point", "apply", "restore", "user", "keepUser", "sub", "keepSub", "fetch", "compare"}
\* A job that mends has one of these awaits first.
LEMMA MenderHeads ==
  ASSUME NEW own, NEW j, Engaged(own, j), Mending(job[j])
  PROVE  Head(job[j].todo) \in Menders
<1> DEFINE s == job[j].todo
           h == Head(job[j].todo)
<1>0. /\ s \in Seq(Names) /\ s # <<>> /\ JobOK(own, j) /\ Sound(job[j], accounts)
  BY EngagedFacts
<1>1. PushNext(s) \/ RemoveNext(s) => h \in Menders
  BY <1>0, AheadFirst DEF Menders
<1>2. SyncAhead(s) => h \in Menders
  <2>1. SyncAhead(s) => Sync1(s) \/ Sync2(s) \/ Sync3(s)
    BY <1>0 DEF Sound
  <2> QED BY <2>1 DEF Sync1, Sync2, Sync3, First, Menders
<1>3. First(s, {"status", "create", "point"}) => h \in Menders
  BY DEF First, Menders
<1>4. ApplyAhead(s) => h \in Menders
  <2> SUFFICES ASSUME ApplyAhead(s), h \notin Menders PROVE FALSE
    OBVIOUS
  <2>1. h \notin Special \cup {"user", "sub"} => Plain(s)
    BY <1>0, PlainHead
  <2>2. Plain(s) => FALSE
    BY DEF ApplyAhead, Reaches, Plain, Special
  <2>3. h \in Special
    BY <2>1, <2>2 DEF Menders
  <2>4. h \in {"MENU", "toggle", "provision"}
    BY <2>3 DEF Special, Menders, Pushing, Removing
  <2>5. CASE h = "MENU"
    <3>1. s = <<"MENU">>
      BY <1>0, <2>5, SpecialHeads
    <3> QED BY <3>1 DEF ApplyAhead, Reaches
  <2>6. CASE h = "toggle"
    <3>1. First(Tail(s), {"status"}) /\ Plain(Tail(Tail(s)))
      BY <1>0, <2>6, SpecialHeads DEF ToggleStatus, StatusOnly
    <3>2. Tail(s) \in Seq(Names) /\ Tail(s) # <<>> /\ Head(Tail(s)) = "status" /\ Tail(Tail(s)) \in Seq(Names)
      BY <1>0, <3>1, RestFacts DEF First
    <3>3. ~ApplyAhead(Tail(Tail(s)))
      BY <3>1 DEF ApplyAhead, Reaches, Plain, Special
    <3> QED BY <1>0, <2>6, <3>2, <3>3, AheadFirst
  <2>7. CASE h = "provision"
    <3>1. First(Tail(s), {"create"}) /\ Plain(Tail(Tail(s)))
      BY <1>0, <2>7, SpecialHeads DEF ProvisionCreate, CreateOnly
    <3>2. Tail(s) \in Seq(Names) /\ Tail(s) # <<>> /\ Head(Tail(s)) = "create" /\ Tail(Tail(s)) \in Seq(Names)
      BY <1>0, <3>1, RestFacts DEF First
    <3>3. ~ApplyAhead(Tail(Tail(s)))
      BY <3>1 DEF ApplyAhead, Reaches, Plain, Special
    <3> QED BY <1>0, <2>7, <3>2, <3>3, AheadFirst
  <2> QED BY <2>4, <2>5, <2>6, <2>7
<1> QED BY <1>1, <1>2, <1>3, <1>4 DEF Mending

\* What a list still needs to know of the stores is known after a step past its head.
LEMMA PopAware ==
  ASSUME NEW own, NEW j, Engaged(own, j), Head(job[j].todo) \notin {"toggle", "provision", "restore", "drop"},
         NEW q, q.todo = Tail(job[j].todo), q.remna = job[j].remna, NEW s, NEW a, Aware(job[j], s, a),
         q.sub = IF Head(job[j].todo) = "sub" THEN s ELSE job[j].sub
  PROVE  Aware(q, s, a)
<1> DEFINE l == job[j].todo
           h == Head(job[j].todo)
           t == Tail(job[j].todo)
<1>0. l \in Seq(Names) /\ l # <<>> /\ JobOK(own, j) /\ Sound(job[j], accounts) /\ t \in Seq(Names)
  BY EngagedFacts
<1>1. ~First(t, {"create", "point"}) /\ ~First(t, {"status"})
  <2>1. ~First(t, Needs)
    BY <1>0, TailFacts
  <2> QED BY <2>1 DEF First, Needs
<1>2. ApplyDue(t) => a # None /\ Like(a, job[j].remna)
  <2>1. ApplyDue(t) => ApplyDue(l)
    BY <1>0, AheadFirst
  <2> QED BY <2>1 DEF Aware
<1>3. RemoveNext(t) /\ ~DropAhead(t) => s = None
  <2> SUFFICES ASSUME RemoveNext(t), ~DropAhead(t) PROVE s = None
    OBVIOUS
  <2>1. RemoveDue(t)
    BY AheadMore
  <2>2. RemoveDue(l) /\ ~DropAhead(l)
    BY <1>0, <2>1, AheadFirst
  <2>3. RemoveNext(l)
    BY <1>0, <2>2 DEF Sound
  <2> QED BY <2>2, <2>3 DEF Aware
<1>4. Comparing(t) => q.sub = s
  <2> SUFFICES ASSUME Comparing(t) PROVE q.sub = s
    OBVIOUS
  <2>1. t # <<>> /\ (Head(t) \in {"fetch", "compare"} \/ (Head(t) = "keepSub" /\ Tail(t) # <<>> /\ Head(Tail(t)) \in {"fetch", "compare"}))
    BY DEF Comparing, Sync1, First
  <2>2. SyncAhead(t) /\ UsesAhead(t)
    <3>1. Tail(t) \in Seq(Names)
      BY <1>0, <2>1, RestFacts
    <3>2. SyncAhead(t)
      BY <1>0, <2>1, <3>1, AheadFirst
    <3> QED BY <3>2, AheadMore
  <2>3. SyncAhead(l)
    BY <1>0, <2>2, AheadFirst
  <2>4. Sync1(l) \/ Sync2(l) \/ Sync3(l)
    BY <1>0, <2>3 DEF Sound
  <2>5. ~Sync1(l)
    <3>1. After(l, Closing, Uses)
      BY <1>0 DEF Sound
    <3>2. h \notin Closing
      BY <1>0, <2>2, <3>1, AheadFirst
    <3> QED BY <3>2 DEF Sync1, First, Closing
  <2>6. ~Sync3(l)
    BY <2>1 DEF Sync3, First
  <2>7. h \in {"sub", "keepSub"} /\ Sync1(t)
    BY <2>4, <2>5, <2>6 DEF Sync2, First
  <2>8. CASE h = "keepSub"
    <3>1. Comparing(l)
      BY <1>0, <2>7, <2>8 DEF Comparing, First
    <3>2. job[j].sub = s
      BY <3>1 DEF Aware
    <3> QED BY <2>8, <3>2
  <2> QED BY <2>7, <2>8
<1> HIDE DEF l, h, t
<1> QED BY <1>1, <1>2, <1>3, <1>4 DEF Aware, t

\* A job that mends goes on to, unless it is at one of the awaits that do.
LEMMA PopMends ==
  ASSUME NEW own, NEW j, Engaged(own, j), Mending(job[j]),
         Head(job[j].todo) \notin {"push", "remove", "status", "create", "point", "apply", "fetch", "compare", "toggle"},
         NEW q, q.todo = Tail(job[j].todo), q.wrote
  PROVE  q.todo # <<>> /\ \A s, a : Mends(q, s, a)
<1> DEFINE l == job[j].todo
           h == Head(job[j].todo)
           t == Tail(job[j].todo)
<1>0. l \in Seq(Names) /\ l # <<>> /\ JobOK(own, j) /\ t \in Seq(Names)
  BY EngagedFacts
<1>1. PushNext(l) \/ RemoveNext(l) \/ SyncAhead(l) \/ ApplyAhead(l)
  BY DEF Mending, First
<1>2. PushNext(t) \/ RemoveNext(t) \/ SyncAhead(t) \/ ApplyAhead(t)
  BY <1>0, <1>1, AheadFirst
<1>3. t # <<>>
  BY <1>2 DEF PushNext, RemoveNext, SyncAhead, ApplyAhead, Reaches
<1>4. ~First(t, {"status"})
  <2>1. h = "provision" => First(t, {"create"})
    BY <1>0, SpecialHeads DEF ProvisionCreate, CreateOnly
  <2>2. h # "provision" => ~First(t, Needs)
    BY <1>0, TailFacts
  <2> QED BY <2>1, <2>2 DEF First, Needs
<1> QED BY <1>2, <1>3, <1>4 DEF Mends, Mending

-----------------------------------------------------------------------------
(* Steps of one job that leave the two as they are                         *)

\* A step that writes neither store keeps them for every user.
LEMMA StoresAlike ==
  ASSUME UNCHANGED <<person, subs, account>>
  PROVE  \A v : Same(v)
BY DEF Same, Like, Current

\* What a job at work on an undisturbed user knows.
LEMMA JobAware ==
  ASSUME MendInv, NEW own, NEW j, Engaged(own, j), NEW u, u = job[j].user, u \notin disturbed
  PROVE  /\ Aware(job[j], Current(u), account[u]) /\ u \in Users
         /\ Mended(u)
BY EngagedFacts DEF MendInv, MendFor

\* A step that leaves the stores as they are, but for devices.
LEMMA SameMended ==
  ASSUME MendInv, NEW own, NEW j, Engaged(own, j), Own(j), disturbed \subseteq disturbed',
         \A v \in Users \ disturbed' : Same(v), NEW u, u = job[j].user, NEW q, q = job'[j], q.user \in {u, None},
         u \notin disturbed' =>
            /\ q.user = u => Aware(q, Current(u), account[u])
            /\ Mends(job[j], Current(u), account[u]) =>
                  Agree(Current(u), account[u]) \/ (q.user = u /\ Mends(q, Current(u), account[u]))
  PROVE  MendInv'
<1>0. u \in Users /\ CopiesInv(own) /\ RecordsOK /\ j \in Jobs
  BY EngagedFacts DEF Engaged
<1>1. ASSUME u \notin disturbed' PROVE Turned(j, u)
  <2>1. Current(u)' = Current(u) /\ Like(account[u], account'[u])
    BY <1>0, <1>1 DEF Same
  <2>2. q.user = u => Aware(q, Current(u)', account'[u])
    BY <1>1, <2>1, LikeAgrees
  <2>3. Agree(Current(u), account[u]) => Agree(Current(u)', account'[u])
    BY <2>1, LikeAgrees
  <2>4. Mends(q, Current(u), account[u]) => Mends(q, Current(u)', account'[u])
    BY <2>1, LikeAgrees
  <2> QED BY <1>1, <2>2, <2>3, <2>4 DEF Turned
<1>2. \A v \in Users \ disturbed' : v = job[j].user => Turned(j, v)
  BY <1>1
<1> QED BY <1>0, <1>2, TurnMended

\* A step that writes the stores of its user, while nobody else holds that user.
LEMMA WroteMended ==
  ASSUME MendInv, NEW own, NEW j, Engaged(own, j), Own(j), disturbed \subseteq disturbed',
         NEW u, u = job[j].user, NEW q, q = job'[j], q.user \in {u, None},
         \A v \in Users \ disturbed' : v # u => Same(v),
         u \notin disturbed' =>
            /\ \A k \in Jobs : k # j => ~Holds(k, u)
            /\ q.user = u => Aware(q, Current(u)', account'[u])
            /\ \/ Agree(Current(u)', account'[u])
               \/ q.user = u /\ Mends(q, Current(u)', account'[u])
  PROVE  MendInv'
<1>0. u \in Users /\ CopiesInv(own) /\ RecordsOK /\ j \in Jobs
  BY EngagedFacts DEF Engaged
<1>2. \A v \in Users \ disturbed' : v = job[j].user => Turned(j, v)
  BY DEF Turned
<1>3. \A v \in Users \ disturbed' : Same(v) \/ (v = job[j].user /\ \A k \in Jobs : k # j => ~Holds(k, v))
  OBVIOUS
<1> QED BY <1>0, <1>2, <1>3, TurnMended

\* What is left of a job after its first await.
LEMMA Popped ==
  ASSUME NEW r, DOMAIN r = JobFields, r.todo \in Seq(Names), r.todo # <<>>, NEW q, q = Goes(r, <<>>)
  PROVE  \/ q = IdleJob /\ Tail(r.todo) = <<>>
         \/ /\ q.todo = Tail(r.todo) /\ q.todo # <<>> /\ q.user = r.user /\ q.sub = r.sub
            /\ q.usr = r.usr /\ q.remna = r.remna /\ q.wrote = r.wrote
<1>1. <<>> \in Seq(Names) /\ <<>> \o Tail(r.todo) = Tail(r.todo)
  BY JoinFacts, RestFacts
<1>2. q.todo = <<>> \o Tail(r.todo) /\ (q.todo # <<>> => /\ q.user = r.user /\ q.sub = r.sub /\ q.wrote = r.wrote
                                                          /\ q.usr = r.usr /\ q.remna = r.remna)
  BY <1>1, GoesFacts
<1>3. <<>> \o Tail(r.todo) = <<>> => q = IdleJob
  BY DEF Goes
<1> QED BY <1>1, <1>2, <1>3

\* A step past an await that writes nothing.
LEMMA PopMended ==
  ASSUME MendInv, NEW own, NEW j, Engaged(own, j), Own(j), disturbed \subseteq disturbed',
         \A v \in Users \ disturbed' : Same(v), NEW u, u = job[j].user,
         Head(job[j].todo) \notin {"push", "remove", "status", "create", "point", "apply", "fetch", "compare", "toggle",
                                   "provision", "restore", "drop"},
         NEW r, DOMAIN r = JobFields, r.todo = job[j].todo, r.user = u, r.remna = job[j].remna, job[j].wrote => r.wrote,
         u \notin disturbed' => r.sub = IF Head(job[j].todo) = "sub" THEN Current(u) ELSE job[j].sub,
         job'[j] = Goes(r, <<>>)
  PROVE  MendInv'
<1>0. u \in Users /\ job[j].todo \in Seq(Names) /\ job[j].todo # <<>> /\ None \notin Users
  BY EngagedFacts, AccountAssumption
<1> DEFINE q == Goes(r, <<>>)
           g == [r EXCEPT !.todo = Tail(job[j].todo)]
<1>g. /\ g.todo = Tail(job[j].todo) /\ g.remna = r.remna /\ g.sub = r.sub /\ g.wrote = r.wrote
  BY DEF JobFields
<1>1. \/ q = IdleJob /\ Tail(job[j].todo) = <<>>
      \/ /\ q.todo = Tail(job[j].todo) /\ q.todo # <<>> /\ q.user = u /\ q.sub = r.sub
         /\ q.remna = r.remna /\ q.wrote = r.wrote
  BY <1>0, Popped
<1>2. IdleJob.user = None
  BY IdleAware
<1> HIDE DEF q, g
<1>3. q.user \in {u, None}
  BY <1>1, <1>2
<1>4. ASSUME u \notin disturbed'
      PROVE  /\ q.user = u => Aware(q, Current(u), account[u])
             /\ Mends(job[j], Current(u), account[u]) => q.user = u /\ Mends(q, Current(u), account[u])
  <2>1. Aware(job[j], Current(u), account[u])
    BY <1>4, JobAware
  <2>2. q.todo = Tail(job[j].todo) => Aware(q, Current(u), account[u]) \/ q.user # u
    BY <1>0, <1>1, <1>2, <1>4, <2>1, PopAware
  <2>3. Mends(job[j], Current(u), account[u]) => Tail(job[j].todo) # <<>>
    BY <1>g, PopMends DEF Mends, Mending
  <2>4. Mends(job[j], Current(u), account[u]) => q.user = u /\ Mends(q, Current(u), account[u])
    BY <1>1, <2>3, PopMends DEF Mends, Mending
  <2> QED BY <1>0, <1>1, <1>2, <2>2, <2>4
<1> QED BY <1>3, <1>4, SameMended DEF q

\* A job that goes on with its copies.
LEMMA ContinueMended ==
  ASSUME MendInv, NEW own, NEW j, Engaged(own, j), Own(j), disturbed \subseteq disturbed',
         \A v \in Users \ disturbed' : Same(v), Continue(j),
         Head(job[j].todo) \notin {"push", "remove", "status", "create", "point", "apply", "fetch", "compare", "toggle",
                                   "provision", "restore", "drop", "sub"}
  PROVE  MendInv'
<1>1. DOMAIN job[j] = JobFields /\ job'[j] = Goes(job[j], <<>>)
  BY EngagedFacts DEF Continue
<1> QED BY <1>1, PopMended

\* An exception, a crash or the end of a job: what was written so far makes its user disturbed.
LEMMA LeftMended ==
  ASSUME MendInv, NEW own, NEW j, Engaged(own, j), Own(j), disturbed \subseteq disturbed',
         \A v \in Users \ disturbed' : Same(v),
         \/ Raise(j)
         \/ Stop(j) /\ Head(job[j].todo) \notin Menders
         \/ Stop(j) /\ (job[j].wrote => job[j].user \in disturbed')
  PROVE  MendInv'
<1> DEFINE u == job[j].user
           q == job'[j]
<1>0. DOMAIN job = Jobs /\ j \in Jobs /\ RecordOK(j, job[j], accounts) /\ (j \in Givers => GiverOK(j)) /\ None \notin Users
  BY EngagedFacts, AccountAssumption DEF Engaged
<1>1. u \notin disturbed' => ~Mending(job[j])
  <2>1. Raise(j) => (job[j].wrote => u \in disturbed')
    BY DEF Raise
  <2> QED BY <2>1, MenderHeads DEF Mending
<1>2. CASE q = IdleJob
  <2>1. q.user = None /\ \A s, a : Aware(q, s, a)
    BY <1>2, IdleAware
  <2> HIDE DEF q, u
  <2>2. u = job[j].user /\ q = job'[j]
    BY DEF u, q
  <2> QED BY <1>1, <2>1, <2>2, SameMended DEF Mends
<1>3. CASE q # IdleJob
  <2>1. Raise(j) /\ job[j].rescue # <<>> /\ q = [IdleJob EXCEPT !.user = job[j].user, !.ask = job[j].ask, !.todo = job[j].rescue]
    BY <1>0, <1>3 DEF Raise, Stop
  <2>2. q.user = u /\ q.todo = job[j].rescue /\ q.ask = job[j].ask
    BY <2>1 DEF IdleJob
  <2> HIDE DEF q
  <2>3. q.todo \in Seq(Names) /\ Bare(q.todo, q.ask)
    <3>1. CASE j \in Givers
      <4>1. job[j].rescue = Giving(RewardOf[j])
        BY <1>0, <2>1, <3>1 DEF GiverOK
      <4>2. \A ask : Bare(job[j].rescue, ask)
        BY <4>1, TaskBare
      <4>3. Giving(RewardOf[j]) \in Seq(Names)
        BY TaskNames DEF Giving
      <4> QED BY <2>2, <4>1, <4>2, <4>3
    <3>2. CASE j \notin Givers
      <4>1. job[j].rescue \in Seq(Names) /\ Dull(job[j].rescue)
        BY <1>0, <3>2 DEF RecordOK
      <4> QED BY <2>2, <4>1, DullBare
    <3> QED BY <3>1, <3>2
  <2>4. \A s, a : Aware(q, s, a)
    BY <2>3, BareAware
  <2> HIDE DEF u
  <2>5. u = job[j].user /\ q = job'[j]
    BY DEF u, q
  <2> QED BY <1>1, <2>2, <2>4, <2>5, SameMended DEF Mends
<1> QED BY <1>2, <1>3

\* A job that turns to a list that relies on nothing, from an await where nothing is to mend.
LEMMA BareMended ==
  ASSUME MendInv, NEW own, NEW j, Engaged(own, j), Own(j), disturbed \subseteq disturbed',
         \A v \in Users \ disturbed' : Same(v), Head(job[j].todo) \notin Menders,
         NEW q, q = job'[j], q.user \in {job[j].user, None},
         q.todo \in Seq(Names), Dull(q.todo) \/ Bare(q.todo, q.ask)
  PROVE  MendInv'
<1>1. \A s, a : Aware(q, s, a)
  BY DullAware, BareAware
<1>2. ~Mending(job[j])
  BY MenderHeads
<1> QED BY <1>1, <1>2, SameMended DEF Mends

\* A job that decides what to draw next leaves both stores alone.
LEMMA DecidedMended ==
  ASSUME MendInv, NEW own, NEW j, Engaged(own, j), Own(j), disturbed \subseteq disturbed',
         UNCHANGED <<person, subs, account>>, Head(job[j].todo) \notin Menders,
         NEW todo \in Seq(Smooth), job' = [job EXCEPT ![j].todo = todo]
  PROVE  MendInv'
<1>1. j \in Jobs /\ DOMAIN job = Jobs /\ DOMAIN job[j] = JobFields
  BY EngagedFacts
<1> DEFINE q == [job[j] EXCEPT !.todo = todo]
<1>2. job'[j] = q /\ q.user = job[j].user /\ q.todo = todo
  BY <1>1 DEF JobFields
<1> HIDE DEF q
<1>3. todo \in Seq(Names) /\ Dull(todo)
  BY SmoothDull
<1> QED BY <1>2, <1>3, StoresAlike, BareMended

\* An answer that is taken in hand before it goes into Redis.
LEMMA AnswerMended ==
  ASSUME MendInv, NEW own, NEW j, Engaged(own, j), Own(j), disturbed \subseteq disturbed',
         UNCHANGED <<person, subs, account>>, NEW u, u = job[j].user, NEW h,
         (Head(job[j].todo) = "user" /\ h = "keepUser") \/ (Head(job[j].todo) = "sub" /\ h = "keepSub"),
         NEW q, q = job'[j], q.user = u, q.remna = job[j].remna, q.wrote = job[j].wrote,
         q.todo = <<h>> \o Tail(job[j].todo), h = "keepSub" => q.sub = Current(u)
  PROVE  MendInv'
<1> DEFINE l == job[j].todo
           t == Tail(job[j].todo)
<1>0. l \in Seq(Names) /\ l # <<>> /\ t \in Seq(Names)
  BY EngagedFacts
<1>1. Cons(q.todo, h, t)
  <2>1. h \in Names
    BY TaskNames
  <2> QED BY <1>0, <2>1, ConsMade
<1>2. /\ ApplyDue(q.todo) <=> ApplyDue(l)
      /\ ApplyAhead(q.todo) <=> ApplyAhead(l)
      /\ SyncAhead(q.todo) <=> SyncAhead(l)
      /\ ~RemoveNext(q.todo) /\ ~PushNext(l) /\ ~RemoveNext(l)
      /\ \A heads : First(q.todo, heads) <=> h \in heads
      /\ Sync1(q.todo) <=> h \in {"fetch", "compare"}
  <2>1. /\ ApplyDue(q.todo) <=> ApplyDue(t)
        /\ ApplyAhead(q.todo) <=> ApplyAhead(t)
        /\ SyncAhead(q.todo) <=> SyncAhead(t)
        /\ ~RemoveNext(q.todo)
        /\ \A heads : First(q.todo, heads) <=> h \in heads
        /\ Sync1(q.todo) <=> h \in {"fetch", "compare"}
    BY <1>1, ConsAhead DEF Removing
  <2>2. /\ ApplyDue(l) <=> ApplyDue(t)
        /\ ApplyAhead(l) <=> ApplyAhead(t)
        /\ SyncAhead(l) <=> SyncAhead(t)
        /\ ~PushNext(l) /\ ~RemoveNext(l)
    BY <1>0, AheadFirst DEF Pushing, Removing
  <2> QED BY <2>1, <2>2
<1>3. ASSUME u \notin disturbed'
      PROVE  /\ Aware(q, Current(u), account[u])
             /\ Mends(job[j], Current(u), account[u]) => Mends(q, Current(u), account[u])
  <2>1. Aware(job[j], Current(u), account[u])
    BY <1>3, JobAware
  <2>2. ~First(q.todo, {"create", "point"}) /\ ~First(q.todo, {"status"})
    BY <1>2
  <2>3. Comparing(q.todo) => q.sub = Current(u)
    BY <1>2 DEF Comparing
  <2>4. Aware(q, Current(u), account[u])
    BY <1>2, <2>1, <2>2, <2>3 DEF Aware
  <2>5. ~First(l, {"status", "create", "point"})
    BY DEF First
  <2> QED BY <1>2, <2>2, <2>4, <2>5 DEF Mends, Mending
<1> QED BY <1>3, StoresAlike, SameMended

\* What is left of a job that is past its last decision needs to know nothing more.
LEMMA LateAware ==
  ASSUME NEW t \in Seq(Names), Plain(t), ~RemoveDue(t), ~SyncAhead(t), NEW q,
         \/ q.todo = t
         \/ q.todo = <<"clearSub", "clearUser">> \o t
         \/ q.todo = <<"clearUser">> \o t
         \/ q.todo = <<"refillUser">> \o t
  PROVE  /\ \A s, a : Aware(q, s, a)
         /\ PushNext(t) => PushNext(q.todo) /\ q.todo # <<>> /\ ~First(q.todo, {"status"})
<1>1. /\ ~First(t, {"create", "point"}) /\ ~First(t, {"status"}) /\ ~First(t, {"keepSub"})
      /\ ~ApplyDue(t) /\ ~RemoveNext(t) /\ ~Sync1(t)
  <2>1. ~First(t, {"create", "point"}) /\ ~First(t, {"status"}) /\ ~First(t, {"keepSub"})
    <3>1. t # <<>> => Head(t) \notin Special
      BY RestFacts
    <3> QED BY <3>1 DEF First, Special
  <2>2. ~ApplyDue(t) /\ ~RemoveNext(t)
    <3>1. ~ApplyAhead(t)
      BY DEF ApplyAhead, Reaches, Plain, Special
    <3> QED BY <3>1, AheadMore
  <2>3. ~Sync1(t)
    BY AheadFirst DEF Sync1, First
  <2> QED BY <2>1, <2>2, <2>3
<1>2. CASE q.todo = t
  <2>1. PushNext(t) => t # <<>>
    BY DEF PushNext, Reaches
  <2>2. \A s, a : Aware(q, s, a)
    BY <1>1, <1>2 DEF Aware, Comparing
  <2> QED BY <1>1, <1>2, <2>1, <2>2
<1>3. ASSUME NEW h \in {"clearSub", "clearUser", "refillUser"}, NEW s, ~RemoveDue(s), ~ApplyDue(s), Cons(q.todo, h, s)
      PROVE  (\A c, a : Aware(q, c, a)) /\ (PushNext(s) => PushNext(q.todo)) /\ q.todo # <<>> /\ ~First(q.todo, {"status"})
  <2>1. /\ ~First(q.todo, {"create", "point"}) /\ ~First(q.todo, {"status"}) /\ ~First(q.todo, {"keepSub"}) /\ ~Sync1(q.todo)
        /\ ~RemoveDue(q.todo) /\ ~ApplyDue(q.todo) /\ (PushNext(s) => PushNext(q.todo)) /\ q.todo # <<>>
    BY <1>3, ConsAhead DEF Pushing
  <2>2. ~RemoveNext(q.todo)
    BY <2>1, AheadMore
  <2> QED BY <2>1, <2>2 DEF Aware, Comparing
<1>4. CASE q.todo = <<"clearSub", "clearUser">> \o t
  <2>1. "clearSub" \in Names /\ "clearUser" \in Names
    BY TaskNames
  <2>2. PICK s : Cons(s, "clearUser", t) /\ Cons(<<"clearSub", "clearUser">> \o t, "clearSub", s)
    BY <2>1, Chain2
  <2>3. Cons(q.todo, "clearSub", s)
    BY <1>4, <2>2
  <2> HIDE <1>4
  <2>4. Cons(s, "clearUser", t)
    BY <2>2
  <2> HIDE <2>2
  <2>5. ~RemoveDue(s) /\ ~ApplyDue(s) /\ (PushNext(t) => PushNext(s))
    BY <1>1, <2>4, ConsAhead DEF Pushing
  <2> QED BY <1>3, <2>3, <2>5
<1>5. CASE q.todo = <<"clearUser">> \o t
  <2>1. Cons(q.todo, "clearUser", t)
    BY <1>5, TaskNames, ConsMade
  <2> QED BY <1>1, <1>3, <2>1
<1>6. CASE q.todo = <<"refillUser">> \o t
  <2>1. Cons(q.todo, "refillUser", t)
    BY <1>6, TaskNames, ConsMade
  <2> QED BY <1>1, <1>3, <2>1
<1> QED BY <1>2, <1>4, <1>5, <1>6

\* The await that writes is followed by nothing that would have to know what it wrote.
LEMMA LateTail ==
  ASSUME NEW own, NEW j, Engaged(own, j),
         Head(job[j].todo) \in {"push", "edit", "days", "extend", "status", "set", "points", "discount", "apply", "fetch", "confirm", "plan"}
  PROVE  LET t == Tail(job[j].todo) IN t \in Seq(Names) /\ Plain(t) /\ ~RemoveDue(t) /\ ~SyncAhead(t)
<1> DEFINE l == job[j].todo
           h == Head(job[j].todo)
           t == Tail(job[j].todo)
<1>0. l \in Seq(Names) /\ l # <<>> /\ t \in Seq(Names) /\ JobOK(own, j) /\ Sound(job[j], accounts)
  BY EngagedFacts
<1>1. Plain(t)
  <2>1. CASE h \in {"extend", "status", "apply"}
    BY <1>0, <2>1, SpecialHeads DEF ExtendFirst, StatusOnly, ApplyOnly
  <2>2. CASE h \notin {"extend", "status", "apply"}
    <3>1. h \notin Special \cup {"user", "sub"}
      BY <2>2 DEF Special
    <3>2. Plain(l)
      BY <1>0, <3>1, PlainHead
    <3> QED BY <1>0, <3>2, RestFacts
  <2> QED BY <2>1, <2>2
<1>2. h # "fetch" => ~SyncAhead(t)
  BY <1>0, PastReads
<1>3. ~RemoveDue(t)
  BY <1>0, PastReads
<1>4. h = "fetch" => ~SyncAhead(t)
  BY ClosedDull DEF Hushed
<1> QED BY <1>0, <1>1, <1>2, <1>3, <1>4

\* The subscription in hand of a job that is about to use it is billing's.
LEMMA SubCurrent ==
  ASSUME NEW own, NEW j, Engaged(own, j), KeptInv, Head(job[j].todo) \in SubUses \ {"create", "point"}, job[j].sub # None,
         NEW u, u = job[j].user, u \notin disturbed
  PROVE  job[j].sub = Current(u)
<1>0. job[j].todo \in Seq(Names) /\ job[j].todo # <<>> /\ u \in Users /\ j \in Jobs
  BY EngagedFacts
<1>1. SubIn(job[j].todo)
  BY <1>0, InFirst
<1>2. ~CreateOnly(job[j].todo) /\ ~PointUS(job[j].todo)
  BY DEF CreateOnly, PointUS, First
<1>3. Held(job[j], person[u].points, Current(u), subs)
  BY <1>0 DEF KeptInv, KeptFor
<1> QED BY <1>1, <1>2, <1>3 DEF Held

\* The account agrees with the copy that was pushed to it.
LEMMA PushedAgrees ==
  ASSUME NEW usr, NEW s, NEW a, DOMAIN a = AccountFields, a.uuid = s.account, Pushed(usr, s, a) # None
  PROVE  Agrees(s, Pushed(usr, s, a))
<1> DEFINE b == Pushed(usr, s, a)
<1>1. b.uuid = a.uuid /\ b.status = PanelStatus(s.status, s.days) /\ \A f \in Shared : b[f] = s[f]
  BY DEF Pushed, AccountFields, Shared, Limits
<1>2. (b.status = "DISABLED") = (s.status = "DISABLED")
  BY <1>1 DEF PanelStatus
<1> HIDE DEF b
<1>3. b # None
  BY DEF b
<1> QED BY <1>1, <1>2, <1>3 DEF Agrees, b

\* A push makes the account what the copies say (remnawave.py update_user).
LEMMA PushMended ==
  ASSUME MendInv, KeptInv, NEW own, NEW j, Engaged(own, j), Own(j), Push(j), NEW u, u = job[j].user
  PROVE  MendInv'
<1> DEFINE s == job[j].sub
<1>0. /\ DOMAIN job = Jobs /\ j \in Jobs /\ job[j].todo \in Seq(Names) /\ job[j].todo # <<>> /\ Head(job[j].todo) = "push"
      /\ DOMAIN job[j] = JobFields /\ u \in Users /\ Sound(job[j], accounts) /\ DOMAIN account = Users
      /\ StoresTyped /\ None \notin Users /\ None \notin AccountRecords /\ CopiesInv(own)
  BY EngagedFacts, AccountAssumption DEF Push, At
<1>1. CASE Reachable(u, job[j].sub.account)
  <2> DEFINE r == [job[j] EXCEPT !.wrote = TRUE]
             q == Goes(r, <<>>)
             b == Pushed(job[j].usr, job[j].sub, account[u])
  <2>1. /\ UNCHANGED <<person, subs, accounts>> /\ account' = [account EXCEPT ![u] = b] /\ Disturb(j, u)
        /\ job'[j] = q
    BY <1>0, <1>1 DEF Push
  <2>2. DOMAIN r = JobFields /\ r.user = u /\ r.todo = job[j].todo
    BY <1>0 DEF JobFields
  <2> HIDE DEF r
  <2>3. \/ q = IdleJob
        \/ q.todo = Tail(job[j].todo) /\ q.user = u
    BY <1>0, <2>2, Popped
  <2>4. IdleJob.user = None /\ \A x, a : Aware(IdleJob, x, a)
    BY IdleAware
  <2> HIDE DEF q
  <2>5. q.user \in {u, None} /\ \A x, a : Aware(q, x, a)
    <3>1. q.todo = Tail(job[j].todo) => \A x, a : Aware(q, x, a)
      BY <1>0, LateTail, LateAware
    <3> QED BY <2>3, <2>4, <3>1
  <2>6. \A v \in Users : v # u => Same(v)
    BY <1>0, <2>1 DEF Same, Like, Current
  <2>7. ASSUME u \notin disturbed' PROVE Agree(Current(u)', account'[u])
    <3>1. u \notin disturbed
      BY <2>1, <2>7, Disturbs
    <3>2. s # None
      BY <1>0, PastReads
    <3>3. "push" \in SubUses \ {"create", "point"}
      BY DEF SubUses
    <3>4. s = Current(u)
      BY <1>0, <3>1, <3>2, <3>3, SubCurrent
    <3>5. account[u] # None /\ account[u].uuid = s.account /\ AccT(account[u], accounts) /\ DOMAIN account[u] = AccountFields
      BY <1>0, <1>1 DEF Reachable, StoresTyped, PanelTyped, AccT, AccountRecords, AccountFields
    <3>6. AccT(b, accounts)
      BY <1>0, <3>2, <3>5, PushedTyped, EngagedFacts
    <3>7. b # None
      BY <1>0, <3>6 DEF AccT
    <3>8. Agrees(s, b)
      BY <3>5, <3>7, PushedAgrees
    <3>9. Current(u)' = Current(u) /\ account'[u] = b
      BY <1>0, <2>1 DEF Current
    <3> HIDE DEF b, s
    <3> QED BY <3>2, <3>4, <3>8, <3>9 DEF Agree
  <2>8. disturbed \subseteq disturbed' /\ (u \notin disturbed' => \A k \in Jobs : k # j => ~Holds(k, u))
    BY <2>1 DEF Disturb
  <2> QED BY <2>1, <2>5, <2>6, <2>7, <2>8, WroteMended
<1>2. CASE ~Reachable(u, job[j].sub.account)
  <2>1. Raise(j) /\ UNCHANGED <<person, subs, account>>
    BY <1>2 DEF Push
  <2> QED BY <2>1, LeftMended, StoresAlike, Disturbs
<1> QED BY <1>1, <1>2

\* A read of the user leaves both stores alone.
LEMMA ReadUserMended ==
  ASSUME MendInv, NEW own, NEW j, Engaged(own, j), Own(j), ReadUser(j), NEW u, u = job[j].user
  PROVE  MendInv'
<1>0. /\ j \in Jobs /\ DOMAIN job = Jobs /\ job[j].todo # <<>> /\ Head(job[j].todo) = "user" /\ DOMAIN job[j] = JobFields
      /\ UNCHANGED <<person, subs, account>>
  BY EngagedFacts DEF ReadUser, At, stores
<1>1. CASE /\ job' = [job EXCEPT ![j] = Goes([@ EXCEPT !.usr = userCache[u].value], <<>>)]
           /\ Disturb(j, u)
  <2> DEFINE r == [job[j] EXCEPT !.usr = userCache[u].value]
  <2>1. /\ DOMAIN r = JobFields /\ r.user = u /\ r.sub = job[j].sub /\ r.todo = job[j].todo /\ r.remna = job[j].remna
        /\ r.wrote = job[j].wrote /\ job'[j] = Goes(r, <<>>)
    BY <1>0, <1>1 DEF JobFields
  <2> HIDE DEF r
  <2>2. disturbed \subseteq disturbed' /\ \A v : Same(v)
    BY <1>0, <1>1, Disturbs, StoresAlike
  <2> QED BY <1>0, <2>1, <2>2, PopMended
<1>2. CASE /\ job' = [job EXCEPT ![j] = [@ EXCEPT !.usr = UserView(u), !.todo = <<"keepUser">> \o Tail(job[j].todo)]]
           /\ Undisturbed
  <2> DEFINE q == [job[j] EXCEPT !.usr = UserView(u), !.todo = <<"keepUser">> \o Tail(job[j].todo)]
  <2>1. /\ q.user = u /\ q.remna = job[j].remna /\ q.wrote = job[j].wrote /\ q.todo = <<"keepUser">> \o Tail(job[j].todo)
        /\ job'[j] = q
    BY <1>0, <1>2 DEF JobFields
  <2> HIDE DEF q
  <2>2. disturbed \subseteq disturbed'
    BY <1>2 DEF Undisturbed
  <2> QED BY <1>0, <2>1, <2>2, AnswerMended
<1> QED BY <1>1, <1>2 DEF ReadUser

\* A read of the subscription takes in hand what billing says.
LEMMA ReadSubMended ==
  ASSUME MendInv, NEW own, NEW j, Engaged(own, j), Own(j), ReadSub(j), NEW u, u = job[j].user
  PROVE  MendInv'
<1>0. /\ j \in Jobs /\ DOMAIN job = Jobs /\ job[j].todo # <<>> /\ Head(job[j].todo) = "sub" /\ DOMAIN job[j] = JobFields
      /\ UNCHANGED <<person, subs, account>>
  BY EngagedFacts DEF ReadSub, At, stores
<1>1. CASE /\ subCache[u].cached
           /\ job' = [job EXCEPT ![j] = Goes([@ EXCEPT !.sub = subCache[u].value], <<>>)]
           /\ Disturb(j, u)
  <2> DEFINE r == [job[j] EXCEPT !.sub = subCache[u].value]
  <2>1. /\ DOMAIN r = JobFields /\ r.user = u /\ r.sub = subCache[u].value /\ r.todo = job[j].todo /\ r.remna = job[j].remna
        /\ r.wrote = job[j].wrote /\ job'[j] = Goes(r, <<>>)
    BY <1>0, <1>1 DEF JobFields
  <2> HIDE DEF r
  <2>2. disturbed \subseteq disturbed' /\ \A v : Same(v)
    BY <1>0, <1>1, Disturbs, StoresAlike
  <2>3. u \notin disturbed' => subCache[u].value = Current(u)
    BY <1>0, <1>1, FreshRead
  <2> QED BY <1>0, <2>1, <2>2, <2>3, PopMended
<1>2. CASE /\ job' = [job EXCEPT ![j] = [@ EXCEPT !.sub = Current(u), !.todo = <<"keepSub">> \o Tail(job[j].todo)]]
           /\ Undisturbed
  <2> DEFINE q == [job[j] EXCEPT !.sub = Current(u), !.todo = <<"keepSub">> \o Tail(job[j].todo)]
  <2>1. /\ q.user = u /\ q.sub = Current(u) /\ q.remna = job[j].remna /\ q.wrote = job[j].wrote
        /\ q.todo = <<"keepSub">> \o Tail(job[j].todo) /\ job'[j] = q
    BY <1>0, <1>2 DEF JobFields
  <2> HIDE DEF q
  <2>2. disturbed \subseteq disturbed'
    BY <1>2 DEF Undisturbed
  <2> QED BY <1>0, <2>1, <2>2, AnswerMended
<1> QED BY <1>1, <1>2 DEF ReadSub

\* The awaits that every job may have.
LEMMA AwaitMended ==
  ASSUME MendInv, KeptInv, NEW own, NEW j, Engaged(own, j), Own(j), AwaitStep(j) \/ Fault(j)
  PROVE  MendInv'
<1> PICK u : u = job[j].user
  OBVIOUS
<1>1. CASE ReadUser(j) \/ ReadSub(j) \/ Push(j)
  BY <1>1, ReadUserMended, ReadSubMended, PushMended
<1>2. CASE KeepUser(j) \/ KeepSub(j) \/ ClearSub(j) \/ ClearUser(j) \/ RefillUser(j)
  <2>1. /\ UNCHANGED <<person, subs, account>> /\ disturbed' = disturbed /\ Continue(j)
        /\ Head(job[j].todo) \in {"keepUser", "keepSub", "clearSub", "clearUser", "refillUser"}
    BY <1>2 DEF KeepUser, KeepSub, ClearSub, ClearUser, RefillUser, stores, history, At
  <2> QED BY <2>1, StoresAlike, ContinueMended
<1>3. CASE Fault(j)
  <2>1. Raise(j) /\ UNCHANGED <<person, subs, account>>
    BY <1>3 DEF Fault, stores
  <2> QED BY <2>1, LeftMended, StoresAlike, Disturbs
<1> QED BY <1>1, <1>2, <1>3 DEF AwaitStep

-----------------------------------------------------------------------------
(* Handlers that decide, show and unlink                                   *)

\* Nor does a decision of a handler change what its job mends.
LEMMA DecideMended ==
  ASSUME MendInv, NEW own, NEW j, Engaged(own, j), Own(j), NEW step, step \notin Menders, NEW todo \in Seq(Smooth), Decide(j, step, todo)
  PROVE  MendInv'
<1>1. /\ UNCHANGED <<person, subs, account, disturbed>> /\ job' = [job EXCEPT ![j].todo = todo] /\ Head(job[j].todo) = step
  BY DEF Decide, stores, history, At
<1> QED BY <1>1, DecidedMended

\* A handler that raised after its first write has disturbed its user.
LEMMA RaisedMended ==
  ASSUME MendInv, NEW own, NEW j, Engaged(own, j), Own(j), Raise(j), UNCHANGED <<person, subs, account>>
  PROVE  MendInv'
BY StoresAlike, Disturbs, LeftMended

\* The handlers of the dashboard that decide what to show next.
LEMMA DecidersMended ==
  ASSUME NEW own, NEW d \in Desks, DeskInv, Engaged(own, d), MendInv, Own(d),
         WhetherSub(d) \/ Matching(d) \/ OfferPlans(d) \/ OfferAccess(d) \/ Reset(d) \/ Devices(d) \/ Send(d)
  PROVE  MendInv'
<1>0. /\ job[d].todo # <<>>
      /\ {"whether", "match", "plans", "access", "reset", "devices", "send"} \cap Menders = {}
  BY EngagedFacts DEF Menders, Pushing, Removing
<1>1. ASSUME WhetherSub(d) PROVE MendInv'
  <2>1. Again(d) \in Seq(Smooth) /\ Render("SUBSCRIPTION") \in Seq(Smooth)
    BY <1>0, <1>1, AgainSmooth DEF WhetherSub, Decide, At
  <2> QED BY <1>0, <1>1, <2>1, DecideMended DEF WhetherSub
<1>2. ASSUME Matching(d) PROVE MendInv'
  <2>1. Again(d) \in Seq(Smooth) /\ Render("SYNC") \in Seq(Smooth)
    BY <1>0, <1>2, AgainSmooth DEF Matching, Decide, At
  <2> QED BY <1>0, <1>2, <2>1, DecideMended DEF Matching
<1>3. ASSUME OfferPlans(d) PROVE MendInv'
  <2>1. Render("MAIN") \in Seq(Smooth) /\ Render("GIVE_SUBSCRIPTION") \in Seq(Smooth)
    BY <1>0, <1>3, AgainSmooth DEF OfferPlans, Decide, At
  <2>2. PICK w \in {"MAIN", "GIVE_SUBSCRIPTION"} : Decide(d, "plans", Render(w))
    BY <1>3 DEF OfferPlans
  <2>3. Render(w) \in Seq(Smooth)
    BY <2>1
  <2> QED BY <1>0, <2>2, <2>3, DecideMended
<1>4. ASSUME OfferAccess(d) PROVE MendInv'
  <2>1. Render("MAIN") \in Seq(Smooth) /\ Render("GIVE_ACCESS") \in Seq(Smooth)
    BY <1>0, <1>4, AgainSmooth DEF OfferAccess, Decide, At
  <2>2. PICK w \in {"MAIN", "GIVE_ACCESS"} : Decide(d, "access", Render(w))
    BY <1>4 DEF OfferAccess
  <2>3. Render(w) \in Seq(Smooth)
    BY <2>1
  <2> QED BY <1>0, <2>2, <2>3, DecideMended
<1>5. ASSUME Reset(d) PROVE MendInv'
  <2>1. Again(d) \in Seq(Smooth)
    BY <1>0, <1>5, AgainSmooth DEF Reset, At
  <2>2. CASE Decide(d, "reset", Again(d))
    BY <1>0, <2>1, <2>2, DecideMended
  <2>3. CASE Raise(d) /\ UNCHANGED <<stores, caches, due, faults>>
    BY <1>0, <2>3, RaisedMended DEF stores
  <2> QED BY <1>5, <2>2, <2>3 DEF Reset
<1>6. ASSUME Devices(d) PROVE MendInv'
  <2>1. Again(d) \in Seq(Smooth) /\ Render("DEVICES_LIST") \in Seq(Smooth)
    BY <1>0, <1>6, AgainSmooth DEF Devices, At
  <2>2. CASE \E w : w \in Seq(Smooth) /\ Decide(d, "devices", w)
    BY <1>0, <2>2, DecideMended
  <2>3. CASE Raise(d) /\ UNCHANGED <<stores, caches, due, faults>>
    BY <1>0, <2>3, RaisedMended DEF stores
  <2> QED BY <1>6, <2>1, <2>2, <2>3 DEF Devices
<1>7. ASSUME Send(d) PROVE MendInv'
  <2>1. Again(d) \in Seq(Smooth) /\ Render("MAIN") \in Seq(Smooth)
    BY <1>0, <1>7, AgainSmooth DEF Send, At
  <2>2. CASE Decide(d, "send", Again(d)) \/ Decide(d, "send", Render("MAIN"))
    BY <1>0, <2>1, <2>2, DecideMended
  <2>3. CASE Arm(d, "message")
    <3>1. UNCHANGED <<person, subs, account, disturbed>> /\ job' = [job EXCEPT ![d].todo = Again(d)]
      BY <2>3 DEF Arm, stores, history
    <3>2. Head(job[d].todo) \notin Menders
      BY <1>0, <1>7 DEF Send, At
    <3> QED BY <2>1, <3>1, <3>2, DecidedMended
  <2> QED BY <1>7, <2>2, <2>3 DEF Send
<1> QED BY <1>1, <1>2, <1>3, <1>4, <1>5, <1>6, <1>7

\* A window is drawn, the main menu shown, access given, the administrator's own copy cleared.
LEMMA ShowMended ==
  ASSUME MendInv, NEW own, NEW d \in Desks, Engaged(own, d), Own(d), Show(d) \/ Menu(d) \/ GrantAccess(d) \/ ClearActor(d)
  PROVE  MendInv'
<1>1. CASE Show(d)
  <2>1. Head(job[d].todo) \notin {"push", "remove", "status", "create", "point", "apply", "fetch", "compare", "toggle",
                                   "provision", "restore", "drop", "sub"}
    BY <1>1, GetterFacts, Zenon DEF Show
  <2>2. UNCHANGED <<person, subs, account>> /\ (Raise(d) \/ (Continue(d) /\ Undisturbed))
    BY <1>1 DEF Show, stores
  <2>3. CASE Raise(d)
    BY <2>2, <2>3, RaisedMended
  <2>4. CASE Continue(d) /\ Undisturbed
    <3>1. disturbed \subseteq disturbed'
      BY <2>4 DEF Undisturbed
    <3> QED BY <2>1, <2>2, <2>4, <3>1, StoresAlike, ContinueMended
  <2> QED BY <2>2, <2>3, <2>4
<1>2. CASE Menu(d) \/ GrantAccess(d) \/ ClearActor(d)
  <2>1. UNCHANGED <<person, subs, account, disturbed>> /\ Continue(d) /\ Head(job[d].todo) \in {"MENU", "grant", "clearActor"}
    BY <1>2 DEF Menu, GrantAccess, ClearActor, stores, history, At
  <2> QED BY <2>1, StoresAlike, ContinueMended
<1> QED BY <1>1, <1>2

\* A device is unlinked, which is none of billing's business.
LEMMA UnlinkMended ==
  ASSUME MendInv, NEW own, NEW d \in Desks, DeskInv, Engaged(own, d), Own(d), Unlink(d), NEW u, u = Target[d]
  PROVE  MendInv'
<1>0. /\ job[d].todo # <<>> /\ Head(job[d].todo) = "unlink" /\ UNCHANGED <<person, subs>> /\ DOMAIN account = Users
      /\ StoresTyped /\ None \notin AccountRecords /\ u \in Users /\ DOMAIN job = Jobs /\ d \in Jobs /\ DOMAIN job[d] = JobFields
  BY EngagedFacts, DeskAssumption DEF Unlink, At
<1>1. CASE Raise(d) /\ UNCHANGED account
  BY <1>0, <1>1, RaisedMended
<1>2. CASE ~(Raise(d) /\ UNCHANGED account)
  <2>1. /\ UNCHANGED account \/ (account[u] # None /\ account[u].devices # 0 /\ account' = [account EXCEPT ![u].devices = @ - 1])
        /\ Undisturbed /\ \E w \in {"DEVICES_LIST", "SUBSCRIPTION"} : job' = [job EXCEPT ![d].todo = Render(w)]
    BY <1>2 DEF Unlink, Reachable
  <2>2. \A v \in Users : Same(v)
    <3>1. CASE UNCHANGED account
      BY <1>0, <3>1, StoresAlike
    <3>2. CASE account[u] # None /\ account[u].devices # 0 /\ account' = [account EXCEPT ![u].devices = @ - 1]
      <4>1. DOMAIN account[u] = AccountFields
        BY <1>0, <3>2 DEF StoresTyped, PanelTyped, AccT, AccountRecords, AccountFields
      <4>2. \A v \in Users : v # u => account'[v] = account[v]
        BY <1>0, <3>2
      <4> DEFINE a == account[u]
                 b == [a EXCEPT !.devices = @ - 1]
      <4>3. account'[u] = b
        BY <1>0, <3>2
      <4>4. \A f \in AccountFields \ {"devices"} : b[f] = a[f]
        BY <4>1
      <4>5. DOMAIN b = AccountFields
        BY <4>1
      <4>6. account'[u] # None
        <5>1. a \in AccountRecords /\ a.devices \in Nat /\ a.devices # 0
          BY <1>0, <3>2 DEF StoresTyped, PanelTyped, AccT, AccountRecords
        <5>2. a.devices - 1 \in Nat
          BY <5>1
        <5>3. b \in AccountRecords
          BY <5>1, <5>2 DEF AccountRecords
        <5> QED BY <1>0, <4>3, <5>3
      <4> QED BY <1>0, <4>2, <4>3, <4>4, <4>6, <3>2 DEF Same, Like, Current
    <3> QED BY <2>1, <3>1, <3>2
  <2>3. PICK w \in {"DEVICES_LIST", "SUBSCRIPTION"} : job' = [job EXCEPT ![d].todo = Render(w)]
    BY <2>1
  <2>4. Render(w) \in Seq(Smooth)
    BY <1>0, AgainSmooth
  <2> DEFINE q == [job[d] EXCEPT !.todo = Render(w)]
  <2>5. job'[d] = q /\ q.user = job[d].user /\ q.todo = Render(w)
    BY <1>0, <2>3 DEF JobFields
  <2> HIDE DEF q
  <2>6. Render(w) \in Seq(Names) /\ Dull(Render(w)) /\ disturbed \subseteq disturbed' /\ "unlink" \notin Menders
    BY <2>1, <2>4, SmoothDull DEF Undisturbed, Menders, Pushing, Removing
  <2> QED BY <1>0, <2>2, <2>5, <2>6, BareMended
<1> QED BY <1>1, <1>2

\* The administrator's own pointer goes: the administrator is disturbed by that.
LEMMA DropActorMended ==
  ASSUME MendInv, NEW own, NEW d \in Desks, Engaged(own, d), Own(d), DropActor(d), NEW u, u = job[d].user
  PROVE  MendInv'
<1>0. DOMAIN person = Users /\ DOMAIN job = Jobs /\ d \in Jobs /\ DOMAIN job[d] = JobFields
  BY EngagedFacts
<1>1. /\ person' = [person EXCEPT ![Actor[d]].current = None] /\ UNCHANGED <<subs, account>>
      /\ job' = [job EXCEPT ![d] = Goes([@ EXCEPT !.wrote = TRUE], <<>>)]
      /\ disturbed' = disturbed \cup {Actor[d]} /\ Head(job[d].todo) = "dropActor"
  BY DEF DropActor, Unset, At
<1>2. \A v \in Users \ disturbed' : Same(v)
  BY <1>0, <1>1 DEF Same, Like, Current
<1> DEFINE r == [job[d] EXCEPT !.wrote = TRUE]
<1>3. /\ DOMAIN r = JobFields /\ r.todo = job[d].todo /\ r.user = u /\ r.remna = job[d].remna /\ r.wrote
      /\ r.sub = job[d].sub /\ job'[d] = Goes(r, <<>>)
  BY <1>0, <1>1 DEF JobFields
<1> HIDE DEF r
<1> QED BY <1>1, <1>2, <1>3, PopMended

\* The list of users with access is read.
LEMMA ReadPlanMended ==
  ASSUME MendInv, NEW own, NEW d \in Desks, Engaged(own, d), Own(d), ReadPlan(d)
  PROVE  MendInv'
<1>0. /\ DOMAIN job = Jobs /\ d \in Jobs /\ DOMAIN job[d] = JobFields /\ job[d].todo \in Seq(Names) /\ job[d].todo # <<>>
  BY EngagedFacts
<1>1. /\ UNCHANGED <<person, subs, account, disturbed>> /\ Head(job[d].todo) = "plan"
      /\ job' = [job EXCEPT ![d] = [Goes(@, <<>>) EXCEPT !.remna = allowed]]
  BY DEF ReadPlan, At, stores, history
<1> DEFINE g == Goes(job[d], <<>>)
<1>2. job'[d] = [g EXCEPT !.remna = allowed]
  BY <1>0, <1>1
<1>3. DOMAIN g = JobFields
  <2>1. <<>> \in Seq(Names)
    OBVIOUS
  <2> QED BY <1>0, <2>1, GoesFacts
<1>4. job'[d].user = g.user /\ job'[d].todo = g.todo
  BY <1>2, <1>3 DEF JobFields
<1>5. \/ g = IdleJob
      \/ g.todo = Tail(job[d].todo) /\ g.user = job[d].user
  BY <1>0, Popped
<1>6. IdleJob.user = None /\ IdleJob.todo = <<>> /\ \A s, a : Aware(IdleJob, s, a)
  BY IdleAware DEF IdleJob
<1>7. "plan" \notin Menders
  BY DEF Menders, Pushing, Removing
<1> DEFINE q == job'[d]
<1> HIDE DEF g
<1>8. \A s, a : q.user # None => Aware(q, s, a)
  <2>1. g.todo = Tail(job[d].todo) => \A s, a : Aware(q, s, a)
    BY <1>1, <1>4, LateTail, LateAware
  <2> QED BY <1>4, <1>5, <1>6, <2>1
<1>9. q.user \in {job[d].user, None} /\ job[d].user # None
  BY <1>4, <1>5, <1>6, EngagedFacts, AccountAssumption
<1>10. ~Mending(job[d])
  BY <1>1, <1>7, MenderHeads
<1>11. \A v : Same(v)
  BY <1>1, StoresAlike
<1> HIDE DEF q
<1>12. q = job'[d]
  BY DEF q
<1> QED BY <1>1, <1>8, <1>9, <1>10, <1>11, <1>12, SameMended DEF Mends

-----------------------------------------------------------------------------
(* Edits and gifts                                                         *)

\* A step that writes the stores of its user does its part, while nobody else holds that user.
LEMMA PartMended ==
  ASSUME MendInv, NEW own, NEW j, Engaged(own, j), Own(j), disturbed \subseteq disturbed',
         NEW u, u = job[j].user, NEW q, q = job'[j], q.user \in {u, None},
         \A v \in Users \ disturbed' : v # u => Same(v),
         u \notin disturbed' =>
            /\ \A k \in Jobs : k # j => ~Holds(k, u)
            /\ q.user = u => Aware(q, Current(u)', account'[u])
            /\ Agree(Current(u), account[u]) \/ Mends(job[j], Current(u), account[u]) =>
                  Agree(Current(u)', account'[u]) \/ (q.user = u /\ Mends(q, Current(u)', account'[u]))
  PROVE  MendInv'
<1>0. u \in Users /\ CopiesInv(own) /\ RecordsOK /\ j \in Jobs
  BY EngagedFacts DEF Engaged
<1>2. \A v \in Users \ disturbed' : v = job[j].user => Turned(j, v)
  BY DEF Turned
<1>3. \A v \in Users \ disturbed' : Same(v) \/ (v = job[j].user /\ \A k \in Jobs : k # j => ~Holds(k, v))
  OBVIOUS
<1> QED BY <1>0, <1>2, <1>3, TurnMended

\* A field of the user is written, which is none of the panel's business.
LEMMA BillUserMended ==
  ASSUME MendInv, NEW own, NEW j, Engaged(own, j), Own(j), NEW u, u = job[j].user,
         Head(job[j].todo) \in {"set", "points", "discount"},
         NEW field \in {"blocked", "role", "discount", "points"}, NEW value,
         NEW h \in {"clearUser", "refillUser"}, BillUser(j, field, value, <<h>>)
  PROVE  MendInv'
<1> DEFINE l == job[j].todo
           t == Tail(job[j].todo)
           p == [person[u] EXCEPT ![field] = value]
           q == [job[j] EXCEPT !.usr = ViewOf(person'[u]), !.wrote = TRUE, !.todo = <<h>> \o t]
<1>0. /\ StoresTyped /\ j \in Jobs /\ DOMAIN job = Jobs /\ DOMAIN job[j] = JobFields /\ u \in Users
      /\ l \in Seq(Names) /\ l # <<>> /\ DOMAIN person = Users /\ person[u] \in UserRecords
  BY EngagedFacts DEF StoresTyped, PersonsTyped
<1>1. /\ UNCHANGED <<subs, account>> /\ person' = [person EXCEPT ![u] = p] /\ Disturb(j, u) /\ job'[j] = q
  BY <1>0 DEF BillUser
<1>2. p.current = person[u].current
  BY <1>0 DEF UserRecords
<1>3. q.user = u /\ q.wrote /\ q.todo = <<h>> \o t
  BY <1>0 DEF JobFields
<1> HIDE DEF p, q
<1>4. \A v \in Users : person'[v].current = person[v].current
  BY <1>0, <1>1, <1>2
<1>5. \A v \in Users : Same(v)
  BY <1>1, <1>4 DEF Same, Like, Current
<1>6. t \in Seq(Names) /\ Plain(t) /\ ~RemoveDue(t) /\ ~SyncAhead(t)
  BY LateTail
<1>7. (\A s, a : Aware(q, s, a)) /\ (PushNext(t) => PushNext(q.todo) /\ q.todo # <<>> /\ ~First(q.todo, {"status"}))
  BY <1>3, <1>6, LateAware
<1>8. Mending(job[j]) => PushNext(t)
  <2>1. ~RemoveNext(l) /\ ~First(l, {"status", "create", "point"})
    BY <1>0, AheadFirst DEF Removing, First
  <2>2. SyncAhead(l) <=> SyncAhead(t)
    BY <1>0, AheadFirst
  <2>3. ApplyAhead(l) <=> ApplyAhead(t)
    BY <1>0, AheadFirst
  <2>4. PushNext(l) => PushNext(t)
    BY <1>0, AheadFirst
  <2>5. ~ApplyAhead(t)
    BY <1>6 DEF ApplyAhead, Reaches, Plain, Special
  <2> QED BY <1>6, <2>1, <2>2, <2>3, <2>4, <2>5 DEF Mending
<1>9. Mending(job[j]) => \A s, a : Mends(q, s, a)
  BY <1>3, <1>7, <1>8 DEF Mends, Mending
<1>10. disturbed \subseteq disturbed'
  BY <1>1, Disturbs
<1> QED BY <1>1, <1>3, <1>5, <1>7, <1>9, <1>10, SameMended DEF Mends

\* A subscription is written from the copy a job has in hand: what that job is to see to.
LEMMA BilledMended ==
  ASSUME MendInv, KeptInv, NEW own, NEW j, Engaged(own, j), Own(j), Head(job[j].todo) \in SubUses \ {"create", "point"},
         NEW u, u = job[j].user, NEW new, NEW changed, NEW kept, NEW more,
         SubT(job[j].sub, accounts), Owned(own, job[j].sub, job[j].user), SubT(new, accounts), new.id = job[j].sub.id,
         \A f \in SubFields \ changed : new[f] = job[j].sub[f],
         BillSubKeeping(j, new, changed, kept, more), NEW q, q = job'[j],
         u \notin disturbed' /\ job[j].sub = Current(u) =>
            /\ Aware(q, new, account[u])
            /\ Agree(job[j].sub, account[u]) \/ Mends(job[j], job[j].sub, account[u]) =>
                  Agree(new, account[u]) \/ Mends(q, new, account[u])
  PROVE  MendInv'
<1>0. /\ CopiesInv(own) /\ StoresOK(own) /\ j \in Jobs /\ DOMAIN job = Jobs /\ DOMAIN job[j] = JobFields /\ u \in Users
      /\ None \notin Subs /\ DOMAIN subs \subseteq Subs
  BY EngagedFacts, AccountAssumption DEF CopiesInv, StoresOK
<1>1. /\ subs' = Billed(new, changed) /\ UNCHANGED <<person, account>> /\ Disturb(j, u)
      /\ job'[j] = [job[j] EXCEPT !.sub = kept, !.wrote = TRUE, !.todo = <<"clearSub", "clearUser">> \o more \o Tail(job[j].todo)]
  BY <1>0 DEF BillSubKeeping
<1>2. q.user = u
  BY <1>0, <1>1 DEF JobFields
<1>3. job[j].sub.id \in DOMAIN subs /\ own[job[j].sub.id] = u
  BY DEF Owned
<1>4. \A id \in DOMAIN subs : id # new.id => subs'[id] = subs[id]
  BY <1>1, <1>3 DEF Billed
<1>5. ASSUME NEW v \in Users, v # u PROVE Same(v)
  <2>1. person[v].current = None \/ (person[v].current \in DOMAIN subs /\ person[v].current # new.id)
    BY <1>0, <1>3, <1>5 DEF StoresOK
  <2> QED BY <1>1, <1>4, <2>1 DEF Same, Like, Current
<1>6. ASSUME u \notin disturbed'
      PROVE  /\ job[j].sub = Current(u) /\ Current(u)' = new /\ account'[u] = account[u]
             /\ \A k \in Jobs : k # j => ~Holds(k, u)
  <2>1. job[j].sub = Current(u) /\ Current(u)' = new
    BY <1>6, BilledCurrent
  <2> QED BY <1>1, <1>6, <2>1 DEF Disturb
<1>7. disturbed \subseteq disturbed'
  BY <1>1, Disturbs
<1>8. u \notin disturbed' =>
            /\ \A k \in Jobs : k # j => ~Holds(k, u)
            /\ q.user = u => Aware(q, Current(u)', account'[u])
            /\ Agree(Current(u), account[u]) \/ Mends(job[j], Current(u), account[u]) =>
                  Agree(Current(u)', account'[u]) \/ (q.user = u /\ Mends(q, Current(u)', account'[u]))
  <2> SUFFICES ASSUME u \notin disturbed'
               PROVE  /\ \A k \in Jobs : k # j => ~Holds(k, u)
                      /\ q.user = u => Aware(q, Current(u)', account'[u])
                      /\ Agree(Current(u), account[u]) \/ Mends(job[j], Current(u), account[u]) =>
                            Agree(Current(u)', account'[u]) \/ (q.user = u /\ Mends(q, Current(u)', account'[u]))
    OBVIOUS
  <2>1. Aware(q, new, account[u])
    BY <1>6
  <2>2. Agree(Current(u), account[u]) \/ Mends(job[j], Current(u), account[u]) => Agree(new, account[u]) \/ Mends(q, new, account[u])
    BY <1>6
  <2> QED BY <1>2, <1>6, <2>1, <2>2
<1> QED BY <1>2, <1>5, <1>7, <1>8, PartMended

\* An administrator sets a field of the user.
LEMMA SetUserMended ==
  ASSUME MendInv, NEW own, NEW d \in Desks, DeskInv, Engaged(own, d), Own(d), SetUser(d), NEW u, u = job[d].user
  PROVE  MendInv'
<1> DEFINE usr == job[d].usr
           ask == job[d].ask
<1>0. Head(job[d].todo) = "set" /\ "set" \notin Menders /\ UNCHANGED deskVars
  BY DEF SetUser, At, Menders, Pushing, Removing
<1>3. Again(d) \in Seq(Smooth)
  BY <1>0, EngagedFacts, AgainSmooth
<1>4. \/ BillUser(d, "blocked", ~usr.blocked, <<"clearUser">>)
      \/ BillUser(d, "role", ask.to, <<"clearUser">>)
      \/ BillUser(d, "discount", ask.to, <<"refillUser">>)
      \/ BillUser(d, "points", usr.points + ask.to, <<"refillUser">>)
      \/ Decide(d, "set", Again(d))
  BY DEF SetUser
<1>5. CASE BillUser(d, "blocked", ~usr.blocked, <<"clearUser">>)
  BY <1>0, <1>5, BillUserMended
<1>6. CASE BillUser(d, "role", ask.to, <<"clearUser">>)
  BY <1>0, <1>6, BillUserMended
<1>7. CASE BillUser(d, "discount", ask.to, <<"refillUser">>)
  BY <1>0, <1>7, BillUserMended
<1>8. CASE BillUser(d, "points", usr.points + ask.to, <<"refillUser">>)
  BY <1>0, <1>8, BillUserMended
<1>9. CASE Decide(d, "set", Again(d))
  BY <1>0, <1>3, <1>9, DecideMended
<1> QED BY <1>4, <1>5, <1>6, <1>7, <1>8, <1>9

\* A discount or points are given.
LEMMA GiftMended ==
  ASSUME MendInv, NEW own, NEW j, Engaged(own, j), Own(j), GiveDiscount(j) \/ GivePoints(j), NEW u, u = job[j].user
  PROVE  MendInv'
<1>1. CASE GiveDiscount(j) /\ ~(job[j].usr.discount < LoyaltyDiscount)
  <2>1. Head(job[j].todo) = "discount" /\ Continue(j) /\ UNCHANGED <<person, subs, account, disturbed>>
    BY <1>1 DEF GiveDiscount, At, Locally, stores, history
  <2> QED BY <2>1, ContinueMended, StoresAlike
<1>2. CASE GiveDiscount(j) /\ job[j].usr.discount < LoyaltyDiscount
  <2>1. Head(job[j].todo) = "discount" /\ BillUser(j, "discount", LoyaltyDiscount, <<"refillUser">>)
    BY <1>2 DEF GiveDiscount, At
  <2> QED BY <2>1, BillUserMended
<1>3. CASE GivePoints(j)
  <2> DEFINE sum == job[j].usr.points + Amount[job[j].ask.to]
  <2>1. Head(job[j].todo) = "points" /\ BillUser(j, "points", sum, <<"clearUser">>)
    BY <1>3 DEF GivePoints, At
  <2> HIDE DEF sum
  <2> QED BY <2>1, BillUserMended
<1> QED BY <1>1, <1>2, <1>3

\* A job that writes billing and has the panel to follow.
LEMMA LimitedMended ==
  ASSUME MendInv, KeptInv, NEW own, NEW j, Engaged(own, j), Own(j),
         Head(job[j].todo) \in {"edit", "days", "extend"}, Head(job[j].todo) = "edit" => job[j].ask # Invalid,
         NEW u, u = job[j].user, NEW new, NEW changed, NEW kept,
         SubT(job[j].sub, accounts), Owned(own, job[j].sub, job[j].user), SubT(new, accounts), new.id = job[j].sub.id,
         \A f \in SubFields \ changed : new[f] = job[j].sub[f],
         BillSubKeeping(j, new, changed, kept, <<>>)
  PROVE  MendInv'
<1> DEFINE l == job[j].todo
           t == Tail(job[j].todo)
           steps == <<"clearSub", "clearUser">> \o <<>>
           q == [job[j] EXCEPT !.sub = kept, !.wrote = TRUE, !.todo = steps \o t]
<1>0. /\ j \in Jobs /\ DOMAIN job = Jobs /\ DOMAIN job[j] = JobFields /\ l \in Seq(Names) /\ l # <<>> /\ Sound(job[j], accounts)
      /\ t \in Seq(Names)
  BY EngagedFacts
<1>1. job'[j] = q /\ q.wrote /\ q.todo = steps \o t
  BY <1>0 DEF BillSubKeeping, JobFields
<1>2. q.todo = <<"clearSub", "clearUser">> \o t
  <2>1. <<"clearSub", "clearUser">> \in Seq(Names)
    <3>1. "clearSub" \in Names /\ "clearUser" \in Names
      BY TaskNames
    <3> QED BY <3>1
  <2>2. steps = <<"clearSub", "clearUser">>
    BY <2>1, JoinFacts
  <2> QED BY <1>1, <2>2
<1> HIDE DEF q, steps
<1>3. Plain(t) /\ ~RemoveDue(t) /\ ~SyncAhead(t)
  BY LateTail
<1>4. (\A s, a : Aware(q, s, a)) /\ (PushNext(t) => PushNext(q.todo) /\ q.todo # <<>> /\ ~First(q.todo, {"status"}))
  BY <1>0, <1>2, <1>3, LateAware
<1>5. PushNext(t)
  <2>1. CASE Head(l) = "extend"
    <3>1. PushNext(l)
      BY <1>0, <2>1 DEF Sound, First
    <3> QED BY <1>0, <2>1, <3>1, AheadFirst
  <2>2. CASE Head(l) \in {"edit", "days"}
    <3>1. First(t, {"push"})
      BY <1>0, <2>2, PastReads
    <3>2. t # <<>> /\ Head(t) = "push"
      BY <3>1 DEF First
    <3> QED BY <1>0, <3>2, AheadFirst
  <2> QED BY <2>1, <2>2
<1>6. \A s, a : Mends(q, s, a)
  BY <1>1, <1>4, <1>5 DEF Mends, Mending
<1>7. Head(job[j].todo) \in SubUses \ {"create", "point"}
  BY DEF SubUses
<1> QED BY <1>1, <1>4, <1>6, <1>7, BilledMended

\* A run or a task that gives days.
LEMMA GivenDaysMended ==
  ASSUME MendInv, KeptInv, NEW own, NEW j, Engaged(own, j), Own(j),
         (Extend(j) /\ j \in Runs) \/ (GiveDays(j) /\ job[j].ask.to \in Rewards), NEW u, u = job[j].user
  PROVE  MendInv'
<1>1. CASE Extend(j) /\ ~(job[j].sub.days < job[j].ask.to)
  <2>1. Head(job[j].todo) = "extend" /\ Continue(j) /\ UNCHANGED <<person, subs, account, disturbed>>
    BY <1>1 DEF Extend, At, Locally, stores, history
  <2> QED BY <2>1, ContinueMended, StoresAlike
<1>2. CASE GiveDays(j) /\ (job[j].sub = None \/ (job[j].sub # None /\ job[j].sub.trial))
  <2>1. Head(job[j].todo) = "days" /\ Stop(j) /\ UNCHANGED <<person, subs, account, disturbed>> /\ "days" \notin Menders
    BY <1>2 DEF GiveDays, At, Locally, stores, history, Menders, Pushing, Removing
  <2> QED BY <2>1, LeftMended, StoresAlike
<1>3. CASE Extend(j) /\ j \in Runs /\ job[j].sub.days < job[j].ask.to
  <2> DEFINE new == [job[j].sub EXCEPT !.days = job[j].ask.to]
  <2>1. /\ SubT(job[j].sub, accounts) /\ Owned(own, job[j].sub, job[j].user)
        /\ SubT(new, accounts) /\ new.id = job[j].sub.id
        /\ \A f \in SubFields \ {"days"} : new[f] = job[j].sub[f]
        /\ BillSubKeeping(j, new, {"days"}, Billed(new, {"days"})[new.id], <<>>)
    BY <1>3, ExtendFacts
  <2>2. Head(job[j].todo) = "extend"
    BY <1>3 DEF Extend, At
  <2> HIDE DEF new
  <2> QED BY <2>1, <2>2, LimitedMended
<1>4. CASE GiveDays(j) /\ job[j].ask.to \in Rewards /\ ~(job[j].sub = None \/ (job[j].sub # None /\ job[j].sub.trial))
  <2> DEFINE new == Later(job[j].sub, job[j].ask.to)
  <2>1. /\ SubT(job[j].sub, accounts) /\ Owned(own, job[j].sub, job[j].user)
        /\ SubT(new, accounts) /\ new.id = job[j].sub.id
        /\ \A f \in SubFields \ {"days"} : new[f] = job[j].sub[f]
        /\ BillSubKeeping(j, new, {"days"}, new, <<>>)
    BY <1>4, DaysFacts
  <2>2. Head(job[j].todo) = "days"
    BY <1>4 DEF GiveDays, At
  <2> HIDE DEF new
  <2> QED BY <2>1, <2>2, LimitedMended
<1> QED BY <1>1, <1>2, <1>3, <1>4

\* An administrator's edit.
LEMMA EditMended ==
  ASSUME MendInv, KeptInv, NEW own, NEW d \in Desks, DeskInv, Engaged(own, d), Own(d), Edit(d), NEW u, u = job[d].user
  PROVE  MendInv'
<1> DEFINE s == job[d].sub
           new == Edited(s, job[d].ask)
<1>0. /\ job[d].todo # <<>> /\ AskOK(d, job[d].ask) /\ Head(job[d].todo) = "edit" /\ "edit" \notin Menders
  BY EngagedFacts DEF RecordOK, Edit, At, Menders, Pushing, Removing
<1>1. Again(d) \in Seq(Smooth)
  BY <1>0, AgainSmooth
<1>2. CASE s = None
  <2>1. Raise(d) /\ UNCHANGED <<person, subs, account>>
    BY <1>2 DEF Edit, stores
  <2> QED BY <2>1, RaisedMended
<1>3. CASE s # None
  <2>1. Decide(d, "edit", Again(d)) \/
        (job[d].ask # Invalid /\ ~(job[d].ask.field = "days" /\ new.days < Today) /\ BillSub(d, new, {job[d].ask.field}, <<>>))
    BY <1>3 DEF Edit
  <2>2. CASE Decide(d, "edit", Again(d))
    BY <1>0, <1>1, <2>2, DecideMended
  <2>3. CASE job[d].ask # Invalid /\ ~(job[d].ask.field = "days" /\ new.days < Today) /\ BillSub(d, new, {job[d].ask.field}, <<>>)
    <3>1. SubT(s, accounts) /\ Owned(own, s, job[d].user)
      BY <1>0, <1>3, SubOwned
    <3>2. job[d].ask.field = "days" => s.days + job[d].ask.to >= Today
      <4>1. ASSUME job[d].ask.field = "days" PROVE s.days + job[d].ask.to >= Today
        <5>1. s \in SubRecords /\ s.days \in Nat /\ job[d].ask.to \in Int /\ Today \in Nat
          BY <1>0, <3>1, <4>1, AccountAssumption DEF SubT, SubRecords, AskOK
        <5>2. new = [s EXCEPT !.days = @ + job[d].ask.to]
          BY <4>1 DEF Edited
        <5>3. new.days = s.days + job[d].ask.to
          BY <5>1, <5>2 DEF SubRecords
        <5> QED BY <2>3, <4>1, <5>1, <5>3
      <4> QED BY <4>1
    <3>3. SubT(new, accounts) /\ new.id = s.id
      BY <1>0, <3>1, <3>2, EditedTyped
    <3>4. \A f \in SubFields \ {job[d].ask.field} : new[f] = s[f]
      BY <3>1, EditedRest DEF SubT
    <3> HIDE DEF new
    <3>5. BillSubKeeping(d, new, {job[d].ask.field}, new, <<>>)
      BY <2>3 DEF BillSub
    <3> QED BY <1>0, <2>3, <3>1, <3>3, <3>4, <3>5, LimitedMended
  <2> QED BY <2>1, <2>2, <2>3
<1> QED BY <1>2, <1>3

-----------------------------------------------------------------------------
(* The account first, or the subscription first                            *)

\* The panel turns an account on or off; billing is to follow.
LEMMA ToggleMended ==
  ASSUME MendInv, KeptInv, NEW own, NEW d \in Desks, Engaged(own, d), Own(d), Toggle(d), NEW u, u = job[d].user
  PROVE  MendInv'
<1> DEFINE s == job[d].sub
           l == job[d].todo
           t == Tail(job[d].todo)
           b == [account[u] EXCEPT !.status = PanelStatus(Toggled(job[d].sub), account[u].days)]
           r == [job[d] EXCEPT !.wrote = TRUE]
           q == Goes(r, <<>>)
<1>0. /\ DOMAIN job = Jobs /\ d \in Jobs /\ l \in Seq(Names) /\ l # <<>> /\ Head(l) = "toggle" /\ t \in Seq(Names)
      /\ DOMAIN job[d] = JobFields /\ u \in Users /\ u = Target[d] /\ DOMAIN account = Users /\ None \notin Users
      /\ StoresTyped /\ None \notin AccountRecords /\ JobOK(own, d)
  BY EngagedFacts, AccountAssumption DEF Toggle, At
<1>1. CASE s = None \/ ~Reachable(u, s.account)
  <2>1. Raise(d) /\ UNCHANGED <<person, subs, account>>
    BY <1>0, <1>1 DEF Toggle
  <2> QED BY <2>1, RaisedMended
<1>2. CASE s # None /\ Reachable(u, s.account)
  <2>1. /\ UNCHANGED <<person, subs>> /\ account' = [account EXCEPT ![u] = b] /\ Disturb(d, u) /\ job'[d] = q
    BY <1>0, <1>2 DEF Toggle
  <2>2. DOMAIN r = JobFields /\ r.user = u /\ r.todo = l /\ r.wrote /\ r.sub = s
    BY <1>0 DEF JobFields
  <2> HIDE DEF r
  <2>3. First(t, {"status"}) /\ Plain(Tail(t))
    BY <1>0, SpecialHeads DEF ToggleStatus, StatusOnly
  <2>4. q.todo = t /\ q.user = u /\ q.sub = s /\ q.wrote
    <3>1. t # <<>>
      BY <2>3 DEF First
    <3> QED BY <1>0, <2>2, <3>1, Popped
  <2> HIDE DEF q
  <2>5. account[u] \in AccountRecords /\ DOMAIN account[u] = AccountFields /\ account[u].uuid = s.account
    BY <1>0, <1>2 DEF StoresTyped, PanelTyped, AccT, Reachable, AccountRecords, AccountFields
  <2>6. /\ DOMAIN b = AccountFields /\ (b.status = "DISABLED" <=> Toggled(s) = "DISABLED")
        /\ \A f \in AccountFields \ {"status"} : b[f] = account[u][f]
    BY <2>5 DEF AccountFields, PanelStatus
  <2>7. b # None
    <3>1. PanelStatus(Toggled(s), account[u].days) \in {"ACTIVE", "DISABLED", "EXPIRED"}
      BY DEF PanelStatus
    <3>2. b \in AccountRecords
      BY <2>5, <3>1 DEF AccountRecords
    <3> QED BY <1>0, <3>2
  <2> HIDE DEF b
  <2>8. account'[u] = b /\ Current(u)' = Current(u) /\ \A v \in Users : v # u => Same(v)
    BY <1>0, <2>1 DEF Same, Like, Current
  <2>9. \A c : Aware(q, c, b)
    <3>1. ~First(t, {"create", "point"}) /\ ~First(t, {"keepSub"}) /\ ~Sync1(t)
      BY <2>3 DEF First, Sync1
    <3>2. ~ApplyDue(t) /\ ~RemoveNext(t)
      <4>1. t # <<>> /\ Head(t) = "status"
        BY <2>3 DEF First
      <4>2. ~ApplyAhead(Tail(t))
        BY <2>3 DEF ApplyAhead, Reaches, Plain, Special
      <4>3. ~ApplyAhead(t) /\ ~RemoveNext(t)
        BY <1>0, <4>1, <4>2, AheadFirst DEF Removing
      <4> QED BY <4>3, AheadMore
    <3> QED BY <2>4, <2>6, <2>7, <3>1, <3>2 DEF Aware, Comparing
  <2>10. ASSUME u \notin disturbed', Agree(Current(u), account[u]) \/ Mends(job[d], Current(u), account[u])
         PROVE  Mends(q, Current(u), b)
    <3>1. u \notin disturbed /\ "toggle" \notin Menders /\ "toggle" \in SubUses \ {"create", "point"}
      BY <2>1, <2>10, Disturbs DEF Menders, Pushing, Removing, SubUses
    <3>2. s = Current(u)
      BY <1>0, <1>2, <3>1, SubCurrent
    <3>3. ~Mending(job[d])
      BY <1>0, <3>1, MenderHeads
    <3>4. Agree(s, account[u])
      BY <2>10, <3>2, <3>3 DEF Mends
    <3>5. \A f \in Shared : s[f] = account[u][f]
      BY <1>0, <1>2, <2>5, <3>4 DEF Agree, Agrees
    <3>6. Shared \subseteq AccountFields \ {"status"} /\ "uuid" \in AccountFields \ {"status"}
      BY DEF Shared, Limits, AccountFields
    <3>7. Tied(s, b)
      BY <2>5, <2>6, <2>7, <3>5, <3>6 DEF Tied
    <3>8. Mending(q)
      BY <2>3, <2>4 DEF Mending, First
    <3> QED BY <3>2, <3>7, <3>8 DEF Mends
  <2>11. disturbed \subseteq disturbed' /\ (u \notin disturbed' => \A k \in Jobs : k # d => ~Holds(k, u))
    BY <2>1, Disturbs DEF Disturb
  <2> QED BY <2>1, <2>4, <2>8, <2>9, <2>10, <2>11, PartMended
<1> QED BY <1>1, <1>2

\* Billing follows.
LEMMA BillStatusMended ==
  ASSUME MendInv, KeptInv, NEW own, NEW d \in Desks, Engaged(own, d), Own(d), BillStatus(d), NEW u, u = job[d].user
  PROVE  MendInv'
<1> DEFINE s == job[d].sub
           a == account[u]
           new == [s EXCEPT !.status = Toggled(s)]
           t == Tail(job[d].todo)
           steps == <<"clearSub", "clearUser">> \o <<>>
           q == [job[d] EXCEPT !.sub = new, !.wrote = TRUE, !.todo = steps \o t]
<1>0. /\ d \in Jobs /\ DOMAIN job = Jobs /\ DOMAIN job[d] = JobFields /\ job[d].todo \in Seq(Names) /\ job[d].todo # <<>>
      /\ Sound(job[d], accounts) /\ t \in Seq(Names) /\ Head(job[d].todo) = "status" /\ None \notin SubRecords
  BY EngagedFacts DEF BillStatus, At
<1>1. s # None
  BY <1>0 DEF Sound, First, Needs
<1>2. SubT(s, accounts) /\ Owned(own, s, job[d].user) /\ DOMAIN s = SubFields
  BY <1>0, <1>1, SubOwned
<1>3. BillSubKeeping(d, new, {"status"}, new, <<>>)
  BY DEF BillStatus, BillSub
<1>4. job'[d] = q /\ q.wrote /\ q.todo = steps \o t /\ q.sub = new /\ Disturb(d, u)
  BY <1>0, <1>3 DEF BillSubKeeping, JobFields
<1>5. q.todo = <<"clearSub", "clearUser">> \o t
  <2>1. <<"clearSub", "clearUser">> \in Seq(Names)
    <3>1. "clearSub" \in Names /\ "clearUser" \in Names
      BY TaskNames
    <3> QED BY <3>1
  <2>2. steps = <<"clearSub", "clearUser">>
    BY <2>1, JoinFacts
  <2> QED BY <1>4, <2>2
<1>6. SubT(new, accounts) /\ new.id = s.id /\ (\A f \in SubFields \ {"status"} : new[f] = s[f]) /\ new.status = Toggled(s)
  BY <1>2 DEF SubT, SubRecords, SubFields, Toggled
<1> HIDE DEF q, steps, new
<1>7. Plain(t) /\ ~RemoveDue(t) /\ ~SyncAhead(t)
  BY <1>0, LateTail
<1>8. \A c, x : Aware(q, c, x)
  BY <1>0, <1>5, <1>7, LateAware
<1>9. ASSUME u \notin disturbed', s = Current(u), Agree(s, a) \/ Mends(job[d], s, a) PROVE Agree(new, a)
  <2>1. Aware(job[d], s, a)
    BY <1>4, <1>9, Disturbs, JobAware
  <2>2. First(job[d].todo, {"status"})
    BY <1>0 DEF First
  <2>3. a # None /\ ((a.status = "DISABLED") <=> (Toggled(s) = "DISABLED"))
    BY <2>1, <2>2 DEF Aware
  <2>4. a.uuid = s.account /\ \A f \in Shared : s[f] = a[f]
    BY <1>1, <1>9, <2>2, <2>3 DEF Mends, Tied, Agree, Agrees
  <2>5. new.account = s.account /\ \A f \in Shared : new[f] = s[f]
    BY <1>6 DEF SubFields, Shared, Limits
  <2>6. new # None
    BY <1>0, <1>6 DEF SubT
  <2> QED BY <1>6, <2>3, <2>4, <2>5, <2>6 DEF Agree, Agrees
<1>10. Head(job[d].todo) \in SubUses \ {"create", "point"}
  BY <1>0 DEF SubUses
<1> QED BY <1>2, <1>3, <1>4, <1>6, <1>8, <1>9, <1>10, BilledMended

\* A confirmed deletion has the account ahead, and needs to know nothing before billing's pointer is gone.
LEMMA DeletionAware ==
  ASSUME NEW q, NEW t \in Seq(Names), Dull(t), q.todo = <<"clearSub", "clearUser">> \o (Deletion \o t)
  PROVE  (\A c, a : Aware(q, c, a)) /\ RemoveNext(q.todo) /\ ~First(q.todo, {"status"})
<1>0. {"drop", "clearUser", "clearSub", "remove"} \subseteq Names
  BY TaskNames
<1>1. PICK r, s : Cons(s, "remove", t) /\ Cons(r, "clearUser", s) /\ Cons(Deletion \o t, "drop", r)
  BY <1>0, Chain3 DEF Deletion
<1> DEFINE p == Deletion \o t
<1>2. p \in Seq(Names)
  BY <1>1 DEF Cons
<1> HIDE DEF p
<1>3. PICK o : Cons(o, "clearUser", p) /\ Cons(<<"clearSub", "clearUser">> \o p, "clearSub", o)
  BY <1>0, <1>2, Chain2
<1>4. Cons(s, "remove", t) /\ Hushed(t)
  BY <1>1, DullHushed
<1>5. RemoveNext(s) /\ ~ApplyDue(s)
  BY <1>4, ConsAhead DEF Hushed
<1>6. Cons(r, "clearUser", s)
  BY <1>1
<1>7. RemoveNext(r) /\ ~ApplyDue(r)
  BY <1>5, <1>6, ConsAhead DEF Removing
<1>8. Cons(p, "drop", r)
  BY <1>1 DEF p
<1>9. RemoveNext(p) /\ ~ApplyDue(p) /\ DropAhead(p)
  BY <1>7, <1>8, ConsAhead DEF Removing
<1>10. Cons(o, "clearUser", p)
  BY <1>3
<1>11. RemoveNext(o) /\ ~ApplyDue(o) /\ DropAhead(o)
  BY <1>9, <1>10, ConsAhead DEF Removing
<1>12. Cons(q.todo, "clearSub", o)
  BY <1>3 DEF p
<1>13. RemoveNext(q.todo) /\ ~ApplyDue(q.todo) /\ DropAhead(q.todo)
  BY <1>11, <1>12, ConsAhead DEF Removing
<1>14. q.todo # <<>> /\ Head(q.todo) = "clearSub"
  BY <1>12 DEF Cons
<1> QED BY <1>13, <1>14 DEF Aware, Comparing, Sync1, First

\* A deletion is armed, or confirmed.
LEMMA ConfirmMended ==
  ASSUME MendInv, KeptInv, NEW own, NEW d \in Desks, DeskInv, Engaged(own, d), Own(d), ConfirmDelete(d), NEW u, u = job[d].user
  PROVE  MendInv'
<1>0. /\ job[d].todo # <<>> /\ Head(job[d].todo) = "confirm" /\ d \in Jobs /\ job[d].todo \in Seq(Names)
      /\ DOMAIN job = Jobs /\ DOMAIN job[d] = JobFields /\ "confirm" \notin Menders
  BY EngagedFacts DEF ConfirmDelete, At, Menders, Pushing, Removing
<1>1. CASE Raise(d) /\ UNCHANGED <<stores, caches, due, faults, desk>>
  BY <1>0, <1>1, RaisedMended DEF stores
<1>2. CASE Arm(d, "delete")
  <2>1. job' = [job EXCEPT ![d].todo = Again(d)] /\ UNCHANGED <<person, subs, account, disturbed>>
    BY <1>2 DEF Arm, stores, history
  <2>2. Again(d) \in Seq(Smooth)
    BY <1>0, AgainSmooth
  <2> QED BY <1>0, <2>1, <2>2, DecidedMended
<1>3. CASE /\ job[d].sub # None
           /\ BillSub(d, [job[d].sub EXCEPT !.status = "DELETED"], {"status"}, Deletion \o Render("MAIN"))
  <2> DEFINE s == job[d].sub
             new == [job[d].sub EXCEPT !.status = "DELETED"]
             t == Tail(job[d].todo)
             m == Render("MAIN")
             more == Deletion \o m
             q == [job[d] EXCEPT !.sub = new, !.wrote = TRUE, !.todo = <<"clearSub", "clearUser">> \o more \o t]
  <2>1. SubT(s, accounts) /\ Owned(own, s, job[d].user) /\ DOMAIN s = SubFields
    BY <1>0, <1>3, SubOwned
  <2>2. SubT(new, accounts) /\ new.id = s.id /\ \A f \in SubFields \ {"status"} : new[f] = s[f]
    BY <2>1 DEF SubT, SubRecords, SubFields
  <2>3. BillSubKeeping(d, new, {"status"}, new, more)
    BY <1>3 DEF BillSub
  <2>5. job'[d] = q
    BY <1>0, <2>3 DEF BillSubKeeping
  <2>6. q.todo = <<"clearSub", "clearUser">> \o more \o t /\ q.wrote
    BY <1>0 DEF JobFields
  <2> HIDE DEF q, new
  <2>7. t \in Seq(Names) /\ Dull(t)
    BY <1>0, ClosedDull
  <2>8. m \in Seq(Names) /\ Dull(m)
    BY <1>0, AgainSmooth, SmoothDull
  <2>9. m \o t \in Seq(Names) /\ Dull(m \o t)
    BY <2>7, <2>8, DullJoins
  <2>10. q.todo = <<"clearSub", "clearUser">> \o (Deletion \o (m \o t))
    <3>1. Deletion \in Seq(Names) /\ <<"clearSub", "clearUser">> \in Seq(Names)
      <4>1. "drop" \in Names /\ "clearUser" \in Names /\ "remove" \in Names /\ "clearSub" \in Names
        BY DEF Names, Special, Ordinary
      <4> QED BY <4>1 DEF Deletion
    <3> HIDE DEF m, t
    <3>2. Deletion \o m \in Seq(Names)
      BY <2>8, <3>1
    <3>3. (<<"clearSub", "clearUser">> \o more) \o t = <<"clearSub", "clearUser">> \o (more \o t)
      BY <2>7, <3>1, <3>2, ConcatAssociative
    <3>4. more \o t = Deletion \o (m \o t)
      BY <2>7, <2>8, <3>1, ConcatAssociative
    <3> QED BY <2>6, <3>3, <3>4
  <2> HIDE DEF m, t, more
  <2>11. (\A c, a : Aware(q, c, a)) /\ RemoveNext(q.todo) /\ ~First(q.todo, {"status"})
    BY <2>9, <2>10, DeletionAware
  <2>12. \A c, a : Mends(q, c, a)
    BY <2>6, <2>11 DEF Mends, Mending
  <2>13. Head(job[d].todo) \in SubUses \ {"create", "point"}
    BY <1>0 DEF SubUses
  <2> QED BY <2>1, <2>2, <2>3, <2>5, <2>11, <2>12, <2>13, BilledMended
<1> QED BY <1>1, <1>2, <1>3 DEF ConfirmDelete

\* The pointer to the current subscription is removed; the account is next.
LEMMA DropMended ==
  ASSUME MendInv, NEW own, NEW d \in Desks, Engaged(own, d), Own(d), Drop(d), NEW u, u = job[d].user
  PROVE  MendInv'
<1> DEFINE l == job[d].todo
           t == Tail(job[d].todo)
           r == [job[d] EXCEPT !.wrote = TRUE]
           q == Goes(r, <<>>)
<1>0. /\ DOMAIN person = Users /\ DOMAIN job = Jobs /\ d \in Jobs /\ DOMAIN job[d] = JobFields /\ u = Target[d] /\ u \in Users
      /\ l \in Seq(Names) /\ l # <<>> /\ t \in Seq(Names) /\ Head(l) = "drop" /\ Sound(job[d], accounts) /\ JobOK(own, d)
      /\ StoresTyped /\ person[u] \in UserRecords
  BY EngagedFacts DEF Drop, Unset, At, StoresTyped, PersonsTyped
<1>1. /\ person' = [person EXCEPT ![u].current = None] /\ UNCHANGED <<subs, account>>
      /\ job'[d] = q /\ disturbed \subseteq disturbed'
      /\ u \notin disturbed' => \A k \in Jobs : k # d => ~Holds(k, u)
  BY <1>0 DEF Drop, Unset
<1>2. Current(u)' = None
  <2>1. person'[u].current = None
    BY <1>0, <1>1 DEF UserRecords
  <2> QED BY <2>1 DEF Current
<1>3. \A v \in Users : v # u => Same(v)
  BY <1>0, <1>1 DEF Same, Like, Current
<1>4. DOMAIN r = JobFields /\ r.user = u /\ r.todo = l /\ r.wrote
  BY <1>0 DEF JobFields
<1> HIDE DEF r
<1>5. First(t, {"clearUser"}) /\ Plain(Tail(t))
  BY <1>0, SpecialHeads DEF DropU, ClearU
<1>6. q.todo = t /\ q.user = u /\ q.wrote
  <2>1. t # <<>>
    BY <1>5 DEF First
  <2> QED BY <1>0, <1>4, <2>1, Popped
<1> HIDE DEF q
<1>7. RemoveNext(t)
  <2>1. DropAhead(l)
    BY <1>0, AheadFirst
  <2>2. RemoveNext(l)
    BY <1>0, <2>1 DEF Sound
  <2> QED BY <1>0, <2>2, AheadFirst
<1>8. \A a : Aware(q, None, a)
  <2>1. ~First(t, {"create", "point"}) /\ ~First(t, {"keepSub"}) /\ ~Sync1(t) /\ ~First(t, {"status"})
    BY <1>5 DEF First, Sync1
  <2>2. ~ApplyDue(t)
    <3>1. t # <<>> /\ Head(t) = "clearUser"
      BY <1>5 DEF First
    <3>2. ~ApplyAhead(Tail(t))
      BY <1>5 DEF ApplyAhead, Reaches, Plain, Special
    <3>3. ~ApplyAhead(t)
      BY <1>0, <3>1, <3>2, AheadFirst
    <3> QED BY <3>3, AheadMore
  <2> QED BY <1>6, <2>1, <2>2 DEF Aware, Comparing
<1>9. \A c, a : Mends(q, c, a)
  BY <1>5, <1>6, <1>7 DEF Mends, Mending, First
<1> QED BY <1>1, <1>2, <1>3, <1>6, <1>8, <1>9, PartMended

\* The account goes, as billing's pointer did.
LEMMA RemoveMended ==
  ASSUME MendInv, NEW own, NEW d \in Desks, Engaged(own, d), Own(d), Remove(d), NEW u, u = job[d].user
  PROVE  MendInv'
<1> DEFINE l == job[d].todo
           t == Tail(job[d].todo)
           r == [job[d] EXCEPT !.wrote = TRUE]
           q == Goes(r, <<>>)
<1>0. /\ DOMAIN account = Users /\ DOMAIN job = Jobs /\ d \in Jobs /\ DOMAIN job[d] = JobFields /\ u = Target[d] /\ u \in Users
      /\ l \in Seq(Names) /\ l # <<>> /\ t \in Seq(Names) /\ Head(l) = "remove" /\ Sound(job[d], accounts) /\ JobOK(own, d)
      /\ None \notin Users
  BY EngagedFacts, AccountAssumption DEF Remove, At
<1>1. CASE Raise(d) /\ UNCHANGED account
  BY <1>1, RaisedMended DEF Remove
<1>2. CASE ~(Raise(d) /\ UNCHANGED account)
  <2>1. /\ UNCHANGED <<person, subs>> /\ account' = [account EXCEPT ![u] = None] /\ Disturb(d, u) /\ job'[d] = q
    BY <1>0, <1>2 DEF Remove
  <2>2. DOMAIN r = JobFields /\ r.user = u /\ r.todo = l
    BY <1>0 DEF JobFields
  <2> HIDE DEF r
  <2>3. (q.todo = t /\ q.user = u) \/ q = IdleJob
    BY <1>0, <2>2, Popped
  <2> HIDE DEF q
  <2>4. Plain(l) /\ Plain(t)
    <3>1. "remove" \notin Special \cup {"user", "sub"}
      BY DEF Special
    <3>2. Plain(l)
      BY <1>0, <3>1, PlainHead
    <3> QED BY <1>0, <3>2, RestFacts
  <2>5. Dull(t)
    <3>1. After(l, Closing, Uses) /\ "remove" \in Closing
      BY <1>0 DEF Sound, Closing
    <3> QED BY <1>0, <2>4, <3>1, ClosingDull
  <2>6. q.user \in {u, None} /\ \A c, a : Aware(q, c, a)
    BY <1>0, <2>3, <2>5, DullAware, IdleAware
  <2>7. ASSUME u \notin disturbed' PROVE Agree(Current(u)', account'[u])
    <3>1. Aware(job[d], Current(u), account[u])
      BY <2>1, <2>7, Disturbs, JobAware
    <3>2. RemoveNext(l)
      BY <1>0, AheadFirst
    <3>3. ~DropAhead(l)
      BY <2>4 DEF DropAhead, Reaches, Plain, Special
    <3>4. Current(u) = None
      BY <3>1, <3>2, <3>3 DEF Aware
    <3>5. Current(u)' = None /\ account'[u] = None
      BY <1>0, <2>1, <3>4 DEF Current
    <3> QED BY <3>5 DEF Agree
  <2>8. disturbed \subseteq disturbed' /\ (u \notin disturbed' => \A k \in Jobs : k # d => ~Holds(k, u))
    BY <2>1, Disturbs DEF Disturb
  <2>9. \A v \in Users : v # u => Same(v)
    BY <1>0, <2>1 DEF Same, Like, Current
  <2> QED BY <2>1, <2>6, <2>7, <2>8, <2>9, WroteMended
<1> QED BY <1>1, <1>2

-----------------------------------------------------------------------------
(* Synchronisation and plans, both stores                                  *)

\* What a job at the awaits of a synchronisation knows, and will mend.
LEMMA OneMends ==
  ASSUME NEW t, Hushed(t), NEW h \in {"remove", "push", "create"}, NEW q, Cons(q.todo, h, t)
  PROVE  /\ \A s, a : (h = "remove" => s = None) /\ (h = "create" => Agrees(q.sub, a)) => Aware(q, s, a)
         /\ q.wrote => \A s, a : Mends(q, s, a)
<1>1. /\ \A heads : First(q.todo, heads) <=> h \in heads
      /\ Sync1(q.todo) <=> h \in {"fetch", "compare"}
      /\ ApplyDue(q.todo) <=> h = "apply" \/ (h # "restore" /\ ApplyDue(t))
      /\ RemoveNext(q.todo) <=> h = "remove" \/ (h \in Removing /\ RemoveNext(t))
      /\ PushNext(q.todo) <=> h = "push" \/ (h \in Pushing /\ PushNext(t))
  BY ConsAhead
<1>2. ~ApplyDue(t) /\ ~RemoveNext(t)
  BY DEF Hushed
<1>3. ~ApplyDue(q.todo) /\ (RemoveNext(q.todo) <=> h = "remove")
  BY <1>1, <1>2
<1>4. ~Comparing(q.todo)
  BY <1>1 DEF Comparing
<1>5. ~First(q.todo, {"status"}) /\ ~First(q.todo, {"point"}) /\ (First(q.todo, {"create", "point"}) <=> h = "create")
  BY <1>1
<1>6. q.wrote => Mending(q)
  BY <1>1, <1>5 DEF Mending
<1> QED BY <1>3, <1>4, <1>5, <1>6 DEF Aware, Mends

\* A list that applies an account mends, and knows that account.
LEMMA SyncMends ==
  ASSUME NEW t, Hushed(t), NEW q, q.todo = SyncUser \o t
  PROVE  /\ \A s, a : a # None /\ Like(a, q.remna) => Aware(q, s, a)
         /\ q.wrote => \A s, a : Mends(q, s, a)
<1>1. ~RemoveDue(q.todo) /\ ~SyncAhead(q.todo) /\ \A heads : First(q.todo, heads) <=> "user" \in heads
  BY SyncList
<1>2. ApplyAhead(q.todo)
  <2>1. PICK a, b : Cons(b, "apply", t) /\ Cons(a, "sub", b) /\ Cons(q.todo, "user", a)
    <3>1. "user" \in Names /\ "sub" \in Names /\ "apply" \in Names /\ t \in Seq(Names)
      BY TaskNames DEF Hushed
    <3> QED BY <3>1, Chain3 DEF SyncUser
  <2>2. Cons(b, "apply", t)
    BY <2>1
  <2>3. ApplyAhead(b)
    BY <2>2, ConsAhead
  <2>4. Cons(a, "sub", b)
    BY <2>1
  <2>5. ApplyAhead(a)
    BY <2>3, <2>4, ConsAhead
  <2>6. Cons(q.todo, "user", a)
    BY <2>1
  <2> QED BY <2>5, <2>6, ConsAhead
<1>3. ~RemoveNext(q.todo) /\ ~Comparing(q.todo)
  <2>1. ~RemoveNext(q.todo)
    BY <1>1, AheadMore
  <2>2. ~Sync1(q.todo) /\ ~First(q.todo, {"keepSub"})
    BY <1>1 DEF Sync1
  <2> QED BY <2>1, <2>2 DEF Comparing
<1>4. ~First(q.todo, {"status"}) /\ ~First(q.todo, {"create", "point"})
  BY <1>1
<1> QED BY <1>2, <1>3, <1>4 DEF Aware, Mends, Mending

\* A list that restores an account and then applies it mends.
LEMMA RestoreMends ==
  ASSUME NEW t, Hushed(t), NEW q, Cons(q.todo, "restore", SyncUser \o t)
  PROVE  /\ \A s, a : Aware(q, s, a)
         /\ q.wrote => \A s, a : Mends(q, s, a)
<1> DEFINE m == SyncUser \o t
           p == [todo |-> m, wrote |-> TRUE, remna |-> None]
<1>1. ~RemoveDue(m) /\ \A heads : First(m, heads) <=> "user" \in heads
  BY SyncList
<1>2. ApplyAhead(m) \/ PushNext(m) \/ RemoveNext(m) \/ SyncAhead(m)
  <2>1. p.todo = SyncUser \o t /\ p.wrote
    OBVIOUS
  <2>2. p.todo = m
    OBVIOUS
  <2> HIDE DEF p, m
  <2>3. \A s, a : Mends(p, s, a)
    BY <2>1, SyncMends
  <2>4. Mending(p)
    BY <2>3 DEF Mends
  <2>5. ~First(p.todo, {"status", "create", "point"})
    BY <1>1, <2>2
  <2> QED BY <2>2, <2>4, <2>5 DEF Mending
<1>3. ~SyncAhead(m) /\ ~RemoveNext(m) /\ ~PushNext(m)
  <2>1. ~SyncAhead(m) /\ ~PushDue(m)
    BY SyncList
  <2>2. ~PushNext(m)
    <3>1. First(m, {"user"})
      BY <1>1
    <3>2. m # <<>> /\ Head(m) = "user" /\ m \in Seq(Names)
      <4>1. m \in Seq(Names)
        BY SyncList
      <4> QED BY <3>1, <4>1 DEF First
    <3> HIDE DEF m
    <3> QED BY <3>2, AheadFirst DEF Pushing
  <2> QED BY <1>1, <2>1, <2>2, AheadMore
<1> HIDE DEF m, p
<1>4. Cons(q.todo, "restore", m)
  BY DEF m
<1>5. ApplyAhead(q.todo) /\ ~ApplyDue(q.todo) /\ ~RemoveNext(q.todo) /\ ~Sync1(q.todo) /\ \A heads : First(q.todo, heads) <=> "restore" \in heads
  BY <1>2, <1>3, <1>4, ConsAhead DEF Removing
<1>6. ~Comparing(q.todo) /\ ~First(q.todo, {"status"}) /\ ~First(q.todo, {"create", "point"})
  BY <1>5 DEF Comparing
<1> QED BY <1>5, <1>6 DEF Aware, Mends, Mending

\* More awaits before the rest.
LEMMA ThenGoes ==
  ASSUME NEW own, NEW j, Engaged(own, j), NEW steps \in Seq(Names), steps # <<>>, Then(j, steps), NEW q, q = job'[j]
  PROVE  /\ q.todo = steps \o Tail(job[j].todo) /\ q.user = job[j].user /\ q.usr = job[j].usr /\ q.sub = job[j].sub
         /\ q.remna = job[j].remna /\ q.wrote = job[j].wrote
<1> DEFINE t == Tail(job[j].todo)
           g == [job[j] EXCEPT !.todo = steps \o t]
<1>0. t \in Seq(Names) /\ DOMAIN job = Jobs /\ j \in Jobs /\ DOMAIN job[j] = JobFields
  BY EngagedFacts
<1>1. steps \o t # <<>>
  <2> HIDE DEF t
  <2> QED BY <1>0
<1>2. q = g
  BY <1>0, <1>1 DEF Then, Goes
<1>3. /\ g.todo = steps \o t /\ g.user = job[j].user /\ g.usr = job[j].usr /\ g.sub = job[j].sub
      /\ g.remna = job[j].remna /\ g.wrote = job[j].wrote
  BY <1>0 DEF JobFields
<1> HIDE DEF g
<1> QED BY <1>2, <1>3

\* The bot's side is compared with what the panel has.
LEMMA CompareMended ==
  ASSUME MendInv, NEW own, NEW d \in Desks, Engaged(own, d), Own(d), Compare(d), NEW u, u = job[d].user
  PROVE  MendInv'
<1> DEFINE q == job'[d]
           t == Tail(job[d].todo)
           s == job[d].sub
<1>0. /\ UNCHANGED <<person, subs, account, disturbed>> /\ job[d].todo \in Seq(Names) /\ job[d].todo # <<>>
      /\ Head(job[d].todo) = "compare"
      /\ Then(d, IF s = None THEN <<"remove">> ELSE IF Reachable(Target[d], s.account) THEN <<"push">> ELSE <<"restore">> \o SyncUser)
  BY EngagedFacts DEF Compare, At, stores, history
<1>1. t \in Seq(Names) /\ Hushed(t)
  BY <1>0, ClosedDull
<1>2. {"remove", "push", "restore", "user", "sub", "apply"} \subseteq Names
  BY TaskNames
<1>3. u \notin disturbed => s = Current(u)
  <2>1. Comparing(job[d].todo)
    BY <1>0 DEF Comparing, Sync1, First
  <2> QED BY <2>1, JobAware DEF Aware
<1>4. /\ q.user = u
      /\ \A a : Aware(q, s, a)
      /\ job[d].wrote => \A c, a : Mends(q, c, a)
  <2>1. CASE s = None
    <3>1. Then(d, <<"remove">>) /\ <<"remove">> \in Seq(Names) /\ <<"remove">> # <<>>
      BY <1>0, <1>2, <2>1
    <3>2. q.todo = <<"remove">> \o t /\ q.user = u /\ q.wrote = job[d].wrote
      BY <3>1, ThenGoes
    <3>3. Cons(q.todo, "remove", t)
      BY <1>1, <1>2, <3>2, ConsMade
    <3> HIDE DEF q, t
    <3> QED BY <1>1, <2>1, <3>2, <3>3, OneMends
  <2>2. CASE s # None /\ Reachable(Target[d], s.account)
    <3>1. Then(d, <<"push">>) /\ <<"push">> \in Seq(Names) /\ <<"push">> # <<>>
      BY <1>0, <1>2, <2>2
    <3>2. q.todo = <<"push">> \o t /\ q.user = u /\ q.wrote = job[d].wrote
      BY <3>1, ThenGoes
    <3>3. Cons(q.todo, "push", t)
      BY <1>1, <1>2, <3>2, ConsMade
    <3> HIDE DEF q, t
    <3> QED BY <1>1, <3>2, <3>3, OneMends
  <2>3. CASE s # None /\ ~Reachable(Target[d], s.account)
    <3> DEFINE steps == <<"restore">> \o SyncUser
    <3>1. Then(d, steps)
      BY <1>0, <2>3
    <3>2. SyncUser \in Seq(Names) /\ SyncUser \o t \in Seq(Names) /\ steps \in Seq(Names) /\ steps # <<>>
      <4>1. SyncUser \in Seq(Names)
        BY <1>2 DEF SyncUser
      <4>2. Cons(steps, "restore", SyncUser)
        BY <1>2, <4>1, ConsMade
      <4>3. SyncUser \o t \in Seq(Names)
        BY <1>1, <4>1, JoinFacts
      <4> QED BY <4>2, <4>3 DEF Cons
    <3>3. steps \o t = <<"restore">> \o (SyncUser \o t)
      <4>1. <<"restore">> \in Seq(Names)
        BY <1>2
      <4> QED BY <1>1, <3>2, <4>1, JoinFacts
    <3>4. Cons(steps \o t, "restore", SyncUser \o t)
      BY <1>2, <3>2, <3>3, ConsMade
    <3> HIDE DEF steps
    <3>5. q.todo = steps \o t /\ q.user = u /\ q.wrote = job[d].wrote
      BY <3>1, <3>2, ThenGoes
    <3>6. Cons(q.todo, "restore", SyncUser \o t)
      BY <3>4, <3>5
    <3> HIDE DEF q, t
    <3> QED BY <1>1, <3>5, <3>6, RestoreMends
  <2> QED BY <2>1, <2>2, <2>3
<1>5. \A v : Same(v)
  BY <1>0, StoresAlike
<1>6. u \notin disturbed' => /\ Aware(q, Current(u), account[u])
                             /\ Mends(job[d], Current(u), account[u]) => Mends(q, Current(u), account[u])
  <2>1. \A c, a : Mends(job[d], c, a) => job[d].wrote
    BY DEF Mends, Mending
  <2> HIDE DEF q
  <2> QED BY <1>0, <1>3, <1>4, <2>1
<1> HIDE DEF q
<1>7. disturbed \subseteq disturbed' /\ q = job'[d]
  BY <1>0 DEF q
<1> QED BY <1>4, <1>5, <1>6, <1>7, SameMended

\* The account is fetched; without one the subscription is deleted.
LEMMA FetchMended ==
  ASSUME MendInv, KeptInv, NEW own, NEW d \in Desks, Engaged(own, d), Own(d), Fetch(d), NEW u, u = job[d].user
  PROVE  MendInv'
<1> DEFINE t == Tail(job[d].todo)
           s == job[d].sub
           a == account[u]
           steps == <<"dropActor", "clearActor">>
           q == job'[d]
<1>0. /\ job[d].todo # <<>> /\ Head(job[d].todo) = "fetch" /\ job[d].todo \in Seq(Names) /\ DOMAIN job[d] = JobFields
      /\ u = Target[d] /\ DOMAIN job = Jobs /\ d \in Jobs
  BY EngagedFacts DEF Fetch, At
<1>1. \/ s = None /\ a = None /\ Then(d, steps) /\ UNCHANGED <<person, subs, account, disturbed>>
      \/ s # None /\ a = None /\ BillSub(d, [s EXCEPT !.status = "DELETED"], {"status"}, steps)
      \/ /\ a # None /\ job' = [job EXCEPT ![d] = [Goes(@, SyncUser) EXCEPT !.remna = a]]
         /\ UNCHANGED <<person, subs, account, disturbed>>
  BY <1>0 DEF Fetch, stores, history
<1>2. t \in Seq(Names) /\ Dull(t) /\ Hushed(t)
  BY <1>0, ClosedDull
<1>3. steps \in Seq(Names) /\ steps # <<>> /\ steps \o t \in Seq(Names) /\ Dull(steps \o t)
  <2>1. steps \in Seq(Smooth)
    BY DEF Smooth
  <2>2. steps \in Seq(Names) /\ Dull(steps)
    BY <2>1, SmoothDull
  <2>3. steps # <<>>
    OBVIOUS
  <2> HIDE DEF steps, t
  <2> QED BY <1>2, <2>2, <2>3, DullJoins
<1>4. u \notin disturbed => s = Current(u)
  <2>1. Comparing(job[d].todo)
    BY <1>0 DEF Comparing, Sync1, First
  <2> QED BY <2>1, JobAware DEF Aware
<1>5. \A c, x : Mends(job[d], c, x) => job[d].wrote
  BY DEF Mends, Mending
<1>s. UNCHANGED <<person, subs, account>> => \A v : Same(v)
  BY StoresAlike
<1>6. CASE s = None /\ a = None /\ Then(d, steps) /\ UNCHANGED <<person, subs, account, disturbed>>
  <2>1. q.todo = steps \o t /\ q.user = u
    BY <1>3, <1>6, ThenGoes
  <2> HIDE DEF q, steps, t
  <2>2. \A c, x : Aware(q, c, x)
    BY <1>3, <2>1, DullAware
  <2>3. u \notin disturbed' => Agree(Current(u), account[u])
    BY <1>4, <1>6 DEF Agree
  <2>4. disturbed \subseteq disturbed' /\ q = job'[d]
    BY <1>6 DEF q
  <2> QED BY <1>6, <1>s, <2>1, <2>2, <2>3, <2>4, SameMended
<1>7. CASE s # None /\ a = None /\ BillSub(d, [s EXCEPT !.status = "DELETED"], {"status"}, steps)
  <2> DEFINE new == [s EXCEPT !.status = "DELETED"]
             p == [job[d] EXCEPT !.sub = new, !.wrote = TRUE, !.todo = <<"clearSub", "clearUser">> \o steps \o t]
  <2>1. SubT(s, accounts) /\ Owned(own, s, job[d].user) /\ DOMAIN s = SubFields
    BY <1>0, <1>7, SubOwned
  <2>2. SubT(new, accounts) /\ new.id = s.id /\ new.status = "DELETED" /\ \A f \in SubFields \ {"status"} : new[f] = s[f]
    BY <2>1 DEF SubT, SubRecords, SubFields
  <2>3. BillSubKeeping(d, new, {"status"}, new, steps)
    BY <1>7 DEF BillSub
  <2>4. q = p
    BY <1>0, <2>3 DEF BillSubKeeping
  <2>5. p.todo = <<"clearSub", "clearUser">> \o steps \o t
    BY <1>0 DEF JobFields
  <2> HIDE DEF p, new, q
  <2>6. q.todo = <<"clearSub", "clearUser">> \o (steps \o t)
    <3>1. <<"clearSub", "clearUser">> \in Seq(Names)
      <4>1. "clearUser" \in Names /\ "clearSub" \in Names
        BY TaskNames
      <4> QED BY <4>1
    <3> HIDE DEF steps, t
    <3> QED BY <1>2, <1>3, <2>4, <2>5, <3>1, JoinFacts
  <2>7. \A c, x : Aware(q, c, x)
    <3> DEFINE l == steps \o t
    <3>1. l \in Seq(Names) /\ Dull(l)
      BY <1>3
    <3>2. q.todo = <<"clearSub", "clearUser">> \o l
      BY <2>6
    <3> HIDE DEF l, steps, t
    <3>3. PICK o : Cons(o, "clearUser", l) /\ Cons(q.todo, "clearSub", o)
      BY <3>1, <3>2, TaskNames, Chain2
    <3>4. Hushed(l)
      BY <3>1, DullHushed
    <3>5. Cons(o, "clearUser", l)
      BY <3>3
    <3>6. ~ApplyDue(o) /\ ~RemoveNext(o)
      BY <3>4, <3>5, ConsAhead DEF Hushed
    <3>7. Cons(q.todo, "clearSub", o)
      BY <3>3
    <3>8. ~ApplyDue(q.todo) /\ ~RemoveNext(q.todo) /\ ~Sync1(q.todo) /\ \A heads : First(q.todo, heads) <=> "clearSub" \in heads
      BY <3>6, <3>7, ConsAhead
    <3>9. ~First(q.todo, {"create", "point"}) /\ ~First(q.todo, {"status"}) /\ ~First(q.todo, {"keepSub"})
      BY <3>8
    <3> QED BY <3>8, <3>9 DEF Aware, Comparing
  <2>8. Agree(new, account[u])
    <3>1. new # None
      BY <2>2, RecordsAssumption DEF SubT
    <3> QED BY <1>7, <2>2, <3>1 DEF Agree
  <2>9. Head(job[d].todo) \in SubUses \ {"create", "point"}
    BY <1>0 DEF SubUses
  <2>10. q = job'[d]
    BY DEF q
  <2> HIDE DEF steps, t
  <2> QED BY <2>1, <2>2, <2>3, <2>7, <2>8, <2>9, <2>10, BilledMended
<1>8. CASE /\ a # None /\ job' = [job EXCEPT ![d] = [Goes(@, SyncUser) EXCEPT !.remna = a]]
           /\ UNCHANGED <<person, subs, account, disturbed>>
  <2> DEFINE w == SyncUser \o t
             p == [job[d] EXCEPT !.todo = w, !.remna = a]
  <2>1. w # <<>>
    <3>1. First(w, {"user"})
      BY <1>2, SyncList
    <3> QED BY <3>1 DEF First
  <2>2. Goes(job[d], SyncUser) = [job[d] EXCEPT !.todo = w]
    BY <2>1 DEF Goes
  <2> HIDE DEF w
  <2>3. [Goes(job[d], SyncUser) EXCEPT !.remna = a] = p
    BY <1>0, <2>2 DEF JobFields
  <2>4. p.user = u /\ p.todo = w /\ p.remna = a /\ p.wrote = job[d].wrote
    BY <1>0 DEF JobFields
  <2> HIDE DEF p
  <2>5. q = p
    BY <1>0, <1>8, <2>3
  <2> HIDE DEF q, t
  <2>6. q.todo = SyncUser \o t
    BY <2>4, <2>5 DEF w, t
  <2>7. Like(a, q.remna)
    BY <2>4, <2>5 DEF Like
  <2>8. Aware(q, Current(u), a) /\ (q.wrote => \A c, x : Mends(q, c, x))
    BY <1>2, <1>8, <2>6, <2>7, SyncMends
  <2>9. disturbed \subseteq disturbed' /\ q = job'[d] /\ q.user = u /\ q.wrote = job[d].wrote
    BY <1>8, <2>4, <2>5 DEF q
  <2> QED BY <1>5, <1>8, <1>s, <2>8, <2>9, SameMended
<1> HIDE DEF q, steps, t, s
<1> QED BY <1>1, <1>6, <1>7, <1>8

\* What a synchronisation writes at billing agrees with the account it was read from.
LEMMA SyncedAgrees ==
  ASSUME NEW s, NEW a, NEW n, SubT(s, n), AccT(a, n)
  PROVE  Agrees(Synced(s, a), a)
<1> DEFINE m == Synced(s, a)
<1>1. s \in SubRecords /\ DOMAIN s = SubFields /\ a \in AccountRecords /\ DOMAIN a = AccountFields /\ a # None
  BY RecordsAssumption DEF SubT, SubRecords, SubFields, AccT, AccountRecords, AccountFields
<1>2. m = [f \in SubFields |-> IF f = "account" THEN a.uuid ELSE IF f \in AccountFields THEN a[f] ELSE s[f]]
  BY <1>1 DEF Synced
<1>3. m.account = a.uuid /\ m.status = a.status /\ \A f \in Shared : m[f] = a[f]
  BY <1>2 DEF SubFields, AccountFields, Shared, Limits
<1> HIDE DEF m
<1> QED BY <1>1, <1>3 DEF Agrees, m

\* A subscription imported from an account agrees with it.
LEMMA ImportedAgrees ==
  ASSUME NEW a, NEW n, AccT(a, n)
  PROVE  Agrees(Imported(a), a)
<1> DEFINE m == Imported(a)
<1>1. a # None
  BY RecordsAssumption DEF AccT
<1>2. /\ m.account = a.uuid /\ m.days = a.days /\ m.traffic_limit = a.traffic_limit /\ m.device_limit = a.device_limit
      /\ m.internal_squads = a.internal_squads /\ m.external_squad = a.external_squad
      /\ IF a.days < Today THEN m.status = "EXPIRED" ELSE m.status = a.status
  BY DEF Imported
<1> HIDE DEF m
<1>3. \A f \in Shared : m[f] = a[f]
  BY <1>2 DEF Shared, Limits
<1> QED BY <1>1, <1>2, <1>3 DEF Agrees, m

\* Billing takes what the panel said.
LEMMA ApplyMended ==
  ASSUME MendInv, KeptInv, NEW own, NEW d \in Desks, Engaged(own, d), Own(d), Apply(d), NEW u, u = job[d].user
  PROVE  MendInv'
<1> DEFINE t == Tail(job[d].todo)
           s == job[d].sub
           b == job[d].remna
           q == job'[d]
<1>0. /\ job[d].todo # <<>> /\ Head(job[d].todo) = "apply" /\ job[d].todo \in Seq(Names) /\ DOMAIN job[d] = JobFields
      /\ DOMAIN job = Jobs /\ d \in Jobs /\ Sound(job[d], accounts)
  BY EngagedFacts DEF Apply, At
<1>1. ApplyDue(job[d].todo) /\ AccT(b, accounts)
  <2>1. ApplyDue(job[d].todo)
    BY <1>0, AheadFirst
  <2> QED BY <1>0, <2>1 DEF Sound
<1>2. t \in Seq(Names) /\ Dull(t) /\ Hushed(t) /\ Plain(t) /\ ~RemoveDue(t) /\ ~SyncAhead(t)
  BY <1>0, ClosedDull, LateTail
<1>3. u \notin disturbed => account[u] # None /\ Like(account[u], b)
  BY <1>1, JobAware DEF Aware
<1>4. CASE s = None
  <2> DEFINE x == Imported(b)
             w == <<"create">> \o t
             p == [job[d] EXCEPT !.todo = w, !.sub = x]
  <2>1. /\ job' = [job EXCEPT ![d] = [Goes(job[d], <<"create">>) EXCEPT !.sub = x]]
        /\ UNCHANGED <<person, subs, account, disturbed>>
    BY <1>4 DEF Apply, stores, history
  <2>2. Cons(w, "create", t)
    BY <1>2, TaskNames, ConsMade
  <2>3. Goes(job[d], <<"create">>) = [job[d] EXCEPT !.todo = w]
    BY <2>2 DEF Goes, Cons
  <2>4. Agrees(x, b)
    BY <1>1, ImportedAgrees
  <2> HIDE DEF w, x
  <2>5. [Goes(job[d], <<"create">>) EXCEPT !.sub = x] = p
    BY <1>0, <2>3 DEF JobFields
  <2>6. p.user = u /\ p.sub = x /\ p.todo = w /\ p.wrote = job[d].wrote
    BY <1>0 DEF JobFields
  <2> HIDE DEF p
  <2>7. q = p
    BY <1>0, <2>1, <2>5
  <2> HIDE DEF q, t
  <2>8. Cons(q.todo, "create", t) /\ q.user = u /\ q.sub = x /\ q.wrote = job[d].wrote
    BY <2>2, <2>6, <2>7
  <2>9. u \notin disturbed' => Aware(q, Current(u), account[u])
    <3>1. u \notin disturbed' => Agrees(x, account[u])
      BY <1>3, <2>1, <2>4, LikeAgrees
    <3> QED BY <1>2, <2>8, <3>1, OneMends
  <2>10. \A c, y : Mends(job[d], c, y) => Mends(q, c, y)
    BY <1>2, <2>8, OneMends DEF Mends, Mending
  <2>11. \A v : Same(v)
    BY <2>1, StoresAlike
  <2>12. disturbed \subseteq disturbed' /\ q = job'[d]
    BY <2>1 DEF q
  <2> QED BY <2>8, <2>9, <2>10, <2>11, <2>12, SameMended
<1>5. CASE s # None
  <2> DEFINE new == Synced(s, b)
             steps == <<"clearSub", "clearUser">> \o <<>>
             p == [job[d] EXCEPT !.sub = new, !.wrote = TRUE, !.todo = steps \o t]
  <2>1. SubT(s, accounts) /\ Owned(own, s, job[d].user) /\ DOMAIN s = SubFields
    BY <1>0, <1>5, SubOwned
  <2>2. SubT(new, accounts) /\ new.id = s.id /\ Agrees(new, b)
    BY <1>1, <2>1, SyncedTyped, SyncedAgrees
  <2>3. PICK changed : changed = Differing(s, new)
    OBVIOUS
  <2>4. \A f \in SubFields \ changed : new[f] = s[f]
    BY <2>1, <2>3 DEF Differing
  <2>5. BillSub(d, new, Differing(s, new), <<>>)
    BY <1>5 DEF Apply
  <2> HIDE DEF new
  <2>6. BillSubKeeping(d, new, changed, new, <<>>)
    BY <2>3, <2>5 DEF BillSub
  <2>7. q = p /\ p.todo = steps \o t /\ (disturbed \subseteq disturbed')
    BY <1>0, <2>6 DEF BillSubKeeping, JobFields, Disturb
  <2>8. steps = <<"clearSub", "clearUser">>
    <3>1. <<"clearSub", "clearUser">> \in Seq(Names)
      <4>1. "clearSub" \in Names /\ "clearUser" \in Names
        BY TaskNames
      <4> QED BY <4>1
    <3> QED BY <3>1, JoinFacts
  <2> HIDE DEF p, steps, q
  <2>9. q.todo = <<"clearSub", "clearUser">> \o t
    BY <2>7, <2>8
  <2>10. \A c, x : Aware(q, c, x)
    BY <1>2, <2>9, LateAware
  <2>11. u \notin disturbed' => Agree(new, account[u])
    <3>1. new # None
      BY <2>2, RecordsAssumption DEF SubT
    <3>2. u \notin disturbed' => Agrees(new, account[u])
      BY <1>3, <2>2, <2>7, LikeAgrees
    <3> QED BY <3>1, <3>2 DEF Agree
  <2>12. Head(job[d].todo) \in SubUses \ {"create", "point"}
    BY <1>0 DEF SubUses
  <2>13. q = job'[d]
    BY DEF q
  <2> QED BY <2>1, <2>2, <2>4, <2>6, <2>10, <2>11, <2>12, <2>13, BilledMended
<1> QED BY <1>4, <1>5

\* An account is created again, after one of the same name was removed.
LEMMA RestoreMended ==
  ASSUME MendInv, NEW own, NEW d \in Desks, Engaged(own, d), Own(d), Restore(d), NEW u, u = job[d].user
  PROVE  MendInv'
<1> DEFINE l == job[d].todo
           t == Tail(l)
           new == NewAccount(job[d].sub.account, job[d].usr, job[d].sub)
           q == job'[d]
<1>0. /\ l # <<>> /\ Head(l) = "restore" /\ JobOK(own, d) /\ l \in Seq(Names) /\ t \in Seq(Names) /\ DOMAIN job[d] = JobFields
      /\ u = Target[d] /\ u \in Users /\ DOMAIN job = Jobs /\ d \in Jobs /\ DOMAIN account = Users
  BY EngagedFacts DEF Restore, At
<1>1. /\ UNCHANGED <<person, subs>> /\ Disturb(d, u)
      /\ account' = [account EXCEPT ![u] = IF account[u] = None THEN new ELSE None]
      /\ job' = [job EXCEPT ![d] = [(IF account[u] = None THEN Goes(job[d], <<>>) ELSE job[d]) EXCEPT !.wrote = TRUE, !.remna = new]]
  BY <1>0 DEF Restore
<1> HIDE DEF new
<1>2. RestoreApply(l)
  BY <1>0, SpecialHeads
<1>3. t # <<>> /\ Head(t) = "user" /\ ApplyAhead(t)
  <2>1. t # <<>> /\ Head(t) = "user"
    BY <1>2 DEF RestoreApply, First
  <2>2. First(Tail(t), {"sub"}) /\ First(Tail(Tail(t)), {"apply"})
    BY <1>2 DEF RestoreApply, UserApply, SubApply, ApplyOnly
  <2>3. Tail(t) \in Seq(Names) /\ Tail(Tail(t)) \in Seq(Names)
    BY <1>0, <2>1, <2>2, AheadFirst DEF First
  <2>4. ApplyAhead(Tail(Tail(t)))
    BY <2>2, <2>3, AheadFirst DEF First
  <2>5. ApplyAhead(Tail(t))
    BY <2>2, <2>3, <2>4, AheadFirst DEF First
  <2> QED BY <1>0, <2>1, <2>5, AheadFirst
<1> HIDE DEF l
<1>4. \/ account[u] = None /\ q.todo = t /\ account'[u] = new
      \/ account[u] # None /\ q.todo = l /\ account'[u] = None
  <2>1. CASE account[u] = None
    <3> DEFINE g == [job[d] EXCEPT !.todo = t]
    <3>1. Goes(job[d], <<>>) = g
      <4>1. <<>> \o t = t
        BY <1>0, JoinFacts
      <4> QED BY <1>3, <4>1 DEF Goes, l
    <3>2. DOMAIN g = JobFields /\ g.todo = t
      BY <1>0 DEF JobFields
    <3> HIDE DEF g
    <3>3. q = [g EXCEPT !.wrote = TRUE, !.remna = new]
      BY <1>0, <1>1, <2>1, <3>1
    <3>4. q.todo = t
      BY <3>2, <3>3 DEF JobFields
    <3> QED BY <1>0, <1>1, <2>1, <3>4
  <2>2. CASE account[u] # None
    <3>1. q = [job[d] EXCEPT !.wrote = TRUE, !.remna = new]
      BY <1>0, <1>1, <2>2
    <3>2. q.todo = l
      BY <1>0, <3>1 DEF JobFields, l
    <3> QED BY <1>0, <1>1, <2>2, <3>2
  <2> QED BY <2>1, <2>2
<1>5. q.user = u /\ q.wrote /\ q.remna = new
  <2> DEFINE g == [job[d] EXCEPT !.todo = t]
  <2>1. Goes(job[d], <<>>) = g
    <3>1. <<>> \o t = t
      BY <1>0, JoinFacts
    <3> QED BY <1>3, <3>1 DEF Goes, l
  <2>2. DOMAIN g = JobFields /\ g.user = u
    BY <1>0 DEF JobFields
  <2> HIDE DEF g
  <2>3. q = [g EXCEPT !.wrote = TRUE, !.remna = new] \/ q = [job[d] EXCEPT !.wrote = TRUE, !.remna = new]
    BY <1>0, <1>1, <2>1
  <2> QED BY <1>0, <2>2, <2>3 DEF JobFields
<1>6. /\ ApplyAhead(q.todo)
      /\ q.todo # <<>> /\ Head(q.todo) \in {"user", "restore"}
      /\ ~ApplyDue(q.todo) \/ account'[u] = new
      /\ ~RemoveNext(q.todo)
  <2>1. ApplyAhead(l) /\ ~ApplyDue(l) /\ ~RemoveNext(l) /\ l # <<>> /\ Head(l) = "restore"
    BY <1>0, <1>3, AheadFirst DEF l, Removing
  <2>2. ~RemoveNext(t)
    BY <1>0, <1>3, AheadFirst DEF Removing
  <2> HIDE DEF q, t
  <2> QED BY <1>3, <1>4, <2>1, <2>2
<1>7. new # None
  <2>1. Sound(job[d], accounts) /\ accounts \in Nat /\ (job[d].sub = None \/ SubT(job[d].sub, accounts))
    BY EngagedFacts
  <2>2. job[d].sub # None
    BY <1>0, <2>1 DEF Sound, First, Needs, l
  <2>3. job[d].sub.account \in 1..MaxAccounts /\ job[d].sub.account <= accounts
    BY <2>1, <2>2 DEF SubT, SubRecords
  <2>4. AccT(new, accounts)
    BY <2>1, <2>2, <2>3, NewAccountTyped DEF new
  <2> QED BY <2>4, RecordsAssumption DEF AccT
<1>8. Aware(q, Current(u)', account'[u]) /\ Mends(q, Current(u)', account'[u])
  <2>1. ~Comparing(q.todo) /\ ~First(q.todo, {"status"}) /\ ~First(q.todo, {"create", "point"})
    BY <1>6 DEF Comparing, Sync1, First
  <2>2. ApplyDue(q.todo) => account'[u] # None /\ Like(account'[u], q.remna)
    BY <1>5, <1>6, <1>7 DEF Like
  <2> QED BY <1>5, <1>6, <2>1, <2>2 DEF Aware, Mends, Mending
<1>9. \A v \in Users : v # u => Same(v)
  BY <1>0, <1>1 DEF Same, Like, Current
<1>10. disturbed \subseteq disturbed' /\ (u \notin disturbed' => \A k \in Jobs : k # d => ~Holds(k, u))
  BY <1>1, Disturbs DEF Disturb
<1>11. q = job'[d]
  OBVIOUS
<1> HIDE DEF q
<1> QED BY <1>5, <1>8, <1>9, <1>10, <1>11, WroteMended

\* A plan is given: the account is there before the subscription.
LEMMA ProvisionMended ==
  ASSUME MendInv, NEW own, NEW d \in Desks, Engaged(own, d), Own(d), Provision(d), NEW u, u = job[d].user
  PROVE  MendInv'
<1> DEFINE l == job[d].todo
           t == Tail(l)
           s == job[d].sub
           uuid == IF s = None THEN accounts + 1 ELSE s.account
           new == Planned(uuid)
           a == IF s = None THEN NewAccount(uuid, job[d].usr, new) ELSE Pushed(job[d].usr, new, account[u])
           q == job'[d]
<1>0. /\ l # <<>> /\ Head(l) = "provision" /\ Sound(job[d], accounts) /\ JobOK(own, d) /\ l \in Seq(Names) /\ t \in Seq(Names)
      /\ DOMAIN job[d] = JobFields /\ accounts \in Nat /\ StoresTyped /\ u = Target[d] /\ u \in Users /\ UNCHANGED <<person, subs>>
      /\ DOMAIN job = Jobs /\ d \in Jobs /\ DOMAIN account = Users /\ (s = None \/ SubT(s, accounts)) /\ None \notin AccountRecords
  BY EngagedFacts DEF Provision, At
<1>1. CASE Raise(d) /\ UNCHANGED <<account, accounts>>
  BY <1>0, <1>1, RaisedMended
<1>2. CASE ~(Raise(d) /\ UNCHANGED <<account, accounts>>)
  <2>1. /\ s # None => account[u] # None /\ account[u].uuid = uuid
        /\ account' = [account EXCEPT ![u] = a] /\ Disturb(d, u)
        /\ accounts' = (IF s = None THEN accounts + 1 ELSE accounts) /\ accounts' <= MaxAccounts
        /\ job' = [job EXCEPT ![d] = [Goes(job[d], <<>>) EXCEPT !.sub = new, !.wrote = TRUE]]
    BY <1>0, <1>2 DEF Provision, Reachable
  <2>2. uuid \in 1..MaxAccounts /\ uuid <= accounts' /\ accounts' \in Nat /\ accounts <= accounts'
    <3>1. CASE s = None
      <4>1. uuid = accounts + 1 /\ accounts' = accounts + 1
        BY <2>1, <3>1
      <4> HIDE DEF uuid
      <4> QED BY <1>0, <2>1, <4>1, AccountAssumption
    <3>2. CASE s # None
      <4>1. uuid = s.account /\ accounts' = accounts
        BY <2>1, <3>2
      <4>2. s.account \in 1..MaxAccounts /\ s.account <= accounts
        BY <1>0, <3>2 DEF SubT, SubRecords
      <4> HIDE DEF uuid
      <4> QED BY <1>0, <4>1, <4>2
    <3> QED BY <3>1, <3>2
  <2> HIDE DEF uuid
  <2>3. SubT(new, accounts') /\ new # None
    BY <2>2, PlannedTyped
  <2>4. /\ new.account = uuid /\ new.status = "ACTIVE" /\ new.days = Today + PlanDays
        /\ new.traffic_limit = PlanLimit /\ new.device_limit = PlanLimit /\ new.internal_squads = 0 /\ new.external_squad = 0
    BY DEF Planned
  <2> HIDE DEF new
  <2>5. Agrees(new, a)
    <3>1. CASE s = None
      <4> DEFINE b == NewAccount(uuid, job[d].usr, new)
      <4>1. AccT(b, accounts')
        BY <2>2, <2>3, NewAccountTyped
      <4>2. b # None
        BY <1>0, <4>1 DEF AccT
      <4>3. Today \in Nat /\ PlanDays \in Nat
        BY AccountAssumption, DeskAssumption
      <4>4. b.status = "ACTIVE"
        <5>1. ~(new.days < Today)
          BY <2>4, <4>3
        <5> QED BY <5>1 DEF NewAccount, PanelStatus
      <4>5. b.uuid = uuid /\ \A f \in Shared : new[f] = b[f]
        BY DEF NewAccount, Shared, Limits
      <4> HIDE DEF b
      <4>6. Agrees(new, b)
        BY <2>4, <4>2, <4>4, <4>5 DEF Agrees
      <4> QED BY <3>1, <4>6 DEF b
    <3>2. CASE s # None
      <4>1. AccT(account[u], accounts) /\ DOMAIN account[u] = AccountFields
        <5>1. AccT(account[u], accounts)
          BY <1>0, <2>1, <3>2 DEF StoresTyped, PanelTyped
        <5> QED BY <5>1 DEF AccT, AccountRecords, AccountFields
      <4>2. AccT(account[u], accounts')
        BY <1>0, <2>2, <4>1 DEF AccT, AccountRecords
      <4>3. job[d].usr \in UserViews \cup {None}
        BY EngagedFacts
      <4>4. Pushed(job[d].usr, new, account[u]) # None
        <5>1. AccT(Pushed(job[d].usr, new, account[u]), accounts')
          BY <2>3, <4>2, <4>3, PushedTyped
        <5> QED BY <1>0, <5>1 DEF AccT
      <4>5. account[u].uuid = new.account
        BY <2>1, <2>4, <3>2
      <4> QED BY <3>2, <4>1, <4>4, <4>5, PushedAgrees
    <3> QED BY <3>1, <3>2
  <2>6. account'[u] = a
    BY <1>0, <2>1
  <2> HIDE DEF a
  <2> DEFINE g == [job[d] EXCEPT !.todo = t]
  <2>7. CreateOnly(t) /\ t # <<>>
    BY <1>0, SpecialHeads DEF ProvisionCreate, CreateOnly, First
  <2>8. Goes(job[d], <<>>) = g
    <3>1. <<>> \o t = t
      BY <1>0, JoinFacts
    <3> QED BY <2>7, <3>1 DEF Goes
  <2>9. DOMAIN g = JobFields /\ g.user = u /\ g.todo = t
    BY <1>0 DEF JobFields
  <2> HIDE DEF g
  <2>10. q = [g EXCEPT !.sub = new, !.wrote = TRUE]
    BY <1>0, <2>1, <2>8
  <2>11. q.user = u /\ q.todo = t /\ q.sub = new /\ q.wrote
    BY <2>9, <2>10 DEF JobFields
  <2>12. Cons(t, "create", Tail(t)) /\ Hushed(Tail(t))
    <3>1. Head(t) = "create" /\ Plain(Tail(t))
      BY <2>7 DEF CreateOnly, First
    <3>2. After(t, Closing, Uses)
      BY <1>0, AheadFirst DEF Sound
    <3>3. "create" \in Closing
      BY DEF Closing
    <3>4. Tail(t) \in Seq(Names) /\ Dull(Tail(t))
      BY <1>0, <2>7, <3>1, <3>2, <3>3, ClosingDull
    <3> QED BY <1>0, <2>7, <3>1, <3>4, DullHushed DEF Cons
  <2> HIDE DEF q, t
  <2>13. Aware(q, Current(u)', account'[u]) /\ Mends(q, Current(u)', account'[u])
    BY <2>5, <2>6, <2>11, <2>12, OneMends
  <2>14. \A v \in Users : v # u => Same(v)
    BY <1>0, <2>1 DEF Same, Like, Current
  <2>15. disturbed \subseteq disturbed' /\ (u \notin disturbed' => \A k \in Jobs : k # d => ~Holds(k, u))
    BY <2>1, Disturbs DEF Disturb
  <2>16. q = job'[d]
    BY DEF q
  <2> QED BY <2>11, <2>13, <2>14, <2>15, <2>16, WroteMended
<1> QED BY <1>1, <1>2

\* A subscription is created, and pointed to next.
LEMMA CreateSubMended ==
  ASSUME MendInv, NEW own, NEW d \in Desks, Engaged(own, d), Own(d), CreateSub(d), NEW u, u = job[d].user
  PROVE  MendInv'
<1> DEFINE l == job[d].todo
           t == Tail(l)
           s == job[d].sub
           more == <<"point", "clearUser", "clearSub">>
           w == more \o t
           g == Goes(job[d], more)
<1>0. /\ CopiesInv(own) /\ DOMAIN job = Jobs /\ d \in Jobs /\ DOMAIN job[d] = JobFields /\ l \in Seq(Names) /\ l # <<>>
      /\ Head(l) = "create" /\ UNCHANGED <<person, account, disturbed>> /\ JobOK(own, d) /\ StoresOK(own)
  BY EngagedFacts DEF CreateSub, At, history, CopiesInv
<1>1. PICK id \in Subs :
         /\ id \notin DOMAIN subs
         /\ subs' = [other \in DOMAIN subs \cup {id} |->
                         IF other = id THEN [job[d].sub EXCEPT !.id = id] ELSE subs[other]]
         /\ job' = [job EXCEPT ![d] = [Goes(@, <<"point", "clearUser", "clearSub">>) EXCEPT !.sub.id = id, !.wrote = TRUE]]
  BY DEF CreateSub
<1>2. t \in Seq(Names) /\ Dull(t) /\ Hushed(t) /\ DOMAIN s = SubFields
  BY <1>0, ClosedDull, SpecialHeads
<1>3. "point" \in Names /\ "clearUser" \in Names /\ "clearSub" \in Names
  BY TaskNames
<1>4. PICK x, y : Cons(y, "clearSub", t) /\ Cons(x, "clearUser", y) /\ Cons(w, "point", x)
  BY <1>2, <1>3, Chain3
<1>5. more \in Seq(Names)
  BY <1>3
<1>6. g.todo = w /\ w # <<>> /\ DOMAIN g = JobFields
  <2>1. w # <<>>
    BY <1>4 DEF Cons
  <2> HIDE DEF more
  <2> QED BY <1>0, <1>5, <2>1, GoesFacts
<1>7. g.user = u /\ g.sub = s
  <2> HIDE DEF more
  <2> QED BY <1>0, <1>5, <1>6, GoesFacts
<1> DEFINE q == [g EXCEPT !.sub.id = id, !.wrote = TRUE]
<1>8. q.user = g.user /\ q.todo = g.todo /\ q.sub = [g.sub EXCEPT !.id = id] /\ q.wrote
  BY <1>6 DEF JobFields
<1>9. job'[d] = q
  BY <1>0, <1>1
<1> HIDE DEF q, g, w, l, t
<1>10. \A f \in SubFields \ {"id"} : q.sub[f] = s[f]
  BY <1>2, <1>7, <1>8
<1>11. \A b : Agrees(s, b) => Agrees(q.sub, b)
  <2>1. q.sub.account = s.account /\ q.sub.status = s.status /\ q.sub.days = s.days /\ \A f \in Shared : q.sub[f] = s[f]
    BY <1>10 DEF SubFields, Shared, Limits
  <2> QED BY <2>1 DEF Agrees
<1>12. u \notin disturbed => Agrees(s, account[u])
  <2>1. First(job[d].todo, {"create", "point"})
    BY <1>0 DEF First, l
  <2> QED BY <2>1, JobAware DEF Aware
<1>13. /\ \A b : Agrees(q.sub, b) => Aware(q, Current(u), b)
       /\ \A c, b : Mends(q, c, b)
  <2>1. Cons(y, "clearSub", t)
    BY <1>4
  <2>2. ~ApplyDue(y) /\ ~RemoveNext(y)
    BY <1>2, <2>1, ConsAhead DEF Hushed
  <2>3. Cons(x, "clearUser", y)
    BY <1>4
  <2>4. ~ApplyDue(x) /\ ~RemoveNext(x)
    BY <2>2, <2>3, ConsAhead
  <2>5. Cons(q.todo, "point", x)
    BY <1>4, <1>6, <1>8
  <2>6. ~ApplyDue(q.todo) /\ ~RemoveNext(q.todo) /\ ~Sync1(q.todo) /\ \A heads : First(q.todo, heads) <=> "point" \in heads
    BY <2>4, <2>5, ConsAhead DEF Removing
  <2>7. ~First(q.todo, {"status"}) /\ ~First(q.todo, {"keepSub"}) /\ First(q.todo, {"status", "create", "point"})
    BY <2>6
  <2> QED BY <1>8, <2>6, <2>7 DEF Aware, Comparing, Mends, Mending
<1>14. \A v \in Users : Same(v)
  <2>1. \A v \in Users : Current(v)' = Current(v)
    <3> SUFFICES ASSUME NEW v \in Users PROVE Current(v)' = Current(v)
      OBVIOUS
    <3>1. person[v].current = None \/ person[v].current \in DOMAIN subs
      BY <1>0 DEF StoresOK
    <3> QED BY <1>0, <1>1, <3>1 DEF Current
  <2> QED BY <1>0, <2>1 DEF Same, Like
<1>15. disturbed \subseteq disturbed' /\ q.user = u
  BY <1>0, <1>7, <1>8
<1> QED BY <1>0, <1>9, <1>11, <1>12, <1>13, <1>14, <1>15, SameMended

\* Billing points to the subscription that was created.
LEMMA PointToMended ==
  ASSUME MendInv, KeptInv, NEW own, NEW d \in Desks, Engaged(own, d), Own(d), PointTo(d), NEW u, u = job[d].user
  PROVE  MendInv'
<1> DEFINE l == job[d].todo
           t == Tail(l)
           s == job[d].sub
           q == job'[d]
           p == [person[u] EXCEPT !.current = s.id]
<1>0. /\ CopiesInv(own) /\ StoresOK(own) /\ StoresTyped /\ d \in Jobs /\ DOMAIN job = Jobs /\ DOMAIN job[d] = JobFields
      /\ u = Target[d] /\ u \in Users /\ l \in Seq(Names) /\ t \in Seq(Names) /\ l # <<>> /\ DOMAIN person = Users /\ JobOK(own, d)
      /\ person[u] \in UserRecords /\ Head(l) = "point" /\ (s = None \/ SubT(s, accounts)) /\ Sound(job[d], accounts)
  BY EngagedFacts DEF CopiesInv, StoresTyped, PersonsTyped, PointTo, At
<1>1. /\ UNCHANGED <<subs, account>> /\ person' = [person EXCEPT ![u].current = s.id] /\ Continue(d) /\ Disturb(d, u)
  BY <1>0 DEF PointTo
<1>2. s # None /\ s.id \in DOMAIN subs /\ s.id # None
  <2>1. s # None
    BY <1>0 DEF Sound, First, Needs
  <2>2. s.id \in DOMAIN subs
    BY <1>0, SpecialHeads DEF Owned
  <2> QED BY <1>0, <2>1, <2>2, AccountAssumption DEF StoresOK
<1>3. p.current = s.id /\ person'[u] = p
  BY <1>0, <1>1 DEF UserRecords
<1> HIDE DEF p
<1>4. ASSUME u \notin disturbed' PROVE Agree(Current(u)', account'[u])
  <2>1. u \notin disturbed
    BY <1>1, <1>4, Disturbs
  <2>2. Held(job[d], person[u].points, Current(u), subs) /\ Aware(job[d], Current(u), account[u])
    BY <1>0, <2>1, JobAware DEF KeptInv, KeptFor
  <2>3. s = subs[s.id]
    <3>1. ~CreateOnly(l)
      BY <1>0 DEF CreateOnly, First
    <3>2. SubIn(l)
      BY <1>0, InFirst DEF SubUses
    <3>3. s = Current(u) \/ s = subs[s.id]
      BY <1>2, <2>2, <3>1, <3>2 DEF Held
    <3>4. ASSUME s = Current(u) PROVE s = subs[s.id]
      <4>1. person[u].current # None /\ s = subs[person[u].current]
        BY <1>2, <3>4 DEF Current
      <4>2. subs[person[u].current].id = person[u].current
        BY <1>0, <4>1 DEF StoresOK
      <4> QED BY <4>1, <4>2
    <3> QED BY <3>3, <3>4
  <2>4. Current(u)' = s
    BY <1>1, <1>2, <1>3, <2>3 DEF Current
  <2>5. First(l, {"create", "point"})
    BY <1>0 DEF First
  <2>6. Agrees(s, account[u])
    BY <2>2, <2>5 DEF Aware
  <2> QED BY <1>1, <1>2, <2>4, <2>6 DEF Agree
<1>5. PointUS(l)
  BY <1>0, SpecialHeads
<1>6. t # <<>> /\ Head(t) = "clearUser" /\ ~ApplyDue(t) /\ ~RemoveNext(t)
  <2>1. t # <<>> /\ Head(t) = "clearUser" /\ First(Tail(t), {"clearSub"}) /\ Plain(Tail(Tail(t)))
    BY <1>5 DEF PointUS, ClearUS, ClearS, First
  <2>2. Tail(t) \in Seq(Names) /\ Tail(t) # <<>> /\ Head(Tail(t)) = "clearSub"
    BY <1>0, <2>1, AheadFirst DEF First
  <2>3. ~ApplyAhead(Tail(Tail(t)))
    BY <2>1 DEF ApplyAhead, Reaches, Plain, Special
  <2>4. ~ApplyAhead(Tail(t))
    BY <2>2, <2>3, AheadFirst
  <2>5. ~ApplyAhead(t)
    BY <1>0, <2>1, <2>4, AheadFirst
  <2>6. ~RemoveNext(l)
    BY <1>0, AheadFirst DEF Removing
  <2>7. ~RemoveDue(t)
    BY <1>0, <2>6, AheadFirst DEF Sound
  <2> QED BY <2>1, <2>5, <2>7, AheadMore
<1>7. q = Goes(job[d], <<>>)
  BY <1>0, <1>1 DEF Continue
<1>8. (q.todo = t /\ q.user = u) \/ q = IdleJob
  BY <1>0, <1>7, Popped
<1> HIDE DEF q, t, l
<1>9. q.user \in {u, None} /\ (q.user = u => \A c, a : Aware(q, c, a))
  <2>1. ~First(t, {"status"}) /\ ~First(t, {"create", "point"}) /\ ~Comparing(t)
    BY <1>6 DEF First, Comparing, Sync1
  <2>2. q.todo = t => \A c, a : Aware(q, c, a)
    BY <1>6, <2>1 DEF Aware
  <2>3. IdleJob.user = None /\ u # None
    BY <1>0, IdleAware, AccountAssumption
  <2> QED BY <1>8, <2>2, <2>3
<1>10. \A v \in Users : v # u => Same(v)
  BY <1>0, <1>1 DEF Same, Like, Current
<1>11. disturbed \subseteq disturbed' /\ (u \notin disturbed' => \A k \in Jobs : k # d => ~Holds(k, u))
  BY <1>1, Disturbs DEF Disturb
<1>12. q = job'[d]
  BY DEF q
<1> QED BY <1>4, <1>9, <1>10, <1>11, <1>12, WroteMended

-----------------------------------------------------------------------------
(* Every step of the two stores                                            *)

\* Every await of a handler keeps the invariant.
LEMMA DeskStepMended ==
  ASSUME MendInv, KeptInv, NEW own, NEW d \in Desks, DeskInv, Engaged(own, d), Own(d), DeskStep(d), NEW u, u = job[d].user
  PROVE  MendInv'
<1>1. CASE AwaitStep(d) \/ Fault(d)
  BY <1>1, AwaitMended
<1>2. CASE Show(d) \/ Menu(d) \/ GrantAccess(d) \/ ClearActor(d)
  BY <1>2, ShowMended
<1>3. CASE WhetherSub(d) \/ Matching(d) \/ OfferPlans(d) \/ OfferAccess(d) \/ Reset(d) \/ Devices(d) \/ Send(d)
  BY <1>3, DecidersMended
<1>4. CASE Toggle(d) \/ Remove(d) \/ Unlink(d)
  <2>1. PICK v : v = Target[d]
    OBVIOUS
  <2> QED BY <1>4, <2>1, ToggleMended, RemoveMended, UnlinkMended
<1>5. CASE DropActor(d) \/ Compare(d) \/ Restore(d) \/ ReadPlan(d)
  BY <1>5, DropActorMended, CompareMended, RestoreMended, ReadPlanMended
<1>6. CASE SetUser(d) \/ Edit(d) \/ BillStatus(d) \/ ConfirmDelete(d)
  BY <1>6, SetUserMended, EditMended, BillStatusMended, ConfirmMended
<1>7. CASE Fetch(d) \/ Apply(d) \/ Drop(d) \/ PointTo(d)
  BY <1>7, FetchMended, ApplyMended, DropMended, PointToMended
<1>8. CASE Provision(d) \/ CreateSub(d)
  BY <1>8, ProvisionMended, CreateSubMended
<1> QED BY <1>1, <1>2, <1>3, <1>4, <1>5, <1>6, <1>7, <1>8 DEF DeskStep

\* A job that begins knows nothing of the stores yet, and mends them if it says that it wrote.
LEMMA BegunMended ==
  ASSUME MendInv, NEW own, NEW j, Standing(own, j), Own(j), ~Mending(job[j]), UNCHANGED <<person, subs, account>>,
         NEW q, q = job'[j], q.todo \in Seq(Names), Bare(q.todo, q.ask),
         disturbed \subseteq disturbed' \/ (disturbed' = disturbed \ {q.user} /\ Alone(j) /\ q.user = Target[j] /\ Mending(q) /\ ~First(q.todo, {"status"}))
  PROVE  MendInv'
<1> SUFFICES ASSUME NEW v \in Users \ disturbed' PROVE Mended(v)' /\ (\A k \in Jobs : job[k].user = v => Aware(job[k], Current(v), account[v]))'
  BY DEF MendInv, MendFor
<1>0. DOMAIN job = Jobs /\ j \in Jobs /\ Current(v)' = Current(v) /\ account'[v] = account[v]
  BY DEF Standing, CopiesInv, Current
<1>1. \A k \in Jobs : k # j => job'[k] = job[k]
  BY <1>0 DEF Own
<1>2. \A s, a : Aware(q, s, a)
  BY BareAware
<1>3. CASE v \notin disturbed
  <2>1. Mended(v) /\ \A k \in Jobs : job[k].user = v => Aware(job[k], Current(v), account[v])
    BY <1>3 DEF MendInv, MendFor
  <2>2. ~Mends(job[j], Current(v), account[v])
    BY DEF Mends
  <2>3. Mended(v)'
    BY <1>0, <1>1, <2>1, <2>2 DEF Mended
  <2>4. \A k \in Jobs : job'[k].user = v => Aware(job'[k], Current(v)', account'[v])
    BY <1>0, <1>1, <1>2, <2>1
  <2> QED BY <2>3, <2>4
<1>4. CASE v \in disturbed
  <2>1. v = q.user /\ v = Target[j] /\ Alone(j) /\ Mending(q) /\ ~First(q.todo, {"status"})
    BY <1>4
  <2>2. \A k \in Jobs : k # j => job'[k].user # v
    BY <1>1, <2>1 DEF Alone
  <2>3. Mends(q, Current(v)', account'[v])
    BY <2>1 DEF Mends
  <2>4. Mended(v)'
    BY <1>0, <2>1, <2>3 DEF Mended
  <2>5. \A k \in Jobs : job'[k].user = v => Aware(job'[k], Current(v)', account'[v])
    BY <1>0, <1>2, <2>2
  <2> QED BY <2>4, <2>5
<1> QED BY <1>3, <1>4

\* A list of a synchronisation goes on to mend the stores.
LEMMA SyncMending ==
  ASSUME NEW t \in Seq(Smooth), NEW step \in {"fetch", "compare"}, NEW q, q.wrote, q.todo = <<"user", "sub", step>> \o t
  PROVE  Mending(q) /\ ~First(q.todo, {"status"})
<1>1. t \in Seq(Names) /\ step \in Names /\ "user" \in Names /\ "sub" \in Names
  BY SmoothDull, TaskNames
<1>2. PICK a, b : Cons(b, step, t) /\ Cons(a, "sub", b) /\ Cons(q.todo, "user", a)
  BY <1>1, Chain3
<1>3. SyncAhead(b)
  BY <1>2, ConsAhead
<1>4. SyncAhead(a)
  BY <1>2, <1>3, ConsAhead
<1>5. SyncAhead(q.todo) /\ ~First(q.todo, {"status"})
  BY <1>2, <1>4, ConsAhead
<1> QED BY <1>5 DEF Mending

\* Buttons and typed values find an idle desk.
LEMMA PressedIdle ==
  ASSUME NEW d, DeskClick(d) \/ DeskEdit(d)
  PROVE  Idle(d)
<1>1. \A w, todo : Look(d, w, todo) => Idle(d)
  BY DEF Look, Pressing
<1>2. \A w, ask, todo : Change(d, w, ask, todo) => Idle(d)
  BY DEF Change, Pressing
<1>3. \A todo : StartSync(d, todo) => Idle(d)
  BY DEF StartSync, Pressing
<1>4. CASE DeskClick(d)
  BY <1>1, <1>4 DEF DeskClick, Open, Pressing, OnContentInput, OnInvalidInput, OnCurrentSubscription, OnResetTraffic, OnDevices,
       OnSync, OnGiveSubscription, OnGiveAccess, OnSubscriptionSelect, OnTransactionSelect, OnTransactions, SwitchTo
<1>5. CASE DeskEdit(d)
  BY <1>2, <1>3, <1>5 DEF DeskEdit, OnBlockToggle, OnRoleSelect, OnDiscount, OnPoints, OnTrafficLimit, OnDeviceLimit,
       OnInternalSquad, OnExternalSquad, OnDuration, EditSub, OnActiveToggle, OnSubscriptionDelete, OnDeviceDelete,
       OnSyncFromRemnawave, OnSyncFromRemnashop, OnSubscriptionDuration, OnPlanSelect, OnSend
<1> QED BY <1>4, <1>5

\* An idle desk mends nothing.
LEMMA IdleMends ==
  ASSUME NEW j, Idle(j)
  PROVE  ~Mending(job[j])
<1>1. \A heads : ~First(job[j].todo, heads)
  BY DEF First, Idle
<1>2. \A aims, past : ~Reaches(job[j].todo, aims, past)
  BY DEF Reaches, Idle
<1> QED BY <1>1, <1>2 DEF Mending, PushNext, RemoveNext, SyncAhead, ApplyAhead

\* A handler that is started knows nothing yet; a synchronisation mends.
LEMMA DeskBegunMended ==
  ASSUME MendInv, NEW own, NEW d \in Desks, DeskInv, Standing(own, d), Own(d), DeskClick(d) \/ DeskEdit(d),
         job'[d].todo \in Seq(Names)
  PROVE  MendInv'
<1>0. ~Mending(job[d]) /\ Begins(d) /\ d \in DOMAIN job
  BY PressedIdle, IdleMends, ClickBegins, DeskEditBegins DEF Standing, CopiesInv
<1>1. PICK ask, todo : /\ AskOK(d, ask) /\ Bare(todo, ask)
                       /\ \/ Handle(d, ask, todo)
                          \/ ask = NoAsk /\ StartSync(d, todo) /\ \E step \in {"fetch", "compare"} : todo = <<"user", "sub", step>> \o Render("MAIN")
  BY <1>0 DEF Begins
<1>3. CASE Handle(d, ask, todo)
  <2> DEFINE q == [IdleJob EXCEPT !.user = Target[d], !.ask = ask, !.todo = todo, !.rescue = <<"MENU">>]
  <2>1. job'[d] = q /\ UNCHANGED <<person, subs, account, disturbed>>
    BY <1>0, <1>3 DEF Handle, Begin, stores, history
  <2>2. q.ask = ask /\ q.todo = todo
    BY DEF IdleJob
  <2> HIDE DEF q
  <2> QED BY <1>0, <1>1, <2>1, <2>2, BegunMended
<1>4. CASE StartSync(d, todo) /\ ask = NoAsk /\ \E step \in {"fetch", "compare"} : todo = <<"user", "sub", step>> \o Render("MAIN")
  <2> DEFINE q == [IdleJob EXCEPT !.user = Target[d], !.wrote = TRUE, !.todo = todo, !.rescue = <<"MENU">>]
  <2>1. job'[d] = q /\ UNCHANGED <<person, subs, account>>
    BY <1>0, <1>4 DEF StartSync, stores
  <2>2. q.ask = ask /\ q.todo = todo /\ q.wrote /\ q.user = Target[d]
    BY <1>4 DEF IdleJob
  <2>3. disturbed' = disturbed \/ (disturbed' = disturbed \ {Target[d]} /\ Alone(d))
    BY <1>4 DEF StartSync, history
  <2>4. Mending(q) /\ ~First(q.todo, {"status"})
    BY <1>4, <2>2, SyncMending, SmoothJoins, GetterFacts
  <2> HIDE DEF q
  <2>5. disturbed \subseteq disturbed' \/ (disturbed' = disturbed \ {q.user} /\ Alone(d) /\ q.user = Target[d] /\ Mending(q) /\ ~First(q.todo, {"status"}))
    BY <2>2, <2>3, <2>4
  <2> QED BY <1>0, <1>1, <2>1, <2>2, <2>5, BegunMended
<1> QED BY <1>1, <1>3, <1>4

\* Every step of a desk keeps the invariant.
LEMMA DeskNextMended ==
  ASSUME MendInv, KeptInv, NEW own, NEW d \in Desks, DeskInv, Standing(own, d), Own(d), DeskNext(d), job'[d].todo \in Seq(Names)
  PROVE  MendInv'
<1>1. CASE DeskStep(d)
  <2>1. job[d].todo # <<>>
    BY <1>1, DeskBusy
  <2>2. Engaged(own, d)
    BY <2>1, JobAssumption DEF Standing, Engaged
  <2>3. PICK u : u = job[d].user
    OBVIOUS
  <2> QED BY <1>1, <2>2, <2>3, DeskStepMended
<1> QED BY <1>1, DeskBegunMended DEF DeskNext

\* A run, a task or a flush that begins knows nothing yet.
LEMMA TaskBegunMended ==
  ASSUME MendInv, NEW own, NEW j, Standing(own, j), Own(j), (\E u : BeginGrant(j, u)) \/ BeginGive(j) \/ BeginFlush(j),
         job'[j].todo \in Seq(Names)
  PROVE  MendInv'
<1>1. /\ UNCHANGED <<person, subs, account, disturbed>> /\ Idle(j)
      /\ \E u, ask, todo, rescue : Begin(j, u, ask, todo, rescue) /\ Bare(todo, ask)
  BY TaskBare DEF BeginGrant, BeginGive, BeginFlush, stores, history
<1>2. PICK u, ask, todo, rescue : Begin(j, u, ask, todo, rescue) /\ Bare(todo, ask)
  BY <1>1
<1> DEFINE q == [IdleJob EXCEPT !.user = u, !.ask = ask, !.todo = todo, !.rescue = rescue]
<1>3. job'[j] = q
  BY <1>2 DEF Begin, Standing, CopiesInv
<1>4. q.ask = ask /\ q.todo = todo
  BY DEF IdleJob
<1> HIDE DEF q
<1> QED BY <1>1, <1>2, <1>3, <1>4, IdleMends, BegunMended

\* A run that was stopped or killed leaves the stores as they were; the history knows if it wrote.
LEMMA StoppedMended ==
  ASSUME MendInv, NEW own, NEW j, Engaged(own, j), Own(j),
         Crash(j) \/ (Stop(j) /\ Locally /\ (ReadState(j) \/ Eligible(j) \/ ListPending(j) \/ Flush(j)))
  PROVE  MendInv'
<1>1. CASE Crash(j)
  <2>1. /\ UNCHANGED <<person, subs, account>> /\ Stop(j) /\ disturbed \subseteq disturbed'
        /\ job[j].wrote => job[j].user \in disturbed'
    BY <1>1 DEF Crash, stores
  <2>2. \A v : Same(v)
    BY <2>1, StoresAlike
  <2> QED BY <2>1, <2>2, LeftMended
<1>2. CASE Stop(j) /\ Locally /\ (ReadState(j) \/ Eligible(j) \/ ListPending(j) \/ Flush(j))
  <2>1. UNCHANGED <<person, subs, account, disturbed>> /\ Head(job[j].todo) \in {"seen", "eligible", "pending", "flush"}
    BY <1>2 DEF Locally, stores, history, ReadState, Eligible, ListPending, Flush, At
  <2>2. Head(job[j].todo) \notin Menders
    BY <2>1 DEF Menders, Pushing, Removing
  <2>3. \A v : Same(v)
    BY <2>1, StoresAlike
  <2> QED BY <1>2, <2>1, <2>2, <2>3, LeftMended
<1> QED BY <1>1, <1>2

\* The command reads how far a run before it came.
LEMMA ReadStateMended ==
  ASSUME MendInv, NEW own, NEW j, Engaged(own, j), Own(j), ReadState(j), NEW u, u = job[j].user
  PROVE  MendInv'
<1>0. /\ DOMAIN job = Jobs /\ j \in Jobs /\ DOMAIN job[j] = JobFields /\ job[j].todo \in Seq(Names) /\ job[j].todo # <<>>
  BY EngagedFacts
<1>1. UNCHANGED <<person, subs, account, disturbed>> /\ Locally /\ Head(job[j].todo) = "seen"
  BY DEF ReadState, Locally, At, stores, history
<1>2. CASE Stop(j)
  BY <1>1, <1>2, StoppedMended
<1>3. CASE ~Stop(j)
  <2> DEFINE g == Goes(job[j], <<>>)
             q == [g EXCEPT !.ask = state[u]]
  <2>1. job'[j] = q
    BY <1>0, <1>3 DEF ReadState
  <2>2. DOMAIN g = JobFields
    <3>1. <<>> \in Seq(Names)
      OBVIOUS
    <3> QED BY <1>0, <3>1, GoesFacts
  <2>3. q.user = g.user /\ q.todo = g.todo /\ q.sub = g.sub /\ q.remna = g.remna
    BY <2>2 DEF JobFields
  <2>4. \/ g = IdleJob
        \/ g.todo = Tail(job[j].todo) /\ g.user = job[j].user /\ g.sub = job[j].sub /\ g.remna = job[j].remna
    BY <1>0, Popped
  <2> HIDE DEF q, g
  <2>5. IdleJob.user = None
    BY IdleAware
  <2>6. ~Mending(job[j])
    BY <1>1, MenderHeads DEF Menders, Pushing, Removing
  <2>7. u # None /\ q.user \in {u, None}
    BY <2>3, <2>4, <2>5, EngagedFacts, AccountAssumption
  <2>8. ASSUME u \notin disturbed', q.user = u PROVE Aware(q, Current(u), account[u])
    <3>1. Aware(job[j], Current(u), account[u])
      BY <1>1, <2>8, JobAware
    <3>2. q.todo = Tail(job[j].todo) /\ q.sub = job[j].sub /\ q.remna = job[j].remna
      BY <2>3, <2>4, <2>5, <2>7, <2>8
    <3> QED BY <1>1, <3>1, <3>2, PopAware
  <2>9. \A v : Same(v)
    BY <1>1, StoresAlike
  <2> QED BY <1>1, <2>1, <2>6, <2>7, <2>8, <2>9, SameMended DEF Mends
<1> QED BY <1>2, <1>3

\* What a grant has left once its goal is written down.
LEMMA GrantingHeads ==
  ASSUME NEW ask
  PROVE  LET l == Granting(ask) \o <<"push", "done", "unlock">> IN
         /\ ~ApplyAhead(l) /\ ~RemoveDue(l) /\ ~Sync1(l)
         /\ \A heads : First(l, heads) => "discount" \in heads \/ "extend" \in heads
<1> DEFINE p == <<"push", "done", "unlock">>
           l == Granting(ask) \o p
<1>1. p \in Seq(Names) /\ "discount" \in Names /\ "extend" \in Names /\ "mark" \in Names
  BY DEF Names, Special, Ordinary
<1>2. ~ApplyAhead(p) /\ ~RemoveDue(p)
  BY DEF ApplyAhead, RemoveDue, Reaches
<1>3. Granting(ask) \in {<<"discount">>, <<"extend", "mark", "discount">>}
  BY DEF Granting
<1> SUFFICES /\ ~ApplyAhead(l) /\ ~RemoveDue(l) /\ ~Sync1(l)
             /\ \A heads : First(l, heads) => "discount" \in heads \/ "extend" \in heads
  OBVIOUS
<1> HIDE DEF p
<1>4. CASE Granting(ask) = <<"discount">>
  <2>0. Cons(<<"discount">> \o p, "discount", p)
    BY <1>1, ConsMade
  <2>1. Cons(l, "discount", p)
    BY Zenon, <1>4, <2>0
  <2> QED BY <1>2, <2>1, ConsAhead
<1>5. CASE Granting(ask) = <<"extend", "mark", "discount">>
  <2>0. \E a, b : Cons(b, "discount", p) /\ Cons(a, "mark", b) /\ Cons(<<"extend", "mark", "discount">> \o p, "extend", a)
    BY <1>1, Chain3
  <2>1. PICK a, b : Cons(b, "discount", p) /\ Cons(a, "mark", b) /\ Cons(l, "extend", a)
    BY Zenon, <1>5, <2>0
  <2>2. ~ApplyAhead(b) /\ ~RemoveDue(b)
    BY <1>2, <2>1, ConsAhead
  <2>3. ~ApplyAhead(a) /\ ~RemoveDue(a)
    BY <2>1, <2>2, ConsAhead
  <2> QED BY <2>1, <2>3, ConsAhead
<1> QED BY <1>3, <1>4, <1>5

\* The goal of a grant is written down before it is acted on.
LEMMA AimMended ==
  ASSUME MendInv, NEW own, NEW j, Engaged(own, j), Own(j), Aim(j), NEW u, u = job[j].user
  PROVE  MendInv'
<1>0. DOMAIN job = Jobs /\ j \in Jobs /\ DOMAIN job[j] = JobFields /\ UNCHANGED <<person, subs, account>> /\ Head(job[j].todo) = "aim"
  BY EngagedFacts DEF Aim, At, stores
<1>1. CASE Raise(j)
  BY <1>0, <1>1, RaisedMended
<1>2. CASE ~Raise(j)
  <2>1. PICK ask : job' = [job EXCEPT ![j] = [@ EXCEPT !.ask = ask, !.todo = Granting(ask) \o <<"push", "done", "unlock">>]]
    BY <1>2 DEF Aim
  <2>2. disturbed' = disturbed
    BY <1>2 DEF Aim, Undisturbed
  <2> DEFINE l == Granting(ask) \o <<"push", "done", "unlock">>
             q == [job[j] EXCEPT !.ask = ask, !.todo = l]
  <2>3. /\ ~ApplyAhead(l) /\ ~RemoveDue(l) /\ ~Sync1(l)
        /\ \A heads : First(l, heads) => "discount" \in heads \/ "extend" \in heads
    BY GrantingHeads
  <2>4. q.user = u /\ q.todo = l
    BY <1>0 DEF JobFields
  <2>5. job'[j] = q
    BY <1>0, <2>1
  <2> HIDE DEF q, l
  <2>6. \A s, a : Aware(q, s, a)
    <3>1. ~ApplyDue(l) /\ ~RemoveNext(l)
      BY <2>3, AheadMore
    <3>2. ~First(l, {"create", "point"}) /\ ~First(l, {"status"}) /\ ~First(l, {"keepSub"})
      BY <2>3
    <3> QED BY <2>3, <2>4, <3>1, <3>2 DEF Aware, Comparing
  <2>7. ~Mending(job[j])
    BY <1>0, MenderHeads DEF Menders, Pushing, Removing
  <2>8. \A v : Same(v)
    BY <1>0, StoresAlike
  <2> QED BY <2>2, <2>4, <2>5, <2>6, <2>7, <2>8, SameMended DEF Mends
<1> QED BY <1>1, <1>2

\* A run that goes on with a list that uses no copy before it is read.
LEMMA ListedMended ==
  ASSUME MendInv, NEW own, NEW j, Engaged(own, j), Own(j), TakeLock(j) \/ ListPending(j) \/ Flush(j), ~Stop(j),
         job'[j].todo \in Seq(Names)
  PROVE  MendInv'
<1>0. /\ DOMAIN job = Jobs /\ j \in Jobs /\ DOMAIN job[j] = JobFields /\ UNCHANGED <<person, subs, account, disturbed>>
      /\ Head(job[j].todo) \in {"lock", "pending", "flush"}
  BY EngagedFacts DEF TakeLock, ListPending, Flush, At, Locally, stores, history
<1>1. Head(job[j].todo) \notin Menders
  BY <1>0 DEF Menders, Pushing, Removing
<1>2. job'[j].user = job[j].user /\ job'[j].todo \in {<<"sub", "aim">>, <<"user", "flush">>, <<"days", "push", "issue", "flush">>}
  <2>1. CASE TakeLock(j)
    BY <1>0, <2>1 DEF TakeLock, JobFields
  <2>2. CASE ListPending(j)
    BY <1>0, <2>2 DEF ListPending, JobFields
  <2>3. CASE Flush(j)
    BY <1>0, <2>3 DEF Flush, JobFields
  <2> QED BY <2>1, <2>2, <2>3
<1>3. Bare(job'[j].todo, job'[j].ask)
  BY <1>2, TaskBare
<1>4. \A v : Same(v)
  BY <1>0, StoresAlike
<1> DEFINE q == job'[j]
<1>5. q = job'[j]
  OBVIOUS
<1> HIDE DEF q
<1> QED BY <1>0, <1>1, <1>2, <1>3, <1>4, <1>5, BareMended

\* Every step of a run, a task or a flush keeps the invariant.
LEMMA GrantsMended ==
  ASSUME MendInv, KeptInv, NEW own, AccountsInv, NEW j \in Jobs \ Desks, Standing(own, j), Own(j), GrantsNext(j),
         job'[j].todo \in Seq(Names)
  PROVE  MendInv'
<1>0. PICK u : u = job[j].user
  OBVIOUS
<1>1. CASE (\E v : BeginGrant(j, v)) \/ BeginGive(j) \/ BeginFlush(j)
  BY <1>1, TaskBegunMended
<1>2. CASE Engaged(own, j) /\ (AwaitStep(j) \/ Fault(j))
  BY <1>2, AwaitMended
<1>3. CASE Engaged(own, j) /\ (Crash(j) \/ ReadState(j) \/ Aim(j))
  BY <1>0, <1>3, StoppedMended, ReadStateMended, AimMended
<1>4. CASE Engaged(own, j) /\ (Eligible(j) \/ Mark(j) \/ Done(j) \/ Unlock(j) \/ Issue(j))
  <2>1. /\ UNCHANGED <<person, subs, account, disturbed>> /\ Locally
        /\ Head(job[j].todo) \in {"eligible", "mark", "done", "unlock", "issue"}
        /\ Continue(j) \/ (Eligible(j) /\ Stop(j))
    BY <1>4 DEF Eligible, Mark, Done, SetState, Unlock, Issue, At, Locally, stores, history
  <2>2. \A v : Same(v)
    BY <2>1, StoresAlike
  <2>3. CASE Continue(j)
    BY <1>4, <2>1, <2>2, <2>3, ContinueMended
  <2> QED BY <1>4, <2>1, <2>3, StoppedMended
<1>5. CASE Engaged(own, j) /\ (TakeLock(j) \/ ListPending(j) \/ Flush(j))
  <2>1. CASE Stop(j) /\ TakeLock(j)
    <3>1. UNCHANGED <<person, subs, account, disturbed>> /\ Head(job[j].todo) = "lock"
      BY <2>1 DEF TakeLock, Locally, At, stores, history
    <3>2. Head(job[j].todo) \notin Menders
      BY <3>1 DEF Menders, Pushing, Removing
    <3>3. \A v : Same(v)
      BY <3>1, StoresAlike
    <3> QED BY <1>5, <2>1, <3>1, <3>2, <3>3, LeftMended
  <2>2. CASE Stop(j) /\ ~TakeLock(j)
    <3>1. Locally
      BY <1>5, <2>2 DEF ListPending, Flush
    <3> QED BY <1>5, <2>2, <3>1, StoppedMended
  <2>3. CASE ~Stop(j)
    BY <1>5, <2>3, ListedMended
  <2> QED BY <2>1, <2>2, <2>3
<1>6. CASE Engaged(own, j) /\ ((Extend(j) /\ j \in Runs) \/ (GiveDays(j) /\ job[j].ask.to \in Rewards))
  BY <1>0, <1>6, GivenDaysMended
<1>7. CASE Engaged(own, j) /\ (GiveDiscount(j) \/ (GivePoints(j) /\ job[j].ask.to \in Rewards))
  BY <1>0, <1>7, GiftMended
<1> QED BY <1>1, <1>2, <1>3, <1>4, <1>5, <1>6, <1>7, TaskSteps

\* At first the stores agree about everybody who is not set apart, and nobody knows of them.
LEMMA MendStart == Init => MendInv
<1> SUFFICES ASSUME Init, NEW u \in Users \ disturbed PROVE MendFor(u)
  BY DEF MendInv
<1>1. PICK s \in Start : AccountInit(s.people, s.subscriptions, s.panel, s.apart)
  BY DEF Init
<1>2. /\ person = s.people /\ subs = s.subscriptions /\ account = s.panel /\ disturbed = s.apart
      /\ job = [j \in Jobs |-> IdleJob]
  BY <1>1 DEF AccountInit
<1>3. Agree(Current(u), account[u])
  BY <1>2, StartAssumption DEF Current
<1>4. \A j \in Jobs : Aware(job[j], Current(u), account[u])
  BY <1>2, IdleAware
<1> QED BY <1>3, <1>4 DEF MendFor, Mended

\* Every step keeps the invariant.
LEMMA MendStep == TypedInv /\ KeptInv /\ MendInv /\ [Next]_vars => MendInv'
<1> SUFFICES ASSUME TypedInv, KeptInv, MendInv, [Next]_vars PROVE MendInv'
  OBVIOUS
<1>1. PICK own : CopiesInv(own)
  BY DEF TypedInv, CopiesOK
<1>2. DOMAIN job = Jobs /\ agenda.jobs \subseteq Jobs
  BY <1>1 DEF CopiesInv
<1>3. \A j \in Jobs : job'[j].todo \in Seq(Names)
  <2>1. CopiesOK'
    BY CopiesStep DEF TypedInv
  <2> QED BY <2>1 DEF CopiesOK, CopiesInv, JobOK
<1>4. ASSUME NEW d \in agenda.jobs \cap Desks, DeskNext(d) PROVE MendInv'
  <2>1. d \in Jobs /\ Standing(own, d) /\ DeskInv
    BY <1>1, <1>2 DEF Standing, TypedInv, CopiesOK
  <2> QED BY <1>3, <1>4, <2>1, DeskOwn, DeskNextMended
<1>5. ASSUME NEW j \in agenda.jobs \ Desks, GrantsNext(j) PROVE MendInv'
  <2>1. j \in Jobs \ Desks /\ Standing(own, j) /\ AccountsInv
    BY <1>1, <1>2 DEF Standing, TypedInv
  <2> QED BY <1>3, <1>5, <2>1, GrantOwn, GrantsMended
<1>6. CASE UNCHANGED vars
  <2>1. UNCHANGED <<person, subs, account, disturbed, job>>
    BY <1>6 DEF vars, accountVars, stores, history
  <2> QED BY <2>1 DEF MendInv, MendFor, Mended, Current
<1> QED BY <1>4, <1>5, <1>6 DEF Next

\* Billing and the panel tell the same story about a user nobody is at work for, for every
\* number of users, jobs and faults: whoever wrote the one goes on to write the other, and
\* knows of both what that takes (subscription edits and their pushes, sync_user, the deletion,
\* create_subscription), as long as no two overlap and none fails between its two writes.
THEOREM StoresMend == Spec => []StoresAgree
<1>1. Init => TypedInv /\ KeptInv /\ MendInv
  BY AccountsStart, CopiesStart, TypesStart, KeptStart, MendStart DEF TypedInv
<1>2. (TypedInv /\ KeptInv /\ MendInv) /\ [Next]_vars => (TypedInv /\ KeptInv /\ MendInv)'
  BY TypesStep, KeptStep, MendStep
<1>3. TypedInv /\ KeptInv /\ MendInv => StoresAgree
  <2> SUFFICES ASSUME TypedInv, MendInv, NEW u \in Users \ disturbed, AtRest(u) PROVE Agree(Current(u), account[u])
    BY DEF StoresAgree
  <2> QED BY DEF MendInv, MendFor, Mended, AtRest
<1> QED BY <1>1, <1>2, <1>3, PTL DEF Spec
=============================================================================
