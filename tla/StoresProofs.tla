--------------------------- MODULE StoresProofs ---------------------------
(*************************************************************************)
(* Proof that the stores, the copies in Redis and the jobs of Accounts have *)
(* their types, whatever the handlers, runs and tasks do and wherever they *)
(* fail.                                                                 *)
(*                                                                       *)
(* What a job has in hand has the type its next awaits need only because *)
(* of the order of its list: Sound says which copies a list still uses,  *)
(* RecordOK the same of a whole job.  There is one lemma per await.      *)
(*************************************************************************)
EXTENDS AccountsProofs

-----------------------------------------------------------------------------
(* Awaits that are ahead                                                   *)

\* An await of the one kind is ahead and nothing but the other kind before it; every
\* await of a name is followed by one of another; after one kind none of another.
Reaches(s, aims, past) == \E i \in DOMAIN s : s[i] \in aims /\ \A k \in 1..(i - 1) : s[k] \in past
Follow(s, a, b) == \A i \in DOMAIN s : s[i] = a => (i + 1) \in DOMAIN s /\ s[i + 1] = b
After(s, these, those) == \A i, k \in DOMAIN s : i < k /\ s[i] \in these => s[k] \notin those

\* The same by the head and the rest of a list.
LEMMA ReachesFirst ==
  ASSUME NEW s \in Seq(Names), s # <<>>
  PROVE  \A aims, past : Reaches(s, aims, past) <=>
            Head(s) \in aims \/ (Head(s) \in past /\ Reaches(Tail(s), aims, past))
<1> SUFFICES ASSUME NEW aims, NEW past
             PROVE  Reaches(s, aims, past) <=>
                      Head(s) \in aims \/ (Head(s) \in past /\ Reaches(Tail(s), aims, past))
  OBVIOUS
<1> DEFINE t == Tail(s)
<1>0. /\ Len(s) \in Nat \ {0} /\ DOMAIN s = 1..Len(s) /\ Head(s) = s[1]
      /\ DOMAIN t = 1..(Len(s) - 1) /\ \A i \in 1..(Len(s) - 1) : t[i] = s[i + 1]
  OBVIOUS
<1> HIDE DEF t
<1>1. ASSUME Reaches(s, aims, past) PROVE Head(s) \in aims \/ (Head(s) \in past /\ Reaches(t, aims, past))
  <2>1. PICK i \in DOMAIN s : s[i] \in aims /\ \A k \in 1..(i - 1) : s[k] \in past
    BY <1>1 DEF Reaches
  <2>2. CASE i = 1
    BY <1>0, <2>1, <2>2
  <2>3. CASE i # 1
    <3>1. (i - 1) \in DOMAIN t /\ t[i - 1] = s[i]
      BY <1>0, <2>1, <2>3
    <3>2. \A k \in 1..((i - 1) - 1) : t[k] = s[k + 1] /\ (k + 1) \in 1..(i - 1)
      BY <1>0, <2>1, <2>3
    <3>3. \A k \in 1..((i - 1) - 1) : t[k] \in past
      BY <2>1, <3>2
    <3>4. Reaches(t, aims, past)
      BY <2>1, <3>1, <3>3 DEF Reaches
    <3>5. Head(s) \in past
      BY <1>0, <2>1, <2>3
    <3> QED BY <3>4, <3>5
  <2> QED BY <2>2, <2>3
<1>2. ASSUME Head(s) \in aims PROVE Reaches(s, aims, past)
  BY <1>0, <1>2 DEF Reaches
<1>3. ASSUME Head(s) \in past, Reaches(t, aims, past) PROVE Reaches(s, aims, past)
  <2>1. PICK i \in DOMAIN t : t[i] \in aims /\ \A k \in 1..(i - 1) : t[k] \in past
    BY <1>3 DEF Reaches
  <2>2. (i + 1) \in DOMAIN s /\ s[i + 1] \in aims
    BY <1>0, <2>1
  <2>3. ASSUME NEW k \in 1..((i + 1) - 1) PROVE s[k] \in past
    <3>1. CASE k = 1
      BY <1>0, <1>3, <3>1
    <3>2. CASE k # 1
      <4>1. (k - 1) \in 1..(i - 1) /\ t[k - 1] = s[k]
        BY <1>0, <2>1, <3>2
      <4> QED BY <2>1, <4>1
    <3> QED BY <3>1, <3>2
  <2> QED BY <2>2, <2>3 DEF Reaches
<1> QED BY <1>1, <1>2, <1>3 DEF t

\* Follow, by the head and the rest of a list.
LEMMA FollowFirst ==
  ASSUME NEW s \in Seq(Names), s # <<>>
  PROVE  \A a, b : Follow(s, a, b) <=> (Head(s) = a => First(Tail(s), {b})) /\ Follow(Tail(s), a, b)
<1> SUFFICES ASSUME NEW a, NEW b
             PROVE  Follow(s, a, b) <=> (Head(s) = a => First(Tail(s), {b})) /\ Follow(Tail(s), a, b)
  OBVIOUS
<1> DEFINE t == Tail(s)
<1>0. /\ Len(s) \in Nat \ {0} /\ DOMAIN s = 1..Len(s) /\ Head(s) = s[1] /\ t \in Seq(Names)
      /\ DOMAIN t = 1..(Len(s) - 1) /\ \A i \in 1..(Len(s) - 1) : t[i] = s[i + 1]
      /\ t # <<>> <=> Len(s) # 1
      /\ t # <<>> => Head(t) = s[2]
  <2>1. /\ Len(s) \in Nat \ {0} /\ DOMAIN s = 1..Len(s) /\ Head(s) = s[1] /\ t \in Seq(Names) /\ Len(t) = Len(s) - 1
        /\ DOMAIN t = 1..(Len(s) - 1) /\ \A i \in 1..(Len(s) - 1) : t[i] = s[i + 1]
    OBVIOUS
  <2> HIDE DEF t
  <2>2. t # <<>> => Head(t) = t[1]
    BY <2>1
  <2>3. t # <<>> <=> Len(t) # 0
    BY <2>1, EmptySeq
  <2> QED BY <2>1, <2>2, <2>3
<1> HIDE DEF t
<1>1. ASSUME Follow(s, a, b) PROVE (Head(s) = a => First(t, {b})) /\ Follow(t, a, b)
  <2>1. Head(s) = a => 2 \in DOMAIN s /\ s[2] = b
    <3>1. 1 \in DOMAIN s /\ 1 + 1 = 2
      BY <1>0
    <3> QED BY <1>0, <1>1, <3>1 DEF Follow
  <2>2. Head(s) = a => First(t, {b})
    BY <1>0, <2>1 DEF First
  <2>3. ASSUME NEW i \in DOMAIN t, t[i] = a PROVE (i + 1) \in DOMAIN t /\ t[i + 1] = b
    <3>1. (i + 1) \in DOMAIN s /\ s[i + 1] = a
      BY <1>0, <2>3
    <3>2. ((i + 1) + 1) \in DOMAIN s /\ s[(i + 1) + 1] = b
      BY <1>1, <3>1 DEF Follow
    <3> QED BY <1>0, <2>3, <3>2
  <2> QED BY <2>2, <2>3 DEF Follow
<1>2. ASSUME Head(s) = a => First(t, {b}), Follow(t, a, b) PROVE Follow(s, a, b)
  <2>1. ASSUME NEW i \in DOMAIN s, s[i] = a PROVE (i + 1) \in DOMAIN s /\ s[i + 1] = b
    <3>1. CASE i = 1
      BY <1>0, <1>2, <2>1, <3>1 DEF First
    <3>2. CASE i # 1
      <4>1. (i - 1) \in DOMAIN t /\ t[i - 1] = a
        BY <1>0, <2>1, <3>2
      <4>2. ((i - 1) + 1) \in DOMAIN t /\ t[(i - 1) + 1] = b
        BY <1>2, <4>1 DEF Follow
      <4> QED BY <1>0, <2>1, <4>2
    <3> QED BY <3>1, <3>2
  <2> QED BY <2>1 DEF Follow
<1> QED BY <1>1, <1>2 DEF t

\* After, by the head and the rest of a list.
LEMMA AfterFirst ==
  ASSUME NEW s \in Seq(Names), s # <<>>
  PROVE  \A these, those : After(s, these, those) <=>
            (Head(s) \in these => ~Reaches(Tail(s), those, Names)) /\ After(Tail(s), these, those)
<1> SUFFICES ASSUME NEW these, NEW those
             PROVE  After(s, these, those) <=>
                      (Head(s) \in these => ~Reaches(Tail(s), those, Names)) /\ After(Tail(s), these, those)
  OBVIOUS
<1> DEFINE t == Tail(s)
<1>0. /\ Len(s) \in Nat \ {0} /\ DOMAIN s = 1..Len(s) /\ Head(s) = s[1] /\ t \in Seq(Names)
      /\ DOMAIN t = 1..(Len(s) - 1) /\ \A i \in 1..(Len(s) - 1) : t[i] = s[i + 1]
      /\ \A i \in 1..(Len(s) - 1) : t[i] \in Names
  OBVIOUS
<1> HIDE DEF t
<1>r. Reaches(t, those, Names) <=> \E i \in DOMAIN t : t[i] \in those
  BY <1>0 DEF Reaches
<1>1. ASSUME After(s, these, those) PROVE (Head(s) \in these => ~Reaches(t, those, Names)) /\ After(t, these, those)
  <2>1. ASSUME Head(s) \in these, NEW i \in DOMAIN t PROVE t[i] \notin those
    <3>1. 1 \in DOMAIN s /\ (i + 1) \in DOMAIN s /\ 1 < i + 1 /\ s[i + 1] = t[i] /\ s[1] \in these
      BY <1>0, <2>1
    <3> QED BY <1>1, <3>1 DEF After
  <2>2. ASSUME NEW i \in DOMAIN t, NEW k \in DOMAIN t, i < k, t[i] \in these PROVE t[k] \notin those
    <3>1. (i + 1) \in DOMAIN s /\ (k + 1) \in DOMAIN s /\ i + 1 < k + 1 /\ s[i + 1] = t[i] /\ s[k + 1] = t[k]
      BY <1>0, <2>2
    <3> QED BY <1>1, <2>2, <3>1 DEF After
  <2> QED BY <1>r, <2>1, <2>2 DEF After
<1>2. ASSUME Head(s) \in these => ~Reaches(t, those, Names), After(t, these, those) PROVE After(s, these, those)
  <2>1. ASSUME NEW i \in DOMAIN s, NEW k \in DOMAIN s, i < k, s[i] \in these PROVE s[k] \notin those
    <3>1. (k - 1) \in DOMAIN t /\ t[k - 1] = s[k]
      BY <1>0, <2>1
    <3>2. CASE i = 1
      BY <1>0, <1>2, <1>r, <2>1, <3>1, <3>2
    <3>3. CASE i # 1
      <4>1. (i - 1) \in DOMAIN t /\ t[i - 1] = s[i] /\ i - 1 < k - 1
        BY <1>0, <2>1, <3>3
      <4> QED BY <1>2, <2>1, <3>1, <4>1 DEF After
    <3> QED BY <3>2, <3>3
  <2> QED BY <2>1 DEF After
<1> QED BY <1>1, <1>2 DEF t

\* What is reached past fewer awaits is reached past more, and so are more aims.
LEMMA ReachesMore ==
  ASSUME NEW s, NEW aims, NEW past, NEW aims2, NEW past2, Reaches(s, aims, past), aims \subseteq aims2, past \subseteq past2
  PROVE  Reaches(s, aims2, past2)
BY DEF Reaches

\* What a list without an await does not reach.
LEMMA ReachesNone ==
  ASSUME NEW s, NEW aims, NEW past, \A i \in DOMAIN s : s[i] \notin aims
  PROVE  ~Reaches(s, aims, past)
BY DEF Reaches

Uses ==
    {"set", "points", "fetch", "compare", "confirm", "remove", "edit", "push", "days", "lock", "aim", "pending", "flush",
     "drop"}
UserUses == {"set", "points", "fetch", "compare", "confirm", "remove"}
Closing == {"set", "fetch", "compare", "confirm", "remove", "apply", "create", "status"}
Clears == {"clearSub", "clearUser", "refillUser", "drop"}
Pushing == {"clearSub", "clearUser", "mark", "discount", "refillUser", "extend"}
Removing == {"clearSub", "clearUser", "drop"}

UsesAhead(s) == Reaches(s, Uses, Names)
UserNext(s) == Reaches(s, UserUses, Names \ {"user"})
PushAhead(s) == Reaches(s, {"push"}, Names)
PushDue(s) == Reaches(s, {"push"}, Names \ {"edit", "days"})
PushNext(s) == Reaches(s, {"push"}, Pushing)
RemoveDue(s) == Reaches(s, {"remove"}, Names)
RemoveNext(s) == Reaches(s, {"remove"}, Removing)
SyncAhead(s) == Reaches(s, {"fetch", "compare"}, Names)
DropAhead(s) == Reaches(s, {"drop"}, Names)
ApplyAhead(s) == Reaches(s, {"apply"}, Names)
ApplyDue(s) == Reaches(s, {"apply"}, Names \ {"restore"})
ClearsAhead(s) == Reaches(s, Clears, Names)

\* The reads of a synchronisation, and what decides it.
Sync1(s) == First(s, {"fetch", "compare"})
Sync2(s) == First(s, {"sub", "keepSub"}) /\ Sync1(Tail(s))
Sync3(s) == First(s, {"user", "keepUser"}) /\ First(Tail(s), {"sub"}) /\ Sync2(Tail(s))

Dull(s) == \A i \in DOMAIN s : s[i] \notin (Special \ {"MENU"}) \cup Uses

\* Subscriptions and accounts of the panel's first n accounts.
SubT(s, n) == s \in SubRecords /\ s.account <= n
AccT(a, n) == a \in AccountRecords /\ a.uuid <= n

Needs == {"point", "create", "status", "extend", "restore"}
Sound(r, n) ==
    LET s == r.todo IN
    /\ r.usr \in UserViews \cup {None} /\ (r.sub = None \/ SubT(r.sub, n))
    /\ r.usr = None => ~UserNext(s) /\ ~ApplyAhead(s)
    /\ PushDue(s) => r.sub # None /\ PushNext(s)
    /\ After(s, {"push"}, {"push"}) /\ After(s, Closing, Uses)
    /\ r.ask = Invalid \/ Follow(s, "edit", "push")
    /\ Follow(s, "days", "push")
    /\ RemoveDue(s) => RemoveNext(s)
    /\ SyncAhead(s) => Sync1(s) \/ Sync2(s) \/ Sync3(s)
    /\ First(s, {"extend"}) => PushNext(s)
    /\ DropAhead(s) => RemoveNext(s)
    /\ ApplyDue(s) => AccT(r.remna, n)
    /\ ClearsAhead(s) => r.usr # None \/ r.sub # None
    /\ First(s, Needs) => r.sub # None
    /\ First(s, {"keepUser", "refillUser"}) => r.usr # None

\* Every notion of an await ahead, by the head and the rest of a list.
LEMMA AheadFirst ==
  ASSUME NEW s \in Seq(Names), s # <<>>
  PROVE  LET h == Head(s)
             t == Tail(s) IN
         /\ h \in Names /\ t \in Seq(Names)
         /\ UsesAhead(s) <=> h \in Uses \/ UsesAhead(t)
         /\ UserNext(s) <=> h \in UserUses \/ (h # "user" /\ UserNext(t))
         /\ PushAhead(s) <=> h = "push" \/ PushAhead(t)
         /\ PushDue(s) <=> h = "push" \/ (h \notin {"edit", "days"} /\ PushDue(t))
         /\ PushNext(s) <=> h = "push" \/ (h \in Pushing /\ PushNext(t))
         /\ RemoveDue(s) <=> h = "remove" \/ RemoveDue(t)
         /\ RemoveNext(s) <=> h = "remove" \/ (h \in Removing /\ RemoveNext(t))
         /\ SyncAhead(s) <=> h \in {"fetch", "compare"} \/ SyncAhead(t)
         /\ DropAhead(s) <=> h = "drop" \/ DropAhead(t)
         /\ ApplyAhead(s) <=> h = "apply" \/ ApplyAhead(t)
         /\ ApplyDue(s) <=> h = "apply" \/ (h # "restore" /\ ApplyDue(t))
         /\ ClearsAhead(s) <=> h \in Clears \/ ClearsAhead(t)
         /\ After(s, {"push"}, {"push"}) <=> (h = "push" => ~PushAhead(t)) /\ After(t, {"push"}, {"push"})
         /\ After(s, Closing, Uses) <=> (h \in Closing => ~UsesAhead(t)) /\ After(t, Closing, Uses)
         /\ Follow(s, "edit", "push") <=> (h = "edit" => First(t, {"push"})) /\ Follow(t, "edit", "push")
         /\ Follow(s, "days", "push") <=> (h = "days" => First(t, {"push"})) /\ Follow(t, "days", "push")
<1>1. Head(s) \in Names /\ Tail(s) \in Seq(Names)
  BY RestFacts
<1>2. \A aims, past : Reaches(s, aims, past) <=>
            Head(s) \in aims \/ (Head(s) \in past /\ Reaches(Tail(s), aims, past))
  BY ReachesFirst
<1>3. /\ UsesAhead(s) <=> Head(s) \in Uses \/ UsesAhead(Tail(s))
      /\ UserNext(s) <=> Head(s) \in UserUses \/ (Head(s) # "user" /\ UserNext(Tail(s)))
      /\ PushAhead(s) <=> Head(s) = "push" \/ PushAhead(Tail(s))
  BY <1>1, <1>2 DEF UsesAhead, UserNext, PushAhead
<1>4. /\ PushDue(s) <=> Head(s) = "push" \/ (Head(s) \notin {"edit", "days"} /\ PushDue(Tail(s)))
      /\ PushNext(s) <=> Head(s) = "push" \/ (Head(s) \in Pushing /\ PushNext(Tail(s)))
      /\ RemoveDue(s) <=> Head(s) = "remove" \/ RemoveDue(Tail(s))
      /\ RemoveNext(s) <=> Head(s) = "remove" \/ (Head(s) \in Removing /\ RemoveNext(Tail(s)))
  BY <1>1, <1>2 DEF PushDue, PushNext, RemoveDue, RemoveNext
<1>5. /\ SyncAhead(s) <=> Head(s) \in {"fetch", "compare"} \/ SyncAhead(Tail(s))
      /\ DropAhead(s) <=> Head(s) = "drop" \/ DropAhead(Tail(s))
  BY <1>1, <1>2 DEF SyncAhead, DropAhead
<1>6. /\ ApplyAhead(s) <=> Head(s) = "apply" \/ ApplyAhead(Tail(s))
      /\ ApplyDue(s) <=> Head(s) = "apply" \/ (Head(s) # "restore" /\ ApplyDue(Tail(s)))
      /\ ClearsAhead(s) <=> Head(s) \in Clears \/ ClearsAhead(Tail(s))
  BY <1>1, <1>2 DEF ApplyAhead, ApplyDue, ClearsAhead
<1>7. /\ After(s, {"push"}, {"push"}) <=> (Head(s) = "push" => ~PushAhead(Tail(s))) /\ After(Tail(s), {"push"}, {"push"})
      /\ After(s, Closing, Uses) <=> (Head(s) \in Closing => ~UsesAhead(Tail(s))) /\ After(Tail(s), Closing, Uses)
  BY AfterFirst DEF PushAhead, UsesAhead
<1> QED BY <1>1, <1>3, <1>4, <1>5, <1>6, <1>7, FollowFirst

\* Which of these notions imply which.
LEMMA AheadMore ==
  ASSUME NEW s
  PROVE  /\ PushDue(s) => PushAhead(s)
         /\ PushNext(s) => PushAhead(s)
         /\ PushAhead(s) \/ RemoveDue(s) \/ SyncAhead(s) \/ UserNext(s) \/ DropAhead(s) => UsesAhead(s)
         /\ DropAhead(s) => ClearsAhead(s)
         /\ ApplyDue(s) => ApplyAhead(s)
         /\ RemoveNext(s) => RemoveDue(s)
<1> DEFINE D == Names \ {"edit", "days"}
<1>1. D \subseteq Names /\ Pushing \subseteq Names /\ Removing \subseteq Names /\ {"keepSub"} \subseteq Names
  BY DEF Pushing, Removing, Names, Special, Ordinary
<1>2. {"push"} \subseteq Uses /\ {"remove"} \subseteq Uses /\ {"fetch", "compare"} \subseteq Uses /\ UserUses \subseteq Uses
      /\ {"drop"} \subseteq Uses /\ {"drop"} \subseteq Clears
  BY DEF Uses, UserUses, Clears
<1>3. PushDue(s) => PushAhead(s)
  BY <1>1, ReachesMore DEF PushDue, PushAhead
<1>4. PushNext(s) => PushAhead(s)
  BY <1>1, ReachesMore DEF PushNext, PushAhead
<1>5. PushAhead(s) \/ RemoveDue(s) \/ DropAhead(s) => UsesAhead(s)
  BY <1>2, ReachesMore DEF PushAhead, RemoveDue, DropAhead, UsesAhead
<1>6. SyncAhead(s) => UsesAhead(s)
  BY <1>2, ReachesMore DEF SyncAhead, UsesAhead
<1>7. UserNext(s) => UsesAhead(s)
  BY <1>2, ReachesMore DEF UserNext, UsesAhead
<1>8. DropAhead(s) => ClearsAhead(s)
  BY <1>2, ReachesMore DEF DropAhead, ClearsAhead
<1>9. ApplyDue(s) => ApplyAhead(s)
  BY ReachesMore DEF ApplyDue, ApplyAhead
<1>11. RemoveNext(s) => RemoveDue(s)
  BY <1>1, ReachesMore DEF RemoveNext, RemoveDue
<1> QED BY <1>3, <1>4, <1>5, <1>6, <1>7, <1>8, <1>9, <1>11

\* A list with nothing that matters here.
LEMMA DullFacts ==
  ASSUME NEW s \in Seq(Names), Dull(s)
  PROVE  /\ ~UsesAhead(s) /\ ~ApplyAhead(s) /\ ~ClearsAhead(s)
         /\ After(s, {"push"}, {"push"}) /\ After(s, Closing, Uses)
         /\ Follow(s, "edit", "push") /\ Follow(s, "days", "push")
         /\ ~First(s, (Special \ {"MENU"}) \cup Uses)
<1>1. \A i \in DOMAIN s : s[i] \notin Uses /\ s[i] \notin {"apply"} /\ s[i] \notin Clears
  BY DEF Dull, Special, Clears, Uses
<1>2. ~UsesAhead(s) /\ ~ApplyAhead(s) /\ ~ClearsAhead(s)
  BY <1>1, ReachesNone DEF UsesAhead, ApplyAhead, ClearsAhead
<1>3. \A i \in DOMAIN s : s[i] \notin {"push"} /\ s[i] # "edit" /\ s[i] # "days"
  BY <1>1 DEF Uses
<1>4. After(s, {"push"}, {"push"}) /\ After(s, Closing, Uses)
  BY <1>1, <1>3 DEF After
<1>5. Follow(s, "edit", "push") /\ Follow(s, "days", "push")
  BY <1>3 DEF Follow
<1>6. s # <<>> => 1 \in DOMAIN s /\ Head(s) = s[1]
  BY EmptySeq
<1>7. ~First(s, (Special \ {"MENU"}) \cup Uses)
  BY <1>6 DEF First, Dull
<1> QED BY <1>2, <1>4, <1>5, <1>7

\* A job with only dull awaits left needs nothing of its copies but their types.
LEMMA DullSound ==
  ASSUME NEW r, NEW n, r.todo \in Seq(Names), Dull(r.todo),
         r.usr \in UserViews \cup {None}, r.sub = None \/ SubT(r.sub, n)
  PROVE  Sound(r, n)
<1> DEFINE s == r.todo
<1>1. /\ ~UsesAhead(s) /\ ~ApplyAhead(s) /\ ~ClearsAhead(s)
      /\ After(s, {"push"}, {"push"}) /\ After(s, Closing, Uses)
      /\ Follow(s, "edit", "push") /\ Follow(s, "days", "push")
      /\ ~First(s, (Special \ {"MENU"}) \cup Uses)
  BY DullFacts
<1>2. ~UserNext(s) /\ ~PushDue(s) /\ ~RemoveDue(s) /\ ~SyncAhead(s) /\ ~DropAhead(s) /\ ~ApplyDue(s)
  BY <1>1, AheadMore
<1>3. ~First(s, {"extend"}) /\ ~First(s, Needs) /\ ~First(s, {"keepUser", "refillUser"})
  BY <1>1 DEF First, Needs, Special
<1> QED BY <1>1, <1>2, <1>3 DEF Sound

\* The rest of a list after an await that was done.
LEMMA PopSound ==
  ASSUME NEW r, NEW n, Sound(r, n), r.todo \in Seq(Names), r.todo # <<>>, NEW q,
         q.todo = Tail(r.todo), q.ask = r.ask,
         q.usr \in UserViews \cup {None}, r.usr # None \/ Head(r.todo) = "user" => q.usr # None,
         q.sub = None \/ SubT(q.sub, n),
         r.sub # None /\ Head(r.todo) # "sub" => q.sub # None,
         Head(r.todo) = "sub" => ~ClearsAhead(Tail(r.todo)),
         q.remna = r.remna \/ AccT(q.remna, n), Head(r.todo) = "restore" => AccT(q.remna, n),
         Head(r.todo) \in {"edit", "days"} => First(Tail(r.todo), {"push"}) /\ q.sub # None,
         First(Tail(r.todo), Needs) => q.sub # None,
         ~First(Tail(r.todo), {"extend", "keepUser", "refillUser"})
  PROVE  Sound(q, n)
<1> DEFINE s == r.todo
           h == Head(s)
           t == Tail(s)
<1>1. /\ h \in Names /\ t \in Seq(Names)
      /\ UserNext(s) <=> h \in UserUses \/ (h # "user" /\ UserNext(t))
      /\ PushDue(s) <=> h = "push" \/ (h \notin {"edit", "days"} /\ PushDue(t))
      /\ PushNext(s) <=> h = "push" \/ (h \in Pushing /\ PushNext(t))
      /\ RemoveDue(s) <=> h = "remove" \/ RemoveDue(t)
      /\ RemoveNext(s) <=> h = "remove" \/ (h \in Removing /\ RemoveNext(t))
      /\ SyncAhead(s) <=> h \in {"fetch", "compare"} \/ SyncAhead(t)
      /\ DropAhead(s) <=> h = "drop" \/ DropAhead(t)
      /\ ApplyAhead(s) <=> h = "apply" \/ ApplyAhead(t)
      /\ ApplyDue(s) <=> h = "apply" \/ (h # "restore" /\ ApplyDue(t))
      /\ ClearsAhead(s) <=> h \in Clears \/ ClearsAhead(t)
      /\ After(s, {"push"}, {"push"}) <=> (h = "push" => ~PushAhead(t)) /\ After(t, {"push"}, {"push"})
      /\ After(s, Closing, Uses) <=> (h \in Closing => ~UsesAhead(t)) /\ After(t, Closing, Uses)
      /\ Follow(s, "edit", "push") <=> (h = "edit" => First(t, {"push"})) /\ Follow(t, "edit", "push")
      /\ Follow(s, "days", "push") <=> (h = "days" => First(t, {"push"})) /\ Follow(t, "days", "push")
  BY AheadFirst
<1>2. /\ PushDue(t) => PushAhead(t)
      /\ PushAhead(t) \/ RemoveDue(t) \/ SyncAhead(t) \/ UserNext(t) \/ DropAhead(t) => UsesAhead(t)
      /\ DropAhead(t) => ClearsAhead(t)
      /\ ApplyDue(t) => ApplyAhead(t)
  BY AheadMore
<1>3. First(t, {"push"}) => PushNext(t)
  <2>1. ASSUME t # <<>>, Head(t) = "push" PROVE PushNext(t)
    BY <1>1, <2>1, AheadFirst
  <2> QED BY <2>1 DEF First
<1> HIDE DEF s, h, t
<1>4. /\ r.usr = None => ~UserNext(s) /\ ~ApplyAhead(s)
      /\ PushDue(s) => r.sub # None /\ PushNext(s)
      /\ After(s, {"push"}, {"push"}) /\ After(s, Closing, Uses)
      /\ r.ask = Invalid \/ Follow(s, "edit", "push")
      /\ Follow(s, "days", "push")
      /\ RemoveDue(s) => RemoveNext(s)
      /\ SyncAhead(s) => Sync1(s) \/ Sync2(s) \/ Sync3(s)
      /\ DropAhead(s) => RemoveNext(s)
      /\ ApplyDue(s) => AccT(r.remna, n)
      /\ ClearsAhead(s) => r.usr # None \/ r.sub # None
  BY DEF Sound, s
<1>5. q.usr = None => ~UserNext(t) /\ ~ApplyAhead(t)
  BY <1>1, <1>4 DEF s, h, t
<1>6. PushDue(t) => q.sub # None /\ PushNext(t)
  <2>1. CASE h = "push"
    BY <1>1, <1>2, <1>4, <2>1
  <2>2. CASE h \in {"edit", "days"}
    BY <1>3, <2>2 DEF s, h, t
  <2>3. CASE h \notin {"push", "edit", "days"}
    <3>1. PushDue(t) => r.sub # None /\ h \in Pushing /\ PushNext(t)
      BY <1>1, <1>4, <2>3
    <3>2. "sub" \notin Pushing
      BY DEF Pushing
    <3> QED BY <3>1, <3>2 DEF s, h, t
  <2> QED BY <2>1, <2>2, <2>3
<1>7. /\ After(t, {"push"}, {"push"}) /\ After(t, Closing, Uses)
      /\ q.ask = Invalid \/ Follow(t, "edit", "push")
      /\ Follow(t, "days", "push")
  BY <1>1, <1>4
<1>8. (RemoveDue(t) => RemoveNext(t)) /\ (DropAhead(t) => RemoveNext(t))
  <2>1. CASE h = "remove"
    <3>1. ~UsesAhead(t)
      BY <1>1, <1>4, <2>1 DEF Closing
    <3> QED BY <1>2, <3>1
  <2>2. CASE h # "remove"
    BY <1>1, <1>4, <2>2
  <2> QED BY <2>1, <2>2
<1>9. SyncAhead(t) => Sync1(t) \/ Sync2(t) \/ Sync3(t)
  <2>1. CASE h \in {"fetch", "compare"}
    <3>1. ~UsesAhead(t)
      BY <1>1, <1>4, <2>1 DEF Closing
    <3> QED BY <1>2, <3>1
  <2>2. CASE h \notin {"fetch", "compare"}
    <3>1. SyncAhead(t) => Sync2(s) \/ Sync3(s)
      BY <1>1, <1>4, <2>2 DEF Sync1, First, h
    <3>2. (Sync2(s) => Sync1(t)) /\ (Sync3(s) => Sync2(t))
      BY DEF Sync2, Sync3, t
    <3> QED BY <3>1, <3>2
  <2> QED BY <2>1, <2>2
<1>10. ApplyDue(t) => AccT(q.remna, n)
  BY <1>1, <1>4 DEF s, h, t
<1>11. ClearsAhead(t) => q.usr # None \/ q.sub # None
  BY <1>1, <1>4 DEF s, h, t
<1>12. (First(t, {"extend"}) => PushNext(t)) /\ (First(t, {"keepUser", "refillUser"}) => q.usr # None)
  BY DEF First, s, t
<1> QED
  <2>1. q.todo = t
    BY DEF s, t
  <2>2. First(t, Needs) => q.sub # None
    BY DEF s, t
  <2> QED BY <1>5, <1>6, <1>7, <1>8, <1>9, <1>10, <1>11, <1>12, <2>1, <2>2 DEF Sound

-----------------------------------------------------------------------------
(* What a job has in hand                                                  *)

AskOK(j, ask) ==
    /\ DOMAIN ask = {"field", "to"}
    /\ j \in Desks => /\ ask.field = "role" => ask.to \in DOMAIN Rank
                      /\ ask.field = "discount" => ask.to \in Nat
                      /\ ask.field = "points" => ask.to \in Int
                      /\ ask.field = "days" => ask.to \in Int
                      /\ ask.field \in {"traffic_limit", "device_limit"} => ask.to \in Nat
    /\ j \in Runs => ask.to \in Nat
RecordOK(j, r, n) ==
    /\ r.user \in Users \cup {None} /\ AskOK(j, r.ask) /\ Sound(r, n)
    /\ j \in Givers \/ (r.rescue \in Seq(Names) /\ Dull(r.rescue))
RecordsOK == \A j \in Jobs : RecordOK(j, job[j], accounts)

PersonsTyped == \A u \in Users : person[u] \in UserRecords
PanelTyped == accounts \in 0..MaxAccounts /\ \A u \in Users : account[u] = None \/ AccT(account[u], accounts)
BillsTyped == \A id \in DOMAIN subs : SubT(subs[id], accounts)
CopiesTyped ==
    \A u \in Users : /\ userCache[u].cached => userCache[u].value \in UserViews
                     /\ subCache[u].cached => subCache[u].value = None \/ SubT(subCache[u].value, accounts)
StateTyped == (\A u \in Users : state[u].to \in Nat /\ DOMAIN state[u] = {"field", "to"}) /\ issued \subseteq Rewards
DueTyped == DOMAIN due = Users /\ (\A u \in Users : DOMAIN due[u] = {"points", "days"}) /\ disturbed \subseteq Users
StoresTyped == PersonsTyped /\ PanelTyped /\ BillsTyped /\ CopiesTyped /\ StateTyped /\ DueTyped

\* What a job has in hand stays sound as the panel creates accounts.
LEMMA SoundMore ==
  ASSUME NEW r, NEW n \in Nat, NEW m \in Nat, n <= m, Sound(r, n)
  PROVE  Sound(r, m)
<1>1. \A s : SubT(s, n) => SubT(s, m)
  BY DEF SubT, SubRecords
<1>2. \A a : AccT(a, n) => AccT(a, m)
  BY DEF AccT, AccountRecords
<1> QED BY <1>1, <1>2 DEF Sound

\* A step of one job whose record stays sound.
LEMMA RecordsKeep ==
  ASSUME RecordsOK, NEW j \in Jobs, DOMAIN job = Jobs, Own(j), accounts \in Nat, accounts' \in Nat, accounts <= accounts',
         RecordOK(j, job'[j], accounts')
  PROVE  RecordsOK'
<1> SUFFICES ASSUME NEW k \in Jobs PROVE RecordOK(k, job'[k], accounts')
  BY DEF RecordsOK
<1>1. CASE k = j
  BY <1>1
<1>2. CASE k # j
  <2>1. job'[k] = job[k] /\ RecordOK(k, job[k], accounts)
    BY <1>2 DEF Own, RecordsOK
  <2>2. Sound(job[k], accounts')
    BY <2>1, SoundMore DEF RecordOK
  <2> QED BY <2>1, <2>2 DEF RecordOK
<1> QED BY <1>1, <1>2

\* One await before a list.
Cons(s, h, t) == s \in Seq(Names) /\ s # <<>> /\ Head(s) = h /\ Tail(s) = t
\* An await put before a list is such a head and rest.
LEMMA ConsMade == \A h \in Names, t \in Seq(Names) : Cons(<<h>> \o t, h, t)
BY ConsFacts DEF Cons
\* Every notion of an await ahead, of a list with a given head and rest.
LEMMA ConsAhead ==
  ASSUME NEW h, NEW t, NEW s, Cons(s, h, t)
  PROVE  /\ s \in Seq(Names) /\ s # <<>> /\ h \in Names /\ t \in Seq(Names)
         /\ \A heads : First(s, heads) <=> h \in heads
         /\ Sync1(s) <=> h \in {"fetch", "compare"}
         /\ Sync2(s) <=> h \in {"sub", "keepSub"} /\ Sync1(t)
         /\ Sync3(s) <=> h \in {"user", "keepUser"} /\ First(t, {"sub"}) /\ Sync2(t)
         /\ UsesAhead(s) <=> h \in Uses \/ UsesAhead(t)
         /\ UserNext(s) <=> h \in UserUses \/ (h # "user" /\ UserNext(t))
         /\ PushAhead(s) <=> h = "push" \/ PushAhead(t)
         /\ PushDue(s) <=> h = "push" \/ (h \notin {"edit", "days"} /\ PushDue(t))
         /\ PushNext(s) <=> h = "push" \/ (h \in Pushing /\ PushNext(t))
         /\ RemoveDue(s) <=> h = "remove" \/ RemoveDue(t)
         /\ RemoveNext(s) <=> h = "remove" \/ (h \in Removing /\ RemoveNext(t))
         /\ SyncAhead(s) <=> h \in {"fetch", "compare"} \/ SyncAhead(t)
         /\ DropAhead(s) <=> h = "drop" \/ DropAhead(t)
         /\ ApplyAhead(s) <=> h = "apply" \/ ApplyAhead(t)
         /\ ApplyDue(s) <=> h = "apply" \/ (h # "restore" /\ ApplyDue(t))
         /\ ClearsAhead(s) <=> h \in Clears \/ ClearsAhead(t)
         /\ After(s, {"push"}, {"push"}) <=> (h = "push" => ~PushAhead(t)) /\ After(t, {"push"}, {"push"})
         /\ After(s, Closing, Uses) <=> (h \in Closing => ~UsesAhead(t)) /\ After(t, Closing, Uses)
         /\ Follow(s, "edit", "push") <=> (h = "edit" => First(t, {"push"})) /\ Follow(t, "edit", "push")
         /\ Follow(s, "days", "push") <=> (h = "days" => First(t, {"push"})) /\ Follow(t, "days", "push")
<1>1. s \in Seq(Names) /\ s # <<>> /\ Head(s) = h /\ Tail(s) = t /\ h \in Names /\ t \in Seq(Names)
  BY RestFacts DEF Cons
<1>2. /\ \A heads : First(s, heads) <=> h \in heads
      /\ Sync1(s) <=> h \in {"fetch", "compare"}
      /\ Sync2(s) <=> h \in {"sub", "keepSub"} /\ Sync1(t)
      /\ Sync3(s) <=> h \in {"user", "keepUser"} /\ First(t, {"sub"}) /\ Sync2(t)
  BY <1>1 DEF First, Sync1, Sync2, Sync3
<1>3. /\ UsesAhead(s) <=> h \in Uses \/ UsesAhead(t)
      /\ UserNext(s) <=> h \in UserUses \/ (h # "user" /\ UserNext(t))
      /\ PushAhead(s) <=> h = "push" \/ PushAhead(t)
      /\ PushDue(s) <=> h = "push" \/ (h \notin {"edit", "days"} /\ PushDue(t))
      /\ PushNext(s) <=> h = "push" \/ (h \in Pushing /\ PushNext(t))
      /\ RemoveDue(s) <=> h = "remove" \/ RemoveDue(t)
      /\ RemoveNext(s) <=> h = "remove" \/ (h \in Removing /\ RemoveNext(t))
      /\ SyncAhead(s) <=> h \in {"fetch", "compare"} \/ SyncAhead(t)
      /\ DropAhead(s) <=> h = "drop" \/ DropAhead(t)
      /\ ApplyAhead(s) <=> h = "apply" \/ ApplyAhead(t)
      /\ ApplyDue(s) <=> h = "apply" \/ (h # "restore" /\ ApplyDue(t))
      /\ ClearsAhead(s) <=> h \in Clears \/ ClearsAhead(t)
  BY <1>1, AheadFirst
<1>4. /\ After(s, {"push"}, {"push"}) <=> (h = "push" => ~PushAhead(t)) /\ After(t, {"push"}, {"push"})
      /\ After(s, Closing, Uses) <=> (h \in Closing => ~UsesAhead(t)) /\ After(t, Closing, Uses)
      /\ Follow(s, "edit", "push") <=> (h = "edit" => First(t, {"push"})) /\ Follow(t, "edit", "push")
      /\ Follow(s, "days", "push") <=> (h = "days" => First(t, {"push"})) /\ Follow(t, "days", "push")
  BY <1>1, AheadFirst
<1> QED BY <1>1, <1>2, <1>3, <1>4

\* The copies to clear after a write, before what follows.
LEMMA ClearSound ==
  ASSUME NEW r, NEW n, Sound(r, n), r.todo \in Seq(Names), NEW h \in {"clearSub", "clearUser", "refillUser"},
         ~SyncAhead(r.todo), r.usr # None \/ r.sub # None, h = "refillUser" => r.usr # None /\ ~RemoveDue(r.todo),
         NEW q, Cons(q.todo, h, r.todo), q.usr = r.usr, q.sub = r.sub, q.ask = r.ask, q.remna = r.remna
  PROVE  Sound(q, n)
<1> DEFINE t == r.todo
           s == q.todo
<1>0. h \in Names /\ h \notin Needs /\ h \notin Closing /\ h \notin UserUses /\ h \in Pushing
      /\ h # "user" /\ h # "push" /\ h \notin {"edit", "days"} /\ h # "edit" /\ h # "days" /\ h # "remove"
      /\ h \notin {"fetch", "compare"} /\ h # "drop" /\ h # "apply" /\ h # "restore" /\ h # "extend" /\ h # "keepUser"
      /\ (h # "refillUser" => h \in Removing)
  BY DEF Names, Special, Needs, Closing, UserUses, Pushing, Removing
<1>1. /\ UserNext(s) <=> UserNext(t)
      /\ PushDue(s) <=> PushDue(t)
      /\ PushNext(s) <=> PushNext(t)
      /\ RemoveDue(s) <=> RemoveDue(t)
      /\ h # "refillUser" => (RemoveNext(s) <=> RemoveNext(t))
      /\ SyncAhead(s) <=> SyncAhead(t)
      /\ DropAhead(s) <=> DropAhead(t)
      /\ ApplyAhead(s) <=> ApplyAhead(t)
      /\ ApplyDue(s) <=> ApplyDue(t)
      /\ After(s, {"push"}, {"push"}) <=> After(t, {"push"}, {"push"})
      /\ After(s, Closing, Uses) <=> After(t, Closing, Uses)
      /\ Follow(s, "edit", "push") <=> Follow(t, "edit", "push")
      /\ Follow(s, "days", "push") <=> Follow(t, "days", "push")
  <2>1. /\ UserNext(s) <=> h \in UserUses \/ (h # "user" /\ UserNext(t))
        /\ PushDue(s) <=> h = "push" \/ (h \notin {"edit", "days"} /\ PushDue(t))
        /\ PushNext(s) <=> h = "push" \/ (h \in Pushing /\ PushNext(t))
        /\ RemoveDue(s) <=> h = "remove" \/ RemoveDue(t)
        /\ RemoveNext(s) <=> h = "remove" \/ (h \in Removing /\ RemoveNext(t))
        /\ SyncAhead(s) <=> h \in {"fetch", "compare"} \/ SyncAhead(t)
        /\ DropAhead(s) <=> h = "drop" \/ DropAhead(t)
        /\ ApplyAhead(s) <=> h = "apply" \/ ApplyAhead(t)
        /\ ApplyDue(s) <=> h = "apply" \/ (h # "restore" /\ ApplyDue(t))
        /\ After(s, {"push"}, {"push"}) <=> (h = "push" => ~PushAhead(t)) /\ After(t, {"push"}, {"push"})
        /\ After(s, Closing, Uses) <=> (h \in Closing => ~UsesAhead(t)) /\ After(t, Closing, Uses)
        /\ Follow(s, "edit", "push") <=> (h = "edit" => First(t, {"push"})) /\ Follow(t, "edit", "push")
        /\ Follow(s, "days", "push") <=> (h = "days" => First(t, {"push"})) /\ Follow(t, "days", "push")
    BY ConsAhead
  <2> HIDE DEF s, t
  <2> QED BY <1>0, <2>1
<1>f. ~First(s, {"extend"}) /\ ~First(s, Needs) /\ (First(s, {"keepUser", "refillUser"}) => h = "refillUser")
  <2>1. \A heads : First(s, heads) <=> h \in heads
    BY ConsAhead
  <2> HIDE DEF s, t
  <2> QED BY <1>0, <2>1
<1>2. RemoveNext(t) => RemoveDue(t)
  BY AheadMore
<1> HIDE DEF s, t
<1>3. /\ r.usr \in UserViews \cup {None} /\ (r.sub = None \/ SubT(r.sub, n))
      /\ r.usr = None => ~UserNext(t) /\ ~ApplyAhead(t)
      /\ PushDue(t) => r.sub # None /\ PushNext(t)
      /\ After(t, {"push"}, {"push"}) /\ After(t, Closing, Uses)
      /\ r.ask = Invalid \/ Follow(t, "edit", "push")
      /\ Follow(t, "days", "push")
      /\ RemoveDue(t) => RemoveNext(t)
      /\ DropAhead(t) => RemoveNext(t)
      /\ ApplyDue(t) => AccT(r.remna, n)
  BY DEF Sound, t
<1>4. ~SyncAhead(t) /\ (h = "refillUser" => r.usr # None /\ ~RemoveDue(t))
  BY DEF t
<1>5. /\ q.usr \in UserViews \cup {None} /\ (q.sub = None \/ SubT(q.sub, n))
      /\ q.usr = None => ~UserNext(s) /\ ~ApplyAhead(s)
      /\ PushDue(s) => q.sub # None /\ PushNext(s)
      /\ After(s, {"push"}, {"push"}) /\ After(s, Closing, Uses)
      /\ q.ask = Invalid \/ Follow(s, "edit", "push")
      /\ Follow(s, "days", "push")
  BY <1>0, <1>1, <1>3
<1>6. /\ RemoveDue(s) => RemoveNext(s)
      /\ DropAhead(s) => RemoveNext(s)
      /\ ApplyDue(s) => AccT(q.remna, n)
      /\ ~SyncAhead(s)
      /\ q.usr # None \/ q.sub # None
  BY <1>0, <1>1, <1>2, <1>3, <1>4
<1>7. First(s, {"keepUser", "refillUser"}) => q.usr # None
  BY <1>f, <1>4
<1> QED BY <1>5, <1>6, <1>7, <1>f DEF Sound, s

\* What a handler, a command or a task may begin with, having no copy yet.
Bare(s, ask) ==
    /\ ~UserNext(s) /\ ~ApplyAhead(s) /\ ~PushDue(s)
    /\ After(s, {"push"}, {"push"}) /\ After(s, Closing, Uses)
    /\ ask = Invalid \/ Follow(s, "edit", "push")
    /\ Follow(s, "days", "push") /\ ~RemoveDue(s) /\ ~DropAhead(s)
    /\ SyncAhead(s) => Sync1(s) \/ Sync2(s) \/ Sync3(s)
    /\ ~ClearsAhead(s) /\ ~First(s, Needs) /\ ~First(s, {"extend", "keepUser", "refillUser"})
\* A job whose list relies on no copy is sound with typed copies.
LEMMA BareSound ==
  ASSUME NEW q, NEW n, q.usr \in UserViews \cup {None}, q.sub = None \/ SubT(q.sub, n), Bare(q.todo, q.ask)
  PROVE  Sound(q, n)
<1>1. ~ApplyDue(q.todo)
  BY AheadMore DEF Bare
<1>2. ~First(q.todo, {"extend"}) /\ ~First(q.todo, {"keepUser", "refillUser"})
  BY DEF First, Bare
<1> QED BY <1>1, <1>2 DEF Sound, Bare

\* What a dull list is not.
Hushed(t) ==
    /\ t \in Seq(Names) /\ ~UsesAhead(t) /\ ~ApplyAhead(t) /\ ~ClearsAhead(t)
    /\ ~PushAhead(t) /\ ~RemoveDue(t) /\ ~SyncAhead(t) /\ ~UserNext(t) /\ ~DropAhead(t) /\ ~PushDue(t) /\ ~PushNext(t)
    /\ ~RemoveNext(t) /\ ~ApplyDue(t)
    /\ After(t, {"push"}, {"push"}) /\ After(t, Closing, Uses)
    /\ Follow(t, "edit", "push") /\ Follow(t, "days", "push")
\* A dull list is hushed.
LEMMA DullHushed == \A t \in Seq(Names) : Dull(t) => Hushed(t)
BY DullFacts, AheadMore DEF Hushed
\* A dull list relies on no copy.
LEMMA DullBare ==
  ASSUME NEW t \in Seq(Names), Dull(t), NEW ask
  PROVE  Bare(t, ask)
<1>1. Hushed(t) /\ ~First(t, (Special \ {"MENU"}) \cup Uses)
  BY DullHushed, DullFacts
<1>2. ~First(t, Needs) /\ ~First(t, {"extend", "keepUser", "refillUser"})
  BY <1>1 DEF First, Needs, Special
<1> QED BY <1>1, <1>2 DEF Hushed, Bare

\* The lists of a handler before a dull rest.
LEMMA SetBare ==
  ASSUME NEW t, Hushed(t), NEW x \in {"set", "points"}, NEW a, NEW s, Cons(a, x, t), Cons(s, "user", a), NEW ask
  PROVE  Bare(s, ask)
<1>1. /\ ~ApplyAhead(a) /\ ~PushDue(a) /\ After(a, {"push"}, {"push"}) /\ After(a, Closing, Uses)
      /\ Follow(a, "edit", "push") /\ Follow(a, "days", "push") /\ ~RemoveDue(a) /\ ~DropAhead(a) /\ ~SyncAhead(a)
      /\ ~ClearsAhead(a)
  BY ConsAhead DEF Hushed, Clears
<1>2. ~UserNext(s) /\ ~ApplyAhead(s) /\ ~PushDue(s) /\ ~RemoveDue(s) /\ ~DropAhead(s) /\ ~SyncAhead(s) /\ ~ClearsAhead(s)
  BY <1>1, ConsAhead DEF UserUses, Clears
<1>3. After(s, {"push"}, {"push"}) /\ After(s, Closing, Uses) /\ Follow(s, "edit", "push") /\ Follow(s, "days", "push")
  BY <1>1, ConsAhead DEF Closing
<1>4. ~First(s, Needs) /\ ~First(s, {"extend", "keepUser", "refillUser"})
  BY ConsAhead DEF Needs
<1> QED BY <1>2, <1>3, <1>4 DEF Bare

\* <<"user", "sub">> before something.
LEMMA ReadsBare ==
  ASSUME NEW t, NEW a, NEW s, Cons(a, "sub", t), Cons(s, "user", a), NEW ask,
         ~ApplyAhead(t), ~PushDue(t), After(t, {"push"}, {"push"}), After(t, Closing, Uses),
         ask = Invalid \/ Follow(t, "edit", "push"), Follow(t, "days", "push"), ~RemoveDue(t), ~DropAhead(t), ~ClearsAhead(t),
         SyncAhead(t) => Sync1(t)
  PROVE  Bare(s, ask)
<1>1. /\ ~ApplyAhead(a) /\ ~PushDue(a) /\ After(a, {"push"}, {"push"}) /\ After(a, Closing, Uses)
      /\ ask = Invalid \/ Follow(a, "edit", "push")
      /\ Follow(a, "days", "push") /\ ~RemoveDue(a) /\ ~DropAhead(a)
      /\ ~ClearsAhead(a)
  BY ConsAhead DEF Closing, Clears
<1>2. SyncAhead(a) => Sync2(a) /\ First(a, {"sub"})
  BY ConsAhead
<1>3. ~UserNext(s) /\ ~ApplyAhead(s) /\ ~PushDue(s) /\ ~RemoveDue(s) /\ ~DropAhead(s) /\ ~ClearsAhead(s)
  BY <1>1, ConsAhead DEF UserUses, Clears
<1>4. SyncAhead(s) => Sync3(s)
  BY <1>2, ConsAhead
<1>5. /\ After(s, {"push"}, {"push"}) /\ After(s, Closing, Uses) /\ Follow(s, "days", "push")
      /\ ask = Invalid \/ Follow(s, "edit", "push")
  BY <1>1, ConsAhead DEF Closing
<1>6. ~First(s, Needs) /\ ~First(s, {"extend", "keepUser", "refillUser"})
  BY ConsAhead DEF Needs
<1> QED BY <1>3, <1>4, <1>5, <1>6 DEF Bare

\* The lists of handlers, tasks and commands, from the last await to the first.
LEMMA DecidedBare ==
  ASSUME NEW t, Hushed(t), NEW x \in {"fetch", "compare", "confirm"}, NEW b, NEW a, NEW s,
         Cons(b, x, t), Cons(a, "sub", b), Cons(s, "user", a), NEW ask
  PROVE  Bare(s, ask)
<1>1. /\ ~ApplyAhead(b) /\ ~PushDue(b) /\ After(b, {"push"}, {"push"}) /\ After(b, Closing, Uses)
      /\ Follow(b, "edit", "push") /\ Follow(b, "days", "push") /\ ~RemoveDue(b) /\ ~DropAhead(b) /\ ~ClearsAhead(b)
  BY ConsAhead DEF Hushed, Clears
<1>2. SyncAhead(b) => Sync1(b)
  BY ConsAhead DEF Hushed
<1> QED BY <1>1, <1>2, ReadsBare

\* The lists an edit of a subscription starts with rely on no copy: they read first.
LEMMA EditBare ==
  ASSUME NEW t, Hushed(t), NEW x \in {"edit", "days"}, NEW c, NEW b, NEW a, NEW s,
         Cons(c, "push", t), Cons(b, x, c), Cons(a, "sub", b), Cons(s, "user", a), NEW ask
  PROVE  Bare(s, ask)
<1>1. /\ ~ApplyAhead(c) /\ After(c, {"push"}, {"push"}) /\ After(c, Closing, Uses) /\ ~SyncAhead(c) /\ First(c, {"push"})
      /\ Follow(c, "edit", "push") /\ Follow(c, "days", "push") /\ ~RemoveDue(c) /\ ~DropAhead(c) /\ ~ClearsAhead(c)
  BY ConsAhead DEF Hushed, Clears, Closing
<1>2. /\ ~ApplyAhead(b) /\ ~PushDue(b) /\ After(b, {"push"}, {"push"}) /\ After(b, Closing, Uses)
      /\ Follow(b, "edit", "push") /\ Follow(b, "days", "push") /\ ~RemoveDue(b) /\ ~DropAhead(b) /\ ~ClearsAhead(b)
      /\ ~SyncAhead(b)
  BY <1>1, ConsAhead DEF Clears, Closing
<1> QED BY <1>2, ReadsBare

\* Nor does the list of an edit with an invalid value.
LEMMA InvalidBare ==
  ASSUME NEW t, Hushed(t), t = <<>>, NEW b, NEW a, NEW s,
         Cons(b, "edit", t), Cons(a, "sub", b), Cons(s, "user", a)
  PROVE  Bare(s, Invalid)
<1>1. /\ ~ApplyAhead(b) /\ ~PushDue(b) /\ After(b, {"push"}, {"push"}) /\ After(b, Closing, Uses)
      /\ Follow(b, "days", "push") /\ ~RemoveDue(b) /\ ~DropAhead(b) /\ ~ClearsAhead(b) /\ ~SyncAhead(b)
  BY ConsAhead DEF Clears, Closing, Hushed
<1> QED BY <1>1, ReadsBare

\* Nor does the list that gives a plan.
LEMMA PlanBare ==
  ASSUME NEW t, Hushed(t), NEW c, NEW b, NEW a, NEW s,
         Cons(c, "create", t), Cons(b, "provision", c), Cons(a, "sub", b), Cons(s, "user", a), NEW ask
  PROVE  Bare(s, ask)
<1>1. /\ ~ApplyAhead(c) /\ After(c, {"push"}, {"push"}) /\ After(c, Closing, Uses) /\ ~SyncAhead(c) /\ ~PushDue(c)
      /\ Follow(c, "edit", "push") /\ Follow(c, "days", "push") /\ ~RemoveDue(c) /\ ~DropAhead(c) /\ ~ClearsAhead(c)
  BY ConsAhead DEF Hushed, Clears, Closing
<1>2. /\ ~ApplyAhead(b) /\ ~PushDue(b) /\ After(b, {"push"}, {"push"}) /\ After(b, Closing, Uses)
      /\ Follow(b, "edit", "push") /\ Follow(b, "days", "push") /\ ~RemoveDue(b) /\ ~DropAhead(b) /\ ~ClearsAhead(b)
      /\ ~SyncAhead(b)
  BY <1>1, ConsAhead DEF Clears, Closing
<1> QED BY <1>2, ReadsBare

\* Nor does the list that turns an account on or off.
LEMMA ToggleBare ==
  ASSUME NEW t, Hushed(t), NEW b, NEW a, NEW s, Cons(b, "status", t), Cons(a, "toggle", b), Cons(s, "sub", a), NEW ask
  PROVE  Bare(s, ask)
<1>1. /\ ~ApplyAhead(b) /\ After(b, {"push"}, {"push"}) /\ After(b, Closing, Uses) /\ ~SyncAhead(b) /\ ~PushDue(b)
      /\ Follow(b, "edit", "push") /\ Follow(b, "days", "push") /\ ~RemoveDue(b) /\ ~DropAhead(b) /\ ~ClearsAhead(b)
      /\ ~UserNext(b)
  BY ConsAhead DEF Hushed, Clears, Closing, UserUses
<1>2. /\ ~ApplyAhead(a) /\ ~PushDue(a) /\ After(a, {"push"}, {"push"}) /\ After(a, Closing, Uses)
      /\ Follow(a, "edit", "push") /\ Follow(a, "days", "push") /\ ~RemoveDue(a) /\ ~DropAhead(a) /\ ~ClearsAhead(a)
      /\ ~SyncAhead(a) /\ ~UserNext(a)
  BY <1>1, ConsAhead DEF Clears, Closing, UserUses
<1>3. ~UserNext(s) /\ ~ApplyAhead(s) /\ ~PushDue(s) /\ ~RemoveDue(s) /\ ~DropAhead(s) /\ ~SyncAhead(s) /\ ~ClearsAhead(s)
  BY <1>2, ConsAhead DEF UserUses, Clears
<1>4. After(s, {"push"}, {"push"}) /\ After(s, Closing, Uses) /\ Follow(s, "edit", "push") /\ Follow(s, "days", "push")
  BY <1>2, ConsAhead DEF Closing
<1>5. s # <<>> /\ Head(s) = "sub"
  BY DEF Cons
<1>6. ~First(s, Needs) /\ ~First(s, {"extend", "keepUser", "refillUser"})
  BY <1>5 DEF First, Needs
<1> QED BY <1>3, <1>4, <1>6 DEF Bare

\* Awaits that matter to no other await.
Smooth ==
    {"MENU", "user", "sub", "whether", "reset", "devices", "unlink", "match", "dropActor", "clearActor", "plans", "access",
     "plan", "grant", "send", "seen", "eligible", "mark", "discount", "done", "unlock", "issue"} \cup Windows

\* Lists of such awaits are dull, and so is what is made of them.
LEMMA SmoothNames ==
  /\ Smooth \subseteq Names /\ Smooth \cap ((Special \ {"MENU"}) \cup Uses) = {}
<1>1. {"MENU", "user", "sub", "whether", "reset", "devices", "unlink", "match", "dropActor", "clearActor", "plans", "access",
       "plan", "grant", "send", "seen", "eligible", "mark", "discount", "done", "unlock", "issue"} \subseteq Names
  BY DEF Names, Special, Ordinary
<1>2. {"MENU", "user", "sub", "whether", "reset", "devices", "unlink", "match", "dropActor", "clearActor", "plans", "access",
       "plan", "grant", "send", "seen", "eligible", "mark", "discount", "done", "unlock", "issue"}
         \cap ((Special \ {"MENU"}) \cup Uses) = {}
  BY Zenon DEF Special, Uses
<1>3. Windows \cap ((Special \ {"MENU"}) \cup Uses) = {}
  BY GetterFacts, Zenon DEF Special, Uses
<1> QED BY <1>1, <1>2, <1>3 DEF Smooth, Names

\* A smooth list is a list of names, and dull.
LEMMA SmoothDull == \A s \in Seq(Smooth) : s \in Seq(Names) /\ Dull(s)
<1> SUFFICES ASSUME NEW s \in Seq(Smooth) PROVE s \in Seq(Names) /\ Dull(s)
  OBVIOUS
<1>1. \A i \in DOMAIN s : s[i] \in Smooth
  OBVIOUS
<1>2. s \in Seq(Names)
  BY SmoothNames
<1> QED BY <1>1, <1>2, SmoothNames DEF Dull

\* What a window draws is smooth, as is one smooth list after another.
LEMMA SmoothJoins ==
  /\ <<>> \in Seq(Smooth) /\ <<"MENU">> \in Seq(Smooth)
  /\ \A w \in Windows : Render(w) \in Seq(Smooth)
  /\ \A s, t \in Seq(Smooth) : s \o t \in Seq(Smooth)
<1>1. {"MENU", "user", "sub"} \subseteq Smooth /\ Windows \subseteq Smooth
  BY DEF Smooth
<1>2. \A t \in {<<>>, <<"MENU">>, <<"user">>, <<"sub">>, <<"user", "sub">>} : t \in Seq(Smooth)
  <2>1. "MENU" \in Smooth /\ "user" \in Smooth /\ "sub" \in Smooth
    BY <1>1
  <2>2. <<>> \in Seq(Smooth) /\ <<"MENU">> \in Seq(Smooth)
    BY <2>1
  <2>3. <<"user">> \in Seq(Smooth) /\ <<"sub">> \in Seq(Smooth) /\ <<"user", "sub">> \in Seq(Smooth)
    BY <2>1
  <2> QED BY <2>2, <2>3
<1>3. \A s, t \in Seq(Smooth) : s \o t \in Seq(Smooth)
  OBVIOUS
<1>4. ASSUME NEW w \in Windows PROVE Render(w) \in Seq(Smooth)
  <2>1. Getter[w] \in Seq(Smooth)
    BY <1>2, GetterFacts
  <2>2. <<w>> \in Seq(Smooth)
    BY <1>1
  <2> QED BY <1>3, <2>1, <2>2 DEF Render
<1> QED BY <1>2, <1>3, <1>4

\* What the rest of a list may be after an await that closes a handler.
LEMMA ClosingDull ==
  ASSUME NEW s \in Seq(Names), s # <<>>, Head(s) \in Closing, After(s, Closing, Uses), Plain(Tail(s))
  PROVE  Tail(s) \in Seq(Names) /\ Dull(Tail(s))
<1> DEFINE t == Tail(s)
<1>1. t \in Seq(Names) /\ ~UsesAhead(t)
  BY AheadFirst
<1> HIDE DEF t
<1>2. ASSUME NEW i \in DOMAIN t PROVE t[i] \notin Uses
  <2>1. \A k \in 1..(i - 1) : t[k] \in Names
    BY <1>1, <1>2
  <2> QED BY <1>1, <2>1 DEF UsesAhead, Reaches
<1>3. \A i \in DOMAIN t : t[i] \notin Special
  BY DEF Plain, t
<1> QED BY <1>1, <1>2, <1>3 DEF Dull, t

\* Dull lists joined are dull.
LEMMA DullJoins ==
  \A s, t \in Seq(Names) : Dull(s) /\ Dull(t) => s \o t \in Seq(Names) /\ Dull(s \o t)
<1> SUFFICES ASSUME NEW s \in Seq(Names), NEW t \in Seq(Names), Dull(s), Dull(t)
             PROVE  s \o t \in Seq(Names) /\ Dull(s \o t)
  OBVIOUS
<1> DEFINE S == Names \ ((Special \ {"MENU"}) \cup Uses)
<1>1. s \in Seq(S) /\ t \in Seq(S)
  BY DEF Dull
<1> HIDE DEF S
<1>2. s \o t \in Seq(S)
  BY <1>1
<1>3. \A i \in DOMAIN (s \o t) : (s \o t)[i] \in S
  BY <1>2
<1> QED BY <1>2, <1>3 DEF S, Dull

\* Lists await by await.
LEMMA Chain1 == \A t \in Seq(Names), a \in Names : Cons(<<a>> \o t, a, t)
BY ConsMade
\* Two awaits before a list, head by head.
LEMMA Chain2 == \A t \in Seq(Names), a, b \in Names : \E s : Cons(s, b, t) /\ Cons(<<a, b>> \o t, a, s)
<1> SUFFICES ASSUME NEW t \in Seq(Names), NEW a \in Names, NEW b \in Names
             PROVE  \E s : Cons(s, b, t) /\ Cons(<<a, b>> \o t, a, s)
  OBVIOUS
<1>1. <<a, b>> \o t = <<a>> \o (<<b>> \o t)
  BY StepByStep
<1>2. Cons(<<b>> \o t, b, t)
  BY ConsMade
<1>3. Cons(<<a>> \o (<<b>> \o t), a, <<b>> \o t)
  BY <1>2, ConsMade DEF Cons
<1> QED BY <1>1, <1>2, <1>3
\* Three awaits before a list, head by head.
LEMMA Chain3 ==
  \A t \in Seq(Names), a, b, c \in Names :
     \E r, s : Cons(s, c, t) /\ Cons(r, b, s) /\ Cons(<<a, b, c>> \o t, a, r)
<1> SUFFICES ASSUME NEW t \in Seq(Names), NEW a \in Names, NEW b \in Names, NEW c \in Names
             PROVE  \E r, s : Cons(s, c, t) /\ Cons(r, b, s) /\ Cons(<<a, b, c>> \o t, a, r)
  OBVIOUS
<1>1. <<a, b, c>> \o t = <<a>> \o (<<b, c>> \o t)
  <2>1. <<a, b, c>> \o t = <<a>> \o (<<b>> \o (<<c>> \o t))
    BY StepByStep
  <2>2. <<b, c>> \o t = <<b>> \o (<<c>> \o t)
    BY StepByStep
  <2> QED BY <2>1, <2>2
<1>2. PICK s : Cons(s, c, t) /\ Cons(<<b, c>> \o t, b, s)
  BY Chain2
<1>3. Cons(<<a>> \o (<<b, c>> \o t), a, <<b, c>> \o t)
  BY <1>2, ConsMade DEF Cons
<1> QED BY <1>1, <1>2, <1>3
\* Four awaits before a list, head by head.
LEMMA Chain4 ==
  \A t \in Seq(Names), a, b, c, d \in Names :
     \E q, r, s : Cons(s, d, t) /\ Cons(r, c, s) /\ Cons(q, b, r) /\ Cons(<<a, b, c, d>> \o t, a, q)
<1> SUFFICES ASSUME NEW t \in Seq(Names), NEW a \in Names, NEW b \in Names, NEW c \in Names, NEW d \in Names
             PROVE  \E q, r, s : Cons(s, d, t) /\ Cons(r, c, s) /\ Cons(q, b, r) /\ Cons(<<a, b, c, d>> \o t, a, q)
  OBVIOUS
<1>1. <<a, b, c, d>> \o t = <<a>> \o (<<b, c, d>> \o t)
  <2>1. <<a>> \in Seq(Names) /\ <<b, c, d>> \in Seq(Names)
    OBVIOUS
  <2>2. <<a>> \o <<b, c, d>> = <<a, b, c, d>>
    BY Before, Z3
  <2>3. (<<a>> \o <<b, c, d>>) \o t = <<a>> \o (<<b, c, d>> \o t)
    BY <2>1, ConcatAssociative
  <2> QED BY <2>2, <2>3
<1>2. PICK r, s : Cons(s, d, t) /\ Cons(r, c, s) /\ Cons(<<b, c, d>> \o t, b, r)
  BY Chain3
<1>3. Cons(<<a>> \o (<<b, c, d>> \o t), a, <<b, c, d>> \o t)
  BY <1>2, ConsMade DEF Cons
<1> QED BY <1>1, <1>2, <1>3

Asking == {"extend", "keepUser", "refillUser"}

\* No copy is cleared in a list that writes nothing to billing before it is read.
LEMMA PlainCalm ==
  ASSUME NEW s \in Seq(Names), Plain(s)
  PROVE  ~ClearsAhead(s) /\ ~First(s, Special) /\ ~First(s, Needs) /\ ~First(s, Asking)
<1>1. \A i \in DOMAIN s : s[i] \notin Clears
  BY DEF Plain, Clears, Special
<1>2. ~First(s, Special)
  BY EmptySeq DEF Plain, First
<1> QED BY <1>1, <1>2, ReachesNone DEF ClearsAhead, First, Special, Needs, Asking

\* A list that only renders, or that applies an account, clears nothing.
LEMMA FreeCalm ==
  ASSUME NEW s \in Seq(Names), Free(s) \/ Applying(s)
  PROVE  ~ClearsAhead(s)
<1>1. \A t \in Seq(Names) : Plain(t) => ~ClearsAhead(t)
  BY PlainCalm
<1>2. \A t \in Seq(Names) : \A heads : First(t, heads) /\ heads \cap Clears = {} /\ ~ClearsAhead(Tail(t)) => ~ClearsAhead(t)
  BY AheadFirst DEF First
<1>3. \A t \in Seq(Names) : t # <<>> => Tail(t) \in Seq(Names)
  OBVIOUS
<1>4. /\ {"keepUser", "keepSub"} \cap Clears = {} /\ {"status"} \cap Clears = {} /\ {"toggle"} \cap Clears = {}
      /\ {"sub", "keepSub"} \cap Clears = {} /\ {"create"} \cap Clears = {} /\ {"provision"} \cap Clears = {}
      /\ {"sub"} \cap Clears = {} /\ {"keepSub"} \cap Clears = {} /\ {"user", "keepUser"} \cap Clears = {}
      /\ {"apply"} \cap Clears = {} /\ {"restore"} \cap Clears = {} /\ {"MENU"} \cap Clears = {}
  BY DEF Clears
<1>5. Kept(s) => ~ClearsAhead(s)
  BY <1>1, <1>2, <1>3, <1>4 DEF Kept, First
<1>6. \A t \in Seq(Names) : StatusOnly(t) => ~ClearsAhead(t)
  BY <1>1, <1>2, <1>3, <1>4 DEF StatusOnly, First
<1>7. \A t \in Seq(Names) : ToggleStatus(t) => ~ClearsAhead(t)
  BY <1>6, <1>2, <1>3, <1>4 DEF ToggleStatus, First
<1>8. SubToggle(s) => ~ClearsAhead(s)
  BY <1>7, <1>2, <1>3, <1>4 DEF SubToggle, First
<1>9. \A t \in Seq(Names) : CreateOnly(t) => ~ClearsAhead(t)
  BY <1>1, <1>2, <1>3, <1>4 DEF CreateOnly, First
<1>10. \A t \in Seq(Names) : ProvisionCreate(t) => ~ClearsAhead(t)
  BY <1>9, <1>2, <1>3, <1>4 DEF ProvisionCreate, First
<1>11. \A t \in Seq(Names) : SubProvision(t) \/ KeptProvision(t) => ~ClearsAhead(t)
  BY <1>10, <1>2, <1>3, <1>4 DEF SubProvision, KeptProvision, First
<1>12. UserProvision(s) => ~ClearsAhead(s)
  BY <1>11, <1>2, <1>3, <1>4 DEF UserProvision, First
<1>13. \A t \in Seq(Names) : ApplyOnly(t) => ~ClearsAhead(t)
  BY <1>1, <1>2, <1>3, <1>4 DEF ApplyOnly, First
<1>14. \A t \in Seq(Names) : SubApply(t) \/ KeptApply(t) => ~ClearsAhead(t)
  BY <1>13, <1>2, <1>3, <1>4 DEF SubApply, KeptApply, First
<1>15. \A t \in Seq(Names) : UserApply(t) => ~ClearsAhead(t)
  BY <1>14, <1>2, <1>3, <1>4 DEF UserApply, First
<1>16. RestoreApply(s) => ~ClearsAhead(s)
  BY <1>15, <1>2, <1>3, <1>4 DEF RestoreApply, First
<1>17. s = <<"MENU">> => ~ClearsAhead(s)
  <2>1. \A i \in DOMAIN <<"MENU">> : <<"MENU">>[i] \notin Clears
    BY DEF Clears
  <2> QED BY <2>1, ReachesNone DEF ClearsAhead
<1> QED BY <1>1, <1>5, <1>7, <1>8, <1>10, <1>11, <1>12, <1>13, <1>14, <1>15, <1>16, <1>17 DEF Free, Applying

\* What a read leaves to do.
LEMMA ReadTails ==
  ASSUME NEW s \in Seq(Names), s # <<>>, Head(s) \in {"user", "keepUser", "sub", "keepSub"}, Free(s) \/ Applying(s)
  PROVE  ~First(Tail(s), Needs) /\ ~First(Tail(s), Asking) /\ ~ClearsAhead(Tail(s))
<1>1. Tail(s) \in Seq(Names) /\ (ClearsAhead(Tail(s)) => ClearsAhead(s))
  BY AheadFirst
<1>2. ~ClearsAhead(Tail(s))
  BY <1>1, FreeCalm
<1>p. Plain(Tail(s)) => ~First(Tail(s), Needs) /\ ~First(Tail(s), Asking)
  BY <1>1, PlainCalm
<1>3. Plain(s) \/ Kept(s) \/ KeptApply(s) => ~First(Tail(s), Needs) /\ ~First(Tail(s), Asking)
  <2>1. Plain(s) => Plain(Tail(s))
    BY RestFacts
  <2>2. KeptApply(s) => First(Tail(s), {"apply"})
    BY DEF KeptApply, ApplyOnly
  <2>3. First(Tail(s), {"apply"}) => ~First(Tail(s), Needs) /\ ~First(Tail(s), Asking)
    BY DEF First, Needs, Asking
  <2> QED BY <1>p, <2>1, <2>2, <2>3 DEF Kept
<1>4. SubToggle(s) \/ SubProvision(s) \/ KeptProvision(s) \/ UserProvision(s) \/ SubApply(s) \/ UserApply(s) =>
        First(Tail(s), {"toggle", "provision", "sub", "apply"})
  BY DEF SubToggle, SubProvision, KeptProvision, UserProvision, SubApply, UserApply, ToggleStatus, ProvisionCreate, ApplyOnly, First
<1>5. First(Tail(s), {"toggle", "provision", "sub", "apply"}) => ~First(Tail(s), Needs) /\ ~First(Tail(s), Asking)
  BY DEF First, Needs, Asking
<1>6. ~(s = <<"MENU">> \/ ToggleStatus(s) \/ ProvisionCreate(s) \/ RestoreApply(s) \/ ApplyOnly(s))
  BY DEF ToggleStatus, ProvisionCreate, RestoreApply, ApplyOnly, First
<1> QED BY <1>2, <1>3, <1>4, <1>5, <1>6 DEF Free, Applying

\* What an await leaves to do.
LEMMA TailFacts ==
  ASSUME NEW own, NEW j, JobOK(own, j), job[j].todo # <<>>
  PROVE  LET s == job[j].todo
             h == Head(s)
             t == Tail(s) IN
         /\ s \in Seq(Names) /\ h \in Names /\ t \in Seq(Names)
         /\ ~First(t, Asking)
         /\ h \notin {"toggle", "provision"} => ~First(t, Needs)
         /\ h \in {"user", "sub"} => ~ClearsAhead(t)
<1> DEFINE s == job[j].todo
           h == Head(s)
           t == Tail(s)
<1>0. s \in Seq(Names) /\ s # <<>> /\ h \in Names /\ t \in Seq(Names)
  BY RestFacts DEF JobOK
<1>p. Plain(t) => ~First(t, Asking) /\ ~First(t, Needs)
  BY <1>0, PlainCalm
<1>c. \A heads : First(t, heads) /\ heads \cap (Needs \cup Asking) = {} => ~First(t, Asking) /\ ~First(t, Needs)
  BY DEF First
<1>k. /\ {"clearSub", "clearUser"} \cap (Needs \cup Asking) = {} /\ {"clearUser"} \cap (Needs \cup Asking) = {}
      /\ {"drop"} \cap (Needs \cup Asking) = {} /\ {"user"} \cap (Needs \cup Asking) = {}
      /\ {"status"} \cap Asking = {} /\ {"create"} \cap Asking = {}
  BY DEF Needs, Asking
<1>1. CASE h \notin Special \cup {"user", "sub"}
  <2>1. Plain(s)
    BY <1>1, PlainHead
  <2>2. Plain(t)
    BY <1>0, <2>1, RestFacts
  <2> QED BY <1>0, <1>1, <1>p, <2>2
<1>2. CASE h \in {"user", "keepUser", "sub", "keepSub"}
  <2>1. Free(s) \/ Applying(s)
    BY <1>2, SpecialHeads
  <2> QED BY <1>0, <1>2, <2>1, ReadTails
<1>3. CASE h \in {"clearSub", "clearUser", "refillUser"}
  <2>1. /\ h = "clearSub" => ClearS(s) \/ ClearSU(s) \/ ClearSUDropU(s)
        /\ h = "clearUser" => ClearU(s) \/ ClearUS(s) \/ ClearUDropU(s)
        /\ h = "refillUser" => Refilled(s)
        /\ StaleSub(s) \/ StaleUser(s)
    BY <1>3, SpecialHeads
  <2>2. Plain(t) \/ StaleUser(t) \/ StaleSub(t) \/ DropU(t)
    BY <1>0, <1>3, <2>1, ClearFacts
  <2>3. ~First(t, {"keepUser", "keepSub", "refillUser"})
    BY <1>0, <2>1, ClearFacts
  <2>4. Plain(t) \/ First(t, {"clearSub", "clearUser", "refillUser"}) \/ First(t, {"drop"})
    <3> HIDE DEF t
    <3> QED BY <2>2, Heads DEF DropU, First
  <2>5. First(t, {"clearSub", "clearUser", "refillUser"}) => First(t, {"clearSub", "clearUser"})
    BY <2>3 DEF First
  <2> HIDE DEF s, h, t
  <2>6. ~First(t, Asking) /\ ~First(t, Needs)
    BY <1>p, <1>c, <1>k, <2>4, <2>5
  <2> QED BY <1>0, <1>3, <2>6 DEF s, h, t
<1>4. CASE h \in {"drop", "point", "status", "extend", "create", "apply", "restore", "MENU"}
  <2>1. /\ h = "drop" => First(t, {"clearUser"})
        /\ h = "point" => First(t, {"clearUser"})
        /\ h = "restore" => First(t, {"user"})
        /\ h \in {"status", "extend", "create", "apply"} => Plain(t)
    BY <1>4, SpecialHeads DEF DropU, PointUS, ClearU, ClearUS, RestoreApply, StatusOnly, ExtendFirst, CreateOnly, ApplyOnly
  <2>2. h = "MENU" => Plain(t)
    <3>1. h = "MENU" => s = <<"MENU">>
      BY SpecialHeads
    <3>2. s = <<"MENU">> => t = <<>>
      OBVIOUS
    <3> QED BY <3>1, <3>2, EmptyPlain
  <2> HIDE DEF s, h, t
  <2>3. ~First(t, Asking) /\ ~First(t, Needs)
    BY <1>4, <1>p, <1>c, <1>k, <2>1, <2>2
  <2> QED BY <1>0, <1>4, <2>3 DEF s, h, t
<1>5. CASE h \in {"toggle", "provision"}
  <2>1. First(t, {"status"}) \/ First(t, {"create"})
    BY <1>5, SpecialHeads DEF ToggleStatus, StatusOnly, ProvisionCreate, CreateOnly
  <2> HIDE DEF s, h, t
  <2>2. ~First(t, Asking)
    BY <1>k, <2>1 DEF First
  <2> QED BY <1>0, <1>5, <2>2 DEF s, h, t
<1>6. Special = {"clearSub", "clearUser", "refillUser", "drop", "point", "status", "extend", "create", "apply", "restore", "MENU",
                 "toggle", "provision", "keepUser", "keepSub"}
  BY DEF Special
<1> HIDE DEF s, h, t
<1>7. h \in {"drop", "point", "status", "extend", "create", "apply", "restore", "MENU"} \/ h \in {"clearSub", "clearUser", "refillUser"}
      \/ h \in {"toggle", "provision"} \/ h \in {"user", "keepUser", "sub", "keepSub"} \/ h \notin Special \cup {"user", "sub"}
  BY <1>6
<1> QED BY <1>1, <1>2, <1>3, <1>4, <1>5, <1>7 DEF s, h, t

\* The lists of the tasks and the runs, which begin without a copy.
LEMMA BareMore ==
  ASSUME NEW h \in {"user", "sub", "seen", "eligible", "lock", "aim", "pending", "flush", "issue"}, NEW t, NEW s, NEW ask,
         Cons(s, h, t), Bare(t, ask), ~SyncAhead(t)
  PROVE  Bare(s, ask) /\ ~SyncAhead(s)
<1>0. /\ h \notin UserUses /\ h \notin Closing /\ h \notin Clears /\ h \notin Needs /\ h \notin Asking
      /\ h # "push" /\ h # "edit" /\ h # "days" /\ h # "remove" /\ h # "apply" /\ h # "drop" /\ h \notin {"fetch", "compare"}
  BY DEF UserUses, Closing, Clears, Needs, Asking
<1>1. /\ ~UserNext(t) /\ ~ApplyAhead(t) /\ ~PushDue(t)
      /\ After(t, {"push"}, {"push"}) /\ After(t, Closing, Uses)
      /\ ask = Invalid \/ Follow(t, "edit", "push")
      /\ Follow(t, "days", "push") /\ ~RemoveDue(t) /\ ~DropAhead(t) /\ ~ClearsAhead(t)
  BY DEF Bare
<1>2. ~UserNext(s) /\ ~ApplyAhead(s) /\ ~PushDue(s) /\ ~RemoveDue(s) /\ ~DropAhead(s) /\ ~SyncAhead(s) /\ ~ClearsAhead(s)
  BY <1>0, <1>1, ConsAhead
<1>3. /\ After(s, {"push"}, {"push"}) /\ After(s, Closing, Uses) /\ Follow(s, "days", "push")
      /\ ask = Invalid \/ Follow(s, "edit", "push")
  BY <1>0, <1>1, ConsAhead
<1>4. ~First(s, Needs) /\ ~First(s, Asking)
  BY <1>0, ConsAhead
<1> QED BY <1>2, <1>3, <1>4 DEF Bare, Asking

\* The empty list is dull, quiet, and relies on no copy.
LEMMA NoneBare == \A ask : <<>> \in Seq(Names) /\ Dull(<<>>) /\ Hushed(<<>>) /\ Bare(<<>>, ask) /\ ~SyncAhead(<<>>)
<1>1. <<>> \in Seq(Names) /\ Dull(<<>>)
  BY SmoothJoins, SmoothDull
<1> QED BY <1>1, DullHushed, DullBare DEF Hushed

\* The awaits of handlers, runs and tasks are names.
LEMMA TaskNames ==
  {"user", "sub", "seen", "eligible", "lock", "aim", "pending", "flush", "issue", "points", "days", "push", "extend", "mark",
   "discount", "done", "unlock", "set", "edit", "confirm", "fetch", "compare", "toggle", "status", "provision", "create",
   "clearSub", "clearUser", "refillUser", "drop", "remove", "point", "apply", "restore", "keepUser", "keepSub", "MENU"}
    \subseteq Names
BY DEF Names, Special, Ordinary

\* The lists runs, tasks and flushes start or go on with rely on no copy.
LEMMA TaskBare ==
  \A ask :
    /\ Bare(Grantable, ask) /\ Bare(<<"sub", "pending">>, ask) /\ Bare(<<"sub", "aim">>, ask) /\ Bare(<<"user", "flush">>, ask)
    /\ Bare(<<"days", "push", "issue", "flush">>, ask) /\ \A reward : Bare(Giving(reward), ask)
<1> SUFFICES ASSUME NEW ask
             PROVE  /\ Bare(Grantable, ask) /\ Bare(<<"sub", "pending">>, ask) /\ Bare(<<"sub", "aim">>, ask)
                    /\ Bare(<<"user", "flush">>, ask) /\ Bare(<<"days", "push", "issue", "flush">>, ask)
                    /\ \A reward : Bare(Giving(reward), ask)
  OBVIOUS
<1>0. /\ "user" \in Names /\ "sub" \in Names /\ "seen" \in Names /\ "eligible" \in Names /\ "lock" \in Names /\ "aim" \in Names
      /\ "pending" \in Names /\ "flush" \in Names /\ "issue" \in Names /\ "points" \in Names /\ "days" \in Names /\ "push" \in Names
  BY TaskNames
<1>e. <<>> \in Seq(Names) /\ Hushed(<<>>) /\ Bare(<<>>, ask) /\ ~SyncAhead(<<>>)
  BY NoneBare
<1>1. Bare(<<"sub", "pending">>, ask) /\ Bare(<<"sub", "aim">>, ask) /\ Bare(<<"user", "flush">>, ask)
  <2>1. ASSUME NEW a \in {"sub", "user"}, NEW b \in {"pending", "aim", "flush"} PROVE Bare(<<a, b>>, ask)
    <3>1. <<a, b>> \o <<>> = <<a, b>>
      BY Before
    <3>2. a \in Names /\ b \in Names
      BY <1>0
    <3>3. PICK s : Cons(s, b, <<>>) /\ Cons(<<a, b>>, a, s)
      BY <1>e, <3>1, <3>2, Chain2
    <3>4. Bare(s, ask) /\ ~SyncAhead(s)
      BY <1>e, <3>3, BareMore
    <3> QED BY <3>3, <3>4, BareMore
  <2> QED BY <2>1
<1>2. Bare(Grantable, ask)
  <2>1. <<"user", "seen">> \o <<"sub", "eligible", "lock">> = <<"user", "seen", "sub", "eligible", "lock">>
    BY Before
  <2>2. PICK r, s : Cons(s, "lock", <<>>) /\ Cons(r, "eligible", s) /\ Cons(<<"sub", "eligible", "lock">> \o <<>>, "sub", r)
    BY <1>0, <1>e, Chain3
  <2>3. <<"sub", "eligible", "lock">> \o <<>> = <<"sub", "eligible", "lock">>
    <3>1. <<"sub", "eligible", "lock">> \in Seq(Names)
      BY <1>0
    <3> QED BY <3>1, JoinFacts
  <2> DEFINE q == <<"sub", "eligible", "lock">>
  <2>4. Cons(q, "sub", r) /\ q \in Seq(Names)
    BY <2>2, <2>3 DEF Cons
  <2>5. Bare(s, ask) /\ ~SyncAhead(s)
    BY <1>e, <2>2, BareMore
  <2>6. Bare(r, ask) /\ ~SyncAhead(r)
    BY <2>2, <2>5, BareMore
  <2>7. Bare(q, ask) /\ ~SyncAhead(q)
    BY <2>4, <2>6, BareMore
  <2>8. PICK p : Cons(p, "seen", q) /\ Cons(<<"user", "seen">> \o q, "user", p)
    BY <1>0, <2>4, Chain2
  <2>9. Bare(p, ask) /\ ~SyncAhead(p)
    BY <2>7, <2>8, BareMore
  <2>10. Bare(<<"user", "seen">> \o q, ask)
    BY <2>8, <2>9, BareMore
  <2> QED BY <2>1, <2>10 DEF Grantable
<1>3. Bare(<<"days", "push", "issue", "flush">>, ask)
  <2>1. <<"days", "push", "issue", "flush">> \in Seq(Names)
    BY <1>0
  <2>2. <<"days", "push", "issue", "flush">> \o <<>> = <<"days", "push", "issue", "flush">>
    BY <2>1, JoinFacts
  <2>p. PICK q, r, s : Cons(s, "flush", <<>>) /\ Cons(r, "issue", s) /\ Cons(q, "push", r)
                       /\ Cons(<<"days", "push", "issue", "flush">> \o <<>>, "days", q)
    BY <1>0, <1>e, Chain4
  <2> DEFINE l == <<"days", "push", "issue", "flush">>
  <2>3. Cons(s, "flush", <<>>) /\ Cons(r, "issue", s) /\ Cons(q, "push", r) /\ Cons(l, "days", q)
    BY <2>2, <2>p
  <2> HIDE DEF l
  <2>u. "flush" \in Uses /\ "issue" \notin Uses /\ "push" \in Uses /\ "push" \notin Closing /\ "issue" \notin Closing /\ "flush" \notin Closing
    BY DEF Uses, Closing
  <2>4. /\ ~PushAhead(s) /\ ~ApplyAhead(s) /\ ~RemoveDue(s) /\ ~SyncAhead(s) /\ ~DropAhead(s) /\ ~ClearsAhead(s)
        /\ After(s, {"push"}, {"push"}) /\ After(s, Closing, Uses) /\ Follow(s, "edit", "push") /\ Follow(s, "days", "push")
        /\ ~UserNext(s)
    BY <1>e, <2>3, <2>u, ConsAhead DEF Hushed, Clears, UserUses
  <2>5. /\ ~PushAhead(r) /\ ~ApplyAhead(r) /\ ~RemoveDue(r) /\ ~SyncAhead(r) /\ ~DropAhead(r) /\ ~ClearsAhead(r)
        /\ After(r, {"push"}, {"push"}) /\ After(r, Closing, Uses) /\ Follow(r, "edit", "push") /\ Follow(r, "days", "push")
        /\ ~UserNext(r)
    BY <2>4, <2>3, <2>u, ConsAhead DEF Clears, UserUses
  <2>6. /\ First(q, {"push"}) /\ ~ApplyAhead(q) /\ ~RemoveDue(q) /\ ~SyncAhead(q) /\ ~DropAhead(q) /\ ~ClearsAhead(q)
        /\ After(q, {"push"}, {"push"}) /\ After(q, Closing, Uses) /\ Follow(q, "edit", "push") /\ Follow(q, "days", "push")
        /\ ~UserNext(q)
    BY <2>5, <2>3, <2>u, ConsAhead DEF Clears, UserUses
  <2>7. /\ ~PushDue(l) /\ ~ApplyAhead(l) /\ ~RemoveDue(l) /\ ~SyncAhead(l) /\ ~DropAhead(l) /\ ~ClearsAhead(l)
        /\ ~UserNext(l)
    BY <2>6, <2>3, ConsAhead DEF Clears, UserUses
  <2>l. Cons(l, "days", q)
    BY <2>3
  <2>8. After(l, {"push"}, {"push"}) /\ After(l, Closing, Uses) /\ Follow(l, "edit", "push") /\ Follow(l, "days", "push")
    BY <2>6, <2>l, ConsAhead DEF Closing
  <2>9. ~First(l, Needs) /\ ~First(l, Asking)
    BY <2>l, ConsAhead DEF Needs, Asking
  <2> QED BY <2>7, <2>8, <2>9 DEF Bare, Asking, l
<1>i. <<"issue">> \in Seq(Names) /\ Hushed(<<"issue">>)
  <2>1. <<"issue">> \in Seq(Smooth)
    <3>1. "issue" \in Smooth
      BY DEF Smooth
    <3> QED BY <3>1
  <2> QED BY <2>1, SmoothDull, DullHushed
<1>4. Bare(<<"user", "points", "issue">>, ask)
  <2> DEFINE i == <<"issue">>
  <2>1. <<"user", "points">> \o <<"issue">> = <<"user", "points", "issue">>
    <3>1. <<"points">> \o <<"issue">> = <<"points", "issue">> /\ <<"user">> \o <<"points", "issue">> = <<"user", "points", "issue">>
      BY Before
    <3>2. <<"user", "points">> \o <<"issue">> = <<"user">> \o (<<"points">> \o <<"issue">>)
      BY <1>0, <1>i, StepByStep
    <3> QED BY <3>1, <3>2
  <2>2. PICK s : Cons(s, "points", i) /\ Cons(<<"user", "points">> \o i, "user", s)
    BY <1>0, <1>i, Chain2
  <2> DEFINE l == <<"user", "points">> \o i
  <2>3. Hushed(i) /\ Cons(s, "points", i) /\ Cons(l, "user", s)
    BY <1>i, <2>2
  <2> HIDE DEF l, i
  <2>4. Bare(l, ask)
    BY <2>3, SetBare
  <2> QED BY <2>1, <2>4 DEF l, i
<1>5. Bare(<<"user", "sub", "days", "push", "issue">>, ask)
  <2> DEFINE i == <<"issue">>
  <2>1. <<"user", "sub", "days", "push">> \o <<"issue">> = <<"user", "sub", "days", "push", "issue">>
    <3> DEFINE S == {"user", "sub", "days", "push", "issue"}
    <3>1. <<"user", "sub", "days", "push">> \in Seq(S) /\ <<"issue">> \in Seq(S) /\ <<"user", "sub", "days", "push", "issue">> \in Seq(S)
      OBVIOUS
    <3>2. /\ <<"user", "sub", "days", "push">> \o <<"issue">> \in Seq(S) /\ Len(<<"user", "sub", "days", "push">> \o <<"issue">>) = 5
          /\ \A k \in 1..5 : (<<"user", "sub", "days", "push">> \o <<"issue">>)[k] = <<"user", "sub", "days", "push", "issue">>[k]
      BY <3>1, ConcatProperties
    <3> QED BY <3>1, <3>2, SeqEqual
  <2>2. PICK q, r, s : Cons(s, "push", i) /\ Cons(r, "days", s) /\ Cons(q, "sub", r)
                       /\ Cons(<<"user", "sub", "days", "push">> \o i, "user", q)
    BY <1>0, <1>i, Chain4
  <2> DEFINE l == <<"user", "sub", "days", "push">> \o i
  <2>3. Hushed(i) /\ Cons(s, "push", i) /\ Cons(r, "days", s) /\ Cons(q, "sub", r) /\ Cons(l, "user", q)
    BY <1>i, <2>2
  <2> HIDE DEF l, i
  <2>4. Bare(l, ask)
    BY <2>3, EditBare
  <2> QED BY <2>1, <2>4 DEF l, i
<1> QED BY <1>1, <1>2, <1>3, <1>4, <1>5 DEF Giving

-----------------------------------------------------------------------------
(* How a job goes on with what it has in hand                              *)

\* An idle job is in order.
LEMMA IdleOK == \A j, n : RecordOK(j, IdleJob, n)
<1> SUFFICES ASSUME NEW j, NEW n PROVE RecordOK(j, IdleJob, n)
  OBVIOUS
<1>1. /\ IdleJob.user = None /\ IdleJob.usr = None /\ IdleJob.sub = None /\ IdleJob.ask = NoAsk
      /\ IdleJob.todo = <<>> /\ IdleJob.rescue = <<>>
  BY DEF IdleJob
<1>2. AskOK(j, NoAsk)
  BY DEF AskOK, NoAsk
<1>3. Sound(IdleJob, n)
  BY <1>1, NoneBare, BareSound
<1> QED BY <1>1, <1>2, <1>3, NoneBare DEF RecordOK

\* A job that begins is in order.
LEMMA BegunOK ==
  ASSUME NEW j \in Jobs, DOMAIN job = Jobs, NEW u \in Users, NEW ask, NEW todo, NEW rescue, NEW n,
         Begin(j, u, ask, todo, rescue), AskOK(j, ask), Bare(todo, ask),
         j \in Givers \/ (rescue \in Seq(Names) /\ Dull(rescue))
  PROVE  RecordOK(j, job'[j], n)
<1> DEFINE q == [IdleJob EXCEPT !.user = u, !.ask = ask, !.todo = todo, !.rescue = rescue]
<1>1. job'[j] = q
  BY DEF Begin
<1>2. q.user = u /\ q.usr = None /\ q.sub = None /\ q.ask = ask /\ q.todo = todo /\ q.rescue = rescue
  BY DEF IdleJob
<1> HIDE DEF q
<1>3. Sound(q, n)
  BY <1>2, BareSound
<1> QED BY <1>1, <1>2, <1>3 DEF RecordOK

\* So is one that raised: its rescue relies on no copy.
LEMMA RaiseOK ==
  ASSUME NEW j \in Jobs, DOMAIN job = Jobs, NEW n, RecordOK(j, job[j], n), j \in Givers => GiverOK(j), Raise(j)
  PROVE  RecordOK(j, job'[j], n)
<1>1. CASE job[j].rescue = <<>>
  BY <1>1, IdleOK DEF Raise
<1>2. CASE job[j].rescue # <<>>
  <2> DEFINE q == [IdleJob EXCEPT !.user = job[j].user, !.ask = job[j].ask, !.todo = job[j].rescue]
  <2>1. job'[j] = q
    BY <1>2 DEF Raise
  <2>2. /\ q.user = job[j].user /\ q.usr = None /\ q.sub = None /\ q.ask = job[j].ask /\ q.todo = job[j].rescue
        /\ q.rescue = <<>>
    BY DEF IdleJob
  <2> HIDE DEF q
  <2>3. Bare(job[j].rescue, job[j].ask)
    <3>1. CASE j \in Givers
      BY <1>2, <3>1, TaskBare DEF GiverOK
    <3>2. CASE j \notin Givers
      BY <3>2, DullBare DEF RecordOK
    <3> QED BY <3>1, <3>2
  <2>4. Sound(q, n)
    BY <2>2, <2>3, BareSound
  <2>5. q.user \in Users \cup {None} /\ AskOK(j, q.ask)
    BY <2>2 DEF RecordOK
  <2>6. q.rescue \in Seq(Names) /\ Dull(q.rescue)
    BY <2>2, NoneBare
  <2> QED BY <2>1, <2>4, <2>5, <2>6 DEF RecordOK
<1> QED BY <1>1, <1>2

\* A record whose list is dull, whatever it was.
LEMMA DulledOK ==
  ASSUME NEW j, NEW n, NEW r, RecordOK(j, r, n), NEW q, q.user = r.user, q.ask = r.ask, q.rescue = r.rescue,
         q.todo \in Seq(Names), Dull(q.todo), q.usr \in UserViews \cup {None}, q.sub = None \/ SubT(q.sub, n)
  PROVE  RecordOK(j, q, n)
<1>1. Sound(q, n)
  BY DullSound
<1> QED BY <1>1 DEF RecordOK

\* The rest of a list after an await that was done.
Fit(r, q, n) ==
    LET h == Head(r.todo) IN
    /\ q.user = r.user /\ q.ask = r.ask /\ q.rescue = r.rescue
    /\ q.usr \in UserViews \cup {None} /\ (r.usr # None \/ h = "user" => q.usr # None)
    /\ q.sub = None \/ SubT(q.sub, n)
    /\ r.sub # None /\ h # "sub" => q.sub # None
    /\ q.remna = r.remna \/ AccT(q.remna, n)
    /\ h = "restore" => AccT(q.remna, n)
    /\ h \in {"edit", "days"} => q.sub # None /\ First(Tail(r.todo), {"push"})
    /\ h \in {"toggle", "provision"} => q.sub # None
\* A record that fits a job stays sound as the head of its list goes.
LEMMA PopFit ==
  ASSUME NEW own, NEW j, JobOK(own, j), job[j].todo # <<>>, NEW n, Sound(job[j], n), NEW q, Fit(job[j], q, n),
         q.todo = Tail(job[j].todo)
  PROVE  Sound(q, n)
<1> DEFINE s == job[j].todo
           h == Head(s)
           t == Tail(s)
<1>1. /\ s \in Seq(Names) /\ h \in Names /\ t \in Seq(Names)
      /\ ~First(t, Asking)
      /\ h \notin {"toggle", "provision"} => ~First(t, Needs)
      /\ h \in {"user", "sub"} => ~ClearsAhead(t)
  BY TailFacts
<1>2. /\ q.ask = job[j].ask
      /\ q.usr \in UserViews \cup {None} /\ (job[j].usr # None \/ h = "user" => q.usr # None)
      /\ q.sub = None \/ SubT(q.sub, n)
      /\ job[j].sub # None /\ h # "sub" => q.sub # None
      /\ q.remna = job[j].remna \/ AccT(q.remna, n)
      /\ h = "restore" => AccT(q.remna, n)
      /\ h \in {"edit", "days"} => q.sub # None /\ First(t, {"push"})
      /\ h \in {"toggle", "provision"} => q.sub # None
  BY DEF Fit
<1>3. First(t, Needs) => q.sub # None
  BY <1>1, <1>2
<1> HIDE DEF s, h, t
<1> QED BY <1>1, <1>2, <1>3, PopSound DEF s, h, t, Asking

\* A job that goes on with such a record is in order.
LEMMA PoppedOK ==
  ASSUME NEW own, NEW j \in Jobs, JobOK(own, j), job[j].todo # <<>>, NEW n \in Nat, NEW m \in Nat, n <= m,
         RecordOK(j, job[j], n), NEW q, DOMAIN q = JobFields, q.todo = job[j].todo, Fit(job[j], q, m)
  PROVE  RecordOK(j, Goes(q, <<>>), m)
<1> DEFINE t == Tail(job[j].todo)
           g == [q EXCEPT !.todo = t]
<1>0. job[j].todo \in Seq(Names) /\ t \in Seq(Names)
  BY RestFacts DEF JobOK
<1>1. Sound(job[j], m)
  BY SoundMore DEF RecordOK
<1>2. CASE t = <<>>
  <2>1. Goes(q, <<>>) = IdleJob
    BY <1>0, <1>2, LastAwait
  <2> QED BY <2>1, IdleOK
<1>3. CASE t # <<>>
  <2>1. Goes(q, <<>>) = g
    <3>1. <<>> \o t = t
      BY <1>0, JoinFacts
    <3> QED BY <1>3, <3>1 DEF Goes
  <2>2. /\ g.todo = t /\ g.user = q.user /\ g.ask = q.ask /\ g.rescue = q.rescue /\ g.usr = q.usr /\ g.sub = q.sub
        /\ g.remna = q.remna
    BY DEF JobFields
  <2> HIDE DEF g
  <2>3. Fit(job[j], g, m)
    BY <2>2 DEF Fit
  <2>4. Sound(g, m)
    BY <1>1, <2>2, <2>3, PopFit
  <2>5. g.user \in Users \cup {None} /\ AskOK(j, g.ask) /\ (j \in Givers \/ (g.rescue \in Seq(Names) /\ Dull(g.rescue)))
    BY <2>3 DEF Fit, RecordOK
  <2> QED BY <2>1, <2>4, <2>5 DEF RecordOK
<1> QED BY <1>2, <1>3

\* A step that leaves the job's copies as they are.
LEMMA FitSame ==
  ASSUME NEW j, NEW n \in Nat, NEW m \in Nat, n <= m, Sound(job[j], n), job[j].todo # <<>>,
         Head(job[j].todo) \notin {"user", "edit", "days", "restore", "toggle", "provision"},
         NEW q, q.user = job[j].user, q.ask = job[j].ask, q.rescue = job[j].rescue, q.usr = job[j].usr,
         q.sub = job[j].sub, q.remna = job[j].remna
  PROVE  Fit(job[j], q, m)
<1>1. Sound(job[j], m)
  BY SoundMore
<1>2. job[j].usr \in UserViews \cup {None} /\ (job[j].sub = None \/ SubT(job[j].sub, m))
  BY <1>1 DEF Sound
<1> QED BY <1>2 DEF Fit

\* A job that only goes on is in order.
LEMMA ContinuedOK ==
  ASSUME NEW own, NEW j \in Jobs, DOMAIN job = Jobs, JobOK(own, j), job[j].todo # <<>>, NEW n \in Nat,
         RecordOK(j, job[j], n), Continue(j),
         Head(job[j].todo) \notin {"user", "edit", "days", "restore", "toggle", "provision"}
  PROVE  RecordOK(j, job'[j], n)
<1>1. job'[j] = Goes(job[j], <<>>)
  BY DEF Continue
<1>2. Sound(job[j], n) /\ DOMAIN job[j] = JobFields
  BY DEF RecordOK, JobOK
<1>3. Fit(job[j], job[j], n)
  BY <1>2, FitSame
<1> QED BY <1>1, <1>2, <1>3, PoppedOK

\* The copies to clear after a write of a subscription.
LEMMA TwoClears ==
  ASSUME NEW r, NEW n, Sound(r, n), r.todo \in Seq(Names), ~SyncAhead(r.todo), r.usr # None \/ r.sub # None,
         NEW q, q.todo = <<"clearSub", "clearUser">> \o r.todo, q.usr = r.usr, q.sub = r.sub, q.ask = r.ask,
         q.remna = r.remna, DOMAIN r = JobFields
  PROVE  Sound(q, n)
<1>1. PICK s : Cons(s, "clearUser", r.todo) /\ Cons(q.todo, "clearSub", s)
  <2>1. "clearSub" \in Names /\ "clearUser" \in Names
    BY TaskNames
  <2> QED BY <2>1, Chain2
<1> DEFINE p == [r EXCEPT !.todo = s]
<1>2. p.todo = s /\ p.usr = r.usr /\ p.sub = r.sub /\ p.ask = r.ask /\ p.remna = r.remna
  BY DEF JobFields
<1> HIDE DEF p
<1>3. Sound(p, n)
  BY <1>1, <1>2, ClearSound
<1>4. s \in Seq(Names) /\ ~SyncAhead(s)
  BY <1>1, ConsAhead
<1> QED BY <1>1, <1>2, <1>3, <1>4, ClearSound

\* What is not ahead of a job that is past its reads.
LEMMA PastReads ==
  ASSUME NEW r, NEW n, Sound(r, n), r.todo \in Seq(Names), r.todo # <<>>
  PROVE  LET h == Head(r.todo)
             t == Tail(r.todo) IN
         /\ h \notin {"user", "keepUser", "sub", "keepSub", "fetch", "compare"} => ~SyncAhead(t)
         /\ h \notin {"clearSub", "clearUser", "drop", "remove"} => ~RemoveDue(t)
         /\ h = "days" => First(t, {"push"})
         /\ h = "edit" /\ r.ask # Invalid => First(t, {"push"})
         /\ h = "push" => r.sub # None
<1> DEFINE h == Head(r.todo)
           t == Tail(r.todo)
<1>1. /\ SyncAhead(r.todo) => Sync1(r.todo) \/ Sync2(r.todo) \/ Sync3(r.todo)
      /\ RemoveDue(r.todo) => RemoveNext(r.todo)
      /\ Follow(r.todo, "days", "push") /\ (r.ask = Invalid \/ Follow(r.todo, "edit", "push"))
      /\ PushDue(r.todo) => r.sub # None
  BY DEF Sound
<1>2. /\ SyncAhead(r.todo) <=> h \in {"fetch", "compare"} \/ SyncAhead(t)
      /\ RemoveDue(r.todo) <=> h = "remove" \/ RemoveDue(t)
      /\ RemoveNext(r.todo) <=> h = "remove" \/ (h \in Removing /\ RemoveNext(t))
      /\ Follow(r.todo, "edit", "push") <=> (h = "edit" => First(t, {"push"})) /\ Follow(t, "edit", "push")
      /\ Follow(r.todo, "days", "push") <=> (h = "days" => First(t, {"push"})) /\ Follow(t, "days", "push")
      /\ PushDue(r.todo) <=> h = "push" \/ (h \notin {"edit", "days"} /\ PushDue(t))
  BY AheadFirst
<1>3. Sync1(r.todo) \/ Sync2(r.todo) \/ Sync3(r.todo) => h \in {"user", "keepUser", "sub", "keepSub", "fetch", "compare"}
  BY DEF Sync1, Sync2, Sync3, First
<1> HIDE DEF h, t
<1>4. Removing = {"clearSub", "clearUser", "drop"}
  BY DEF Removing
<1> QED BY <1>1, <1>2, <1>3, <1>4 DEF h, t

\* A job that has written a subscription is in order.
LEMMA BilledOK ==
  ASSUME NEW own, NEW j \in Jobs, DOMAIN job = Jobs, JobOK(own, j), job[j].todo # <<>>, NEW n \in Nat,
         RecordOK(j, job[j], n), Head(job[j].todo) \in {"edit", "status", "apply", "extend", "days"},
         Head(job[j].todo) = "edit" => job[j].ask # Invalid,
         NEW new, NEW changed, NEW kept, SubT(kept, n), kept # None, BillSubKeeping(j, new, changed, kept, <<>>)
  PROVE  RecordOK(j, job'[j], n)
<1> DEFINE s == job[j].todo
           t == Tail(s)
           r == [job[j] EXCEPT !.sub = kept, !.wrote = TRUE, !.todo = t]
           q == [job[j] EXCEPT !.sub = kept, !.wrote = TRUE, !.todo = <<"clearSub", "clearUser">> \o <<>> \o t]
<1>0. s \in Seq(Names) /\ t \in Seq(Names) /\ DOMAIN job[j] = JobFields
  BY RestFacts DEF JobOK
<1>1. job'[j] = q
  BY DEF BillSubKeeping
<1>2. /\ q.user = job[j].user /\ q.usr = job[j].usr /\ q.sub = kept /\ q.remna = job[j].remna /\ q.ask = job[j].ask
      /\ q.rescue = job[j].rescue /\ q.todo = <<"clearSub", "clearUser">> \o <<>> \o t
      /\ r.user = job[j].user /\ r.usr = job[j].usr /\ r.sub = kept /\ r.remna = job[j].remna /\ r.ask = job[j].ask
      /\ r.rescue = job[j].rescue /\ r.todo = t /\ DOMAIN r = JobFields
  BY <1>0 DEF JobFields
<1>3. q.todo = <<"clearSub", "clearUser">> \o t
  <2>1. <<"clearSub", "clearUser">> \o <<>> = <<"clearSub", "clearUser">>
    BY Before
  <2> QED BY <1>2, <2>1
<1>4. Sound(job[j], n)
  BY DEF RecordOK
<1>5. /\ ~SyncAhead(t)
      /\ Head(s) \in {"edit", "days"} => First(t, {"push"})
  BY <1>0, <1>4, PastReads
<1>6. Fit(job[j], r, n)
  <2>1. job[j].usr \in UserViews \cup {None}
    BY <1>4 DEF Sound
  <2> HIDE DEF r
  <2> QED BY <1>2, <1>5, <2>1 DEF Fit
<1> HIDE DEF r, q
<1>7. Sound(r, n)
  BY <1>2, <1>4, <1>6, PopFit
<1>8. Sound(q, n)
  BY <1>0, <1>2, <1>3, <1>5, <1>7, TwoClears
<1>9. q.user \in Users \cup {None} /\ AskOK(j, q.ask) /\ (j \in Givers \/ (q.rescue \in Seq(Names) /\ Dull(q.rescue)))
  BY <1>2 DEF RecordOK
<1> QED BY <1>1, <1>8, <1>9 DEF RecordOK

\* A job that has written the user is in order.
LEMMA BilledUserOK ==
  ASSUME NEW own, NEW j \in Jobs, DOMAIN job = Jobs, JobOK(own, j), job[j].todo # <<>>, NEW n \in Nat,
         RecordOK(j, job[j], n), Head(job[j].todo) \in {"set", "points", "discount"},
         NEW field, NEW value, NEW h \in {"clearUser", "refillUser"},
         BillUser(j, field, value, <<h>>), ViewOf(person'[job[j].user]) \in UserViews, None \notin UserViews
  PROVE  RecordOK(j, job'[j], n)
<1> DEFINE s == job[j].todo
           t == Tail(s)
           v == ViewOf(person'[job[j].user])
           r == [job[j] EXCEPT !.usr = v, !.wrote = TRUE, !.todo = t]
           q == [job[j] EXCEPT !.usr = v, !.wrote = TRUE, !.todo = <<h>> \o t]
<1>0. s \in Seq(Names) /\ t \in Seq(Names) /\ DOMAIN job[j] = JobFields
  BY RestFacts DEF JobOK
<1>1. job'[j] = q
  BY DEF BillUser
<1> HIDE DEF v
<1>2. /\ q.user = job[j].user /\ q.usr = v /\ q.sub = job[j].sub /\ q.remna = job[j].remna /\ q.ask = job[j].ask
      /\ q.rescue = job[j].rescue /\ q.todo = <<h>> \o t
      /\ r.user = job[j].user /\ r.usr = v /\ r.sub = job[j].sub /\ r.remna = job[j].remna /\ r.ask = job[j].ask
      /\ r.rescue = job[j].rescue /\ r.todo = t /\ DOMAIN r = JobFields
  BY <1>0 DEF JobFields
<1>3. Cons(q.todo, h, t)
  <2>1. h \in Names
    BY TaskNames
  <2> QED BY <1>0, <1>2, <2>1, ConsMade
<1>4. Sound(job[j], n)
  BY DEF RecordOK
<1>5. ~SyncAhead(t) /\ ~RemoveDue(t)
  BY <1>0, <1>4, PastReads
<1>v. v \in UserViews /\ v # None
  BY DEF v
<1>6. Fit(job[j], r, n)
  <2>1. job[j].sub = None \/ SubT(job[j].sub, n)
    BY <1>4 DEF Sound
  <2> HIDE DEF r
  <2> QED BY <1>2, <1>v, <2>1 DEF Fit
<1> HIDE DEF r, q
<1>7. Sound(r, n)
  BY <1>2, <1>4, <1>6, PopFit
<1>8. Sound(q, n)
  BY <1>0, <1>2, <1>3, <1>5, <1>7, <1>v, ClearSound
<1>9. q.user \in Users \cup {None} /\ AskOK(j, q.ask) /\ (j \in Givers \/ (q.rescue \in Seq(Names) /\ Dull(q.rescue)))
  BY <1>2 DEF RecordOK
<1> QED BY <1>1, <1>8, <1>9 DEF RecordOK

\* A job under way in stores that are typed, and a step of it that leaves them so.
Engaged(own, j) ==
    /\ CopiesInv(own) /\ StoresTyped /\ RecordsOK /\ j \in Jobs /\ job[j].todo # <<>>
    /\ j \in Givers => GiverOK(j)
TypedStep(j) ==
    /\ StoresTyped' /\ accounts \in Nat /\ accounts' \in Nat /\ accounts <= accounts'
    /\ RecordOK(j, job'[j], accounts')

\* What is known of a job with an await ahead.
LEMMA EngagedFacts ==
  ASSUME NEW own, NEW j, Engaged(own, j)
  PROVE  /\ CopiesInv(own) /\ StoresTyped /\ j \in Jobs /\ DOMAIN job = Jobs /\ JobOK(own, j) /\ job[j].todo # <<>>
         /\ job[j].todo \in Seq(Names) /\ Tail(job[j].todo) \in Seq(Names) /\ DOMAIN job[j] = JobFields
         /\ RecordOK(j, job[j], accounts) /\ Sound(job[j], accounts) /\ accounts \in Nat
         /\ job[j].user \in Users /\ (j \in Desks => job[j].user = Target[j])
         /\ job[j].usr \in UserViews \cup {None} /\ (job[j].sub = None \/ SubT(job[j].sub, accounts))
         /\ DOMAIN person = Users /\ DOMAIN account = Users /\ DOMAIN userCache = Users /\ DOMAIN subCache = Users
         /\ None \notin UserViews /\ None \notin SubRecords /\ None \notin AccountRecords
         /\ \A u \in Users : UserView(u) \in UserViews
         /\ \A u \in Users : Current(u) = None \/ SubT(Current(u), accounts)
         /\ \A u \in Users : userCache[u].cached => userCache[u].value \in UserViews
         /\ \A u \in Users : subCache[u].cached => subCache[u].value = None \/ SubT(subCache[u].value, accounts)
<1>1. /\ CopiesInv(own) /\ StoresTyped /\ j \in Jobs /\ job[j].todo # <<>> /\ RecordOK(j, job[j], accounts)
  BY DEF Engaged, RecordsOK
<1>2. /\ DOMAIN job = Jobs /\ JobOK(own, j) /\ job[j].todo \in Seq(Names) /\ Tail(job[j].todo) \in Seq(Names)
      /\ DOMAIN job[j] = JobFields /\ job[j].user \in Users /\ (j \in Desks => job[j].user = Target[j])
      /\ DOMAIN person = Users /\ DOMAIN account = Users /\ DOMAIN userCache = Users /\ DOMAIN subCache = Users /\ StoresOK(own)
  BY <1>1, Underway
<1>3. Sound(job[j], accounts) /\ accounts \in Nat
  BY <1>1, AccountAssumption DEF RecordOK, StoresTyped, PanelTyped
<1>4. job[j].usr \in UserViews \cup {None} /\ (job[j].sub = None \/ SubT(job[j].sub, accounts))
  BY <1>3 DEF Sound
<1>5. None \notin UserViews /\ None \notin SubRecords /\ None \notin AccountRecords
  BY RecordsAssumption
<1>6. ASSUME NEW u \in Users
      PROVE  /\ person[u] \in UserRecords /\ (person[u].current = None \/ person[u].current \in DOMAIN subs)
             /\ (person[u].current # None => SubT(subs[person[u].current], accounts))
  BY <1>1, <1>2 DEF StoresTyped, PersonsTyped, BillsTyped, StoresOK
<1>7. ASSUME NEW u \in Users PROVE UserView(u) \in UserViews
  <2>1. /\ person[u].points \in Nat /\ person[u].discount \in Nat /\ person[u].role \in DOMAIN Rank
        /\ person[u].blocked \in BOOLEAN
    BY <1>6 DEF UserRecords
  <2>2. (IF person[u].current = None THEN None ELSE subs[person[u].current].account) \in 1..MaxAccounts \cup {None}
    BY <1>6 DEF SubT, SubRecords
  <2> QED BY <2>1, <2>2 DEF UserView, ViewOf, UserViews
<1>8. \A u \in Users : Current(u) = None \/ SubT(Current(u), accounts)
  BY <1>6 DEF Current
<1>9. /\ \A u \in Users : userCache[u].cached => userCache[u].value \in UserViews
      /\ \A u \in Users : subCache[u].cached => subCache[u].value = None \/ SubT(subCache[u].value, accounts)
  BY <1>1 DEF StoresTyped, CopiesTyped
<1> QED BY <1>1, <1>2, <1>3, <1>4, <1>5, <1>7, <1>8, <1>9

\* Only users are disturbed.
LEMMA DisturbTyped ==
  ASSUME NEW j, NEW u \in Users, DueTyped, Disturb(j, u)
  PROVE  disturbed' \subseteq Users
BY DEF DueTyped, Disturb

\* Stores that do not change keep their types.
LEMMA StoresSame ==
  ASSUME StoresTyped
  PROVE  /\ UNCHANGED person => PersonsTyped'
         /\ UNCHANGED <<account, accounts>> => PanelTyped'
         /\ UNCHANGED <<subs, accounts>> => BillsTyped'
         /\ UNCHANGED <<userCache, subCache, accounts>> => CopiesTyped'
         /\ UNCHANGED <<state, issued>> => StateTyped'
         /\ UNCHANGED due /\ disturbed' \subseteq Users => DueTyped'
         /\ UNCHANGED <<due, disturbed>> => DueTyped'
<1>1. PersonsTyped /\ PanelTyped /\ BillsTyped /\ CopiesTyped /\ StateTyped /\ DueTyped
  BY DEF StoresTyped
<1>2. UNCHANGED person => PersonsTyped'
  BY <1>1 DEF PersonsTyped
<1>3. UNCHANGED <<account, accounts>> => PanelTyped'
  BY <1>1 DEF PanelTyped
<1>4. UNCHANGED <<subs, accounts>> => BillsTyped'
  BY <1>1 DEF BillsTyped
<1>5. UNCHANGED <<userCache, subCache, accounts>> => CopiesTyped'
  BY <1>1 DEF CopiesTyped
<1>6. UNCHANGED <<state, issued>> => StateTyped'
  BY <1>1 DEF StateTyped
<1>7. UNCHANGED due /\ disturbed' \subseteq Users => DueTyped'
  BY <1>1 DEF DueTyped
<1>8. UNCHANGED <<due, disturbed>> => DueTyped'
  BY <1>1 DEF DueTyped
<1> QED BY <1>2, <1>3, <1>4, <1>5, <1>6, <1>7, <1>8

\* A step that touches no store.
LEMMA StoresRest ==
  ASSUME StoresTyped, UNCHANGED <<person, subs, account, accounts, userCache, subCache, due, state, issued>>,
         disturbed' \subseteq Users
  PROVE  StoresTyped'
BY StoresSame DEF StoresTyped

\* An exception keeps the types.
LEMMA RaisedTyped ==
  ASSUME NEW own, NEW j, Engaged(own, j), Raise(j),
         UNCHANGED <<person, subs, account, accounts, userCache, subCache, due, state, issued>>
  PROVE  TypedStep(j)
<1>1. /\ StoresTyped /\ j \in Jobs /\ DOMAIN job = Jobs /\ RecordOK(j, job[j], accounts) /\ accounts \in Nat
      /\ job[j].user \in Users
  BY EngagedFacts
<1>2. disturbed' \subseteq Users
  BY <1>1 DEF Raise, StoresTyped, DueTyped
<1>3. RecordOK(j, job'[j], accounts)
  BY <1>1, RaiseOK DEF Engaged
<1> QED BY <1>1, <1>2, <1>3, StoresRest DEF TypedStep

\* Going on keeps the types if the stores' types are kept.
LEMMA ContinuedTyped ==
  ASSUME NEW own, NEW j, Engaged(own, j), Continue(j),
         Head(job[j].todo) \notin {"user", "edit", "days", "restore", "toggle", "provision"},
         UNCHANGED accounts, StoresTyped'
  PROVE  TypedStep(j)
<1>1. j \in Jobs /\ DOMAIN job = Jobs /\ JobOK(own, j) /\ job[j].todo # <<>> /\ RecordOK(j, job[j], accounts) /\ accounts \in Nat
  BY EngagedFacts
<1>2. RecordOK(j, job'[j], accounts)
  BY <1>1, ContinuedOK
<1> QED BY <1>1, <1>2 DEF TypedStep

\* The list of a job whose answer goes into Redis next.
LEMMA AnswerSound ==
  ASSUME NEW p, NEW r, NEW q, NEW n, NEW t, NEW a, NEW h,
         (a = "user" /\ h = "keepUser") \/ (a = "sub" /\ h = "keepSub"),
         Cons(p.todo, a, t), Cons(q.todo, h, t), r.todo = t, Sound(p, n), Sound(r, n), ~ClearsAhead(t),
         r.ask = p.ask, q.ask = p.ask, r.usr = q.usr, r.sub = q.sub, q.remna = p.remna,
         h = "keepUser" => q.usr # None, h = "keepSub" => q.usr = p.usr
  PROVE  Sound(q, n)
<1> DEFINE s == q.todo
<1>k. h \notin Needs /\ h \notin Closing /\ h \notin UserUses /\ h \notin Pushing
      /\ h \notin Removing /\ h \notin Clears /\ h # "extend" /\ h # "user" /\ h # "sub" /\ h # "push" /\ h \notin {"edit", "days"}
      /\ h # "remove" /\ h \notin {"fetch", "compare"} /\ h # "drop" /\ h # "apply" /\ h # "restore"
      /\ h # "edit" /\ h # "days" /\ h # "refillUser"
  BY DEF Needs, Closing, UserUses, Pushing, Removing, Clears
<1>1. /\ SyncAhead(p.todo) => Sync1(p.todo) \/ Sync2(p.todo) \/ Sync3(p.todo)
      /\ PushDue(p.todo) => PushNext(p.todo)
      /\ RemoveDue(p.todo) => RemoveNext(p.todo)
      /\ DropAhead(p.todo) => RemoveNext(p.todo)
      /\ ApplyDue(p.todo) => AccT(p.remna, n)
      /\ p.usr = None => ~UserNext(p.todo) /\ ~ApplyAhead(p.todo)
  BY DEF Sound
<1>2. /\ Sync1(p.todo) <=> a \in {"fetch", "compare"}
      /\ Sync2(p.todo) <=> a \in {"sub", "keepSub"} /\ Sync1(t)
      /\ Sync3(p.todo) <=> a \in {"user", "keepUser"} /\ First(t, {"sub"}) /\ Sync2(t)
      /\ PushDue(p.todo) <=> a = "push" \/ (a \notin {"edit", "days"} /\ PushDue(t))
      /\ PushNext(p.todo) <=> a = "push" \/ (a \in Pushing /\ PushNext(t))
      /\ RemoveDue(p.todo) <=> a = "remove" \/ RemoveDue(t)
      /\ RemoveNext(p.todo) <=> a = "remove" \/ (a \in Removing /\ RemoveNext(t))
      /\ SyncAhead(p.todo) <=> a \in {"fetch", "compare"} \/ SyncAhead(t)
      /\ DropAhead(p.todo) <=> a = "drop" \/ DropAhead(t)
      /\ ApplyDue(p.todo) <=> a = "apply" \/ (a # "restore" /\ ApplyDue(t))
      /\ ApplyAhead(p.todo) <=> a = "apply" \/ ApplyAhead(t)
      /\ UserNext(p.todo) <=> a \in UserUses \/ (a # "user" /\ UserNext(t))
  BY ConsAhead
<1>3. a \notin Pushing /\ a \notin Removing /\ a \notin UserUses
  BY DEF Pushing, Removing, UserUses
<1>4. ~PushDue(t) /\ ~RemoveDue(t) /\ ~DropAhead(t)
      /\ (SyncAhead(t) => IF a = "user" THEN First(t, {"sub"}) /\ Sync2(t) ELSE Sync1(t))
      /\ (ApplyDue(t) => AccT(p.remna, n))
      /\ (a = "sub" /\ p.usr = None => ~UserNext(t) /\ ~ApplyAhead(t))
  BY <1>1, <1>2, <1>3
<1>5. /\ Sync2(s) <=> h \in {"sub", "keepSub"} /\ Sync1(t)
      /\ Sync3(s) <=> h \in {"user", "keepUser"} /\ First(t, {"sub"}) /\ Sync2(t)
      /\ UserNext(s) <=> h \in UserUses \/ (h # "user" /\ UserNext(t))
      /\ PushDue(s) <=> h = "push" \/ (h \notin {"edit", "days"} /\ PushDue(t))
      /\ RemoveDue(s) <=> h = "remove" \/ RemoveDue(t)
      /\ SyncAhead(s) <=> h \in {"fetch", "compare"} \/ SyncAhead(t)
      /\ DropAhead(s) <=> h = "drop" \/ DropAhead(t)
      /\ ApplyDue(s) <=> h = "apply" \/ (h # "restore" /\ ApplyDue(t))
      /\ ApplyAhead(s) <=> h = "apply" \/ ApplyAhead(t)
      /\ ClearsAhead(s) <=> h \in Clears \/ ClearsAhead(t)
  BY ConsAhead
<1>6. /\ After(s, {"push"}, {"push"}) <=> (h = "push" => ~PushAhead(t)) /\ After(t, {"push"}, {"push"})
      /\ After(s, Closing, Uses) <=> (h \in Closing => ~UsesAhead(t)) /\ After(t, Closing, Uses)
      /\ Follow(s, "edit", "push") <=> (h = "edit" => First(t, {"push"})) /\ Follow(t, "edit", "push")
      /\ Follow(s, "days", "push") <=> (h = "days" => First(t, {"push"})) /\ Follow(t, "days", "push")
  BY ConsAhead
<1>7. ~First(s, {"extend"}) /\ ~First(s, Needs) /\ (First(s, {"keepUser", "refillUser"}) => h = "keepUser")
  <2>1. \A heads : First(s, heads) <=> h \in heads
    BY ConsAhead
  <2> HIDE DEF s
  <2> QED BY <1>k, <2>1
<1>8. After(t, {"push"}, {"push"}) /\ After(t, Closing, Uses) /\ Follow(t, "days", "push")
      /\ (r.ask = Invalid \/ Follow(t, "edit", "push"))
      /\ r.usr \in UserViews \cup {None} /\ (r.sub = None \/ SubT(r.sub, n))
  BY DEF Sound
<1> HIDE DEF s
<1>9. /\ ~PushDue(s) /\ ~RemoveDue(s) /\ ~DropAhead(s) /\ ~ClearsAhead(s)
      /\ (ApplyDue(s) => AccT(q.remna, n))
      /\ After(s, {"push"}, {"push"}) /\ After(s, Closing, Uses) /\ Follow(s, "days", "push")
      /\ (q.ask = Invalid \/ Follow(s, "edit", "push"))
  BY <1>4, <1>5, <1>6, <1>8, <1>k
<1>10. SyncAhead(s) => Sync2(s) \/ Sync3(s)
  BY <1>4, <1>5, <1>k
<1>11. q.usr = None => ~UserNext(s) /\ ~ApplyAhead(s)
  BY <1>4, <1>5, <1>k
<1> QED BY <1>7, <1>8, <1>9, <1>10, <1>11 DEF Sound, s

\* The awaits every job may have.
LEMMA ReadUserTyped ==
  ASSUME NEW own, NEW j, Engaged(own, j), ReadUser(j), UNCHANGED <<state, issued>>
  PROVE  TypedStep(j)
<1> DEFINE u == job[j].user
<1>1. /\ StoresTyped /\ j \in Jobs /\ DOMAIN job = Jobs /\ JobOK(own, j) /\ job[j].todo # <<>> /\ job[j].todo \in Seq(Names)
      /\ DOMAIN job[j] = JobFields /\ RecordOK(j, job[j], accounts) /\ Sound(job[j], accounts) /\ accounts \in Nat
      /\ u \in Users /\ DOMAIN userCache = Users /\ None \notin UserViews /\ UserView(u) \in UserViews
      /\ userCache[u].cached => userCache[u].value \in UserViews
      /\ job[j].sub = None \/ SubT(job[j].sub, accounts)
  BY EngagedFacts
<1>2. UNCHANGED <<person, subs, account, accounts, subCache, due, state, issued>> /\ Head(job[j].todo) = "user"
  BY DEF ReadUser, At, stores
<1>3. CASE /\ userCache[u].cached
           /\ job' = [job EXCEPT ![j] = Goes([@ EXCEPT !.usr = userCache[u].value], <<>>)]
           /\ Disturb(j, u)
           /\ UNCHANGED userCache
  <2> DEFINE q == [job[j] EXCEPT !.usr = userCache[u].value]
  <2>1. /\ DOMAIN q = JobFields /\ q.user = job[j].user /\ q.ask = job[j].ask /\ q.rescue = job[j].rescue
        /\ q.usr = userCache[u].value /\ q.sub = job[j].sub /\ q.remna = job[j].remna /\ q.todo = job[j].todo
    BY <1>1 DEF JobFields
  <2>2. job'[j] = Goes(q, <<>>)
    BY <1>1, <1>3
  <2>v. userCache[u].value \in UserViews /\ userCache[u].value # None
    BY <1>1, <1>3
  <2> HIDE DEF q, u
  <2>3. Fit(job[j], q, accounts)
    BY <1>1, <1>2, <2>1, <2>v DEF Fit
  <2>4. RecordOK(j, job'[j], accounts)
    BY <1>1, <2>1, <2>2, <2>3, PoppedOK
  <2>5. disturbed' \subseteq Users
    BY <1>1, <1>3, DisturbTyped DEF StoresTyped
  <2> QED BY <1>1, <1>2, <1>3, <2>4, <2>5, StoresRest DEF TypedStep
<1>4. CASE /\ job' = [job EXCEPT ![j] = [@ EXCEPT !.usr = UserView(u), !.todo = <<"keepUser">> \o Tail(job[j].todo)]]
           /\ userCache' = [userCache EXCEPT ![u] = Empty]
           /\ Undisturbed
  <2> DEFINE t == Tail(job[j].todo)
             r == [job[j] EXCEPT !.usr = UserView(u), !.todo = t]
             q == [job[j] EXCEPT !.usr = UserView(u), !.todo = <<"keepUser">> \o t]
  <2>1. /\ q.user = job[j].user /\ q.ask = job[j].ask /\ q.rescue = job[j].rescue
        /\ q.usr = UserView(u) /\ q.sub = job[j].sub /\ q.remna = job[j].remna /\ q.todo = <<"keepUser">> \o t
        /\ r.user = job[j].user /\ r.ask = job[j].ask /\ r.rescue = job[j].rescue
        /\ r.usr = UserView(u) /\ r.sub = job[j].sub /\ r.remna = job[j].remna /\ r.todo = t
    BY <1>1 DEF JobFields
  <2>2. job'[j] = q
    BY <1>1, <1>4
  <2>c. Cons(q.todo, "keepUser", t) /\ Cons(job[j].todo, "user", t)
    <3>1. "keepUser" \in Names /\ t \in Seq(Names)
      BY <1>1, TaskNames, RestFacts
    <3>2. Cons(job[j].todo, "user", t)
      BY <1>1, <1>2 DEF Cons
    <3> QED BY <2>1, <3>1, <3>2, ConsMade
  <2>t. ~First(t, Asking) /\ ~First(t, Needs) /\ ~ClearsAhead(t)
    BY <1>1, <1>2, TailFacts
  <2>v. UserView(u) \in UserViews /\ UserView(u) # None
    BY <1>1
  <2> HIDE DEF q, r, t
  <2>3. Fit(job[j], r, accounts)
    BY <1>1, <1>2, <2>1, <2>v DEF Fit
  <2>4. Sound(r, accounts)
    BY <1>1, <2>1, <2>3, PopFit DEF t
  <2>5. Sound(q, accounts)
    BY <1>1, <2>1, <2>c, <2>4, <2>t, <2>v, AnswerSound
  <2>6. RecordOK(j, q, accounts)
    BY <1>1, <2>1, <2>5 DEF RecordOK
  <2>7. CopiesTyped'
    BY <1>1, <1>2, <1>4 DEF StoresTyped, CopiesTyped, Empty
  <2> QED BY <1>1, <1>2, <1>4, <2>2, <2>6, <2>7, StoresSame DEF TypedStep, StoresTyped, Undisturbed
<1> QED BY <1>3, <1>4 DEF ReadUser

-----------------------------------------------------------------------------
(* The awaits every job is built from                                      *)

\* Reading the subscription keeps the types.
LEMMA ReadSubTyped ==
  ASSUME NEW own, NEW j, Engaged(own, j), ReadSub(j), UNCHANGED <<state, issued>>
  PROVE  TypedStep(j)
<1> DEFINE u == job[j].user
<1>1. /\ StoresTyped /\ j \in Jobs /\ DOMAIN job = Jobs /\ JobOK(own, j) /\ job[j].todo # <<>> /\ job[j].todo \in Seq(Names)
      /\ DOMAIN job[j] = JobFields /\ RecordOK(j, job[j], accounts) /\ Sound(job[j], accounts) /\ accounts \in Nat
      /\ u \in Users /\ DOMAIN subCache = Users /\ (Current(u) = None \/ SubT(Current(u), accounts))
      /\ subCache[u].cached => subCache[u].value = None \/ SubT(subCache[u].value, accounts)
      /\ job[j].usr \in UserViews \cup {None}
  BY EngagedFacts
<1>2. UNCHANGED <<person, subs, account, accounts, userCache, due, state, issued>> /\ Head(job[j].todo) = "sub"
  BY DEF ReadSub, At, stores
<1>3. CASE /\ subCache[u].cached
           /\ job' = [job EXCEPT ![j] = Goes([@ EXCEPT !.sub = subCache[u].value], <<>>)]
           /\ Disturb(j, u)
           /\ UNCHANGED subCache
  <2> DEFINE q == [job[j] EXCEPT !.sub = subCache[u].value]
  <2>1. /\ DOMAIN q = JobFields /\ q.user = job[j].user /\ q.ask = job[j].ask /\ q.rescue = job[j].rescue
        /\ q.sub = subCache[u].value /\ q.usr = job[j].usr /\ q.remna = job[j].remna /\ q.todo = job[j].todo
    BY <1>1 DEF JobFields
  <2>2. job'[j] = Goes(q, <<>>)
    BY <1>1, <1>3
  <2>v. subCache[u].value = None \/ SubT(subCache[u].value, accounts)
    BY <1>1, <1>3
  <2> HIDE DEF q, u
  <2>3. Fit(job[j], q, accounts)
    BY <1>1, <1>2, <2>1, <2>v DEF Fit
  <2>4. RecordOK(j, job'[j], accounts)
    BY <1>1, <2>1, <2>2, <2>3, PoppedOK
  <2>5. disturbed' \subseteq Users
    BY <1>1, <1>3, DisturbTyped DEF StoresTyped
  <2> QED BY <1>1, <1>2, <1>3, <2>4, <2>5, StoresRest DEF TypedStep
<1>4. CASE /\ job' = [job EXCEPT ![j] = [@ EXCEPT !.sub = Current(u), !.todo = <<"keepSub">> \o Tail(job[j].todo)]]
           /\ subCache' = [subCache EXCEPT ![u] = Empty]
           /\ Undisturbed
  <2> DEFINE t == Tail(job[j].todo)
             r == [job[j] EXCEPT !.sub = Current(u), !.todo = t]
             q == [job[j] EXCEPT !.sub = Current(u), !.todo = <<"keepSub">> \o t]
  <2>1. /\ q.user = job[j].user /\ q.ask = job[j].ask /\ q.rescue = job[j].rescue
        /\ q.sub = Current(u) /\ q.usr = job[j].usr /\ q.remna = job[j].remna /\ q.todo = <<"keepSub">> \o t
        /\ r.user = job[j].user /\ r.ask = job[j].ask /\ r.rescue = job[j].rescue
        /\ r.sub = Current(u) /\ r.usr = job[j].usr /\ r.remna = job[j].remna /\ r.todo = t
    BY <1>1 DEF JobFields
  <2>2. job'[j] = q
    BY <1>1, <1>4
  <2>c. Cons(q.todo, "keepSub", t) /\ Cons(job[j].todo, "sub", t)
    <3>1. "keepSub" \in Names /\ t \in Seq(Names)
      BY <1>1, TaskNames, RestFacts
    <3>2. Cons(job[j].todo, "sub", t)
      BY <1>1, <1>2 DEF Cons
    <3> QED BY <2>1, <3>1, <3>2, ConsMade
  <2>t. ~First(t, Asking) /\ ~First(t, Needs) /\ ~ClearsAhead(t)
    BY <1>1, <1>2, TailFacts
  <2>v. Current(u) = None \/ SubT(Current(u), accounts)
    BY <1>1
  <2> HIDE DEF q, r, t
  <2>3. Fit(job[j], r, accounts)
    BY <1>1, <1>2, <2>1, <2>v DEF Fit
  <2>4. Sound(r, accounts)
    BY <1>1, <2>1, <2>3, PopFit DEF t
  <2>5. Sound(q, accounts)
    BY <1>1, <2>1, <2>c, <2>4, <2>t, <2>v, AnswerSound
  <2>6. RecordOK(j, q, accounts)
    BY <1>1, <2>1, <2>5 DEF RecordOK
  <2>7. CopiesTyped'
    BY <1>1, <1>2, <1>4 DEF StoresTyped, CopiesTyped, Empty
  <2> QED BY <1>1, <1>2, <1>4, <2>2, <2>6, <2>7, StoresSame DEF TypedStep, StoresTyped, Undisturbed
<1> QED BY <1>3, <1>4 DEF ReadSub

\* Filling and clearing a copy keeps the types.
LEMMA KeepTyped ==
  ASSUME NEW own, NEW j, Engaged(own, j), KeepUser(j) \/ KeepSub(j) \/ ClearSub(j) \/ ClearUser(j) \/ RefillUser(j),
         UNCHANGED <<state, issued>>
  PROVE  TypedStep(j)
<1> DEFINE u == job[j].user
<1>1. /\ StoresTyped /\ j \in Jobs /\ u \in Users /\ DOMAIN userCache = Users /\ DOMAIN subCache = Users
      /\ job[j].usr \in UserViews \cup {None} /\ (job[j].sub = None \/ SubT(job[j].sub, accounts)) /\ Sound(job[j], accounts)
  BY EngagedFacts
<1>2. /\ UNCHANGED <<person, subs, account, accounts, due, disturbed, state, issued>> /\ Continue(j)
      /\ Head(job[j].todo) \in {"keepUser", "keepSub", "clearSub", "clearUser", "refillUser"}
  BY DEF KeepUser, KeepSub, ClearSub, ClearUser, RefillUser, At, stores, history
<1>3. Head(job[j].todo) \in {"keepUser", "refillUser"} => job[j].usr \in UserViews
  <2>1. job[j].todo # <<>> /\ (First(job[j].todo, {"keepUser", "refillUser"}) => job[j].usr # None)
    BY <1>1 DEF Engaged, Sound
  <2> QED BY <1>1, <2>1 DEF First
<1>4. CopiesTyped'
  <2>0. CopiesTyped
    BY <1>1 DEF StoresTyped
  <2>1. CASE KeepUser(j) \/ RefillUser(j)
    <3>1. userCache' = [userCache EXCEPT ![u] = Copy(job[j].usr)] /\ UNCHANGED subCache /\ job[j].usr \in UserViews
      BY <1>3, <2>1 DEF KeepUser, RefillUser, At
    <3> QED BY <1>1, <1>2, <2>0, <3>1 DEF CopiesTyped, Copy
  <2>2. CASE KeepSub(j)
    <3>1. subCache' = [subCache EXCEPT ![u] = Copy(job[j].sub)] /\ UNCHANGED userCache
      BY <2>2 DEF KeepSub
    <3> QED BY <1>1, <1>2, <2>0, <3>1 DEF CopiesTyped, Copy
  <2>3. CASE ClearSub(j)
    <3>1. subCache' = [subCache EXCEPT ![u] = Empty] /\ UNCHANGED userCache
      BY <2>3 DEF ClearSub
    <3> QED BY <1>1, <1>2, <2>0, <3>1 DEF CopiesTyped, Empty
  <2>4. CASE ClearUser(j)
    <3>1. userCache' = [userCache EXCEPT ![u] = Empty] /\ UNCHANGED subCache
      BY <2>4 DEF ClearUser
    <3> QED BY <1>1, <1>2, <2>0, <3>1 DEF CopiesTyped, Empty
  <2> QED BY <2>1, <2>2, <2>3, <2>4
<1>5. StoresTyped'
  BY <1>1, <1>2, <1>4, StoresSame DEF StoresTyped
<1> QED BY <1>2, <1>5, ContinuedTyped

\* What the panel is told of a copy is an account.
LEMMA PushedTyped ==
  ASSUME NEW usr, NEW s, NEW a, NEW n, SubT(s, n), AccT(a, n), usr \in UserViews \cup {None}
  PROVE  AccT(Pushed(usr, s, a), n)
<1>1. /\ a \in AccountRecords /\ a.uuid <= n /\ s \in SubRecords
      /\ DOMAIN a = {"uuid", "status", "days", "staff", "devices", "traffic_limit", "device_limit", "internal_squads", "external_squad"}
  BY DEF AccT, SubT, AccountRecords
<1> DEFINE p == Pushed(usr, s, a)
<1>2. /\ DOMAIN p = {"uuid", "status", "days", "staff", "devices", "traffic_limit", "device_limit", "internal_squads", "external_squad"}
      /\ p = [uuid |-> a.uuid, status |-> PanelStatus(s.status, s.days), days |-> s.days, staff |-> (s.staff \/ Privileged(usr)),
              devices |-> a.devices, traffic_limit |-> s.traffic_limit, device_limit |-> s.device_limit,
              internal_squads |-> s.internal_squads, external_squad |-> s.external_squad]
  BY <1>1 DEF Pushed, Limits
<1>3. /\ s.days \in Nat /\ s.staff \in BOOLEAN /\ s.traffic_limit \in Nat /\ s.device_limit \in Nat
      /\ s.internal_squads \in {0, 1} /\ s.external_squad \in {0, 1}
  BY <1>1 DEF SubRecords
<1>4. a.uuid \in 1..MaxAccounts /\ a.devices \in Nat
  BY <1>1 DEF AccountRecords
<1>5. PanelStatus(s.status, s.days) \in {"ACTIVE", "DISABLED", "EXPIRED"}
  BY DEF PanelStatus
<1>6. (s.staff \/ Privileged(usr)) \in BOOLEAN
  BY <1>3 DEF Privileged
<1> HIDE DEF p
<1>7. p \in AccountRecords /\ p.uuid = a.uuid
  BY <1>2, <1>3, <1>4, <1>5, <1>6 DEF AccountRecords
<1> QED BY <1>1, <1>7 DEF AccT, p

\* Pushing a subscription to the panel keeps the types.
LEMMA PushTyped ==
  ASSUME NEW own, NEW j, Engaged(own, j), Push(j), UNCHANGED <<state, issued>>
  PROVE  TypedStep(j)
<1> DEFINE u == job[j].user
<1>1. /\ StoresTyped /\ j \in Jobs /\ DOMAIN job = Jobs /\ JobOK(own, j) /\ job[j].todo # <<>> /\ job[j].todo \in Seq(Names)
      /\ DOMAIN job[j] = JobFields /\ RecordOK(j, job[j], accounts) /\ Sound(job[j], accounts) /\ accounts \in Nat
      /\ u \in Users /\ DOMAIN account = Users
      /\ job[j].usr \in UserViews \cup {None} /\ (job[j].sub = None \/ SubT(job[j].sub, accounts))
  BY EngagedFacts
<1>2. UNCHANGED <<person, subs, accounts, userCache, subCache, due, state, issued>> /\ Head(job[j].todo) = "push"
  BY DEF Push, At, caches
<1>3. CASE Reachable(u, job[j].sub.account)
  <2>1. /\ account' = [account EXCEPT ![u] = Pushed(job[j].usr, job[j].sub, @)]
        /\ job' = [job EXCEPT ![j] = Goes([@ EXCEPT !.wrote = TRUE], <<>>)] /\ Disturb(j, u)
    BY <1>3 DEF Push
  <2>2. job[j].sub # None
    BY <1>1, <1>2, PastReads
  <2> DEFINE q == [job[j] EXCEPT !.wrote = TRUE]
  <2>3. /\ DOMAIN q = JobFields /\ q.user = job[j].user /\ q.ask = job[j].ask /\ q.rescue = job[j].rescue
        /\ q.usr = job[j].usr /\ q.sub = job[j].sub /\ q.remna = job[j].remna /\ q.todo = job[j].todo
    BY <1>1 DEF JobFields
  <2>4. job'[j] = Goes(q, <<>>)
    BY <1>1, <2>1
  <2> HIDE DEF q
  <2>5. Fit(job[j], q, accounts)
    BY <1>1, <1>2, <2>3, FitSame
  <2>6. RecordOK(j, job'[j], accounts)
    BY <1>1, <2>3, <2>4, <2>5, PoppedOK
  <2>7. disturbed' \subseteq Users
    BY <1>1, <2>1, DisturbTyped DEF StoresTyped
  <2>8. PanelTyped'
    <3>1. PanelTyped
      BY <1>1 DEF StoresTyped
    <3>2. account[u] # None /\ AccT(account[u], accounts)
      BY <1>1, <1>3, <3>1 DEF Reachable, PanelTyped
    <3>3. AccT(Pushed(job[j].usr, job[j].sub, account[u]), accounts)
      BY <1>1, <2>2, <3>2, PushedTyped
    <3>4. \A v \in Users : account'[v] = IF v = u THEN Pushed(job[j].usr, job[j].sub, account[u]) ELSE account[v]
      BY <1>1, <2>1
    <3> HIDE DEF u
    <3> QED BY <1>1, <1>2, <3>1, <3>3, <3>4 DEF PanelTyped
  <2> QED BY <1>1, <1>2, <2>6, <2>7, <2>8, StoresSame DEF TypedStep, StoresTyped
<1>4. CASE ~Reachable(u, job[j].sub.account)
  <2>1. Raise(j) /\ UNCHANGED account
    BY <1>4 DEF Push
  <2> QED BY <1>2, <2>1, RaisedTyped
<1> QED BY <1>3, <1>4

\* The awaits every job may have, and an exception, keep the types.
LEMMA AwaitTyped ==
  ASSUME NEW own, NEW j, Engaged(own, j), AwaitStep(j) \/ Fault(j), UNCHANGED <<state, issued>>
  PROVE  TypedStep(j)
<1>1. CASE Fault(j)
  <2>1. Raise(j) /\ UNCHANGED <<person, subs, account, accounts, userCache, subCache, due, state, issued>>
    BY <1>1 DEF Fault, stores, caches
  <2> QED BY <2>1, RaisedTyped
<1>2. CASE AwaitStep(j)
  BY <1>2, ReadUserTyped, ReadSubTyped, KeepTyped, PushTyped DEF AwaitStep
<1> QED BY <1>1, <1>2

-----------------------------------------------------------------------------
(* Awaits that write billing, and decisions                                *)

\* A subscription some of whose fields come from another.
LEMMA MixTyped ==
  ASSUME NEW s, NEW t, NEW n, SubT(s, n), SubT(t, n), NEW changed
  PROVE  SubT([f \in DOMAIN s |-> IF f \in changed THEN t[f] ELSE s[f]], n)
<1> DEFINE m == [f \in DOMAIN s |-> IF f \in changed THEN t[f] ELSE s[f]]
<1>1. s \in SubRecords /\ t \in SubRecords /\ s.account <= n /\ t.account <= n /\ DOMAIN s = SubFields
  BY DEF SubT, SubRecords, SubFields
<1>2. \A f \in SubFields : m[f] = IF f \in changed THEN t[f] ELSE s[f]
  BY <1>1
<1>3. DOMAIN m = SubFields
  BY <1>1
<1> DEFINE r == [id |-> m.id, account |-> m.account, trial |-> m.trial, staff |-> m.staff, days |-> m.days, status |-> m.status,
                 traffic_limit |-> m.traffic_limit, device_limit |-> m.device_limit,
                 internal_squads |-> m.internal_squads, external_squad |-> m.external_squad]
<1>4. m = r
  <2>1. m = [f \in SubFields |-> m[f]]
    BY <1>1
  <2> HIDE DEF m
  <2>2. r = [f \in SubFields |-> m[f]]
    BY DEF SubFields
  <2> QED BY <2>1, <2>2
<1>5. /\ m.id \in {s.id, t.id} /\ m.account \in {s.account, t.account} /\ m.trial \in {s.trial, t.trial} /\ m.staff \in {s.staff, t.staff}
      /\ m.days \in {s.days, t.days} /\ m.status \in {s.status, t.status} /\ m.traffic_limit \in {s.traffic_limit, t.traffic_limit}
      /\ m.device_limit \in {s.device_limit, t.device_limit}
      /\ m.internal_squads \in {s.internal_squads, t.internal_squads}
      /\ m.external_squad \in {s.external_squad, t.external_squad}
  BY <1>2 DEF SubFields
<1> HIDE DEF m, r
<1>6. /\ m.id \in Subs \cup {None} /\ m.account \in 1..MaxAccounts /\ m.account <= n /\ m.trial \in BOOLEAN /\ m.staff \in BOOLEAN
      /\ m.days \in Nat /\ m.status \in {"ACTIVE", "DISABLED", "EXPIRED", "DELETED"} /\ m.traffic_limit \in Nat /\ m.device_limit \in Nat
      /\ m.internal_squads \in {0, 1} /\ m.external_squad \in {0, 1}
  BY <1>1, <1>5 DEF SubRecords
<1>7. r \in SubRecords
  BY <1>6 DEF r, SubRecords
<1> QED BY <1>4, <1>6, <1>7 DEF SubT, m

\* A typed subscription written to billing keeps the stores' types.
LEMMA BilledStores ==
  ASSUME NEW own, NEW j, Engaged(own, j), NEW new, NEW changed, NEW kept, NEW more, SubT(new, accounts), new.id \in DOMAIN subs,
         BillSubKeeping(j, new, changed, kept, more), UNCHANGED <<state, issued>>
  PROVE  StoresTyped' /\ UNCHANGED accounts /\ SubT(Billed(new, changed)[new.id], accounts)
<1>1. StoresTyped /\ job[j].user \in Users
  BY EngagedFacts
<1>2. UNCHANGED <<person, account, accounts, userCache, subCache, state, issued>> /\ Disturb(j, job[j].user)
  BY DEF BillSubKeeping, caches
<1>3. disturbed' \subseteq Users
  BY <1>1, <1>2, DisturbTyped DEF StoresTyped
<1>4. DueTyped'
  BY <1>1, <1>3 DEF StoresTyped, DueTyped, BillSubKeeping
<1> DEFINE m == [f \in DOMAIN subs[new.id] |-> IF f \in changed THEN new[f] ELSE subs[new.id][f]]
<1>5. Billed(new, changed) = [subs EXCEPT ![new.id] = m]
  BY DEF Billed
<1>6. SubT(m, accounts)
  BY <1>1, MixTyped DEF StoresTyped, BillsTyped
<1> HIDE DEF m
<1>7. SubT(Billed(new, changed)[new.id], accounts)
  BY <1>5, <1>6
<1>8. BillsTyped'
  <2>1. subs' = Billed(new, changed) /\ accounts' = accounts
    BY <1>2 DEF BillSubKeeping
  <2> QED BY <1>1, <1>5, <1>6, <2>1 DEF StoresTyped, BillsTyped
<1> QED BY <1>1, <1>2, <1>4, <1>7, <1>8, StoresSame DEF StoresTyped

\* An await that writes the subscription keeps the types.
LEMMA BilledTyped ==
  ASSUME NEW own, NEW j, Engaged(own, j), Head(job[j].todo) \in {"edit", "status", "apply", "extend", "days"},
         Head(job[j].todo) = "edit" => job[j].ask # Invalid,
         NEW new, NEW changed, NEW kept, SubT(new, accounts), new.id \in DOMAIN subs,
         kept = new \/ kept = Billed(new, changed)[new.id],
         BillSubKeeping(j, new, changed, kept, <<>>), UNCHANGED <<state, issued>>
  PROVE  TypedStep(j)
<1>1. /\ j \in Jobs /\ DOMAIN job = Jobs /\ JobOK(own, j) /\ job[j].todo # <<>> /\ RecordOK(j, job[j], accounts)
      /\ accounts \in Nat /\ None \notin SubRecords
  BY EngagedFacts
<1>2. StoresTyped' /\ UNCHANGED accounts /\ SubT(Billed(new, changed)[new.id], accounts)
  BY BilledStores
<1>3. SubT(kept, accounts) /\ kept # None
  <2>1. SubT(kept, accounts)
    BY <1>2
  <2> QED BY <1>1, <2>1 DEF SubT
<1>4. RecordOK(j, job'[j], accounts)
  BY <1>1, <1>3, BilledOK
<1> QED BY <1>1, <1>2, <1>4 DEF TypedStep

\* A user with one field written is still a user.
LEMMA PersonTyped ==
  ASSUME NEW p \in UserRecords, NEW field, NEW value,
         \/ field = "blocked" /\ value \in BOOLEAN
         \/ field = "role" /\ value \in DOMAIN Rank
         \/ field \in {"discount", "points"} /\ value \in Nat
  PROVE  [p EXCEPT ![field] = value] \in UserRecords /\ [p EXCEPT ![field] = value].current = p.current
BY DEF UserRecords

\* An await that writes the user keeps the types.
LEMMA BilledUserTyped ==
  ASSUME NEW own, NEW j, Engaged(own, j), Head(job[j].todo) \in {"set", "points", "discount"},
         NEW field, NEW value,
         \/ field = "blocked" /\ value \in BOOLEAN
         \/ field = "role" /\ value \in DOMAIN Rank
         \/ field \in {"discount", "points"} /\ value \in Nat,
         NEW h \in {"clearUser", "refillUser"}, BillUser(j, field, value, <<h>>), UNCHANGED <<state, issued>>
  PROVE  TypedStep(j)
<1> DEFINE u == job[j].user
           p == [person[u] EXCEPT ![field] = value]
<1>1. /\ StoresTyped /\ j \in Jobs /\ DOMAIN job = Jobs /\ JobOK(own, j) /\ job[j].todo # <<>> /\ RecordOK(j, job[j], accounts)
      /\ accounts \in Nat /\ None \notin UserViews /\ u \in Users /\ DOMAIN person = Users /\ UserView(u) \in UserViews
  BY EngagedFacts
<1>2. UNCHANGED <<subs, account, accounts, userCache, subCache, state, issued>> /\ Disturb(j, u) /\ person' = [person EXCEPT ![u] = p]
  BY DEF BillUser, caches
<1>3. person[u] \in UserRecords
  BY <1>1 DEF StoresTyped, PersonsTyped
<1>4. p \in UserRecords /\ p.current = person[u].current
  BY <1>3, PersonTyped
<1> HIDE DEF p
<1>5. person'[u] = p
  BY <1>1, <1>2
<1>6. PersonsTyped'
  BY <1>1, <1>2, <1>4 DEF StoresTyped, PersonsTyped
<1>7. ViewOf(p) \in UserViews
  <2>1. /\ p.points \in Nat /\ p.discount \in Nat /\ p.role \in DOMAIN Rank /\ p.blocked \in BOOLEAN
    BY <1>4 DEF UserRecords
  <2>2. (IF p.current = None THEN None ELSE subs[p.current].account) \in 1..MaxAccounts \cup {None}
    <3>1. UserView(u).account \in 1..MaxAccounts \cup {None}
      BY <1>1 DEF UserViews
    <3>2. UserView(u).account = IF person[u].current = None THEN None ELSE subs[person[u].current].account
      BY DEF UserView, ViewOf
    <3> QED BY <1>4, <3>1, <3>2
  <2> QED BY <2>1, <2>2 DEF ViewOf, UserViews
<1>8. disturbed' \subseteq Users
  BY <1>1, <1>2, DisturbTyped DEF StoresTyped
<1>9. DueTyped'
  BY <1>1, <1>8 DEF StoresTyped, DueTyped, BillUser
<1>10. RecordOK(j, job'[j], accounts)
  BY <1>1, <1>5, <1>7, BilledUserOK
<1> QED BY <1>1, <1>2, <1>6, <1>9, <1>10, StoresSame DEF TypedStep, StoresTyped

\* A handler that decides what to show.
LEMMA DecidedTyped ==
  ASSUME NEW own, NEW j, Engaged(own, j), NEW todo \in Seq(Smooth), job' = [job EXCEPT ![j].todo = todo],
         StoresTyped', UNCHANGED accounts
  PROVE  TypedStep(j)
<1>1. /\ StoresTyped /\ j \in Jobs /\ DOMAIN job = Jobs /\ DOMAIN job[j] = JobFields /\ RecordOK(j, job[j], accounts) /\ accounts \in Nat
      /\ job[j].usr \in UserViews \cup {None} /\ (job[j].sub = None \/ SubT(job[j].sub, accounts))
  BY EngagedFacts
<1> DEFINE q == [job[j] EXCEPT !.todo = todo]
<1>2. /\ job'[j] = q /\ q.user = job[j].user /\ q.ask = job[j].ask /\ q.rescue = job[j].rescue /\ q.todo = todo
      /\ q.usr = job[j].usr /\ q.sub = job[j].sub
  BY <1>1 DEF JobFields
<1> HIDE DEF q
<1>3. RecordOK(j, q, accounts)
  BY <1>1, <1>2, SmoothDull, DulledOK
<1> QED BY <1>1, <1>2, <1>3 DEF TypedStep

\* An await that only chooses what to draw keeps the types.
LEMMA DecideTyped ==
  ASSUME NEW own, NEW j, Engaged(own, j), NEW step, NEW todo \in Seq(Smooth), Decide(j, step, todo), UNCHANGED <<state, issued>>
  PROVE  TypedStep(j)
<1>1. /\ UNCHANGED <<person, subs, account, accounts, userCache, subCache, due, disturbed, state, issued>>
      /\ job' = [job EXCEPT ![j].todo = todo]
  BY DEF Decide, stores, caches, history
<1>2. StoresTyped /\ StoresTyped'
  BY <1>1, StoresSame, EngagedFacts DEF StoresTyped
<1> QED BY <1>1, <1>2, DecidedTyped

\* The window a handler draws again, and those it goes on to.
LEMMA AgainSmooth ==
  ASSUME DeskInv, NEW d \in Desks, job[d].todo # <<>>,
         Head(job[d].todo) \notin {"user", "keepUser", "sub", "keepSub", "MAIN", "MENU"}
  PROVE  /\ Again(d) \in Seq(Smooth)
         /\ \A w \in {"MAIN", "SUBSCRIPTION", "DEVICES_LIST", "SYNC", "GIVE_SUBSCRIPTION", "GIVE_ACCESS"} : Render(w) \in Seq(Smooth)
<1>1. desk[d].win \in Windows
  BY WindowKnown
<1>2. {"MAIN", "SUBSCRIPTION", "DEVICES_LIST", "SYNC", "GIVE_SUBSCRIPTION", "GIVE_ACCESS"} \subseteq Windows
  BY GetterFacts
<1> QED BY <1>1, <1>2, SmoothJoins DEF Again

\* The handlers of the dashboard that decide what to show, or note that a button was pressed once.
LEMMA DecidersTyped ==
  ASSUME NEW own, NEW d \in Desks, DeskInv, Engaged(own, d), UNCHANGED grantVars,
         WhetherSub(d) \/ Matching(d) \/ OfferPlans(d) \/ OfferAccess(d) \/ Reset(d) \/ Devices(d)
  PROVE  TypedStep(d)
<1>0. UNCHANGED <<state, issued>> /\ job[d].todo # <<>>
  BY EngagedFacts DEF grantVars
<1>1. ASSUME WhetherSub(d) PROVE TypedStep(d)
  <2>1. Again(d) \in Seq(Smooth) /\ Render("SUBSCRIPTION") \in Seq(Smooth)
    BY <1>0, <1>1, AgainSmooth DEF WhetherSub, Decide, At
  <2> QED BY <1>0, <1>1, <2>1, DecideTyped DEF WhetherSub
<1>2. ASSUME Matching(d) PROVE TypedStep(d)
  <2>1. Again(d) \in Seq(Smooth) /\ Render("SYNC") \in Seq(Smooth)
    BY <1>0, <1>2, AgainSmooth DEF Matching, Decide, At
  <2> QED BY <1>0, <1>2, <2>1, DecideTyped DEF Matching
<1>3. ASSUME OfferPlans(d) PROVE TypedStep(d)
  <2>1. Render("MAIN") \in Seq(Smooth) /\ Render("GIVE_SUBSCRIPTION") \in Seq(Smooth)
    BY <1>0, <1>3, AgainSmooth DEF OfferPlans, Decide, At
  <2>2. PICK w \in {"MAIN", "GIVE_SUBSCRIPTION"} : Decide(d, "plans", Render(w))
    BY <1>3 DEF OfferPlans
  <2>3. Render(w) \in Seq(Smooth)
    BY <2>1
  <2> QED BY <1>0, <2>2, <2>3, DecideTyped
<1>4. ASSUME OfferAccess(d) PROVE TypedStep(d)
  <2>1. Render("MAIN") \in Seq(Smooth) /\ Render("GIVE_ACCESS") \in Seq(Smooth)
    BY <1>0, <1>4, AgainSmooth DEF OfferAccess, Decide, At
  <2>2. PICK w \in {"MAIN", "GIVE_ACCESS"} : Decide(d, "access", Render(w))
    BY <1>4 DEF OfferAccess
  <2>3. Render(w) \in Seq(Smooth)
    BY <2>1
  <2> QED BY <1>0, <2>2, <2>3, DecideTyped
<1>5. ASSUME Reset(d) PROVE TypedStep(d)
  <2>1. Again(d) \in Seq(Smooth)
    BY <1>0, <1>5, AgainSmooth DEF Reset, At
  <2>2. CASE Decide(d, "reset", Again(d))
    BY <1>0, <2>1, <2>2, DecideTyped
  <2>3. CASE Raise(d) /\ UNCHANGED <<stores, caches, due, faults>>
    BY <1>0, <2>3, RaisedTyped DEF stores, caches
  <2> QED BY <1>5, <2>2, <2>3 DEF Reset
<1>6. ASSUME Devices(d) PROVE TypedStep(d)
  <2>1. Again(d) \in Seq(Smooth) /\ Render("DEVICES_LIST") \in Seq(Smooth)
    BY <1>0, <1>6, AgainSmooth DEF Devices, At
  <2>2. CASE \E w : w \in Seq(Smooth) /\ Decide(d, "devices", w)
    BY <1>0, <2>2, DecideTyped
  <2>3. CASE Raise(d) /\ UNCHANGED <<stores, caches, due, faults>>
    BY <1>0, <2>3, RaisedTyped DEF stores, caches
  <2> QED BY <1>6, <2>1, <2>2, <2>3 DEF Devices
<1> QED BY <1>1, <1>2, <1>3, <1>4, <1>5, <1>6

\* A first press of a guarded button keeps the types.
LEMMA ArmTyped ==
  ASSUME NEW own, NEW d \in Desks, DeskInv, Engaged(own, d), UNCHANGED grantVars, NEW key, Arm(d, key),
         Again(d) \in Seq(Smooth)
  PROVE  TypedStep(d)
<1>1. /\ UNCHANGED <<person, subs, account, accounts, userCache, subCache, due, disturbed, state, issued>>
      /\ job' = [job EXCEPT ![d].todo = Again(d)]
  BY DEF Arm, stores, caches, history, grantVars
<1>2. StoresTyped /\ StoresTyped'
  BY <1>1, StoresSame, EngagedFacts DEF StoresTyped
<1> QED BY <1>1, <1>2, DecidedTyped

\* Sending the user a message keeps the types.
LEMMA SendTyped ==
  ASSUME NEW own, NEW d \in Desks, DeskInv, Engaged(own, d), UNCHANGED grantVars, Send(d)
  PROVE  TypedStep(d)
<1>0. UNCHANGED <<state, issued>> /\ job[d].todo # <<>>
  BY EngagedFacts DEF grantVars
<1>1. Again(d) \in Seq(Smooth) /\ Render("MAIN") \in Seq(Smooth)
  BY <1>0, AgainSmooth DEF Send, At
<1>2. CASE Decide(d, "send", Again(d))
  BY <1>0, <1>1, <1>2, DecideTyped
<1>3. CASE Arm(d, "message")
  BY <1>1, <1>3, ArmTyped
<1>4. CASE Decide(d, "send", Render("MAIN"))
  BY <1>0, <1>1, <1>4, DecideTyped
<1> QED BY <1>2, <1>3, <1>4 DEF Send

\* A window is drawn, the main menu shown, access given, the administrator's own copy cleared.
LEMMA ShowTyped ==
  ASSUME NEW own, NEW d \in Desks, DeskInv, Engaged(own, d), UNCHANGED grantVars,
         Show(d) \/ Menu(d) \/ GrantAccess(d) \/ ClearActor(d)
  PROVE  TypedStep(d)
<1>0. UNCHANGED <<state, issued>> /\ job[d].todo # <<>> /\ StoresTyped /\ DOMAIN userCache = Users
  BY EngagedFacts DEF grantVars
<1>1. ASSUME Show(d) PROVE TypedStep(d)
  <2>1. Head(job[d].todo) \notin {"user", "edit", "days", "restore", "toggle", "provision"}
    BY <1>1, GetterFacts, Zenon DEF Show
  <2>2. UNCHANGED <<person, subs, account, accounts, userCache, subCache, due>> /\ (Raise(d) \/ (Continue(d) /\ Undisturbed))
    BY <1>1 DEF Show, stores, caches
  <2>3. CASE Raise(d)
    BY <1>0, <2>2, <2>3, RaisedTyped
  <2>4. CASE Continue(d) /\ Undisturbed
    <3>1. StoresTyped'
      BY <1>0, <2>2, <2>4, StoresSame DEF StoresTyped, Undisturbed
    <3> QED BY <2>1, <2>2, <2>4, <3>1, ContinuedTyped
  <2> QED BY <2>2, <2>3, <2>4
<1>2. ASSUME Menu(d) PROVE TypedStep(d)
  <2>1. UNCHANGED <<person, subs, account, accounts, userCache, subCache, due, disturbed>> /\ Continue(d) /\ Head(job[d].todo) = "MENU"
    BY <1>2 DEF Menu, stores, caches, history, At
  <2>2. StoresTyped'
    BY <1>0, <2>1, StoresSame DEF StoresTyped
  <2> QED BY <2>1, <2>2, ContinuedTyped
<1>3. ASSUME GrantAccess(d) PROVE TypedStep(d)
  <2>1. UNCHANGED <<person, subs, account, accounts, userCache, subCache, due, disturbed>> /\ Continue(d) /\ Head(job[d].todo) = "grant"
    BY <1>3 DEF GrantAccess, stores, caches, history, At
  <2>2. StoresTyped'
    BY <1>0, <2>1, StoresSame DEF StoresTyped
  <2> QED BY <2>1, <2>2, ContinuedTyped
<1>4. ASSUME ClearActor(d) PROVE TypedStep(d)
  <2>1. /\ UNCHANGED <<person, subs, account, accounts, subCache, due, disturbed>> /\ Continue(d) /\ Head(job[d].todo) = "clearActor"
        /\ userCache' = [userCache EXCEPT ![Actor[d]] = Empty]
    BY <1>4 DEF ClearActor, stores, history, At
  <2>2. CopiesTyped'
    BY <1>0, <2>1, DeskAssumption DEF StoresTyped, CopiesTyped, Empty
  <2>3. StoresTyped'
    BY <1>0, <2>1, <2>2, StoresSame DEF StoresTyped
  <2> QED BY <2>1, <2>3, ContinuedTyped
<1> QED BY <1>1, <1>2, <1>3, <1>4

\* A field of the user is set: what the administrator asked for fits it, and points are not taken below none.
LEMMA SetUserTyped ==
  ASSUME NEW own, NEW d \in Desks, DeskInv, Engaged(own, d), UNCHANGED grantVars, SetUser(d)
  PROVE  TypedStep(d)
<1> DEFINE usr == job[d].usr
           ask == job[d].ask
<1>0. /\ UNCHANGED <<state, issued>> /\ job[d].todo # <<>> /\ job[d].todo \in Seq(Names) /\ Sound(job[d], accounts) /\ AskOK(d, ask)
      /\ Head(job[d].todo) = "set"
  BY EngagedFacts DEF grantVars, RecordOK, SetUser, At
<1>1. usr \in UserViews
  <2>1. UserNext(job[d].todo)
    BY <1>0, AheadFirst DEF UserUses
  <2> QED BY <1>0, <2>1 DEF Sound
<1>2. /\ usr.points \in Nat /\ usr.blocked \in BOOLEAN
      /\ ask.field = "role" => ask.to \in DOMAIN Rank
      /\ ask.field = "discount" => ask.to \in Nat
      /\ ask.field = "points" => ask.to \in Int
  BY <1>0, <1>1 DEF UserViews, AskOK
<1>3. Again(d) \in Seq(Smooth)
  BY <1>0, AgainSmooth
<1> HIDE DEF usr, ask
<1>4. \/ BillUser(d, "blocked", ~usr.blocked, <<"clearUser">>)
      \/ ask.field = "role" /\ BillUser(d, "role", ask.to, <<"clearUser">>)
      \/ ask.field = "discount" /\ BillUser(d, "discount", ask.to, <<"refillUser">>)
      \/ ask.field = "points" /\ usr.points + ask.to >= 0 /\ BillUser(d, "points", usr.points + ask.to, <<"refillUser">>)
      \/ Decide(d, "set", Again(d))
  BY DEF SetUser, usr, ask
<1>5. CASE BillUser(d, "blocked", ~usr.blocked, <<"clearUser">>)
  <2>1. (~usr.blocked) \in BOOLEAN
    BY <1>2
  <2> QED BY <1>0, <1>5, <2>1, BilledUserTyped
<1>6. CASE ask.field = "role" /\ BillUser(d, "role", ask.to, <<"clearUser">>)
  BY <1>0, <1>2, <1>6, BilledUserTyped
<1>7. CASE ask.field = "discount" /\ BillUser(d, "discount", ask.to, <<"refillUser">>)
  BY <1>0, <1>2, <1>7, BilledUserTyped
<1>8. CASE ask.field = "points" /\ usr.points + ask.to >= 0 /\ BillUser(d, "points", usr.points + ask.to, <<"refillUser">>)
  <2>1. usr.points + ask.to \in Nat
    BY <1>2, <1>8
  <2> QED BY <1>0, <1>8, <2>1, BilledUserTyped
<1>9. CASE Decide(d, "set", Again(d))
  BY <1>0, <1>3, <1>9, DecideTyped
<1> QED BY <1>4, <1>5, <1>6, <1>7, <1>8, <1>9

-----------------------------------------------------------------------------
(* Edits, devices and deletion                                             *)

\* The copy of a subscription that is about to be written is one of a subscription billing has.
LEMMA SubKnown ==
  ASSUME NEW own, NEW j, Engaged(own, j), job[j].sub # None,
         Head(job[j].todo) \in {"edit", "confirm", "fetch", "days", "status", "extend", "apply", "restore", "point", "compare", "aim"}
  PROVE  SubT(job[j].sub, accounts) /\ job[j].sub.id \in DOMAIN subs
<1>1. JobOK(own, j) /\ job[j].todo # <<>> /\ (job[j].sub = None \/ SubT(job[j].sub, accounts))
  BY EngagedFacts
<1>2. SubOK(own, j) \/ Owned(own, job[j].sub, job[j].user)
  <2>1. CASE Head(job[j].todo) \in {"status", "extend", "apply", "restore", "point"}
    BY <1>1, <2>1, SpecialHeads
  <2>2. CASE Head(job[j].todo) \in {"edit", "confirm", "fetch", "days", "compare", "aim"}
    <3>1. Head(job[j].todo) \notin Special \cup {"user", "sub"}
      BY <2>2 DEF Special
    <3> QED BY <1>1, <3>1, PlainHead
  <2> QED BY <2>1, <2>2
<1> QED BY <1>1, <1>2 DEF SubOK, Owned

\* A subscription that was edited is one: squads are on or off, the day does not come before today.
LEMMA EditedTyped ==
  ASSUME NEW d \in Desks, NEW s, NEW n, SubT(s, n), NEW ask, AskOK(d, ask), ask.field = "days" => s.days + ask.to >= Today
  PROVE  SubT(Edited(s, ask), n) /\ Edited(s, ask).id = s.id
<1>1. s \in SubRecords /\ s.account <= n /\ s.internal_squads \in {0, 1} /\ s.external_squad \in {0, 1} /\ s.days \in Nat
  BY DEF SubT, SubRecords
<1>2. 1 - s.internal_squads \in {0, 1} /\ 1 - s.external_squad \in {0, 1}
  BY <1>1
<1>3. CASE ask.field = "internal_squads"
  <2>1. Edited(s, ask) = [s EXCEPT !.internal_squads = 1 - @]
    BY <1>3 DEF Edited
  <2>2. [s EXCEPT !.internal_squads = 1 - @] \in SubRecords
    BY <1>1, <1>2 DEF SubRecords
  <2> QED BY <1>1, <2>1, <2>2 DEF SubT, SubRecords
<1>4. CASE ask.field = "external_squad"
  <2>1. Edited(s, ask) = [s EXCEPT !.external_squad = 1 - @]
    BY <1>4 DEF Edited
  <2>2. [s EXCEPT !.external_squad = 1 - @] \in SubRecords
    BY <1>1, <1>2 DEF SubRecords
  <2> QED BY <1>1, <2>1, <2>2 DEF SubT, SubRecords
<1>5. CASE ask.field = "days"
  <2>1. Edited(s, ask) = [s EXCEPT !.days = @ + ask.to]
    BY <1>5 DEF Edited
  <2>2. s.days + ask.to \in Nat
    BY <1>1, <1>5, AccountAssumption DEF AskOK
  <2>3. [s EXCEPT !.days = @ + ask.to] \in SubRecords
    BY <1>1, <2>2 DEF SubRecords
  <2> QED BY <1>1, <2>1, <2>3 DEF SubT, SubRecords
<1>6. CASE ask.field = "traffic_limit"
  <2>1. Edited(s, ask) = [s EXCEPT !.traffic_limit = ask.to]
    BY <1>6 DEF Edited
  <2>2. ask.to \in Nat
    BY <1>6 DEF AskOK
  <2>3. [s EXCEPT !.traffic_limit = ask.to] \in SubRecords
    BY <1>1, <2>2 DEF SubRecords
  <2> QED BY <1>1, <2>1, <2>3 DEF SubT, SubRecords
<1>7. CASE ask.field = "device_limit"
  <2>1. Edited(s, ask) = [s EXCEPT !.device_limit = ask.to]
    BY <1>7 DEF Edited
  <2>2. ask.to \in Nat
    BY <1>7 DEF AskOK
  <2>3. [s EXCEPT !.device_limit = ask.to] \in SubRecords
    BY <1>1, <2>2 DEF SubRecords
  <2> QED BY <1>1, <2>1, <2>3 DEF SubT, SubRecords
<1>8. CASE ask.field \notin {"internal_squads", "external_squad", "days", "traffic_limit", "device_limit"}
  <2>1. Edited(s, ask) = s
    BY <1>8 DEF Edited
  <2> QED BY <2>1
<1> QED BY <1>3, <1>4, <1>5, <1>6, <1>7, <1>8

\* Editing a subscription keeps the types.
LEMMA EditTyped ==
  ASSUME NEW own, NEW d \in Desks, DeskInv, Engaged(own, d), UNCHANGED grantVars, Edit(d)
  PROVE  TypedStep(d)
<1> DEFINE new == Edited(job[d].sub, job[d].ask)
<1>0. /\ UNCHANGED <<state, issued>> /\ job[d].todo # <<>> /\ AskOK(d, job[d].ask) /\ Head(job[d].todo) = "edit"
  BY EngagedFacts DEF grantVars, RecordOK, Edit, At
<1>1. Again(d) \in Seq(Smooth)
  BY <1>0, AgainSmooth
<1>2. CASE job[d].sub = None
  <2>1. Raise(d) /\ UNCHANGED <<stores, caches, due, faults>>
    BY <1>2 DEF Edit
  <2> QED BY <1>0, <2>1, RaisedTyped DEF stores, caches
<1>3. CASE job[d].sub # None
  <2>1. Decide(d, "edit", Again(d)) \/
        (job[d].ask # Invalid /\ ~(job[d].ask.field = "days" /\ new.days < Today) /\ BillSub(d, new, {job[d].ask.field}, <<>>))
    BY <1>3 DEF Edit
  <2>2. CASE Decide(d, "edit", Again(d))
    BY <1>0, <1>1, <2>2, DecideTyped
  <2>3. CASE /\ job[d].ask # Invalid /\ ~(job[d].ask.field = "days" /\ new.days < Today)
             /\ BillSub(d, new, {job[d].ask.field}, <<>>)
    <3>1. SubT(job[d].sub, accounts) /\ job[d].sub.id \in DOMAIN subs
      BY <1>0, <1>3, SubKnown
    <3>2. job[d].ask.field = "days" => job[d].sub.days + job[d].ask.to >= Today
      <4>1. ASSUME job[d].ask.field = "days" PROVE job[d].sub.days + job[d].ask.to >= Today
        <5>1. job[d].sub \in SubRecords /\ job[d].sub.days \in Nat /\ job[d].ask.to \in Int /\ Today \in Nat
          BY <1>0, <3>1, <4>1, AccountAssumption DEF SubT, SubRecords, AskOK
        <5>2. new = [job[d].sub EXCEPT !.days = @ + job[d].ask.to]
          BY <4>1 DEF Edited
        <5>3. new.days = job[d].sub.days + job[d].ask.to
          BY <5>1, <5>2 DEF SubRecords
        <5> QED BY <2>3, <4>1, <5>1, <5>3
      <4> QED BY <4>1
    <3>3. SubT(new, accounts) /\ new.id = job[d].sub.id
      BY <1>0, <3>1, <3>2, EditedTyped
    <3> HIDE DEF new
    <3>4. BillSubKeeping(d, new, {job[d].ask.field}, new, <<>>)
      BY <2>3 DEF BillSub
    <3> QED BY <1>0, <2>3, <3>1, <3>3, <3>4, BilledTyped
  <2> QED BY <2>1, <2>2, <2>3
<1> QED BY <1>2, <1>3

\* A step that goes on to the next await, having written.
LEMMA WroteTyped ==
  ASSUME NEW own, NEW j, Engaged(own, j), job' = [job EXCEPT ![j] = Goes([@ EXCEPT !.wrote = TRUE], <<>>)],
         Head(job[j].todo) \notin {"user", "edit", "days", "restore", "provision"},
         Head(job[j].todo) = "toggle" => job[j].sub # None,
         UNCHANGED accounts, StoresTyped'
  PROVE  TypedStep(j)
<1> DEFINE q == [job[j] EXCEPT !.wrote = TRUE]
<1>1. /\ j \in Jobs /\ DOMAIN job = Jobs /\ JobOK(own, j) /\ job[j].todo # <<>> /\ RecordOK(j, job[j], accounts) /\ accounts \in Nat
      /\ DOMAIN job[j] = JobFields /\ Sound(job[j], accounts)
      /\ job[j].usr \in UserViews \cup {None} /\ (job[j].sub = None \/ SubT(job[j].sub, accounts))
  BY EngagedFacts
<1>2. /\ job'[j] = Goes(q, <<>>) /\ DOMAIN q = JobFields /\ q.todo = job[j].todo /\ q.user = job[j].user /\ q.ask = job[j].ask
      /\ q.rescue = job[j].rescue /\ q.usr = job[j].usr /\ q.sub = job[j].sub /\ q.remna = job[j].remna
  BY <1>1 DEF JobFields
<1> HIDE DEF q
<1>3. Fit(job[j], q, accounts)
  BY <1>1, <1>2 DEF Fit
<1>4. RecordOK(j, job'[j], accounts)
  BY <1>1, <1>2, <1>3, PoppedOK
<1> QED BY <1>1, <1>4 DEF TypedStep

\* The account of one user is changed, or removed.
LEMMA PanelSet ==
  ASSUME StoresTyped, NEW u \in Users, DOMAIN account = Users, NEW a, a = None \/ AccT(a, accounts'), NEW j,
         account' = [account EXCEPT ![u] = a], accounts' \in 0..MaxAccounts, accounts \in Nat, accounts <= accounts'
  PROVE  PanelTyped'
<1>1. \A v \in Users : account'[v] = None \/ AccT(account'[v], accounts')
  <2>1. \A v \in Users : account[v] = None \/ AccT(account[v], accounts)
    BY DEF StoresTyped, PanelTyped
  <2> QED BY <2>1 DEF AccT, AccountRecords
<1> QED BY <1>1 DEF PanelTyped

\* Turning an account on or off at the panel keeps the types.
LEMMA ToggleTyped ==
  ASSUME NEW own, NEW d \in Desks, DeskInv, Engaged(own, d), UNCHANGED grantVars, Toggle(d)
  PROVE  TypedStep(d)
<1> DEFINE u == Target[d]
<1>0. /\ UNCHANGED <<state, issued>> /\ job[d].todo # <<>> /\ Head(job[d].todo) = "toggle" /\ StoresTyped
      /\ UNCHANGED <<person, subs, accounts, userCache, subCache, due>> /\ u \in Users /\ job[d].user = u
      /\ DOMAIN account = Users /\ accounts \in Nat
  BY EngagedFacts DEF grantVars, Toggle, At, caches
<1>1. CASE Raise(d) /\ UNCHANGED account
  BY <1>0, <1>1, RaisedTyped
<1>2. CASE /\ job[d].sub # None /\ Reachable(u, job[d].sub.account)
           /\ account' = [account EXCEPT ![u].status = PanelStatus(Toggled(job[d].sub), account[u].days)]
           /\ job' = [job EXCEPT ![d] = Goes([@ EXCEPT !.wrote = TRUE], <<>>)]
           /\ Disturb(d, u)
  <2> DEFINE st == PanelStatus(Toggled(job[d].sub), account[u].days)
             a == [account[u] EXCEPT !.status = st]
  <2>1. AccT(account[u], accounts)
    BY <1>0, <1>2 DEF StoresTyped, PanelTyped, Reachable
  <2>2. st \in {"ACTIVE", "DISABLED", "EXPIRED"}
    BY DEF PanelStatus
  <2> HIDE DEF st
  <2>3. AccT(a, accounts)
    BY <2>1, <2>2 DEF AccT, AccountRecords
  <2>4. account' = [account EXCEPT ![u] = a]
    BY <1>2 DEF st
  <2> HIDE DEF a
  <2>5. PanelTyped'
    BY <1>0, <2>3, <2>4, PanelSet DEF StoresTyped, PanelTyped
  <2>6. disturbed' \subseteq Users
    BY <1>0, <1>2, DisturbTyped DEF StoresTyped
  <2>7. StoresTyped'
    BY <1>0, <2>5, <2>6, StoresSame DEF StoresTyped
  <2> QED BY <1>0, <1>2, <2>7, WroteTyped
<1> QED BY <1>1, <1>2 DEF Toggle

\* Writing the status to billing keeps the types.
LEMMA BillStatusTyped ==
  ASSUME NEW own, NEW d \in Desks, DeskInv, Engaged(own, d), UNCHANGED grantVars, BillStatus(d)
  PROVE  TypedStep(d)
<1> DEFINE new == [job[d].sub EXCEPT !.status = Toggled(job[d].sub)]
<1>0. /\ UNCHANGED <<state, issued>> /\ job[d].todo # <<>> /\ Head(job[d].todo) = "status" /\ Sound(job[d], accounts)
      /\ BillSubKeeping(d, new, {"status"}, new, <<>>) /\ None \notin SubRecords
  BY EngagedFacts DEF grantVars, BillStatus, At, BillSub
<1>1. job[d].sub # None
  BY <1>0 DEF Sound, First, Needs
<1>2. SubT(job[d].sub, accounts) /\ job[d].sub.id \in DOMAIN subs
  BY <1>0, <1>1, SubKnown
<1>3. Toggled(job[d].sub) \in {"ACTIVE", "DISABLED"}
  BY DEF Toggled
<1>4. SubT(new, accounts) /\ new.id = job[d].sub.id
  BY <1>2, <1>3 DEF SubT, SubRecords
<1> HIDE DEF new
<1> QED BY <1>0, <1>2, <1>4, BilledTyped

\* Removing the devices keeps the types.
LEMMA UnlinkTyped ==
  ASSUME NEW own, NEW d \in Desks, DeskInv, Engaged(own, d), UNCHANGED grantVars, Unlink(d)
  PROVE  TypedStep(d)
<1> DEFINE u == Target[d]
           uuid == job[d].usr.account
<1>0. /\ UNCHANGED <<state, issued>> /\ job[d].todo # <<>> /\ Head(job[d].todo) = "unlink" /\ StoresTyped
      /\ UNCHANGED <<person, subs, accounts, userCache, subCache, due>> /\ u \in Users /\ job[d].user = u
      /\ DOMAIN account = Users /\ accounts \in Nat
  BY EngagedFacts DEF grantVars, Unlink, At, caches
<1>1. CASE Raise(d) /\ UNCHANGED account
  BY <1>0, <1>1, RaisedTyped
<1>2. CASE /\ ~(uuid # None /\ (~Reachable(u, uuid) \/ account[u].devices = 0))
           /\ account' = IF uuid = None THEN account ELSE [account EXCEPT ![u].devices = @ - 1]
           /\ job' = [job EXCEPT ![d].todo =
                          Render(IF uuid # None /\ account[u].devices > 1 THEN "DEVICES_LIST" ELSE "SUBSCRIPTION")]
           /\ Undisturbed
  <2>1. Render("DEVICES_LIST") \in Seq(Smooth) /\ Render("SUBSCRIPTION") \in Seq(Smooth)
    BY <1>0, AgainSmooth
  <2>2. PanelTyped'
    <3>1. CASE uuid = None
      BY <1>0, <1>2, <3>1 DEF StoresTyped, PanelTyped
    <3>2. CASE uuid # None
      <4> DEFINE a == [account[u] EXCEPT !.devices = @ - 1]
      <4>1. AccT(account[u], accounts) /\ account[u].devices # 0
        BY <1>0, <1>2, <3>2 DEF StoresTyped, PanelTyped, Reachable
      <4>2. AccT(a, accounts)
        <5>1. account[u].devices \in Nat /\ account[u] \in AccountRecords
          BY <4>1 DEF AccT, AccountRecords
        <5>2. account[u].devices - 1 \in Nat
          BY <4>1, <5>1
        <5> QED BY <4>1, <5>1, <5>2 DEF AccT, AccountRecords
      <4>3. account' = [account EXCEPT ![u] = a]
        BY <1>2, <3>2
      <4> HIDE DEF a
      <4> QED BY <1>0, <4>2, <4>3, PanelSet DEF StoresTyped, PanelTyped
    <3> QED BY <3>1, <3>2
  <2>3. StoresTyped'
    BY <1>0, <1>2, <2>2, StoresSame DEF StoresTyped, Undisturbed
  <2> QED BY <1>0, <1>2, <2>1, <2>3, DecidedTyped
<1> QED BY <1>1, <1>2 DEF Unlink

\* The account is removed next, then a window is drawn.
LEMMA RemoveSound ==
  ASSUME NEW q, NEW n, NEW t, Hushed(t), Cons(q.todo, "remove", t), q.usr \in UserViews, None \notin UserViews,
         q.sub = None \/ SubT(q.sub, n)
  PROVE  Sound(q, n) /\ RemoveNext(q.todo) /\ ~PushDue(q.todo) /\ ~SyncAhead(q.todo)
<1> DEFINE s == q.todo
<1>1. q.usr \in UserViews \cup {None} /\ q.usr # None
  OBVIOUS
<1>2. /\ ~PushDue(s) /\ RemoveNext(s) /\ ~SyncAhead(s) /\ ~DropAhead(s) /\ ~ApplyDue(s) /\ ~ClearsAhead(s)
  BY ConsAhead DEF Hushed, Clears
<1>3. After(s, {"push"}, {"push"}) /\ After(s, Closing, Uses) /\ Follow(s, "edit", "push") /\ Follow(s, "days", "push")
  BY ConsAhead DEF Hushed
<1>4. ~First(s, {"extend"}) /\ ~First(s, Needs) /\ ~First(s, {"keepUser", "refillUser"})
  BY ConsAhead DEF Needs
<1> HIDE DEF s
<1> QED BY <1>1, <1>2, <1>3, <1>4 DEF Sound, s

\* The pointer to the current subscription is removed before the account is.
LEMMA DropSound ==
  ASSUME NEW r, NEW q, NEW n, Sound(r, n), RemoveNext(r.todo), ~PushDue(r.todo), ~SyncAhead(r.todo), r.usr # None,
         Cons(q.todo, "drop", r.todo), q.usr = r.usr, q.sub = r.sub, q.ask = r.ask, q.remna = r.remna
  PROVE  Sound(q, n) /\ ~SyncAhead(q.todo)
<1> DEFINE s == q.todo
           t == r.todo
<1>1. /\ PushDue(s) <=> PushDue(t)
      /\ RemoveNext(s) <=> RemoveNext(t)
      /\ SyncAhead(s) <=> SyncAhead(t)
      /\ ApplyDue(s) <=> ApplyDue(t)
      /\ After(s, {"push"}, {"push"}) <=> After(t, {"push"}, {"push"})
      /\ After(s, Closing, Uses) <=> After(t, Closing, Uses)
      /\ Follow(s, "edit", "push") <=> Follow(t, "edit", "push")
      /\ Follow(s, "days", "push") <=> Follow(t, "days", "push")
  BY ConsAhead DEF Removing, Closing
<1>2. ~First(s, {"extend"}) /\ ~First(s, Needs) /\ ~First(s, {"keepUser", "refillUser"})
  BY ConsAhead DEF Needs
<1> HIDE DEF s, t
<1>3. /\ r.usr \in UserViews \cup {None} /\ (r.sub = None \/ SubT(r.sub, n))
      /\ After(t, {"push"}, {"push"}) /\ After(t, Closing, Uses)
      /\ r.ask = Invalid \/ Follow(t, "edit", "push")
      /\ Follow(t, "days", "push")
      /\ ApplyDue(t) => AccT(r.remna, n)
      /\ RemoveNext(t) /\ ~PushDue(t) /\ ~SyncAhead(t)
  BY DEF Sound, t
<1>4. ~SyncAhead(s)
  BY <1>1, <1>3
<1>5. Sound(q, n)
  BY <1>1, <1>2, <1>3 DEF Sound, s
<1> QED BY <1>4, <1>5 DEF s

\* What a confirmed deletion leaves to do, before a dull rest.
LEMMA DeletionSound ==
  ASSUME NEW q, NEW n, NEW t \in Seq(Names), Dull(t), q.todo = <<"clearSub", "clearUser">> \o (Deletion \o t),
         DOMAIN q = JobFields, q.usr \in UserViews, None \notin UserViews, q.sub = None \/ SubT(q.sub, n)
  PROVE  Sound(q, n)
<1>1. PICK r, s : Cons(s, "remove", t) /\ Cons(r, "clearUser", s) /\ Cons(Deletion \o t, "drop", r)
  <2>1. "drop" \in Names /\ "clearUser" \in Names /\ "remove" \in Names
    BY DEF Names, Special, Ordinary
  <2> QED BY <2>1, Chain3 DEF Deletion
<1> DEFINE p0 == [q EXCEPT !.todo = s]
           p1 == [q EXCEPT !.todo = r]
           p2 == [q EXCEPT !.todo = Deletion \o t]
<1>2. /\ p0.todo = s /\ p0.usr = q.usr /\ p0.sub = q.sub /\ p0.ask = q.ask /\ p0.remna = q.remna
      /\ p1.todo = r /\ p1.usr = q.usr /\ p1.sub = q.sub /\ p1.ask = q.ask /\ p1.remna = q.remna
      /\ p2.todo = Deletion \o t /\ p2.usr = q.usr /\ p2.sub = q.sub /\ p2.ask = q.ask /\ p2.remna = q.remna
      /\ DOMAIN p2 = JobFields
  BY DEF JobFields
<1> HIDE DEF p0, p1, p2
<1>3. Hushed(t)
  BY DullHushed
<1>4. Sound(p0, n) /\ RemoveNext(s) /\ ~PushDue(s) /\ ~SyncAhead(s)
  BY <1>1, <1>2, <1>3, RemoveSound
<1>5. s \in Seq(Names) /\ q.usr # None
  BY <1>1, ConsAhead
<1>6. Sound(p1, n)
  BY <1>1, <1>2, <1>4, <1>5, ClearSound
<1>7. RemoveNext(r) /\ ~PushDue(r) /\ ~SyncAhead(r)
  <2>1. Cons(r, "clearUser", s) /\ "clearUser" \in Removing
    BY <1>1 DEF Removing
  <2> QED BY <1>4, <2>1, ConsAhead
<1>8. Sound(p2, n) /\ ~SyncAhead(Deletion \o t)
  BY <1>1, <1>2, <1>5, <1>6, <1>7, DropSound
<1>9. Deletion \o t \in Seq(Names)
  BY <1>1 DEF Cons
<1> QED BY <1>2, <1>5, <1>8, <1>9, TwoClears

\* Confirming a deletion keeps the types.
LEMMA ConfirmTyped ==
  ASSUME NEW own, NEW d \in Desks, DeskInv, Engaged(own, d), UNCHANGED grantVars, ConfirmDelete(d)
  PROVE  TypedStep(d)
<1>0. /\ UNCHANGED <<state, issued>> /\ job[d].todo # <<>> /\ Head(job[d].todo) = "confirm" /\ Sound(job[d], accounts)
      /\ job[d].todo \in Seq(Names) /\ DOMAIN job = Jobs /\ d \in Jobs /\ DOMAIN job[d] = JobFields /\ JobOK(own, d)
      /\ RecordOK(d, job[d], accounts) /\ None \notin SubRecords /\ None \notin UserViews /\ accounts \in Nat
  BY EngagedFacts DEF grantVars, ConfirmDelete, At
<1>1. CASE Raise(d) /\ UNCHANGED <<stores, caches, due, faults, desk>>
  BY <1>0, <1>1, RaisedTyped DEF stores, caches
<1>2. CASE Arm(d, "delete")
  BY <1>0, <1>2, AgainSmooth, ArmTyped
<1>3. CASE /\ job[d].sub # None
           /\ BillSub(d, [job[d].sub EXCEPT !.status = "DELETED"], {"status"}, Deletion \o Render("MAIN"))
  <2> DEFINE new == [job[d].sub EXCEPT !.status = "DELETED"]
             t == Tail(job[d].todo)
             m == Render("MAIN")
             more == Deletion \o m
             q == [job[d] EXCEPT !.sub = new, !.wrote = TRUE, !.todo = <<"clearSub", "clearUser">> \o more \o t]
  <2>1. SubT(job[d].sub, accounts) /\ job[d].sub.id \in DOMAIN subs
    BY <1>0, <1>3, SubKnown
  <2>2. SubT(new, accounts) /\ new.id = job[d].sub.id
    BY <2>1 DEF SubT, SubRecords
  <2>3. BillSubKeeping(d, new, {"status"}, new, more)
    BY <1>3 DEF BillSub
  <2>4. StoresTyped' /\ UNCHANGED accounts
    <3> HIDE DEF new, more
    <3> QED BY <1>0, <2>1, <2>2, <2>3, BilledStores
  <2>5. job'[d] = q
    BY <1>0, <2>3 DEF BillSubKeeping
  <2>6. /\ q.user = job[d].user /\ q.usr = job[d].usr /\ q.sub = new /\ q.ask = job[d].ask /\ q.rescue = job[d].rescue
        /\ q.todo = <<"clearSub", "clearUser">> \o more \o t /\ DOMAIN q = JobFields
    BY <1>0 DEF JobFields
  <2>7. t \in Seq(Names) /\ Dull(t)
    <3>1. Plain(t)
      <4>1. "confirm" \notin Special \cup {"user", "sub"}
        BY DEF Special
      <4>2. Plain(job[d].todo)
        BY <1>0, <4>1, PlainHead
      <4> QED BY <1>0, <4>2, RestFacts
    <3>2. After(job[d].todo, Closing, Uses) /\ "confirm" \in Closing
      BY <1>0 DEF Sound, Closing
    <3> QED BY <1>0, <3>1, <3>2, ClosingDull
  <2>8. m \in Seq(Names) /\ Dull(m)
    BY <1>0, AgainSmooth, SmoothDull
  <2>9. m \o t \in Seq(Names) /\ Dull(m \o t)
    BY <2>7, <2>8, DullJoins
  <2> HIDE DEF q, new
  <2>10. q.todo = <<"clearSub", "clearUser">> \o (Deletion \o (m \o t))
    <3>1. Deletion \in Seq(Names) /\ <<"clearSub", "clearUser">> \in Seq(Names)
      <4>1. "drop" \in Names /\ "clearUser" \in Names /\ "remove" \in Names /\ "clearSub" \in Names
        BY DEF Names, Special, Ordinary
      <4> QED BY <4>1 DEF Deletion
    <3> HIDE DEF m, t
    <3>2. Deletion \o m \in Seq(Names)
      BY <2>8, <3>1
    <3>3. (<<"clearSub", "clearUser">> \o more) \o t = <<"clearSub", "clearUser">> \o (more \o t)
      BY <2>7, <3>1, <3>2, ConcatAssociative
    <3>4. more \o t = Deletion \o (m \o t)
      BY <2>7, <2>8, <3>1, ConcatAssociative
    <3> QED BY <2>6, <3>3, <3>4
  <2>11. q.usr \in UserViews
    <3>1. UserNext(job[d].todo)
      BY <1>0, AheadFirst DEF UserUses
    <3> QED BY <1>0, <2>6, <3>1 DEF Sound
  <2> HIDE DEF m, t
  <2>12. Sound(q, accounts)
    BY <1>0, <2>2, <2>6, <2>9, <2>10, <2>11, DeletionSound
  <2>13. RecordOK(d, q, accounts)
    BY <1>0, <2>6, <2>12 DEF RecordOK
  <2> QED BY <1>0, <2>4, <2>5, <2>13 DEF TypedStep
<1> QED BY <1>1, <1>2, <1>3 DEF ConfirmDelete

\* The pointer to the current subscription is removed.
LEMMA UnsetTyped ==
  ASSUME NEW own, NEW d \in Desks, DeskInv, Engaged(own, d), UNCHANGED grantVars, Drop(d) \/ DropActor(d)
  PROVE  TypedStep(d)
<1>0. UNCHANGED <<state, issued>> /\ StoresTyped /\ DOMAIN person = Users /\ Target[d] \in Users /\ Actor[d] \in Users
  BY EngagedFacts, DeskAssumption DEF grantVars
<1>1. PICK u \in Users, h \in {"drop", "dropActor"} : Unset(d, u, h)
  BY <1>0 DEF Drop, DropActor
<1>2. disturbed' \subseteq Users
  BY <1>0 DEF Drop, DropActor, StoresTyped, DueTyped
<1>3. /\ Head(job[d].todo) \in {"drop", "dropActor"} /\ person' = [person EXCEPT ![u].current = None]
      /\ due' = [due EXCEPT ![u].days = 0] /\ job' = [job EXCEPT ![d] = Goes([@ EXCEPT !.wrote = TRUE], <<>>)]
      /\ UNCHANGED <<subs, account, accounts, userCache, subCache>>
  BY <1>1 DEF Unset, At, caches
<1>4. PersonsTyped'
  <2>1. person[u] \in UserRecords
    BY <1>0 DEF StoresTyped, PersonsTyped
  <2>2. [person[u] EXCEPT !.current = None] \in UserRecords
    BY <2>1 DEF UserRecords
  <2> QED BY <1>0, <1>3, <2>2 DEF StoresTyped, PersonsTyped
<1>5. DueTyped'
  BY <1>0, <1>2, <1>3 DEF StoresTyped, DueTyped
<1>6. StoresTyped'
  BY <1>0, <1>3, <1>4, <1>5, StoresSame DEF StoresTyped
<1> QED BY <1>3, <1>6, WroteTyped

\* Removing the account from the panel keeps the types.
LEMMA RemoveTyped ==
  ASSUME NEW own, NEW d \in Desks, DeskInv, Engaged(own, d), UNCHANGED grantVars, Remove(d)
  PROVE  TypedStep(d)
<1> DEFINE u == Target[d]
<1>0. /\ UNCHANGED <<state, issued>> /\ job[d].todo # <<>> /\ Head(job[d].todo) = "remove" /\ StoresTyped
      /\ UNCHANGED <<person, subs, accounts, userCache, subCache, due>> /\ u \in Users /\ DOMAIN account = Users /\ accounts \in Nat
  BY EngagedFacts DEF grantVars, Remove, At, caches
<1>1. CASE Raise(d) /\ UNCHANGED account
  BY <1>0, <1>1, RaisedTyped
<1>2. CASE /\ account' = [account EXCEPT ![u] = None]
           /\ job' = [job EXCEPT ![d] = Goes([@ EXCEPT !.wrote = TRUE], <<>>)]
           /\ Disturb(d, u)
  <2>1. PanelTyped'
    BY <1>0, <1>2, PanelSet DEF StoresTyped, PanelTyped
  <2>2. disturbed' \subseteq Users
    BY <1>0, <1>2, DisturbTyped DEF StoresTyped
  <2>3. StoresTyped'
    BY <1>0, <2>1, <2>2, StoresSame DEF StoresTyped
  <2> QED BY <1>0, <1>2, <2>3, WroteTyped
<1> QED BY <1>1, <1>2 DEF Remove

-----------------------------------------------------------------------------
(* Synchronisation and plans                                               *)

\* What follows the await that closes a handler is dull.
LEMMA ClosedDull ==
  ASSUME NEW own, NEW j, Engaged(own, j), Head(job[j].todo) \in {"fetch", "compare", "confirm", "apply", "create"}
  PROVE  Tail(job[j].todo) \in Seq(Names) /\ Dull(Tail(job[j].todo)) /\ Hushed(Tail(job[j].todo))
<1>1. JobOK(own, j) /\ job[j].todo # <<>> /\ job[j].todo \in Seq(Names) /\ Sound(job[j], accounts)
  BY EngagedFacts
<1>2. Plain(Tail(job[j].todo))
  <2>1. CASE Head(job[j].todo) \in {"fetch", "compare", "confirm"}
    <3>1. Head(job[j].todo) \notin Special \cup {"user", "sub"}
      BY <2>1 DEF Special
    <3>2. Plain(job[j].todo)
      BY <1>1, <3>1, PlainHead
    <3> QED BY <1>1, <3>2, RestFacts
  <2>2. CASE Head(job[j].todo) \in {"apply", "create"}
    BY <1>1, <2>2, SpecialHeads DEF ApplyOnly, CreateOnly
  <2> QED BY <2>1, <2>2
<1>3. After(job[j].todo, Closing, Uses) /\ Head(job[j].todo) \in Closing
  BY <1>1 DEF Sound, Closing
<1>4. Tail(job[j].todo) \in Seq(Names) /\ Dull(Tail(job[j].todo))
  BY <1>1, <1>2, <1>3, ClosingDull
<1> QED BY <1>4, DullHushed

\* A step that leaves the job a record that is sound.
LEMMA HandTyped ==
  ASSUME NEW own, NEW j, Engaged(own, j), NEW r, job' = [job EXCEPT ![j] = r], r.user = job[j].user, r.ask = job[j].ask,
         r.rescue = job[j].rescue, accounts' \in Nat, accounts <= accounts', Sound(r, accounts'), StoresTyped'
  PROVE  TypedStep(j)
<1>1. j \in Jobs /\ DOMAIN job = Jobs /\ RecordOK(j, job[j], accounts) /\ accounts \in Nat
  BY EngagedFacts
<1>2. RecordOK(j, r, accounts')
  BY <1>1 DEF RecordOK
<1> QED BY <1>1, <1>2 DEF TypedStep

\* The list of a synchronisation before a dull rest.
LEMMA SyncList ==
  ASSUME NEW t, Hushed(t)
  PROVE  LET s == SyncUser \o t IN
         /\ s \in Seq(Names)
         /\ ~PushDue(s) /\ ~RemoveDue(s) /\ ~SyncAhead(s) /\ ~ClearsAhead(s) /\ ~DropAhead(s)
         /\ After(s, {"push"}, {"push"}) /\ After(s, Closing, Uses) /\ Follow(s, "edit", "push") /\ Follow(s, "days", "push")
         /\ \A heads : First(s, heads) <=> "user" \in heads
<1> DEFINE s == SyncUser \o t
<1>1. PICK a, b : Cons(b, "apply", t) /\ Cons(a, "sub", b) /\ Cons(s, "user", a)
  <2>1. "user" \in Names /\ "sub" \in Names /\ "apply" \in Names /\ t \in Seq(Names)
    BY TaskNames DEF Hushed
  <2> QED BY <2>1, Chain3 DEF SyncUser
<1> HIDE DEF s
<1>2. /\ ~PushDue(b) /\ After(b, {"push"}, {"push"}) /\ After(b, Closing, Uses) /\ Follow(b, "edit", "push") /\ Follow(b, "days", "push")
      /\ ~RemoveDue(b) /\ ~DropAhead(b) /\ ~SyncAhead(b) /\ ~ClearsAhead(b)
  <2>1. Cons(b, "apply", t)
    BY <1>1
  <2> QED BY <2>1, ConsAhead DEF Hushed, Clears
<1>3. /\ ~PushDue(a) /\ After(a, {"push"}, {"push"}) /\ After(a, Closing, Uses) /\ Follow(a, "edit", "push") /\ Follow(a, "days", "push")
      /\ ~RemoveDue(a) /\ ~DropAhead(a) /\ ~SyncAhead(a) /\ ~ClearsAhead(a)
  <2>1. Cons(a, "sub", b)
    BY <1>1
  <2> QED BY <1>2, <2>1, ConsAhead DEF Clears, Closing
<1>4. Cons(s, "user", a)
  BY <1>1
<1>5. /\ ~PushDue(s) /\ After(s, {"push"}, {"push"}) /\ After(s, Closing, Uses) /\ Follow(s, "edit", "push") /\ Follow(s, "days", "push")
      /\ ~RemoveDue(s) /\ ~DropAhead(s) /\ ~SyncAhead(s) /\ ~ClearsAhead(s)
  BY <1>3, <1>4, ConsAhead DEF Clears, Closing
<1>6. s \in Seq(Names) /\ \A heads : First(s, heads) <=> "user" \in heads
  BY <1>4, ConsAhead
<1> QED BY <1>5, <1>6 DEF s

\* What a synchronisation from the panel has in hand is sound.
LEMMA SyncSound ==
  ASSUME NEW q, NEW n, NEW t, Hushed(t), q.todo = SyncUser \o t, q.usr \in UserViews, None \notin UserViews,
         q.sub = None \/ SubT(q.sub, n), AccT(q.remna, n)
  PROVE  Sound(q, n)
<1> DEFINE s == q.todo
<1>1. /\ ~PushDue(s) /\ ~RemoveDue(s) /\ ~SyncAhead(s) /\ ~ClearsAhead(s) /\ ~DropAhead(s)
      /\ After(s, {"push"}, {"push"}) /\ After(s, Closing, Uses) /\ Follow(s, "edit", "push") /\ Follow(s, "days", "push")
      /\ \A heads : First(s, heads) <=> "user" \in heads
  BY SyncList
<1> HIDE DEF s
<1>2. ~First(s, {"extend"}) /\ ~First(s, Needs) /\ ~First(s, {"keepUser", "refillUser"})
  BY <1>1 DEF Needs
<1>3. q.usr \in UserViews \cup {None} /\ q.usr # None
  OBVIOUS
<1> QED BY <1>1, <1>2, <1>3 DEF Sound, s

\* The account is created again first.
LEMMA RestoreSound ==
  ASSUME NEW q, NEW n, NEW t, Hushed(t), Cons(q.todo, "restore", SyncUser \o t), q.usr \in UserViews, None \notin UserViews,
         SubT(q.sub, n), q.sub # None
  PROVE  Sound(q, n)
<1> DEFINE w == SyncUser \o t
           s == q.todo
<1>1. /\ ~PushDue(w) /\ ~RemoveDue(w) /\ ~SyncAhead(w) /\ ~ClearsAhead(w) /\ ~DropAhead(w)
      /\ After(w, {"push"}, {"push"}) /\ After(w, Closing, Uses) /\ Follow(w, "edit", "push") /\ Follow(w, "days", "push")
  BY SyncList
<1>s. Cons(s, "restore", w)
  OBVIOUS
<1> HIDE DEF s, w
<1>2. /\ ~PushDue(s) /\ ~RemoveDue(s) /\ ~SyncAhead(s) /\ ~ClearsAhead(s) /\ ~DropAhead(s) /\ ~ApplyDue(s)
      /\ After(s, {"push"}, {"push"}) /\ After(s, Closing, Uses) /\ Follow(s, "edit", "push") /\ Follow(s, "days", "push")
  BY <1>1, <1>s, ConsAhead DEF Closing, Clears
<1>3. ~First(s, {"extend"}) /\ ~First(s, {"keepUser", "refillUser"})
  BY <1>s, ConsAhead
<1>4. q.usr \in UserViews \cup {None} /\ q.usr # None
  OBVIOUS
<1> QED BY <1>2, <1>3, <1>4 DEF Sound, s

\* One more await: a push, a creation or a removal.
LEMMA OneSound ==
  ASSUME NEW q, NEW n, NEW t, Hushed(t), NEW h \in {"push", "create", "remove"}, Cons(q.todo, h, t),
         q.usr \in UserViews \cup {None}, SubT(q.sub, n) \/ (q.sub = None /\ h = "remove"), None \notin SubRecords,
         h = "remove" => q.usr # None
  PROVE  Sound(q, n)
<1> DEFINE s == q.todo
<1>0. q.sub = None \/ SubT(q.sub, n)
  OBVIOUS
<1>n. h # "remove" => q.sub # None
  BY DEF SubT
<1>1. /\ PushDue(s) <=> h = "push"
      /\ PushNext(s) <=> h = "push"
      /\ RemoveDue(s) <=> h = "remove"
      /\ RemoveNext(s) <=> h = "remove"
      /\ UserNext(s) <=> h = "remove"
      /\ ~ApplyAhead(s) /\ ~SyncAhead(s) /\ ~DropAhead(s) /\ ~ClearsAhead(s) /\ ~ApplyDue(s)
      /\ After(s, {"push"}, {"push"}) /\ After(s, Closing, Uses) /\ Follow(s, "edit", "push") /\ Follow(s, "days", "push")
  <2>1. /\ PushDue(s) <=> h = "push"
        /\ PushNext(s) <=> h = "push"
        /\ RemoveDue(s) <=> h = "remove"
        /\ RemoveNext(s) <=> h = "remove"
    BY ConsAhead DEF Hushed
  <2>2. UserNext(s) <=> h = "remove"
    BY ConsAhead DEF Hushed, UserUses
  <2>3. ~ApplyAhead(s) /\ ~SyncAhead(s) /\ ~DropAhead(s) /\ ~ApplyDue(s)
    BY ConsAhead DEF Hushed
  <2>4. ~ClearsAhead(s)
    BY ConsAhead DEF Hushed, Clears
  <2>5. After(s, {"push"}, {"push"}) /\ After(s, Closing, Uses) /\ Follow(s, "edit", "push") /\ Follow(s, "days", "push")
    BY ConsAhead DEF Hushed
  <2> QED BY <2>1, <2>2, <2>3, <2>4, <2>5
<1>2. ~First(s, {"extend"}) /\ ~First(s, {"keepUser", "refillUser"}) /\ (First(s, Needs) => h # "remove")
  BY ConsAhead DEF Needs
<1> HIDE DEF s
<1> QED BY <1>0, <1>n, <1>1, <1>2 DEF Sound, s

\* Comparing billing with the panel keeps the types.
LEMMA CompareTyped ==
  ASSUME NEW own, NEW d \in Desks, DeskInv, Engaged(own, d), UNCHANGED grantVars, Compare(d)
  PROVE  TypedStep(d)
<1> DEFINE t == Tail(job[d].todo)
<1>0. /\ UNCHANGED <<state, issued>> /\ job[d].todo # <<>> /\ Head(job[d].todo) = "compare" /\ Sound(job[d], accounts)
      /\ job[d].todo \in Seq(Names) /\ DOMAIN job[d] = JobFields /\ accounts \in Nat /\ StoresTyped
      /\ UNCHANGED <<person, subs, account, accounts, userCache, subCache, due, disturbed>>
      /\ None \notin SubRecords /\ None \notin UserViews /\ (job[d].sub = None \/ SubT(job[d].sub, accounts))
  BY EngagedFacts DEF grantVars, Compare, At, stores, caches, history
<1>1. StoresTyped'
  BY <1>0, StoresSame DEF StoresTyped
<1>2. t \in Seq(Names) /\ Dull(t) /\ Hushed(t)
  BY <1>0, ClosedDull
<1>3. job[d].usr \in UserViews
  <2>1. UserNext(job[d].todo)
    BY <1>0, AheadFirst DEF UserUses
  <2> QED BY <1>0, <2>1 DEF Sound
<1>4. ASSUME NEW steps \in Seq(Names), Then(d, steps), steps # <<>>,
             \A q : /\ q.todo = steps \o t /\ q.usr = job[d].usr /\ q.sub = job[d].sub /\ q.ask = job[d].ask
                    /\ DOMAIN q = JobFields
                    => Sound(q, accounts)
      PROVE  TypedStep(d)
  <2> DEFINE q == [job[d] EXCEPT !.todo = steps \o t]
  <2>1. steps \o t # <<>> /\ steps \o t \in Seq(Names)
    <3> HIDE DEF t
    <3> QED BY <1>2, <1>4
  <2>2. Goes(job[d], steps) = q
    BY <2>1 DEF Goes
  <2>3. /\ q.user = job[d].user /\ q.usr = job[d].usr /\ q.sub = job[d].sub /\ q.ask = job[d].ask /\ q.rescue = job[d].rescue
        /\ q.todo = steps \o t /\ DOMAIN q = JobFields
    BY <1>0 DEF JobFields
  <2>4. job' = [job EXCEPT ![d] = q]
    BY <1>4, <2>2 DEF Then
  <2> HIDE DEF q, t
  <2>5. Sound(q, accounts)
    BY <1>4, <2>3
  <2>6. accounts' = accounts /\ accounts \in Nat
    BY <1>0
  <2>7. accounts' \in Nat /\ accounts <= accounts' /\ Sound(q, accounts')
    BY <2>5, <2>6
  <2> QED BY <1>1, <2>3, <2>4, <2>7, HandTyped
<1>n. "remove" \in Names /\ "push" \in Names /\ "restore" \in Names /\ "user" \in Names /\ "sub" \in Names /\ "apply" \in Names
  BY TaskNames
<1>5. CASE job[d].sub = None
  <2>1. Then(d, <<"remove">>)
    BY <1>5 DEF Compare
  <2>2. Cons(<<"remove">> \o t, "remove", t)
    BY <1>2, <1>n, ConsMade
  <2>3. <<"remove">> \in Seq(Names) /\ <<"remove">> # <<>>
    BY <1>n
  <2> HIDE DEF t
  <2>4. ASSUME NEW q, q.todo = <<"remove">> \o t, q.usr = job[d].usr, q.sub = job[d].sub
        PROVE  Sound(q, accounts)
    BY <1>0, <1>2, <1>3, <1>5, <2>2, <2>4, OneSound
  <2> QED BY <1>4, <2>1, <2>3, <2>4
<1>6. CASE job[d].sub # None /\ Reachable(Target[d], job[d].sub.account)
  <2>1. Then(d, <<"push">>)
    BY <1>6 DEF Compare
  <2>2. Cons(<<"push">> \o t, "push", t)
    BY <1>2, <1>n, ConsMade
  <2>3. <<"push">> \in Seq(Names) /\ <<"push">> # <<>>
    BY <1>n
  <2> HIDE DEF t
  <2>4. ASSUME NEW q, q.todo = <<"push">> \o t, q.usr = job[d].usr, q.sub = job[d].sub
        PROVE  Sound(q, accounts)
    BY <1>0, <1>2, <1>3, <1>6, <2>2, <2>4, OneSound
  <2> QED BY <1>4, <2>1, <2>3, <2>4
<1>7. CASE job[d].sub # None /\ ~Reachable(Target[d], job[d].sub.account)
  <2> DEFINE steps == <<"restore">> \o SyncUser
  <2>1. Then(d, steps)
    BY <1>7 DEF Compare
  <2>2. SyncUser \in Seq(Names) /\ SyncUser \o t \in Seq(Names) /\ steps \in Seq(Names) /\ steps # <<>>
    <3>1. SyncUser \in Seq(Names)
      BY <1>n DEF SyncUser
    <3>2. Cons(steps, "restore", SyncUser)
      BY <1>n, <3>1, ConsMade
    <3>3. SyncUser \o t \in Seq(Names)
      BY <1>2, <3>1, JoinFacts
    <3> QED BY <3>1, <3>2, <3>3 DEF Cons
  <2>3. Cons(steps \o t, "restore", SyncUser \o t)
    <3>1. <<"restore">> \in Seq(Names)
      BY <1>n
    <3>2. steps \o t = <<"restore">> \o (SyncUser \o t)
      BY <1>2, <2>2, <3>1, JoinFacts
    <3> QED BY <1>n, <2>2, <3>2, ConsMade
  <2> HIDE DEF t, steps
  <2>4. ASSUME NEW q, q.todo = steps \o t, q.usr = job[d].usr, q.sub = job[d].sub
        PROVE  Sound(q, accounts)
    <3>1. SubT(q.sub, accounts) /\ q.sub # None /\ q.usr \in UserViews
      BY <1>0, <1>3, <1>7, <2>4
    <3>2. Cons(q.todo, "restore", SyncUser \o t)
      BY <2>3, <2>4
    <3> QED BY <1>0, <1>2, <3>1, <3>2, RestoreSound
  <2> QED BY <1>4, <2>1, <2>2, <2>4
<1> QED BY <1>5, <1>6, <1>7

\* What the panel said goes on with the handler, or the subscription without an account is deleted.
LEMMA FetchTyped ==
  ASSUME NEW own, NEW d \in Desks, DeskInv, Engaged(own, d), UNCHANGED grantVars, Fetch(d)
  PROVE  TypedStep(d)
<1> DEFINE t == Tail(job[d].todo)
           u == Target[d]
           steps == <<"dropActor", "clearActor">>
<1>0. /\ UNCHANGED <<state, issued>> /\ job[d].todo # <<>> /\ Head(job[d].todo) = "fetch" /\ Sound(job[d], accounts)
      /\ job[d].todo \in Seq(Names) /\ DOMAIN job[d] = JobFields /\ accounts \in Nat /\ StoresTyped /\ u \in Users
      /\ None \notin SubRecords /\ None \notin UserViews /\ (job[d].sub = None \/ SubT(job[d].sub, accounts))
      /\ DOMAIN job = Jobs /\ d \in Jobs
  BY EngagedFacts DEF grantVars, Fetch, At
<1>1. \/ Then(d, steps) /\ UNCHANGED <<person, subs, account, accounts, userCache, subCache, due, disturbed>>
      \/ job[d].sub # None /\ BillSub(d, [job[d].sub EXCEPT !.status = "DELETED"], {"status"}, steps)
      \/ /\ account[u] # None /\ job' = [job EXCEPT ![d] = [Goes(@, SyncUser) EXCEPT !.remna = account[u]]]
         /\ UNCHANGED <<person, subs, account, accounts, userCache, subCache, due, disturbed>>
  BY DEF Fetch, stores, caches, history
<1>2. t \in Seq(Names) /\ Dull(t) /\ Hushed(t)
  BY <1>0, ClosedDull
<1>3. job[d].usr \in UserViews
  <2>1. UserNext(job[d].todo)
    BY <1>0, AheadFirst DEF UserUses
  <2> QED BY <1>0, <2>1 DEF Sound
<1>4. steps \o t \in Seq(Names) /\ Dull(steps \o t) /\ steps \in Seq(Names) /\ steps \o t # <<>>
  <2>1. steps \in Seq(Smooth)
    BY DEF Smooth
  <2>2. steps \in Seq(Names) /\ Dull(steps)
    BY <2>1, SmoothDull
  <2>3. steps # <<>>
    OBVIOUS
  <2> HIDE DEF steps, t
  <2>4. steps \o t # <<>>
    BY <1>2, <2>2, <2>3
  <2> QED BY <1>2, <2>2, <2>4, DullJoins
<1> HIDE DEF t, steps
<1>5. CASE Then(d, steps) /\ UNCHANGED <<person, subs, account, accounts, userCache, subCache, due, disturbed>>
  <2> DEFINE q == [job[d] EXCEPT !.todo = steps \o t]
  <2>1. Goes(job[d], steps) = q
    BY <1>4 DEF Goes, t
  <2>2. /\ q.user = job[d].user /\ q.usr = job[d].usr /\ q.sub = job[d].sub /\ q.ask = job[d].ask /\ q.rescue = job[d].rescue
        /\ q.todo = steps \o t
    BY <1>0 DEF JobFields
  <2>3. job' = [job EXCEPT ![d] = q]
    BY <1>5, <2>1 DEF Then
  <2> HIDE DEF q
  <2>4. accounts' = accounts /\ StoresTyped'
    BY <1>0, <1>5, StoresSame DEF StoresTyped
  <2>5. Sound(q, accounts')
    BY <1>0, <1>3, <1>4, <2>2, <2>4, DullSound
  <2>6. accounts' \in Nat /\ accounts <= accounts'
    BY <1>0, <2>4
  <2> QED BY <2>2, <2>3, <2>4, <2>5, <2>6, HandTyped
<1>6. CASE job[d].sub # None /\ BillSub(d, [job[d].sub EXCEPT !.status = "DELETED"], {"status"}, steps)
  <2> DEFINE new == [job[d].sub EXCEPT !.status = "DELETED"]
             r == [job[d] EXCEPT !.sub = new, !.wrote = TRUE, !.todo = steps \o t]
             q == [job[d] EXCEPT !.sub = new, !.wrote = TRUE, !.todo = <<"clearSub", "clearUser">> \o steps \o t]
  <2>1. SubT(job[d].sub, accounts) /\ job[d].sub.id \in DOMAIN subs
    BY <1>0, <1>6, SubKnown
  <2>2. SubT(new, accounts) /\ new.id = job[d].sub.id
    BY <2>1 DEF SubT, SubRecords
  <2>3. BillSubKeeping(d, new, {"status"}, new, steps)
    BY <1>6 DEF BillSub
  <2>4. StoresTyped' /\ UNCHANGED accounts
    <3> HIDE DEF new
    <3> QED BY <1>0, <2>1, <2>2, <2>3, BilledStores
  <2>5. job' = [job EXCEPT ![d] = q]
    BY <1>0, <2>3 DEF BillSubKeeping, t
  <2>6. /\ q.user = job[d].user /\ q.usr = job[d].usr /\ q.sub = new /\ q.ask = job[d].ask /\ q.rescue = job[d].rescue
        /\ q.todo = <<"clearSub", "clearUser">> \o steps \o t /\ DOMAIN q = JobFields /\ q.remna = job[d].remna
        /\ r.usr = job[d].usr /\ r.sub = new /\ r.ask = job[d].ask /\ r.todo = steps \o t /\ DOMAIN r = JobFields
        /\ r.remna = job[d].remna
    BY <1>0 DEF JobFields
  <2> HIDE DEF q, new, r
  <2>7. q.todo = <<"clearSub", "clearUser">> \o (steps \o t)
    <3>1. <<"clearSub", "clearUser">> \in Seq(Names)
      <4>1. "clearUser" \in Names /\ "clearSub" \in Names
        BY TaskNames
      <4> QED BY <4>1
    <3> QED BY <1>2, <1>4, <2>6, <3>1, JoinFacts
  <2>8. Sound(r, accounts) /\ ~SyncAhead(r.todo) /\ r.usr # None
    <3>1. Hushed(r.todo)
      BY <1>4, <2>6, DullHushed
    <3> QED BY <1>0, <1>3, <1>4, <2>2, <2>6, <3>1, DullSound DEF Hushed
  <2>9. Sound(q, accounts)
    BY <1>4, <2>6, <2>7, <2>8, TwoClears
  <2>10. accounts' \in Nat /\ accounts <= accounts' /\ Sound(q, accounts')
    BY <1>0, <2>4, <2>9
  <2> QED BY <2>4, <2>5, <2>6, <2>10, HandTyped
<1>7. CASE /\ account[u] # None /\ job' = [job EXCEPT ![d] = [Goes(@, SyncUser) EXCEPT !.remna = account[u]]]
           /\ UNCHANGED <<person, subs, account, accounts, userCache, subCache, due, disturbed>>
  <2> DEFINE w == SyncUser \o t
             a == account[u]
             q == [job[d] EXCEPT !.todo = w, !.remna = a]
  <2>0. AccT(a, accounts)
    BY <1>0, <1>7 DEF StoresTyped, PanelTyped
  <2>1. w # <<>>
    <3>1. First(w, {"user"})
      BY <1>2, SyncList
    <3> QED BY <3>1 DEF First
  <2>2. Goes(job[d], SyncUser) = [job[d] EXCEPT !.todo = w]
    BY <2>1 DEF Goes, t
  <2> HIDE DEF w, a
  <2>3. [Goes(job[d], SyncUser) EXCEPT !.remna = a] = q
    BY <1>0, <2>2 DEF JobFields
  <2>4. /\ q.user = job[d].user /\ q.usr = job[d].usr /\ q.sub = job[d].sub /\ q.ask = job[d].ask /\ q.rescue = job[d].rescue
        /\ q.todo = w /\ q.remna = a
    BY <1>0 DEF JobFields
  <2>5. job' = [job EXCEPT ![d] = q]
    BY <1>7, <2>3 DEF a
  <2> HIDE DEF q
  <2>6. accounts' = accounts /\ StoresTyped'
    BY <1>0, <1>7, StoresSame DEF StoresTyped
  <2>7. Sound(q, accounts)
    BY <1>0, <1>2, <1>3, <2>0, <2>4, SyncSound DEF w
  <2>8. accounts' \in Nat /\ accounts <= accounts' /\ Sound(q, accounts')
    BY <1>0, <2>6, <2>7
  <2> QED BY <2>4, <2>5, <2>6, <2>8, HandTyped
<1> QED BY <1>1, <1>5, <1>6, <1>7

\* What a synchronisation makes of a subscription.
LEMMA SyncedTyped ==
  ASSUME NEW s, NEW a, NEW n, SubT(s, n), AccT(a, n)
  PROVE  SubT(Synced(s, a), n) /\ Synced(s, a).id = s.id
<1> DEFINE m == Synced(s, a)
<1>1. s \in SubRecords /\ s.account <= n /\ DOMAIN s = SubFields /\ a \in AccountRecords /\ a.uuid <= n /\ DOMAIN a = AccountFields
  BY DEF SubT, SubRecords, SubFields, AccT, AccountRecords, AccountFields
<1>2. m = [f \in SubFields |-> IF f = "account" THEN a.uuid ELSE IF f \in AccountFields THEN a[f] ELSE s[f]]
  BY <1>1 DEF Synced
<1>3. /\ m.id = s.id /\ m.account = a.uuid /\ m.trial = s.trial /\ m.staff = a.staff /\ m.days = a.days /\ m.status = a.status
      /\ m.traffic_limit = a.traffic_limit /\ m.device_limit = a.device_limit
      /\ m.internal_squads = a.internal_squads /\ m.external_squad = a.external_squad
  BY <1>2 DEF SubFields, AccountFields
<1> DEFINE r == [id |-> m.id, account |-> m.account, trial |-> m.trial, staff |-> m.staff, days |-> m.days, status |-> m.status,
                 traffic_limit |-> m.traffic_limit, device_limit |-> m.device_limit,
                 internal_squads |-> m.internal_squads, external_squad |-> m.external_squad]
<1>4. m = r
  <2>1. m = [f \in SubFields |-> m[f]]
    BY <1>2
  <2> HIDE DEF m
  <2>2. r = [f \in SubFields |-> m[f]]
    BY DEF SubFields
  <2> QED BY <2>1, <2>2
<1> HIDE DEF m, r
<1>5. /\ m.id \in Subs \cup {None} /\ m.account \in 1..MaxAccounts /\ m.account <= n /\ m.trial \in BOOLEAN /\ m.staff \in BOOLEAN
      /\ m.days \in Nat /\ m.status \in {"ACTIVE", "DISABLED", "EXPIRED", "DELETED"} /\ m.traffic_limit \in Nat /\ m.device_limit \in Nat
      /\ m.internal_squads \in {0, 1} /\ m.external_squad \in {0, 1}
  BY <1>1, <1>3 DEF SubRecords, AccountRecords
<1>6. r \in SubRecords
  BY <1>5 DEF r, SubRecords
<1> QED BY <1>3, <1>4, <1>5, <1>6 DEF SubT, m

\* An imported account is a subscription.
LEMMA ImportedTyped ==
  ASSUME NEW a, NEW n, AccT(a, n)
  PROVE  SubT(Imported(a), n)
<1>1. a \in AccountRecords /\ a.uuid <= n
  BY DEF AccT
<1> DEFINE st == IF a.days < Today THEN "EXPIRED" ELSE a.status
<1>2. st \in {"ACTIVE", "DISABLED", "EXPIRED", "DELETED"}
  BY <1>1 DEF AccountRecords
<1> HIDE DEF st
<1>3. Imported(a) = [id |-> None, account |-> a.uuid, status |-> st, trial |-> FALSE,
                     staff |-> a.staff, days |-> a.days, traffic_limit |-> a.traffic_limit, device_limit |-> a.device_limit,
                     internal_squads |-> a.internal_squads, external_squad |-> a.external_squad]
  BY DEF Imported, st
<1>4. Imported(a) \in SubRecords /\ Imported(a).account = a.uuid
  BY <1>1, <1>2, <1>3 DEF AccountRecords, SubRecords
<1> QED BY <1>1, <1>4 DEF SubT

\* Applying the panel's account to billing keeps the types.
LEMMA ApplyTyped ==
  ASSUME NEW own, NEW d \in Desks, DeskInv, Engaged(own, d), UNCHANGED grantVars, Apply(d)
  PROVE  TypedStep(d)
<1> DEFINE t == Tail(job[d].todo)
<1>0. /\ UNCHANGED <<state, issued>> /\ job[d].todo # <<>> /\ Head(job[d].todo) = "apply" /\ Sound(job[d], accounts)
      /\ job[d].todo \in Seq(Names) /\ DOMAIN job[d] = JobFields /\ accounts \in Nat /\ StoresTyped
      /\ None \notin SubRecords /\ DOMAIN job = Jobs /\ d \in Jobs /\ job[d].usr \in UserViews \cup {None}
  BY EngagedFacts DEF grantVars, Apply, At
<1>1. AccT(job[d].remna, accounts)
  <2>1. ApplyDue(job[d].todo)
    BY <1>0, AheadFirst
  <2> QED BY <1>0, <2>1 DEF Sound
<1>2. t \in Seq(Names) /\ Dull(t) /\ Hushed(t)
  BY <1>0, ClosedDull
<1>3. CASE job[d].sub = None
  <2> DEFINE x == Imported(job[d].remna)
             e == <<"create">>
             w == e \o t
             q == [job[d] EXCEPT !.todo = w, !.sub = x]
  <2>1. /\ job' = [job EXCEPT ![d] = [Goes(job[d], e) EXCEPT !.sub = x]]
        /\ UNCHANGED <<person, subs, account, accounts, userCache, subCache, due, disturbed>>
    BY <1>3 DEF Apply, stores, caches, history
  <2>2. Cons(w, "create", t)
    BY <1>2, TaskNames, ConsMade
  <2>3. Goes(job[d], e) = [job[d] EXCEPT !.todo = w]
    BY <2>2 DEF Goes, Cons
  <2>4. SubT(x, accounts)
    BY <1>1, ImportedTyped
  <2> HIDE DEF w, x, e, t
  <2>5. [Goes(job[d], e) EXCEPT !.sub = x] = q
    BY <1>0, <2>3 DEF JobFields
  <2>6. /\ q.user = job[d].user /\ q.usr = job[d].usr /\ q.sub = x /\ q.ask = job[d].ask /\ q.rescue = job[d].rescue /\ q.todo = w
    BY <1>0 DEF JobFields
  <2> HIDE DEF q
  <2>7. Sound(q, accounts)
    BY <1>0, <1>2, <2>2, <2>4, <2>6, OneSound
  <2>8. accounts' = accounts /\ StoresTyped'
    BY <1>0, <2>1, StoresSame DEF StoresTyped
  <2>9. job' = [job EXCEPT ![d] = q]
    BY <2>1, <2>5
  <2>10. accounts' \in Nat /\ accounts <= accounts' /\ Sound(q, accounts')
    BY <1>0, <2>7, <2>8
  <2> QED BY <2>6, <2>8, <2>9, <2>10, HandTyped
<1>4. CASE job[d].sub # None
  <2> DEFINE new == Synced(job[d].sub, job[d].remna)
  <2>1. BillSub(d, new, Differing(job[d].sub, new), <<>>)
    BY <1>4 DEF Apply
  <2>2. SubT(job[d].sub, accounts) /\ job[d].sub.id \in DOMAIN subs
    BY <1>0, <1>4, SubKnown
  <2>3. SubT(new, accounts) /\ new.id = job[d].sub.id
    BY <1>1, <2>2, SyncedTyped
  <2>4. PICK changed : changed = Differing(job[d].sub, new)
    OBVIOUS
  <2> HIDE DEF new
  <2>5. BillSubKeeping(d, new, changed, new, <<>>)
    BY <2>1, <2>4 DEF BillSub
  <2> QED BY <1>0, <2>2, <2>3, <2>5, BilledTyped
<1> QED BY <1>3, <1>4

\* The accounts the dashboard has the panel create.
LEMMA NewAccountTyped ==
  ASSUME NEW uuid, NEW usr, NEW s, NEW n \in Nat, SubT(s, n), uuid \in 1..MaxAccounts, uuid <= n
  PROVE  AccT(NewAccount(uuid, usr, s), n)
<1>1. s \in SubRecords
  BY DEF SubT
<1> DEFINE st == PanelStatus("ACTIVE", s.days)
           f == s.staff \/ Privileged(usr)
<1>2. st \in {"ACTIVE", "DISABLED", "EXPIRED"}
  BY DEF PanelStatus
<1>3. f \in BOOLEAN
  BY DEF Privileged
<1> HIDE DEF st, f
<1>4. NewAccount(uuid, usr, s) =
        [uuid |-> uuid, status |-> st, days |-> s.days, staff |-> f, devices |-> 0,
         traffic_limit |-> s.traffic_limit, device_limit |-> s.device_limit,
         internal_squads |-> s.internal_squads, external_squad |-> s.external_squad]
  BY DEF NewAccount, st, f
<1>5. NewAccount(uuid, usr, s) \in AccountRecords /\ NewAccount(uuid, usr, s).uuid = uuid
  BY <1>1, <1>2, <1>3, <1>4 DEF SubRecords, AccountRecords
<1> QED BY <1>5 DEF AccT

\* Writing billing's subscription back to the panel keeps the types.
LEMMA RestoreTyped ==
  ASSUME NEW own, NEW d \in Desks, DeskInv, Engaged(own, d), UNCHANGED grantVars, Restore(d)
  PROVE  TypedStep(d)
<1> DEFINE s == job[d].todo
           t == Tail(s)
           u == Target[d]
           x == NewAccount(job[d].sub.account, job[d].usr, job[d].sub)
<1>0. /\ UNCHANGED <<state, issued>> /\ s # <<>> /\ Head(s) = "restore" /\ Sound(job[d], accounts) /\ JobOK(own, d)
      /\ s \in Seq(Names) /\ t \in Seq(Names) /\ DOMAIN job[d] = JobFields /\ accounts \in Nat /\ StoresTyped /\ u \in Users
      /\ None \notin SubRecords /\ DOMAIN job = Jobs /\ d \in Jobs /\ DOMAIN account = Users
      /\ job[d].usr \in UserViews \cup {None} /\ (job[d].sub = None \/ SubT(job[d].sub, accounts))
  BY EngagedFacts DEF grantVars, Restore, At
<1>1. /\ UNCHANGED <<person, subs, accounts, userCache, subCache, due>> /\ Disturb(d, u)
      /\ account' = [account EXCEPT ![u] = IF account[u] = None THEN x ELSE None]
      /\ job' = [job EXCEPT ![d] = [(IF account[u] = None THEN Goes(job[d], <<>>) ELSE job[d]) EXCEPT !.wrote = TRUE, !.remna = x]]
  BY DEF Restore, caches
<1>2. job[d].sub # None /\ SubT(job[d].sub, accounts)
  BY <1>0 DEF Sound, First, Needs
<1>3. AccT(x, accounts)
  <2>1. job[d].sub.account \in 1..MaxAccounts /\ job[d].sub.account <= accounts
    BY <1>2 DEF SubT, SubRecords
  <2> QED BY <1>0, <1>2, <2>1, NewAccountTyped
<1> HIDE DEF x
<1>4. PanelTyped'
  <2> DEFINE a == IF account[u] = None THEN x ELSE None
  <2>1. a = None \/ AccT(a, accounts)
    BY <1>3
  <2>2. account' = [account EXCEPT ![u] = a] /\ accounts' = accounts
    BY <1>1
  <2> HIDE DEF a
  <2> QED BY <1>0, <2>1, <2>2, PanelSet DEF StoresTyped, PanelTyped
<1>5. disturbed' \subseteq Users
  BY <1>0, <1>1, DisturbTyped DEF StoresTyped
<1>6. StoresTyped'
  BY <1>0, <1>1, <1>4, <1>5, StoresSame DEF StoresTyped
<1>t. accounts' \in Nat /\ accounts <= accounts' /\ accounts' = accounts
  BY <1>0, <1>1
<1>7. CASE account[u] = None
  <2> DEFINE q == [job[d] EXCEPT !.todo = t, !.wrote = TRUE, !.remna = x]
  <2>1. t # <<>>
    BY <1>0, SpecialHeads DEF RestoreApply, First
  <2>2. Goes(job[d], <<>>) = [job[d] EXCEPT !.todo = t]
    <3>1. <<>> \o t = t
      BY <1>0, JoinFacts
    <3> QED BY <2>1, <3>1 DEF Goes
  <2> HIDE DEF t
  <2>3. [Goes(job[d], <<>>) EXCEPT !.wrote = TRUE, !.remna = x] = q
    BY <1>0, <2>2 DEF JobFields
  <2>4. /\ q.user = job[d].user /\ q.usr = job[d].usr /\ q.sub = job[d].sub /\ q.ask = job[d].ask /\ q.rescue = job[d].rescue
        /\ q.todo = t /\ q.remna = x
    BY <1>0 DEF JobFields
  <2>5. job' = [job EXCEPT ![d] = q]
    BY <1>1, <1>7, <2>3
  <2> HIDE DEF q
  <2>6. Fit(job[d], q, accounts)
    BY <1>0, <1>2, <1>3, <2>4 DEF Fit
  <2>7. Sound(q, accounts)
    BY <1>0, <2>4, <2>6, PopFit DEF t
  <2>8. Sound(q, accounts')
    BY <1>t, <2>7
  <2> QED BY <1>6, <1>t, <2>4, <2>5, <2>8, HandTyped
<1>8. CASE account[u] # None
  <2> DEFINE q == [job[d] EXCEPT !.wrote = TRUE, !.remna = x]
  <2>1. /\ q.user = job[d].user /\ q.usr = job[d].usr /\ q.sub = job[d].sub /\ q.ask = job[d].ask /\ q.rescue = job[d].rescue
        /\ q.todo = job[d].todo /\ q.remna = x
    BY <1>0 DEF JobFields
  <2>2. job' = [job EXCEPT ![d] = q]
    BY <1>1, <1>8
  <2> HIDE DEF q
  <2>3. Sound(q, accounts)
    BY <1>0, <1>3, <2>1 DEF Sound
  <2>4. Sound(q, accounts')
    BY <1>t, <2>3
  <2> QED BY <1>6, <1>t, <2>1, <2>2, <2>4, HandTyped
<1> QED BY <1>7, <1>8

\* A subscription made from a plan is one.
LEMMA PlannedTyped ==
  ASSUME NEW uuid, NEW n \in Nat, uuid \in 1..MaxAccounts, uuid <= n
  PROVE  SubT(Planned(uuid), n) /\ Planned(uuid) # None
<1>1. Today + PlanDays \in Nat /\ PlanLimit \in Nat
  BY AccountAssumption, DeskAssumption
<1>2. Planned(uuid) \in SubRecords /\ Planned(uuid).account = uuid
  BY <1>1 DEF Planned, SubRecords
<1> QED BY <1>2, RecordsAssumption DEF SubT

\* Creating or replacing the account for a plan keeps the types.
LEMMA ProvisionTyped ==
  ASSUME NEW own, NEW d \in Desks, DeskInv, Engaged(own, d), UNCHANGED grantVars, Provision(d)
  PROVE  TypedStep(d)
<1> DEFINE s == job[d].todo
           t == Tail(s)
           u == Target[d]
           uuid == IF job[d].sub = None THEN accounts + 1 ELSE job[d].sub.account
           x == Planned(uuid)
<1>0. /\ UNCHANGED <<state, issued>> /\ s # <<>> /\ Head(s) = "provision" /\ Sound(job[d], accounts) /\ JobOK(own, d)
      /\ s \in Seq(Names) /\ t \in Seq(Names) /\ DOMAIN job[d] = JobFields /\ accounts \in Nat /\ StoresTyped /\ u \in Users
      /\ None \notin SubRecords /\ DOMAIN job = Jobs /\ d \in Jobs /\ DOMAIN account = Users /\ RecordOK(d, job[d], accounts)
      /\ job[d].usr \in UserViews \cup {None} /\ (job[d].sub = None \/ SubT(job[d].sub, accounts))
  BY EngagedFacts DEF grantVars, Provision, At
<1>1. UNCHANGED <<person, subs, userCache, subCache, due>>
  BY DEF Provision, caches
<1>2. CASE Raise(d) /\ UNCHANGED <<account, accounts>>
  BY <1>0, <1>1, <1>2, RaisedTyped
<1>3. CASE /\ IF job[d].sub = None THEN TRUE ELSE Reachable(u, uuid)
           /\ account' = [account EXCEPT ![u] = IF job[d].sub = None THEN NewAccount(uuid, job[d].usr, x)
                                                ELSE Pushed(job[d].usr, x, @)]
           /\ accounts' = (IF job[d].sub = None THEN accounts + 1 ELSE accounts) /\ accounts' <= MaxAccounts
           /\ job' = [job EXCEPT ![d] = [Goes(@, <<>>) EXCEPT !.sub = x, !.wrote = TRUE]]
           /\ Disturb(d, u)
  <2>1. accounts' \in Nat /\ accounts <= accounts' /\ accounts' \in 0..MaxAccounts
    BY <1>0, <1>3, AccountAssumption
  <2>2. uuid \in 1..MaxAccounts /\ uuid <= accounts'
    <3>1. CASE job[d].sub = None
      <4>1. uuid = accounts + 1 /\ accounts' = accounts + 1
        BY <1>3, <3>1
      <4> HIDE DEF uuid
      <4> QED BY <1>0, <2>1, <4>1, AccountAssumption
    <3>2. CASE job[d].sub # None
      <4>1. uuid = job[d].sub.account /\ accounts' = accounts
        BY <1>3, <3>2
      <4>2. job[d].sub.account \in 1..MaxAccounts /\ job[d].sub.account <= accounts
        BY <1>0, <3>2 DEF SubT, SubRecords
      <4> HIDE DEF uuid
      <4> QED BY <4>1, <4>2
    <3> QED BY <3>1, <3>2
  <2> HIDE DEF uuid
  <2>3. SubT(x, accounts') /\ x # None
    BY <2>1, <2>2, PlannedTyped
  <2> HIDE DEF x
  <2>4. PanelTyped'
    <3> DEFINE a == IF job[d].sub = None THEN NewAccount(uuid, job[d].usr, x) ELSE Pushed(job[d].usr, x, account[u])
    <3>1. account' = [account EXCEPT ![u] = a]
      BY <1>3
    <3>2. AccT(a, accounts')
      <4>1. CASE job[d].sub = None
        BY <2>1, <2>2, <2>3, <4>1, NewAccountTyped
      <4>2. CASE job[d].sub # None
        <5>1. account[u] # None /\ AccT(account[u], accounts)
          BY <1>0, <1>3, <4>2 DEF Reachable, StoresTyped, PanelTyped
        <5>2. AccT(account[u], accounts')
          BY <1>0, <2>1, <5>1 DEF AccT, AccountRecords
        <5> QED BY <1>0, <2>3, <4>2, <5>2, PushedTyped
      <4> QED BY <4>1, <4>2
    <3> HIDE DEF a
    <3> QED BY <1>0, <2>1, <3>1, <3>2, PanelSet
  <2>5. disturbed' \subseteq Users
    BY <1>0, <1>3, DisturbTyped DEF StoresTyped
  <2>6. BillsTyped' /\ CopiesTyped'
    <3>1. \A y : SubT(y, accounts) => SubT(y, accounts')
      BY <1>0, <2>1 DEF SubT, SubRecords
    <3>2. BillsTyped'
      BY <1>0, <1>1, <3>1 DEF StoresTyped, BillsTyped
    <3>3. CopiesTyped'
      BY <1>0, <1>1, <3>1 DEF StoresTyped, CopiesTyped
    <3> QED BY <3>2, <3>3
  <2>7. StoresTyped'
    BY <1>0, <1>1, <2>4, <2>5, <2>6, StoresSame DEF StoresTyped
  <2> DEFINE q == [job[d] EXCEPT !.todo = t, !.sub = x, !.wrote = TRUE]
  <2>8. t # <<>>
    BY <1>0, SpecialHeads DEF ProvisionCreate, CreateOnly, First
  <2>9. Goes(job[d], <<>>) = [job[d] EXCEPT !.todo = t]
    <3>1. <<>> \o t = t
      BY <1>0, JoinFacts
    <3> QED BY <2>8, <3>1 DEF Goes
  <2> HIDE DEF t
  <2>10. [Goes(job[d], <<>>) EXCEPT !.sub = x, !.wrote = TRUE] = q
    BY <1>0, <2>9 DEF JobFields
  <2>11. /\ q.user = job[d].user /\ q.usr = job[d].usr /\ q.sub = x /\ q.ask = job[d].ask /\ q.rescue = job[d].rescue
         /\ q.todo = t /\ q.remna = job[d].remna
    BY <1>0 DEF JobFields
  <2>12. job' = [job EXCEPT ![d] = q]
    BY <1>3, <2>10
  <2> HIDE DEF q
  <2>13. Fit(job[d], q, accounts')
    BY <1>0, <2>3, <2>11 DEF Fit
  <2>14. Sound(job[d], accounts')
    BY <1>0, <2>1, SoundMore
  <2>15. Sound(q, accounts')
    BY <1>0, <2>11, <2>13, <2>14, PopFit DEF t
  <2> QED BY <2>1, <2>7, <2>11, <2>12, <2>15, HandTyped
<1> QED BY <1>2, <1>3 DEF Provision

\* The pointer to a subscription that was created, then the copies that are cleared.
LEMMA PointSound ==
  ASSUME NEW q, NEW n, NEW t \in Seq(Names), Dull(t), q.todo = <<"point", "clearUser", "clearSub">> \o t, DOMAIN q = JobFields,
         q.usr \in UserViews \cup {None}, SubT(q.sub, n), q.sub # None
  PROVE  Sound(q, n)
<1>1. PICK a, b : Cons(b, "clearSub", t) /\ Cons(a, "clearUser", b) /\ Cons(q.todo, "point", a)
  <2>1. "point" \in Names /\ "clearUser" \in Names /\ "clearSub" \in Names
    BY TaskNames
  <2> QED BY <2>1, Chain3
<1> DEFINE p0 == [q EXCEPT !.todo = t]
           p1 == [q EXCEPT !.todo = b]
           p2 == [q EXCEPT !.todo = a]
<1>2. /\ p0.todo = t /\ p0.usr = q.usr /\ p0.sub = q.sub /\ p0.ask = q.ask /\ p0.remna = q.remna
      /\ p1.todo = b /\ p1.usr = q.usr /\ p1.sub = q.sub /\ p1.ask = q.ask /\ p1.remna = q.remna
      /\ p2.todo = a /\ p2.usr = q.usr /\ p2.sub = q.sub /\ p2.ask = q.ask /\ p2.remna = q.remna
  BY DEF JobFields
<1> HIDE DEF p0, p1, p2
<1>3. Hushed(t) /\ Sound(p0, n) /\ ~SyncAhead(t)
  BY <1>2, DullSound, DullHushed DEF Hushed
<1>4. Sound(p1, n)
  BY <1>1, <1>2, <1>3, ClearSound
<1>5. /\ b \in Seq(Names) /\ ~SyncAhead(b) /\ ~PushDue(b) /\ ~RemoveDue(b) /\ ~DropAhead(b) /\ ~UserNext(b) /\ ~ApplyAhead(b)
      /\ After(b, {"push"}, {"push"}) /\ After(b, Closing, Uses) /\ Follow(b, "edit", "push") /\ Follow(b, "days", "push")
  <2>1. Cons(b, "clearSub", t)
    BY <1>1
  <2> QED BY <1>3, <2>1, ConsAhead DEF Hushed, Closing, UserUses
<1>6. Sound(p2, n)
  BY <1>1, <1>2, <1>4, <1>5, ClearSound
<1>7. /\ a \in Seq(Names) /\ ~SyncAhead(a) /\ ~PushDue(a) /\ ~RemoveDue(a) /\ ~DropAhead(a) /\ ~UserNext(a) /\ ~ApplyAhead(a)
      /\ After(a, {"push"}, {"push"}) /\ After(a, Closing, Uses) /\ Follow(a, "edit", "push") /\ Follow(a, "days", "push")
  <2>1. Cons(a, "clearUser", b)
    BY <1>1
  <2> QED BY <1>5, <2>1, ConsAhead DEF Closing, UserUses
<1> DEFINE s == q.todo
<1>8. Cons(s, "point", a)
  BY <1>1
<1> HIDE DEF s
<1>9. /\ ~SyncAhead(s) /\ ~PushDue(s) /\ ~RemoveDue(s) /\ ~DropAhead(s) /\ ~UserNext(s) /\ ~ApplyAhead(s)
      /\ After(s, {"push"}, {"push"}) /\ After(s, Closing, Uses) /\ Follow(s, "edit", "push") /\ Follow(s, "days", "push")
  <2>1. ~SyncAhead(s) /\ ~PushDue(s) /\ ~RemoveDue(s) /\ ~DropAhead(s) /\ ~ApplyAhead(s)
    BY <1>7, <1>8, ConsAhead
  <2>2. ~UserNext(s)
    <3>1. UserNext(s) <=> "point" \in UserUses \/ ("point" # "user" /\ UserNext(a))
      BY <1>8, ConsAhead
    <3>2. "point" \notin UserUses
      BY DEF UserUses
    <3> QED BY <1>7, <3>1, <3>2
  <2>3. After(s, {"push"}, {"push"})
    BY <1>7, <1>8, ConsAhead
  <2>5. After(s, Closing, Uses)
    <3>1. "point" \notin Closing
      BY DEF Closing
    <3> QED BY <1>7, <1>8, <3>1, ConsAhead
  <2>4. Follow(s, "edit", "push") /\ Follow(s, "days", "push")
    BY <1>7, <1>8, ConsAhead
  <2> QED BY <2>1, <2>2, <2>3, <2>4, <2>5
<1>10. ~First(s, {"extend"}) /\ ~First(s, {"keepUser", "refillUser"})
  BY <1>8, ConsAhead
<1>11. ~ApplyDue(s)
  <2>1. s \in Seq(Names)
    BY <1>8, ConsAhead
  <2> QED BY <1>9, <2>1, AheadMore
<1> QED BY <1>9, <1>10, <1>11 DEF Sound, s

\* Creating the subscription at billing keeps the types.
LEMMA CreateSubTyped ==
  ASSUME NEW own, NEW d \in Desks, DeskInv, Engaged(own, d), UNCHANGED grantVars, CreateSub(d)
  PROVE  TypedStep(d)
<1> DEFINE t == Tail(job[d].todo)
           steps == <<"point", "clearUser", "clearSub">>
<1>0. /\ UNCHANGED <<state, issued>> /\ job[d].todo # <<>> /\ Head(job[d].todo) = "create" /\ Sound(job[d], accounts)
      /\ job[d].todo \in Seq(Names) /\ DOMAIN job[d] = JobFields /\ accounts \in Nat /\ StoresTyped
      /\ None \notin SubRecords /\ DOMAIN job = Jobs /\ d \in Jobs
      /\ job[d].usr \in UserViews \cup {None} /\ (job[d].sub = None \/ SubT(job[d].sub, accounts))
  BY EngagedFacts DEF grantVars, CreateSub, At
<1>1. PICK id \in Subs :
          /\ subs' = [other \in DOMAIN subs \cup {id} |-> IF other = id THEN [job[d].sub EXCEPT !.id = id] ELSE subs[other]]
          /\ job' = [job EXCEPT ![d] = [Goes(job[d], steps) EXCEPT !.sub.id = id, !.wrote = TRUE]]
  BY DEF CreateSub
<1>2. UNCHANGED <<person, account, accounts, userCache, subCache, due, disturbed>>
  BY DEF CreateSub, caches, history
<1>3. job[d].sub # None /\ SubT(job[d].sub, accounts)
  BY <1>0 DEF Sound, First, Needs
<1> DEFINE x == [job[d].sub EXCEPT !.id = id]
<1>4. SubT(x, accounts) /\ x # None
  <2>1. SubT(x, accounts)
    BY <1>3 DEF SubT, SubRecords
  <2> QED BY <1>0, <2>1 DEF SubT
<1>5. BillsTyped'
  BY <1>0, <1>1, <1>2, <1>4 DEF StoresTyped, BillsTyped
<1>6. StoresTyped'
  BY <1>0, <1>2, <1>5, StoresSame DEF StoresTyped
<1>7. t \in Seq(Names) /\ Dull(t)
  BY <1>0, ClosedDull
<1> DEFINE w == steps \o t
           q == [job[d] EXCEPT !.todo = w, !.sub = x, !.wrote = TRUE]
<1>8. w # <<>>
  <2>1. steps \in Seq(Names) /\ steps # <<>>
    BY TaskNames
  <2> HIDE DEF steps, t
  <2> QED BY <1>7, <2>1
<1>9. Goes(job[d], steps) = [job[d] EXCEPT !.todo = w]
  BY <1>8 DEF Goes
<1> HIDE DEF w, steps
<1>10. [Goes(job[d], steps) EXCEPT !.sub.id = id, !.wrote = TRUE] = q
  BY <1>0, <1>9 DEF JobFields
<1> HIDE DEF x
<1>11. /\ q.user = job[d].user /\ q.usr = job[d].usr /\ q.sub = x /\ q.ask = job[d].ask /\ q.rescue = job[d].rescue
       /\ q.todo = w /\ DOMAIN q = JobFields
  BY <1>0 DEF JobFields
<1>12. job' = [job EXCEPT ![d] = q]
  BY <1>1, <1>10
<1> HIDE DEF q, t
<1>13. Sound(q, accounts)
  BY <1>0, <1>4, <1>7, <1>11, PointSound DEF w, steps
<1>14. accounts' \in Nat /\ accounts <= accounts' /\ Sound(q, accounts')
  <2>1. accounts' = accounts
    BY <1>2
  <2> QED BY <1>0, <1>13, <2>1
<1> QED BY <1>6, <1>11, <1>12, <1>14, HandTyped

\* Pointing the user to a subscription keeps the types.
LEMMA PointToTyped ==
  ASSUME NEW own, NEW d \in Desks, DeskInv, Engaged(own, d), UNCHANGED grantVars, PointTo(d)
  PROVE  TypedStep(d)
<1> DEFINE u == Target[d]
<1>0. /\ UNCHANGED <<state, issued>> /\ job[d].todo # <<>> /\ Head(job[d].todo) = "point" /\ Sound(job[d], accounts)
      /\ StoresTyped /\ DOMAIN person = Users /\ u \in Users /\ JobOK(own, d) /\ DOMAIN due = Users
  BY EngagedFacts DEF grantVars, PointTo, At, StoresTyped, DueTyped
<1>1. /\ UNCHANGED <<subs, account, accounts, userCache, subCache>> /\ Continue(d) /\ Disturb(d, u)
      /\ person' = [person EXCEPT ![u].current = job[d].sub.id]
      /\ due' = [due EXCEPT ![u].days = job[d].sub.days]
  BY DEF PointTo, caches
<1>2. job[d].sub # None
  BY <1>0 DEF Sound, First, Needs
<1>3. job[d].sub.id \in DOMAIN subs /\ DOMAIN subs \subseteq Subs
  <2>1. StoresOK(own)
    BY EngagedFacts DEF CopiesInv
  <2> QED BY <1>0, <1>2, <2>1, SubKnown DEF StoresOK
<1>4. PersonsTyped'
  <2>1. person[u] \in UserRecords
    BY <1>0 DEF StoresTyped, PersonsTyped
  <2>2. [person[u] EXCEPT !.current = job[d].sub.id] \in UserRecords
    BY <1>3, <2>1 DEF UserRecords
  <2> QED BY <1>0, <1>1, <2>2 DEF StoresTyped, PersonsTyped
<1>5. disturbed' \subseteq Users
  BY <1>0, <1>1, DisturbTyped DEF StoresTyped
<1>6. DueTyped'
  BY <1>0, <1>1, <1>5 DEF StoresTyped, DueTyped
<1>7. StoresTyped'
  BY <1>0, <1>1, <1>4, <1>6, StoresSame DEF StoresTyped
<1> QED BY <1>0, <1>1, <1>7, ContinuedTyped

\* The list of those who have access to a plan is not what a synchronisation reads.
LEMMA RemnaFree ==
  ASSUME NEW r, NEW q, NEW n, Sound(r, n), ~ApplyDue(r.todo),
         q.todo = r.todo, q.usr = r.usr, q.sub = r.sub, q.ask = r.ask
  PROVE  Sound(q, n)
BY DEF Sound

\* Reading the plan to give keeps the types.
LEMMA ReadPlanTyped ==
  ASSUME NEW own, NEW d \in Desks, DeskInv, Engaged(own, d), UNCHANGED grantVars, ReadPlan(d)
  PROVE  TypedStep(d)
<1> DEFINE g == Goes(job[d], <<>>)
           q == [g EXCEPT !.remna = allowed]
           t == Tail(job[d].todo)
<1>0. /\ UNCHANGED <<state, issued>> /\ job[d].todo # <<>> /\ Head(job[d].todo) = "plan" /\ Sound(job[d], accounts)
      /\ StoresTyped /\ JobOK(own, d) /\ RecordOK(d, job[d], accounts) /\ accounts \in Nat /\ DOMAIN job = Jobs /\ d \in Jobs
      /\ DOMAIN job[d] = JobFields /\ job[d].todo \in Seq(Names) /\ t \in Seq(Names)
  BY EngagedFacts DEF grantVars, ReadPlan, At
<1>1. /\ UNCHANGED <<person, subs, account, accounts, userCache, subCache, due, disturbed>>
      /\ job' = [job EXCEPT ![d] = q]
  BY DEF ReadPlan, stores, caches, history
<1>2. StoresTyped' /\ accounts' = accounts
  BY <1>0, <1>1, StoresSame DEF StoresTyped
<1>3. Fit(job[d], job[d], accounts)
  BY <1>0, FitSame
<1>4. RecordOK(d, g, accounts)
  BY <1>0, <1>3, PoppedOK
<1>5. DOMAIN g = JobFields /\ g.todo = t
  <2>1. <<>> \in Seq(Names) /\ <<>> \o t = t
    BY <1>0, EmptyPlain, JoinFacts
  <2> QED BY <1>0, <2>1, GoesFacts
<1>6. ~ApplyDue(t)
  <2>1. Plain(t)
    <3>1. "plan" \notin Special \cup {"user", "sub"}
      BY DEF Special
    <3>2. Plain(job[d].todo)
      BY <1>0, <3>1, PlainHead
    <3> QED BY <1>0, <3>2, RestFacts
  <2>2. \A i \in DOMAIN t : t[i] # "apply"
    BY <2>1 DEF Plain, Special
  <2>3. ~ApplyAhead(t)
    BY <2>2 DEF ApplyAhead, Reaches
  <2> QED BY <1>0, <2>3, AheadMore
<1> HIDE DEF g
<1>7. q.user = g.user /\ q.ask = g.ask /\ q.rescue = g.rescue /\ q.todo = g.todo /\ q.usr = g.usr /\ q.sub = g.sub
  BY <1>5 DEF JobFields
<1> HIDE DEF q, t
<1>8. Sound(g, accounts)
  BY <1>4 DEF RecordOK
<1>9. Sound(q, accounts)
  BY <1>5, <1>6, <1>7, <1>8, RemnaFree
<1>10. RecordOK(d, q, accounts)
  BY <1>4, <1>7, <1>9 DEF RecordOK
<1> QED BY <1>0, <1>1, <1>2, <1>10 DEF TypedStep

\* Every await of a handler.
LEMMA DeskStepTyped ==
  ASSUME NEW own, NEW d \in Desks, DeskInv, Engaged(own, d), UNCHANGED grantVars, DeskStep(d)
  PROVE  TypedStep(d)
<1>0. UNCHANGED <<state, issued>>
  BY DEF grantVars
<1>1. CASE AwaitStep(d) \/ Fault(d)
  BY <1>0, <1>1, AwaitTyped
<1>2. CASE Show(d) \/ Menu(d) \/ GrantAccess(d) \/ ClearActor(d)
  BY <1>2, ShowTyped
<1>3. CASE WhetherSub(d) \/ Matching(d) \/ OfferPlans(d) \/ OfferAccess(d) \/ Reset(d) \/ Devices(d)
  BY <1>3, DecidersTyped
<1>4. CASE SetUser(d) \/ Edit(d) \/ Toggle(d) \/ BillStatus(d) \/ Unlink(d) \/ ConfirmDelete(d) \/ Send(d)
  BY <1>4, SetUserTyped, EditTyped, ToggleTyped, BillStatusTyped, UnlinkTyped, ConfirmTyped, SendTyped
<1>5. CASE Drop(d) \/ DropActor(d) \/ Remove(d) \/ Fetch(d) \/ Apply(d) \/ Compare(d) \/ Restore(d)
  BY <1>5, UnsetTyped, RemoveTyped, FetchTyped, ApplyTyped, CompareTyped, RestoreTyped
<1>6. CASE Provision(d) \/ CreateSub(d) \/ PointTo(d) \/ ReadPlan(d)
  BY <1>6, ProvisionTyped, CreateSubTyped, PointToTyped, ReadPlanTyped
<1> QED BY <1>1, <1>2, <1>3, <1>4, <1>5, <1>6 DEF DeskStep

-----------------------------------------------------------------------------
(* Handlers that are started                                               *)

\* Any job in stores that are typed, at work or not.
Standing(own, j) == CopiesInv(own) /\ StoresTyped /\ RecordsOK /\ j \in Jobs

\* A job that begins with a list that uses no copy before it is read.
LEMMA BegunTyped ==
  ASSUME NEW own, NEW j, Standing(own, j), NEW u \in Users, NEW ask, NEW todo, NEW rescue,
         Begin(j, u, ask, todo, rescue), AskOK(j, ask), Bare(todo, ask), rescue \in Seq(Names), j \in Givers \/ Dull(rescue),
         UNCHANGED <<person, subs, account, accounts, userCache, subCache, due, disturbed, state, issued>>
  PROVE  TypedStep(j)
<1>1. DOMAIN job = Jobs /\ StoresTyped /\ j \in Jobs
  BY DEF Standing, CopiesInv
<1>2. accounts \in Nat
  BY <1>1, AccountAssumption DEF StoresTyped, PanelTyped
<1>3. disturbed' \subseteq Users
  BY <1>1 DEF StoresTyped, DueTyped
<1>4. StoresTyped'
  BY <1>1, <1>3, StoresRest
<1>5. RecordOK(j, job'[j], accounts)
  BY <1>1, BegunOK
<1> QED BY <1>2, <1>4, <1>5 DEF TypedStep

\* The same for a handler of the dashboard.
LEMMA HandledTyped ==
  ASSUME NEW own, NEW d \in Desks, Standing(own, d), NEW ask, NEW todo, Handle(d, ask, todo), UNCHANGED <<state, issued>>,
         AskOK(d, ask), Bare(todo, ask)
  PROVE  TypedStep(d)
<1>1. Target[d] \in Users
  BY DeskAssumption
<1>2. <<"MENU">> \in Seq(Names) /\ Dull(<<"MENU">>)
  BY SmoothJoins, SmoothDull
<1> QED BY <1>1, <1>2, BegunTyped DEF Handle, stores, caches, history

\* The job of a desk begins with a list that uses no copy before it is read.
Begins(d) ==
    \E ask, todo : /\ AskOK(d, ask) /\ Bare(todo, ask)
                   /\ \/ Handle(d, ask, todo)
                      \/ ask = NoAsk /\ StartSync(d, todo) /\ \E step \in {"fetch", "compare"} : todo = <<"user", "sub", step>> \o Render("MAIN")

\* A click that only draws a window uses no copy before it is read.
LEMMA LookedBegins ==
  ASSUME NEW d \in Desks, NEW todo \in Seq(Smooth), Handle(d, NoAsk, todo)
  PROVE  Begins(d)
<1>1. AskOK(d, NoAsk)
  BY DEF AskOK, NoAsk
<1>2. Bare(todo, NoAsk)
  BY SmoothDull, DullBare
<1> QED BY <1>1, <1>2 DEF Begins

\* A typed value that cannot be used.
LEMMA InvalidBegins ==
  ASSUME NEW d \in Desks, NEW w, OnInvalidInput(d, w)
  PROVE  Begins(d)
<1>1. AskOK(d, Invalid)
  BY DEF AskOK, NoAsk, Invalid
<1>2. Bare(<<"user", "set">>, Invalid)
  <2>1. "user" \in Names /\ "set" \in Names
    BY TaskNames
  <2>2. PICK a : Cons(a, "set", <<>>) /\ Cons(<<"user", "set">> \o <<>>, "user", a)
    BY <2>1, NoneBare, Chain2
  <2>3. Bare(<<"user", "set">> \o <<>>, Invalid)
    BY <2>2, NoneBare, SetBare
  <2>4. <<"user", "set">> \o <<>> = <<"user", "set">>
    OBVIOUS
  <2> QED BY <2>3, <2>4
<1>3. Bare(<<"user", "sub", "edit">>, Invalid)
  <2>1. "user" \in Names /\ "sub" \in Names /\ "edit" \in Names
    BY TaskNames
  <2>2. PICK a, b : Cons(b, "edit", <<>>) /\ Cons(a, "sub", b) /\ Cons(<<"user", "sub", "edit">> \o <<>>, "user", a)
    BY <2>1, NoneBare, Chain3
  <2>3. Bare(<<"user", "sub", "edit">> \o <<>>, Invalid)
    BY <2>2, NoneBare, InvalidBare
  <2>4. <<"user", "sub", "edit">> \o <<>> = <<"user", "sub", "edit">>
    OBVIOUS
  <2> QED BY <2>3, <2>4
<1>4. CASE w \in {"DISCOUNT", "POINTS"}
  <2>1. Handle(d, Invalid, <<"user", "set">>)
    BY <1>4 DEF OnInvalidInput
  <2> QED BY <1>1, <1>2, <2>1 DEF Begins
<1>5. CASE w \notin {"DISCOUNT", "POINTS"}
  <2>1. Handle(d, Invalid, <<"user", "sub", "edit">>)
    BY <1>5 DEF OnInvalidInput
  <2> QED BY <1>1, <1>3, <2>1 DEF Begins
<1> QED BY <1>4, <1>5

\* A button that edits nothing.
LEMMA ClickBegins ==
  ASSUME NEW d \in Desks, DeskInv, DeskClick(d)
  PROVE  Begins(d)
<1>1. /\ <<"sub", "whether">> \in Seq(Smooth) /\ <<"sub", "reset">> \in Seq(Smooth) /\ <<"user", "devices">> \in Seq(Smooth)
  <2>1. {"user", "sub", "whether", "reset", "devices"} \subseteq Smooth
    BY DEF Smooth
  <2> QED BY <2>1
<1>2. <<"user", "sub", "match">> \in Seq(Smooth) /\ <<"user", "plans">> \in Seq(Smooth) /\ <<"access">> \in Seq(Smooth)
  <2>1. {"user", "sub", "match", "plans", "access"} \subseteq Smooth
    BY DEF Smooth
  <2> QED BY <2>1
<1>3. \A w \in Windows : Render(w) \in Seq(Smooth)
  BY SmoothJoins
<1>4. {"MAIN", "SUBSCRIPTION_DURATION", "TRANSACTIONS_LIST", "TRANSACTION", "MESSAGE"} \subseteq Windows
  BY GetterFacts
<1>5. ASSUME NEW w, NEW todo \in Seq(Smooth), Look(d, w, todo) PROVE Begins(d)
  BY <1>5, LookedBegins DEF Look
<1>6. CASE Open(d)
  BY <1>3, <1>4, <1>6, LookedBegins DEF Open
<1>7. CASE OnCurrentSubscription(d) \/ OnResetTraffic(d) \/ OnDevices(d)
  BY <1>1, <1>5, <1>7 DEF OnCurrentSubscription, OnResetTraffic, OnDevices
<1>8. CASE OnSync(d) \/ OnGiveSubscription(d) \/ OnGiveAccess(d)
  BY <1>2, <1>5, <1>8 DEF OnSync, OnGiveSubscription, OnGiveAccess
<1>9. CASE OnSubscriptionSelect(d) \/ OnTransactionSelect(d)
  BY <1>3, <1>4, <1>5, <1>9 DEF OnSubscriptionSelect, OnTransactionSelect
<1>10. CASE OnTransactions(d)
  <2>1. Again(d) \in Seq(Smooth)
    <3>1. desk[d].win = "MAIN"
      BY <1>10 DEF OnTransactions, Look, Pressing
    <3> QED BY <1>3, <1>4, <3>1 DEF Again
  <2>2. Render("TRANSACTIONS_LIST") \in Seq(Smooth)
    BY <1>3, <1>4
  <2> QED BY <1>5, <1>10, <2>1, <2>2 DEF OnTransactions
<1>11. CASE OnContentInput(d)
  <2>1. Again(d) \in Seq(Smooth)
    BY <1>3, <1>4, <1>11 DEF OnContentInput, Pressing, Again
  <2> QED BY <1>11, <2>1, LookedBegins DEF OnContentInput
<1>12. CASE \E w \in Windows : SwitchTo(d, w)
  BY <1>3, <1>5, <1>12 DEF SwitchTo
<1>13. CASE \E w \in {"DISCOUNT", "POINTS", "TRAFFIC_LIMIT", "DEVICE_LIMIT", "EXPIRE_TIME"} : OnInvalidInput(d, w)
  BY <1>13, InvalidBegins
<1> QED BY <1>6, <1>7, <1>8, <1>9, <1>10, <1>11, <1>12, <1>13 DEF DeskClick

\* The lists of the handlers that edit, before the awaits that draw the next window.
LEMMA ButtonBare ==
  ASSUME NEW t \in Seq(Smooth), NEW ask
  PROVE  /\ Bare(<<"user", "set">> \o t, ask) /\ Bare(<<"user", "sub", "edit", "push">> \o t, ask)
         /\ Bare(<<"sub", "toggle", "status">> \o t, ask) /\ Bare(<<"user", "sub", "confirm">> \o t, ask)
         /\ Bare(<<"user", "sub", "fetch">> \o t, ask) /\ Bare(<<"user", "sub", "compare">> \o t, ask)
         /\ Bare(<<"user", "sub", "provision", "create">> \o t, ask)
<1>1. t \in Seq(Names) /\ Hushed(t)
  BY SmoothDull, DullHushed
<1>2. /\ "user" \in Names /\ "set" \in Names /\ "sub" \in Names /\ "edit" \in Names /\ "push" \in Names /\ "toggle" \in Names
      /\ "status" \in Names /\ "confirm" \in Names /\ "fetch" \in Names /\ "compare" \in Names /\ "provision" \in Names
      /\ "create" \in Names
  BY TaskNames
<1>3. Bare(<<"user", "set">> \o t, ask)
  <2>1. \E a : Cons(a, "set", t) /\ Cons(<<"user", "set">> \o t, "user", a)
    BY <1>1, <1>2, Chain2
  <2> QED BY <1>1, <2>1, SetBare
<1>4. Bare(<<"user", "sub", "edit", "push">> \o t, ask)
  <2>1. \E a, b, c : Cons(c, "push", t) /\ Cons(b, "edit", c) /\ Cons(a, "sub", b)
                     /\ Cons(<<"user", "sub", "edit", "push">> \o t, "user", a)
    BY <1>1, <1>2, Chain4
  <2> QED BY <1>1, <2>1, EditBare
<1>5. Bare(<<"sub", "toggle", "status">> \o t, ask)
  <2>1. \E a, b : Cons(b, "status", t) /\ Cons(a, "toggle", b) /\ Cons(<<"sub", "toggle", "status">> \o t, "sub", a)
    BY <1>1, <1>2, Chain3
  <2> QED BY <1>1, <2>1, ToggleBare
<1>6. ASSUME NEW x \in {"confirm", "fetch", "compare"} PROVE Bare(<<"user", "sub", x>> \o t, ask)
  <2>1. x \in Names
    BY <1>2
  <2>2. \E a, b : Cons(b, x, t) /\ Cons(a, "sub", b) /\ Cons(<<"user", "sub", x>> \o t, "user", a)
    BY <1>1, <1>2, <2>1, Chain3
  <2> QED BY <1>1, <2>2, DecidedBare
<1>7. Bare(<<"user", "sub", "provision", "create">> \o t, ask)
  <2>1. \E a, b, c : Cons(c, "create", t) /\ Cons(b, "provision", c) /\ Cons(a, "sub", b)
                     /\ Cons(<<"user", "sub", "provision", "create">> \o t, "user", a)
    BY <1>1, <1>2, Chain4
  <2> QED BY <1>1, <2>1, PlanBare
<1> QED BY <1>3, <1>4, <1>5, <1>6, <1>7

\* Nor does a click that starts a change.
LEMMA ChangedBegins ==
  ASSUME NEW d \in Desks, NEW w, NEW ask, NEW todo, Change(d, w, ask, todo), AskOK(d, ask), Bare(todo, ask)
  PROVE  Begins(d)
BY DEF Change, Begins

\* A synchronisation begins: its user's account of what is due starts anew.
LEMMA StartSyncTyped ==
  ASSUME NEW own, NEW d \in Desks, Standing(own, d), NEW todo, StartSync(d, todo), UNCHANGED <<state, issued>>, Bare(todo, NoAsk)
  PROVE  TypedStep(d)
<1>1. DOMAIN job = Jobs /\ StoresTyped /\ d \in Jobs /\ Target[d] \in Users
  BY DeskAssumption DEF Standing, CopiesInv
<1>2. accounts \in Nat /\ DOMAIN due = Users /\ disturbed \subseteq Users
  BY <1>1, AccountAssumption DEF StoresTyped, PanelTyped, DueTyped
<1>3. UNCHANGED <<person, subs, account, accounts, userCache, subCache>>
  BY DEF StartSync, stores, caches
<1>4. DueTyped'
  <2>1. CASE Alone(d) /\ FreshCopies(Target[d])
    <3>1. /\ disturbed' = disturbed \ {Target[d]}
          /\ due' = [due EXCEPT ![Target[d]] = [points |-> person[Target[d]].points, days |-> DaysOf(Target[d])]]
      BY <2>1 DEF StartSync
    <3> QED BY <1>1, <1>2, <3>1 DEF StoresTyped, DueTyped
  <2>2. CASE ~(Alone(d) /\ FreshCopies(Target[d]))
    <3>1. UNCHANGED <<due, disturbed>>
      BY <2>2 DEF StartSync, history
    <3> QED BY <1>1, <3>1 DEF StoresTyped, DueTyped
  <2> QED BY <2>1, <2>2
<1>5. StoresTyped'
  BY <1>1, <1>3, <1>4, StoresSame DEF StoresTyped
<1> DEFINE q == [IdleJob EXCEPT !.user = Target[d], !.wrote = TRUE, !.todo = todo, !.rescue = <<"MENU">>]
<1>6. job'[d] = q
  BY <1>1 DEF StartSync
<1>7. q.user = Target[d] /\ q.usr = None /\ q.sub = None /\ q.ask = NoAsk /\ q.todo = todo /\ q.rescue = <<"MENU">>
  BY DEF IdleJob
<1> HIDE DEF q
<1>8. AskOK(d, NoAsk)
  BY DEF AskOK, NoAsk
<1>9. Sound(q, accounts)
  BY <1>7, BareSound
<1>10. <<"MENU">> \in Seq(Names) /\ Dull(<<"MENU">>)
  BY SmoothJoins, SmoothDull
<1>11. RecordOK(d, job'[d], accounts)
  BY <1>1, <1>6, <1>7, <1>8, <1>9, <1>10 DEF RecordOK
<1> QED BY <1>2, <1>3, <1>5, <1>11 DEF TypedStep

\* A button or a typed value that edits.
LEMMA DeskEditBegins ==
  ASSUME NEW d \in Desks, DeskInv, DeskEdit(d)
  PROVE  Begins(d)
<1>0. d \notin Runs
  BY JobAssumption
<1>1. \A w \in {"MAIN", "SUBSCRIPTION", "ROLE", "POINTS", "INTERNAL_SQUADS", "EXTERNAL_SQUADS", "EXPIRE_TIME", "GIVE_ACCESS"} :
         Render(w) \in Seq(Smooth)
  BY SmoothJoins, GetterFacts
<1>2. AskOK(d, NoAsk)
  BY DEF AskOK, NoAsk
<1>3. ASSUME NEW field, NEW to,
             field = "role" => to \in DOMAIN Rank, field = "discount" => to \in Nat, field \in {"points", "days"} => to \in Int,
             field \in {"traffic_limit", "device_limit"} => to \in Nat
      PROVE  AskOK(d, [field |-> field, to |-> to])
  BY <1>0, <1>3 DEF AskOK
<1>4. CASE OnBlockToggle(d)
  <2>1. AskOK(d, [NoAsk EXCEPT !.field = "blocked"])
    BY <1>0 DEF AskOK, NoAsk
  <2> QED BY <1>1, <1>4, <2>1, ButtonBare, ChangedBegins DEF OnBlockToggle
<1>5. CASE \E role \in DOMAIN Rank : OnRoleSelect(d, role)
  <2>1. PICK role \in DOMAIN Rank : OnRoleSelect(d, role)
    BY <1>5
  <2>2. AskOK(d, [field |-> "role", to |-> role])
    BY <1>3
  <2> QED BY <1>1, <2>1, <2>2, ButtonBare, ChangedBegins DEF OnRoleSelect
<1>6. CASE \E rate \in Rates : OnDiscount(d, rate)
  <2>1. PICK rate \in Rates : OnDiscount(d, rate)
    BY <1>6
  <2>2. AskOK(d, [field |-> "discount", to |-> rate])
    BY <1>3, DeskAssumption
  <2> QED BY <1>1, <2>1, <2>2, ButtonBare, ChangedBegins DEF OnDiscount
<1>7. CASE \E sum \in Sums : OnPoints(d, sum)
  <2>1. PICK sum \in Sums : OnPoints(d, sum)
    BY <1>7
  <2>2. AskOK(d, [field |-> "points", to |-> sum])
    BY <1>3, DeskAssumption
  <2> QED BY <1>1, <2>1, <2>2, ButtonBare, ChangedBegins DEF OnPoints
<1>8. ASSUME NEW w, NEW field, NEW to, NEW next \in {"SUBSCRIPTION", "INTERNAL_SQUADS", "EXTERNAL_SQUADS", "EXPIRE_TIME"},
             EditSub(d, w, field, to, next), AskOK(d, [field |-> field, to |-> to])
      PROVE  Begins(d)
  BY <1>1, <1>8, ButtonBare, ChangedBegins DEF EditSub
<1>9. CASE \E value \in Values : OnTrafficLimit(d, value) \/ OnDeviceLimit(d, value)
  <2>1. PICK value \in Values : OnTrafficLimit(d, value) \/ OnDeviceLimit(d, value)
    BY <1>9
  <2>2. AskOK(d, [field |-> "traffic_limit", to |-> value]) /\ AskOK(d, [field |-> "device_limit", to |-> value])
    BY <1>3, DeskAssumption
  <2> QED BY <1>8, <2>1, <2>2 DEF OnTrafficLimit, OnDeviceLimit
<1>10. CASE OnInternalSquad(d) \/ OnExternalSquad(d)
  <2>1. AskOK(d, [field |-> "internal_squads", to |-> 0]) /\ AskOK(d, [field |-> "external_squad", to |-> 0])
    BY <1>3
  <2> QED BY <1>8, <1>10, <2>1 DEF OnInternalSquad, OnExternalSquad
<1>11. CASE \E delta \in Deltas : OnDuration(d, delta)
  <2>1. PICK delta \in Deltas : OnDuration(d, delta)
    BY <1>11
  <2>2. AskOK(d, [field |-> "days", to |-> delta])
    BY <1>3, DeskAssumption
  <2> QED BY <1>8, <2>1, <2>2 DEF OnDuration
<1>12. CASE OnActiveToggle(d) \/ OnSubscriptionDelete(d) \/ OnSubscriptionDuration(d)
  <2>1. CASE OnActiveToggle(d)
    BY <1>1, <1>2, <2>1, ButtonBare, ChangedBegins DEF OnActiveToggle
  <2>2. CASE OnSubscriptionDelete(d)
    <3>1. Bare(<<"user", "sub", "confirm">>, NoAsk)
      <4>1. <<>> \in Seq(Smooth) /\ <<"user", "sub", "confirm">> \o <<>> = <<"user", "sub", "confirm">>
        BY SmoothJoins
      <4> QED BY <4>1, ButtonBare
    <3> QED BY <1>2, <2>2, <3>1, ChangedBegins DEF OnSubscriptionDelete
  <2>3. CASE OnSubscriptionDuration(d)
    BY <1>1, <1>2, <2>3, ButtonBare, ChangedBegins DEF OnSubscriptionDuration
  <2> QED BY <1>12, <2>1, <2>2, <2>3
<1>13. CASE OnSyncFromRemnawave(d) \/ OnSyncFromRemnashop(d)
  <2>1. PICK step \in {"fetch", "compare"} : StartSync(d, <<"user", "sub", step>> \o Render("MAIN"))
    BY <1>13 DEF OnSyncFromRemnawave, OnSyncFromRemnashop
  <2>2. Bare(<<"user", "sub", step>> \o Render("MAIN"), NoAsk)
    BY <1>1, ButtonBare
  <2> QED BY <1>2, <2>1, <2>2 DEF Begins
<1>14. CASE OnDeviceDelete(d) \/ OnPlanSelect(d) \/ OnSend(d)
  <2>1. /\ <<"user", "unlink">> \in Seq(Smooth) /\ <<"plan", "grant">> \in Seq(Smooth) /\ <<"user", "send">> \in Seq(Smooth)
    <3>1. {"user", "unlink", "plan", "grant", "send"} \subseteq Smooth
      BY DEF Smooth
    <3> QED BY <3>1
  <2>2. /\ Bare(<<"user", "unlink">>, NoAsk) /\ Bare(<<"user", "send">>, NoAsk)
        /\ \A t \in Seq(Smooth) : Bare(<<"plan", "grant">> \o t, NoAsk)
    BY <2>1, SmoothJoins, SmoothDull, DullBare
  <2> QED BY <1>1, <1>2, <1>14, <2>2, ChangedBegins DEF OnDeviceDelete, OnPlanSelect, OnSend
<1> QED BY <1>4, <1>5, <1>6, <1>7, <1>9, <1>10, <1>11, <1>12, <1>13, <1>14 DEF DeskEdit

\* Whoever goes on has something left to do.
LEMMA AwaitBusy == \A j : AwaitStep(j) => job[j].todo # <<>>
BY DEF AwaitStep, ReadUser, KeepUser, ReadSub, KeepSub, ClearSub, ClearUser, RefillUser, Push, At, Idle

\* A handler's await needs an await ahead.
LEMMA DeskBusy == \A d : DeskStep(d) => job[d].todo # <<>>
<1> SUFFICES ASSUME NEW d, DeskStep(d) PROVE job[d].todo # <<>>
  OBVIOUS
<1>1. \A step, todo : Decide(d, step, todo) => job[d].todo # <<>>
  BY DEF Decide, At, Idle
<1>2. CASE AwaitStep(d) \/ Fault(d) \/ Show(d) \/ Menu(d) \/ SetUser(d) \/ Edit(d) \/ Toggle(d) \/ BillStatus(d) \/ Reset(d)
  BY <1>2, AwaitBusy DEF Fault, Show, Menu, SetUser, Edit, Toggle, BillStatus, Reset, At, Idle
<1>3. CASE Devices(d) \/ Unlink(d) \/ ConfirmDelete(d) \/ Drop(d) \/ Remove(d) \/ Fetch(d) \/ DropActor(d) \/ ClearActor(d)
  BY <1>3 DEF Devices, Unlink, ConfirmDelete, Drop, Unset, Remove, Fetch, DropActor, ClearActor, At, Idle
<1>4. CASE Apply(d) \/ Compare(d) \/ Restore(d) \/ Provision(d) \/ CreateSub(d) \/ PointTo(d) \/ ReadPlan(d) \/ GrantAccess(d) \/ Send(d)
  BY <1>4 DEF Apply, Compare, Restore, Provision, CreateSub, PointTo, ReadPlan, GrantAccess, Send, At, Idle
<1>5. CASE WhetherSub(d) \/ Matching(d) \/ OfferPlans(d) \/ OfferAccess(d)
  BY <1>1, <1>5 DEF WhetherSub, Matching, OfferPlans, OfferAccess
<1> QED BY <1>2, <1>3, <1>4, <1>5 DEF DeskStep

\* Every step of a handler keeps the types.
LEMMA DeskNextTyped ==
  ASSUME NEW own, NEW d \in Desks, DeskInv, Standing(own, d), DeskNext(d)
  PROVE  TypedStep(d)
<1>1. UNCHANGED grantVars /\ UNCHANGED <<state, issued>>
  BY DEF DeskNext, grantVars
<1>2. CASE DeskStep(d)
  <2>1. job[d].todo # <<>>
    BY <1>2, DeskBusy
  <2>2. Engaged(own, d)
    BY <2>1, JobAssumption DEF Standing, Engaged
  <2> QED BY <1>1, <1>2, <2>2, DeskStepTyped
<1>3. CASE DeskClick(d) \/ DeskEdit(d)
  <2>1. Begins(d)
    BY <1>3, ClickBegins, DeskEditBegins
  <2> QED BY <1>1, <2>1, HandledTyped, StartSyncTyped DEF Begins
<1> QED BY <1>2, <1>3 DEF DeskNext

-----------------------------------------------------------------------------
(* The commands and the tasks                                              *)

\* The later of two days.
LEMMA MaxDay ==
  ASSUME NEW a \in Int, NEW b \in Int
  PROVE  Max({a, b}) \in {a, b} /\ Max({a, b}) >= a /\ Max({a, b}) >= b
<1> DEFINE m == IF a >= b THEN a ELSE b
<1>1. m \in {a, b} /\ \A y \in {a, b} : m >= y
  OBVIOUS
<1> QED BY <1>1 DEF Max

\* A job that stops, or that has a new list, which uses no copy before it is read.
LEMMA StoppedTyped ==
  ASSUME NEW own, NEW j, Engaged(own, j), Stop(j), UNCHANGED accounts, StoresTyped'
  PROVE  TypedStep(j)
<1>1. j \in Jobs /\ DOMAIN job = Jobs /\ accounts \in Nat
  BY EngagedFacts
<1>2. job'[j] = IdleJob
  BY <1>1 DEF Stop
<1> QED BY <1>1, <1>2, IdleOK DEF TypedStep

\* A job that goes on with another list, one that relies on no copy, keeps the types.
LEMMA AnewTyped ==
  ASSUME NEW own, NEW j, Engaged(own, j), NEW q, job' = [job EXCEPT ![j] = q], UNCHANGED accounts, StoresTyped',
         q.user = job[j].user, q.usr = job[j].usr, q.sub = job[j].sub, AskOK(j, q.ask),
         Bare(q.todo, q.ask), j \in Givers \/ (q.rescue \in Seq(Names) /\ Dull(q.rescue))
  PROVE  TypedStep(j)
<1>1. /\ j \in Jobs /\ DOMAIN job = Jobs /\ accounts \in Nat /\ job[j].user \in Users
      /\ job[j].usr \in UserViews \cup {None} /\ (job[j].sub = None \/ SubT(job[j].sub, accounts))
  BY EngagedFacts
<1>2. Sound(q, accounts)
  BY <1>1, BareSound
<1>3. RecordOK(j, q, accounts)
  BY <1>1, <1>2 DEF RecordOK
<1> QED BY <1>1, <1>3 DEF TypedStep

\* A step that leaves every store of the accounts alone.
LEMMA AsideTyped ==
  ASSUME NEW own, NEW j, Engaged(own, j), UNCHANGED <<person, subs, account, accounts, userCache, subCache, due, disturbed>>, StateTyped'
  PROVE  StoresTyped'
<1>1. StoresTyped
  BY EngagedFacts
<1> QED BY <1>1, StoresSame DEF StoresTyped

\* Which job a step of the loyalty command or of a referral is of.
LEMMA KindsOfTask ==
  ASSUME AccountsInv, NEW j \in Jobs \ Desks, GrantsNext(j), job[j].todo # <<>>
  PROVE  LET h == Head(job[j].todo) IN
         /\ j \in Runs \cup Givers \cup Flushers /\ j \notin Desks
         /\ h \in {"seen", "eligible", "lock", "aim", "extend", "mark", "done", "discount", "unlock"} => j \in Runs
         /\ h = "points" => j \in Givers
         /\ h \in {"days", "issue"} => j \in Givers \cup Flushers
         /\ h \in {"points", "days", "issue"} => job[j].ask.to \in Rewards
         /\ h \in {"pending", "flush"} => j \in Flushers
<1>1. j \in Runs \cup Givers \cup Flushers
  BY NoOther DEF AccountsInv, Takers
<1>2. /\ j \in Runs => RunOK(j)
      /\ j \in Givers => GiverOK(j)
      /\ j \in Flushers => FlusherOK(j)
  BY DEF AccountsInv, RunsInv, TasksOK
<1> DEFINE h == Head(job[j].todo)
<1>3. CASE j \in Runs
  <2>1. h \in {"user", "keepUser", "seen", "sub", "keepSub", "eligible", "lock", "aim"} \cup Late
    BY <1>2, <1>3, RunStages
  <2> QED BY <1>1, <1>3, <2>1 DEF Late
<1>4. CASE j \in Givers
  <2>1. h \in {"user", "keepUser", "sub", "keepSub", "points", "days", "clearSub", "clearUser", "push", "issue"}
    BY <1>2, <1>4, GiverStages
  <2>2. job[j].ask.to \in Rewards
    BY <1>2, <1>4, JobAssumption DEF GiverOK
  <2> QED BY <1>1, <1>4, <2>1, <2>2
<1>5. CASE j \in Flushers
  <2>1. h \in {"sub", "keepSub", "pending", "user", "keepUser", "flush", "days", "clearSub", "clearUser", "push", "issue"}
    BY <1>2, <1>5, FlusherStages
  <2>2. h \in {"days", "issue"} => job[j].todo \in FlusherUngiven \cup FlusherGiven
    BY <1>2, <1>5, FlusherStages
  <2>3. h \in {"days", "issue"} => job[j].todo \notin Listing \cup {<<>>} /\ job[j].todo \notin Flushing
    <3>1. job[j].todo \in Listing => h \in {"sub", "keepSub", "pending"}
      BY ListingSteps
    <3>2. job[j].todo \in Flushing => h \in {"user", "keepUser", "flush"}
      BY FlushingSteps
    <3> QED BY <3>1, <3>2
  <2>4. h \in {"days", "issue"} => job[j].ask.to \in Rewards
    BY <1>2, <1>5, <2>2, <2>3 DEF FlusherOK
  <2> QED BY <1>1, <1>5, <2>1, <2>4
<1> QED BY <1>1, <1>3, <1>4, <1>5

\* What a loyalty run reads and writes down.
LEMMA RunBare == \A ask : Bare(<<"sub", "eligible", "lock">>, ask)
<1> SUFFICES ASSUME NEW ask PROVE Bare(<<"sub", "eligible", "lock">>, ask)
  OBVIOUS
<1>1. "sub" \in Names /\ "eligible" \in Names /\ "lock" \in Names
  BY TaskNames
<1>2. <<"sub", "eligible", "lock">> \o <<>> = <<"sub", "eligible", "lock">>
  OBVIOUS
<1>a. PICK a, b : Cons(b, "lock", <<>>) /\ Cons(a, "eligible", b) /\ Cons(<<"sub", "eligible", "lock">> \o <<>>, "sub", a)
  BY <1>1, NoneBare, Chain3
<1>3. Cons(b, "lock", <<>>) /\ Cons(a, "eligible", b) /\ Cons(<<"sub", "eligible", "lock">>, "sub", a)
  BY <1>2, <1>a
<1>4. Bare(b, ask) /\ ~SyncAhead(b)
  BY <1>3, NoneBare, BareMore
<1>5. Bare(a, ask) /\ ~SyncAhead(a)
  BY <1>3, <1>4, BareMore
<1> QED BY <1>3, <1>5, BareMore

\* What a run has in hand once its goal is chosen is sound.
LEMMA GoalSound ==
  ASSUME NEW q, NEW n, q.usr \in UserViews \cup {None}, SubT(q.sub, n), q.sub # None,
         q.todo = Granting(q.ask) \o <<"push", "done", "unlock">>
  PROVE  Sound(q, n)
<1> DEFINE e == <<"done", "unlock">>
           p == <<"push", "done", "unlock">>
<1>1. Hushed(e) /\ e \in Seq(Names)
  <2>1. e \in Seq(Smooth)
    <3>1. "done" \in Smooth /\ "unlock" \in Smooth
      BY DEF Smooth
    <3> QED BY <3>1
  <2> QED BY <2>1, SmoothDull, DullHushed
<1>2. Cons(p, "push", e)
  <2>1. "push" \in Names
    BY TaskNames
  <2>2. p = <<"push">> \o e
    OBVIOUS
  <2> QED BY <1>1, <2>1, <2>2, ConsMade
<1> HIDE DEF e, p
<1>3. /\ p \in Seq(Names) /\ PushDue(p) /\ PushNext(p) /\ ~UserNext(p) /\ ~ApplyAhead(p) /\ ~RemoveDue(p) /\ ~SyncAhead(p)
      /\ ~DropAhead(p) /\ After(p, {"push"}, {"push"}) /\ After(p, Closing, Uses) /\ Follow(p, "edit", "push")
      /\ Follow(p, "days", "push")
  <2>1. "push" \notin UserUses /\ "push" \notin Closing
    BY DEF UserUses, Closing
  <2> QED BY <1>1, <1>2, <2>1, ConsAhead DEF Hushed
<1>4. ASSUME NEW h \in {"discount", "mark", "extend"}, NEW t, NEW s, Cons(s, h, t),
             PushNext(t), ~UserNext(t), ~ApplyAhead(t), ~RemoveDue(t), ~SyncAhead(t), ~DropAhead(t),
             After(t, {"push"}, {"push"}), After(t, Closing, Uses), Follow(t, "edit", "push"), Follow(t, "days", "push")
      PROVE  /\ s \in Seq(Names) /\ PushNext(s) /\ ~UserNext(s) /\ ~ApplyAhead(s) /\ ~RemoveDue(s) /\ ~SyncAhead(s)
             /\ ~DropAhead(s) /\ After(s, {"push"}, {"push"}) /\ After(s, Closing, Uses) /\ Follow(s, "edit", "push")
             /\ Follow(s, "days", "push") /\ ~First(s, {"keepUser", "refillUser"})
  <2>1. h \notin UserUses /\ h \notin Closing /\ h \in Pushing
    BY DEF UserUses, Closing, Pushing
  <2>2. h # "push" /\ h # "edit" /\ h # "days" /\ h # "remove" /\ h # "apply" /\ h # "drop" /\ h \notin {"fetch", "compare"}
        /\ h \notin {"keepUser", "refillUser"}
    OBVIOUS
  <2>3. PushNext(s) /\ ~UserNext(s) /\ ~ApplyAhead(s) /\ ~RemoveDue(s) /\ ~SyncAhead(s) /\ ~DropAhead(s)
    BY <1>4, <2>1, <2>2, ConsAhead
  <2>4. After(s, {"push"}, {"push"}) /\ After(s, Closing, Uses) /\ Follow(s, "edit", "push") /\ Follow(s, "days", "push")
    BY <1>4, <2>1, <2>2, ConsAhead
  <2>5. s \in Seq(Names) /\ ~First(s, {"keepUser", "refillUser"})
    BY <1>4, <2>2, ConsAhead
  <2> QED BY <2>3, <2>4, <2>5
<1> DEFINE s == q.todo
<1>5. /\ s \in Seq(Names) /\ PushNext(s) /\ ~UserNext(s) /\ ~ApplyAhead(s) /\ ~RemoveDue(s) /\ ~SyncAhead(s)
      /\ ~DropAhead(s) /\ After(s, {"push"}, {"push"}) /\ After(s, Closing, Uses) /\ Follow(s, "edit", "push")
      /\ Follow(s, "days", "push") /\ ~First(s, {"keepUser", "refillUser"})
  <2>0. "discount" \in Names /\ "mark" \in Names /\ "extend" \in Names
    BY TaskNames
  <2>1. CASE q.ask.field = "extended"
    <3>1. s = <<"discount">> \o p
      BY <2>1 DEF Granting, p
    <3>2. Cons(s, "discount", p)
      BY <1>3, <2>0, <3>1, ConsMade
    <3> QED BY <1>3, <1>4, <3>2
  <2>2. CASE q.ask.field # "extended"
    <3>1. s = <<"extend", "mark", "discount">> \o p
      BY <2>2 DEF Granting, p
    <3>0. p \in Seq(Names)
      BY <1>3
    <3>a. PICK a, b : Cons(b, "discount", p) /\ Cons(a, "mark", b) /\ Cons(<<"extend", "mark", "discount">> \o p, "extend", a)
      BY <2>0, <3>0, Chain3
    <3>2. Cons(b, "discount", p) /\ Cons(a, "mark", b) /\ Cons(s, "extend", a)
      BY <3>1, <3>a
    <3> HIDE DEF s
    <3>3. /\ PushNext(b) /\ ~UserNext(b) /\ ~ApplyAhead(b) /\ ~RemoveDue(b) /\ ~SyncAhead(b)
          /\ ~DropAhead(b) /\ After(b, {"push"}, {"push"}) /\ After(b, Closing, Uses) /\ Follow(b, "edit", "push")
          /\ Follow(b, "days", "push")
      BY <1>3, <1>4, <3>2
    <3>4. /\ PushNext(a) /\ ~UserNext(a) /\ ~ApplyAhead(a) /\ ~RemoveDue(a) /\ ~SyncAhead(a)
          /\ ~DropAhead(a) /\ After(a, {"push"}, {"push"}) /\ After(a, Closing, Uses) /\ Follow(a, "edit", "push")
          /\ Follow(a, "days", "push")
      BY <1>4, <3>2, <3>3
    <3> QED BY <1>4, <3>2, <3>4
  <2> QED BY <2>1, <2>2
<1> HIDE DEF s
<1>6. ~ApplyDue(s)
  BY <1>5, AheadMore
<1> QED BY <1>5, <1>6 DEF Sound, s

\* The states of the loyalty reward that are written down.
LEMMA StateSet ==
  ASSUME StateTyped, DOMAIN state = Users, issued' \subseteq Rewards, NEW u \in Users, NEW goal, DOMAIN goal = {"field", "to"},
         goal.to \in Nat, state' = [state EXCEPT ![u] = goal]
  PROVE  StateTyped'
BY DEF StateTyped

\* The awaits of a run that only look, or only write down how far it came.
LEMMA RunLooksTyped ==
  ASSUME NEW own, NEW j, Engaged(own, j), j \in Runs, j \notin Desks, RunsInv, AccountsInv, issued' \subseteq Rewards,
         ReadState(j) \/ Eligible(j) \/ TakeLock(j) \/ Mark(j) \/ Done(j) \/ Unlock(j)
  PROVE  TypedStep(j)
<1>0. /\ StoresTyped /\ j \in Jobs /\ DOMAIN job = Jobs /\ job[j].todo # <<>> /\ job[j].user \in Users
      /\ RecordOK(j, job[j], accounts) /\ DOMAIN job[j] = JobFields /\ DOMAIN state = Users /\ accounts \in Nat
      /\ job[j].todo \in Seq(Names)
  BY EngagedFacts DEF RunsInv
<1>1. UNCHANGED <<person, subs, account, accounts, userCache, subCache, due, disturbed>>
  BY DEF ReadState, Eligible, TakeLock, Mark, Done, Unlock, SetState, Locally, stores, caches, history
<1>2. UNCHANGED state \/ Mark(j) \/ Done(j)
  BY DEF ReadState, Eligible, TakeLock, Unlock, grantVars
<1>3. StateTyped'
  <2>1. CASE UNCHANGED state
    BY <1>0, <2>1 DEF StoresTyped, StateTyped
  <2>2. CASE Mark(j) \/ Done(j)
    <3>1. PICK field : state' = [state EXCEPT ![job[j].user] = [field |-> field, to |-> 0]]
      BY <2>2 DEF Mark, Done, SetState
    <3> DEFINE goal == [field |-> field, to |-> 0]
    <3>2. DOMAIN goal = {"field", "to"} /\ goal.to \in Nat
      OBVIOUS
    <3> HIDE DEF goal
    <3>3. state' = [state EXCEPT ![job[j].user] = goal]
      BY <3>1 DEF goal
    <3> QED BY <1>0, <3>2, <3>3, StateSet DEF StoresTyped
  <2> QED BY <1>2, <2>1, <2>2
<1>4. StoresTyped'
  BY <1>1, <1>3, AsideTyped
<1>5. CASE Stop(j)
  BY <1>1, <1>4, <1>5, StoppedTyped
<1>6. CASE Continue(j) /\ Head(job[j].todo) \notin {"user", "edit", "days", "restore", "toggle", "provision"}
  BY <1>1, <1>4, <1>6, ContinuedTyped
<1>7. CASE Eligible(j) \/ Mark(j) \/ Done(j) \/ Unlock(j)
  <2>1. Stop(j) \/ Continue(j)
    BY <1>7 DEF Eligible, Mark, Done, Unlock, SetState
  <2>2. Head(job[j].todo) \in {"eligible", "mark", "done", "unlock"}
    BY <1>7 DEF Eligible, Mark, Done, Unlock, SetState, At
  <2> QED BY <1>5, <1>6, <2>1, <2>2
<1>8. CASE ReadState(j)
  <2>1. Head(job[j].todo) = "seen"
    BY <1>8 DEF ReadState, At
  <2>2. job[j].todo = <<"seen", "sub", "eligible", "lock">>
    <3>1. job[j].todo \in Unseen
      BY <1>0, <2>1, RunStages DEF RunsInv
    <3> QED BY <2>1, <3>1 DEF Unseen
  <2>3. Tail(job[j].todo) = <<"sub", "eligible", "lock">> /\ <<>> \o Tail(job[j].todo) = <<"sub", "eligible", "lock">>
    BY <2>2
  <2> DEFINE l == <<"sub", "eligible", "lock">>
             g == Goes(job[j], <<>>)
             q == [g EXCEPT !.ask = state[job[j].user]]
  <2>4. g = [job[j] EXCEPT !.todo = l]
    <3>1. l # <<>> /\ <<>> \o Tail(job[j].todo) = l
      BY <2>3
    <3> HIDE DEF l
    <3> QED BY <3>1 DEF Goes
  <2>5. g.user = job[j].user /\ g.usr = job[j].usr /\ g.sub = job[j].sub /\ g.rescue = job[j].rescue /\ g.todo = l /\ DOMAIN g = JobFields
    BY <1>0, <2>4 DEF JobFields
  <2> HIDE DEF g, l
  <2>6. q.user = job[j].user /\ q.usr = job[j].usr /\ q.sub = job[j].sub /\ q.rescue = job[j].rescue /\ q.todo = l
        /\ q.ask = state[job[j].user]
    BY <2>5 DEF JobFields
  <2>7. Stop(j) \/ job' = [job EXCEPT ![j] = q]
    BY <1>0, <1>8 DEF ReadState, g
  <2> HIDE DEF q
  <2>8. AskOK(j, q.ask)
    BY <1>0, <2>6 DEF AskOK, StoresTyped, StateTyped
  <2>9. Bare(q.todo, q.ask)
    BY <2>6, RunBare DEF l
  <2>10. q.rescue \in Seq(Names) /\ Dull(q.rescue)
    <3>1. j \notin Givers
      BY JobAssumption
    <3> QED BY <1>0, <2>6, <3>1 DEF RecordOK
  <2> QED BY <1>1, <1>4, <1>5, <2>6, <2>7, <2>8, <2>9, <2>10, AnewTyped
<1>9. CASE TakeLock(j)
  <2> DEFINE q == [job[j] EXCEPT !.todo = <<"sub", "aim">>, !.rescue = <<"unlock">>]
  <2>1. q.user = job[j].user /\ q.usr = job[j].usr /\ q.sub = job[j].sub /\ q.rescue = <<"unlock">> /\ q.todo = <<"sub", "aim">>
        /\ q.ask = job[j].ask
    BY <1>0 DEF JobFields
  <2>2. Stop(j) \/ job' = [job EXCEPT ![j] = q]
    BY <1>0, <1>9 DEF TakeLock
  <2> HIDE DEF q
  <2>3. <<"unlock">> \in Seq(Names) /\ Dull(<<"unlock">>)
    <3>1. <<"unlock">> \in Seq(Smooth)
      <4>1. "unlock" \in Smooth
        BY DEF Smooth
      <4> QED BY <4>1
    <3> QED BY <3>1, SmoothDull
  <2>4. AskOK(j, q.ask) /\ Bare(q.todo, q.ask)
    BY <1>0, <2>1, TaskBare DEF RecordOK
  <2> QED BY <1>1, <1>4, <1>5, <2>1, <2>2, <2>3, <2>4, AnewTyped
<1> QED BY <1>7, <1>8, <1>9

\* A run that chooses its goal.
LEMMA AimTyped ==
  ASSUME NEW own, NEW j, Engaged(own, j), j \in Runs, RunsInv, issued' \subseteq Rewards, Aim(j)
  PROVE  TypedStep(j)
<1>0. /\ StoresTyped /\ j \in Jobs /\ DOMAIN job = Jobs /\ job[j].todo # <<>> /\ job[j].user \in Users
      /\ RecordOK(j, job[j], accounts) /\ DOMAIN job[j] = JobFields /\ DOMAIN state = Users /\ accounts \in Nat
      /\ job[j].usr \in UserViews \cup {None} /\ (job[j].sub = None \/ SubT(job[j].sub, accounts))
  BY EngagedFacts DEF RunsInv
<1>1. UNCHANGED <<person, subs, account, accounts, userCache, subCache, due, issued>>
  BY DEF Aim, stores, caches
<1>2. CASE job[j].sub = None
  <2>1. Raise(j) /\ UNCHANGED state
    BY <1>2 DEF Aim
  <2> QED BY <1>1, <2>1, RaisedTyped
<1>3. CASE job[j].sub # None
  <2> DEFINE u == job[j].user
             goal == [field |-> "extend_to", to |-> Max({job[j].sub.days, Today}) + LoyaltyDays]
             ask == IF job[j].ask = NoState THEN goal ELSE job[j].ask
             q == [job[j] EXCEPT !.ask = ask, !.todo = Granting(ask) \o <<"push", "done", "unlock">>]
  <2>1. DOMAIN goal = {"field", "to"} /\ goal.to \in Nat
    <3>1. job[j].sub.days \in Nat /\ Today \in Nat /\ LoyaltyDays \in Nat
      BY <1>0, <1>3, AccountAssumption, GrantAssumption DEF SubT, SubRecords
    <3>2. job[j].sub.days \in Int /\ Today \in Int
      BY <3>1
    <3>3. Max({job[j].sub.days, Today}) \in {job[j].sub.days, Today}
      BY <3>2, MaxDay
    <3>4. Max({job[j].sub.days, Today}) \in Nat
      BY <3>1, <3>3
    <3> QED BY <3>1, <3>4
  <2>2. /\ job' = [job EXCEPT ![j] = q] /\ disturbed' = disturbed
        /\ state' = [state EXCEPT ![u] = IF job[j].ask = NoState THEN goal ELSE @]
    BY <1>3 DEF Aim, Undisturbed
  <2> HIDE DEF goal
  <2>3. StateTyped'
    <3>1. CASE job[j].ask = NoState
      BY <1>0, <2>1, <2>2, <3>1, StateSet DEF StoresTyped
    <3>2. CASE job[j].ask # NoState
      BY <1>0, <1>1, <2>2, <3>2 DEF StoresTyped, StateTyped
    <3> QED BY <3>1, <3>2
  <2>4. StoresTyped'
    BY <1>1, <2>2, <2>3, AsideTyped
  <2>5. AskOK(j, ask)
    <3>1. j \notin Desks
      BY JobAssumption
    <3>2. AskOK(j, job[j].ask)
      BY <1>0 DEF RecordOK
    <3> QED BY <2>1, <3>1, <3>2 DEF AskOK
  <2> HIDE DEF ask
  <2>6. /\ q.user = u /\ q.usr = job[j].usr /\ q.sub = job[j].sub /\ q.ask = ask /\ q.rescue = job[j].rescue
        /\ q.todo = Granting(q.ask) \o <<"push", "done", "unlock">>
    BY <1>0 DEF JobFields
  <2>7. job'[j] = q
    BY <1>0, <2>2
  <2> HIDE DEF q
  <2>8. Sound(q, accounts)
    BY <1>0, <1>3, <2>6, GoalSound
  <2>9. RecordOK(j, q, accounts)
    BY <1>0, <2>5, <2>6, <2>8 DEF RecordOK
  <2>10. accounts' = accounts
    BY <1>1
  <2> QED BY <1>0, <2>4, <2>7, <2>9, <2>10 DEF TypedStep
<1> QED BY <1>2, <1>3

\* A run or a task that gives.
LEMMA DaysTyped ==
  ASSUME NEW s, NEW n, SubT(s, n), NEW days \in Nat
  PROVE  SubT([s EXCEPT !.days = days], n) /\ [s EXCEPT !.days = days].id = s.id
BY DEF SubT, SubRecords

\* Extending a subscription keeps the types.
LEMMA ExtendTyped ==
  ASSUME NEW own, NEW j, Engaged(own, j), j \in Runs, Extend(j)
  PROVE  TypedStep(j)
<1> DEFINE s == job[j].sub
           new == [s EXCEPT !.days = job[j].ask.to]
<1>0. /\ RecordOK(j, job[j], accounts) /\ Sound(job[j], accounts) /\ job[j].todo # <<>> /\ Head(job[j].todo) = "extend"
      /\ StoresTyped
  BY EngagedFacts DEF Extend, At
<1>1. UNCHANGED <<state, issued>>
  BY DEF Extend, grantVars
<1>2. s # None
  BY <1>0 DEF Sound, First, Needs
<1>3. SubT(s, accounts) /\ s.id \in DOMAIN subs
  BY <1>0, <1>2, SubKnown
<1>4. job[j].ask.to \in Nat
  BY <1>0 DEF RecordOK, AskOK
<1>5. SubT(new, accounts) /\ new.id = s.id
  BY <1>3, <1>4, DaysTyped
<1>6. CASE s.days < job[j].ask.to
  <2>1. BillSubKeeping(j, new, {"days"}, Billed(new, {"days"})[s.id], <<>>)
    BY <1>6 DEF Extend
  <2> HIDE DEF new
  <2> QED BY <1>0, <1>1, <1>3, <1>5, <2>1, BilledTyped
<1>7. CASE ~(s.days < job[j].ask.to)
  <2>1. Continue(j) /\ UNCHANGED <<person, subs, account, accounts, userCache, subCache, due, disturbed>>
    BY <1>7 DEF Extend, Locally, stores, caches, history
  <2>2. StateTyped'
    BY <1>0, <1>1 DEF StoresTyped, StateTyped
  <2>3. StoresTyped'
    BY <2>1, <2>2, AsideTyped
  <2> QED BY <1>0, <2>1, <2>3, ContinuedTyped
<1> QED BY <1>6, <1>7

\* Giving a discount or points keeps the types.
LEMMA GiftTyped ==
  ASSUME NEW own, NEW j, Engaged(own, j), GiveDiscount(j) \/ (GivePoints(j) /\ job[j].ask.to \in Rewards)
  PROVE  TypedStep(j)
<1>0. /\ Sound(job[j], accounts) /\ job[j].todo # <<>> /\ job[j].todo \in Seq(Names) /\ StoresTyped
  BY EngagedFacts
<1>1. UNCHANGED <<state, issued>>
  BY DEF GiveDiscount, GivePoints, grantVars
<1>2. CASE GiveDiscount(j)
  <2>1. Head(job[j].todo) = "discount"
    BY <1>2 DEF GiveDiscount, At
  <2>2. CASE BillUser(j, "discount", LoyaltyDiscount, <<"refillUser">>)
    BY <1>1, <2>1, <2>2, GrantAssumption, BilledUserTyped
  <2>3. CASE Continue(j) /\ Locally
    <3>1. UNCHANGED <<person, subs, account, accounts, userCache, subCache, due, disturbed>>
      BY <2>3 DEF Locally, stores, caches, history
    <3>2. StateTyped'
      BY <1>0, <1>1 DEF StoresTyped, StateTyped
    <3>3. StoresTyped'
      BY <3>1, <3>2, AsideTyped
    <3> QED BY <2>1, <2>3, <3>1, <3>3, ContinuedTyped
  <2> QED BY <1>2, <2>2, <2>3 DEF GiveDiscount
<1>3. CASE GivePoints(j) /\ job[j].ask.to \in Rewards
  <2>1. Head(job[j].todo) = "points"
    BY <1>3 DEF GivePoints, At
  <2>2. job[j].usr \in UserViews
    <3>1. UserNext(job[j].todo)
      BY <1>0, <2>1, AheadFirst DEF UserUses
    <3> QED BY <1>0, <3>1 DEF Sound
  <2>3. job[j].usr.points + Amount[job[j].ask.to] \in Nat
    BY <1>3, <2>2, GrantAssumption DEF UserViews
  <2>4. BillUser(j, "points", job[j].usr.points + Amount[job[j].ask.to], <<"clearUser">>)
    BY <1>3 DEF GivePoints
  <2> QED BY <1>1, <2>1, <2>3, <2>4, BilledUserTyped
<1> QED BY <1>2, <1>3

\* Giving days keeps the types.
LEMMA GiveDaysTyped ==
  ASSUME NEW own, NEW j, Engaged(own, j), GiveDays(j), job[j].ask.to \in Rewards
  PROVE  TypedStep(j)
<1> DEFINE s == job[j].sub
           new == Later(s, job[j].ask.to)
<1>0. /\ job[j].todo # <<>> /\ Head(job[j].todo) = "days" /\ StoresTyped
  BY EngagedFacts DEF GiveDays, At
<1>1. UNCHANGED <<state, issued>>
  BY DEF GiveDays
<1>2. CASE Stop(j) /\ Locally
  <2>1. UNCHANGED <<person, subs, account, accounts, userCache, subCache, due, disturbed>>
    BY <1>2 DEF Locally, stores, caches, history
  <2>2. StateTyped'
    BY <1>0, <1>1 DEF StoresTyped, StateTyped
  <2>3. StoresTyped'
    BY <2>1, <2>2, AsideTyped
  <2> QED BY <1>2, <2>1, <2>3, StoppedTyped
<1>3. CASE s # None /\ BillSub(j, new, {"days"}, <<>>)
  <2>1. SubT(s, accounts) /\ s.id \in DOMAIN subs
    BY <1>0, <1>3, SubKnown
  <2>2. Max({s.days, Today}) + Amount[job[j].ask.to] \in Nat
    <3>1. s.days \in Nat /\ Today \in Nat /\ Amount[job[j].ask.to] \in Nat
      BY <2>1, AccountAssumption, GrantAssumption DEF SubT, SubRecords
    <3>2. s.days \in Int /\ Today \in Int
      BY <3>1
    <3>3. Max({s.days, Today}) \in {s.days, Today}
      BY <3>2, MaxDay
    <3>4. Max({s.days, Today}) \in Nat
      BY <3>1, <3>3
    <3> QED BY <3>1, <3>4
  <2>3. SubT(new, accounts) /\ new.id = s.id
    BY <2>1, <2>2, DaysTyped DEF Later
  <2> HIDE DEF new
  <2>4. BillSubKeeping(j, new, {"days"}, new, <<>>)
    BY <1>3 DEF BillSub
  <2> QED BY <1>0, <1>1, <2>1, <2>3, <2>4, BilledTyped
<1> QED BY <1>2, <1>3 DEF GiveDays

\* A flush that lists its rewards or takes the next; a reward that is marked.
LEMMA FlushTyped ==
  ASSUME NEW own, NEW j, Engaged(own, j), j \notin Desks, j \notin Runs, issued' \subseteq Rewards,
         ListPending(j) \/ Flush(j) \/ Issue(j)
  PROVE  TypedStep(j)
<1>0. /\ StoresTyped /\ j \in Jobs /\ DOMAIN job = Jobs /\ job[j].todo # <<>> /\ RecordOK(j, job[j], accounts)
      /\ DOMAIN job[j] = JobFields
  BY EngagedFacts
<1>1. UNCHANGED <<person, subs, account, accounts, userCache, subCache, due, disturbed, state>>
  BY DEF ListPending, Flush, Issue, Locally, stores, caches, history, grantVars
<1>2. StateTyped'
  BY <1>0, <1>1 DEF StoresTyped, StateTyped
<1>3. StoresTyped'
  BY <1>1, <1>2, AsideTyped
<1>4. CASE Stop(j)
  BY <1>1, <1>3, <1>4, StoppedTyped
<1>5. CASE Issue(j)
  <2>1. Continue(j) /\ Head(job[j].todo) = "issue"
    BY <1>5 DEF Issue, At
  <2> QED BY <1>1, <1>3, <2>1, ContinuedTyped
<1>6. CASE ListPending(j) /\ ~Stop(j)
  <2> DEFINE q == [job[j] EXCEPT !.remna = Banked, !.todo = <<"user", "flush">>]
  <2>1. job' = [job EXCEPT ![j] = q]
    BY <1>6 DEF ListPending
  <2>2. q.user = job[j].user /\ q.usr = job[j].usr /\ q.sub = job[j].sub /\ q.ask = job[j].ask /\ q.rescue = job[j].rescue
        /\ q.todo = <<"user", "flush">>
    BY <1>0 DEF JobFields
  <2> HIDE DEF q
  <2>3. AskOK(j, q.ask) /\ Bare(q.todo, q.ask) /\ (j \in Givers \/ (q.rescue \in Seq(Names) /\ Dull(q.rescue)))
    BY <1>0, <2>2, TaskBare DEF RecordOK
  <2> QED BY <1>1, <1>3, <2>1, <2>2, <2>3, AnewTyped
<1>7. CASE Flush(j) /\ ~Stop(j)
  <2>1. PICK reward \in job[j].remna :
           job' = [job EXCEPT ![j] = [@ EXCEPT !.ask = [field |-> "reward", to |-> reward], !.remna = job[j].remna \ {reward},
                                               !.todo = <<"days", "push", "issue", "flush">>]]
    BY <1>7 DEF Flush
  <2> DEFINE ask == [field |-> "reward", to |-> reward]
             q == [job[j] EXCEPT !.ask = ask, !.remna = job[j].remna \ {reward}, !.todo = <<"days", "push", "issue", "flush">>]
  <2>2. job' = [job EXCEPT ![j] = q]
    BY <2>1
  <2>3. DOMAIN ask = {"field", "to"}
    OBVIOUS
  <2> HIDE DEF ask
  <2>4. q.user = job[j].user /\ q.usr = job[j].usr /\ q.sub = job[j].sub /\ q.ask = ask /\ q.rescue = job[j].rescue
        /\ q.todo = <<"days", "push", "issue", "flush">>
    BY <1>0 DEF JobFields
  <2> HIDE DEF q
  <2>5. AskOK(j, q.ask)
    BY <2>3, <2>4 DEF AskOK
  <2>6. Bare(q.todo, q.ask) /\ (j \in Givers \/ (q.rescue \in Seq(Names) /\ Dull(q.rescue)))
    BY <1>0, <2>4, TaskBare DEF RecordOK
  <2> QED BY <1>1, <1>3, <2>2, <2>4, <2>5, <2>6, AnewTyped
<1> QED BY <1>4, <1>5, <1>6, <1>7

\* A run, a task or a flush that begins, or a run that dies.
LEMMA TaskBegunTyped ==
  ASSUME NEW own, NEW j, Standing(own, j), j \notin Desks,
         \/ j \in Runs /\ \E u \in Loyal : BeginGrant(j, u)
         \/ j \in Givers /\ j \notin Runs /\ BeginGive(j)
         \/ BeginFlush(j)
  PROVE  TypedStep(j)
<1>1. UNCHANGED <<person, subs, account, accounts, userCache, subCache, due, disturbed, state, issued>>
  BY DEF BeginGrant, BeginGive, BeginFlush, stores, caches, history, grantVars
<1>2. Loyal \subseteq Users /\ Winner \in Users
  BY JobAssumption
<1>3. <<>> \in Seq(Names) /\ Dull(<<>>)
  BY NoneBare
<1>4. AskOK(j, NoAsk)
  BY DEF AskOK, NoAsk
<1>5. CASE \E u \in Loyal : BeginGrant(j, u)
  <2>1. PICK u \in Users : Begin(j, u, NoAsk, Grantable, <<>>)
    BY <1>2, <1>5 DEF BeginGrant
  <2> QED BY <1>1, <1>3, <1>4, <2>1, TaskBare, BegunTyped
<1>6. CASE j \in Givers /\ j \notin Runs /\ BeginGive(j)
  <2> DEFINE ask == [field |-> "reward", to |-> RewardOf[j]]
  <2>1. Begin(j, Winner, ask, Giving(ask.to), Giving(ask.to))
    BY <1>6 DEF BeginGive
  <2>2. AskOK(j, ask)
    BY <1>6 DEF AskOK
  <2>3. Giving(ask.to) \in Seq(Names) /\ Bare(Giving(ask.to), ask)
    BY TaskLists, TaskBare
  <2> HIDE DEF ask
  <2> QED BY <1>1, <1>2, <2>1, <2>2, <2>3, <1>6, BegunTyped
<1>7. CASE BeginFlush(j)
  <2>1. Begin(j, Winner, NoAsk, <<"sub", "pending">>, <<>>)
    BY <1>7 DEF BeginFlush
  <2> QED BY <1>1, <1>2, <1>3, <1>4, <2>1, TaskBare, BegunTyped
<1> QED BY <1>5, <1>6, <1>7

\* A crash keeps the types.
LEMMA CrashTyped ==
  ASSUME NEW own, NEW j, Engaged(own, j), Crash(j)
  PROVE  TypedStep(j)
<1>1. StoresTyped /\ job[j].user \in Users
  BY EngagedFacts
<1>2. UNCHANGED <<person, subs, account, accounts, userCache, subCache, due, state, issued>> /\ Stop(j)
  BY DEF Crash, stores, caches, grantVars
<1>3. disturbed' \subseteq Users
  BY <1>1 DEF Crash, StoresTyped, DueTyped
<1>4. StoresTyped'
  BY <1>1, <1>2, <1>3, StoresRest
<1> QED BY <1>2, <1>4, StoppedTyped

\* Every step of a run, a task or a flush.
LEMMA GrantsTyped ==
  ASSUME NEW own, AccountsInv, issued' \subseteq Rewards, NEW j \in Jobs \ Desks, Standing(own, j), GrantsNext(j)
  PROVE  TypedStep(j)
<1>1. CASE job[j].todo = <<>>
  <2>1. (j \in Runs /\ \E u \in Loyal : BeginGrant(j, u)) \/ (j \in Givers /\ BeginGive(j)) \/ (j \in Flushers /\ BeginFlush(j))
    <3>1. Idle(j) /\ ~AwaitStep(j)
      BY <1>1, AwaitBusy DEF Idle
    <3> QED BY <3>1 DEF GrantsNext, GrantStep, Interruptible, Fault, Crash, ReadState, Eligible, TakeLock, Aim, Extend, Mark,
         Done, SetState, GiveDiscount, Unlock, GivePoints, GiveDays, Issue, ListPending, Flush, At
  <2>2. (j \in Givers \cup Flushers => j \notin Runs) /\ j \notin Desks
    BY JobAssumption
  <2> QED BY <2>1, <2>2, TaskBegunTyped
<1>2. CASE job[j].todo # <<>>
  <2>1. Engaged(own, j)
    BY <1>2 DEF Standing, Engaged, AccountsInv, TasksOK
  <2>2. LET h == Head(job[j].todo) IN
         /\ j \in Runs \cup Givers \cup Flushers /\ j \notin Desks
         /\ h \in {"seen", "eligible", "lock", "aim", "extend", "mark", "done", "discount", "unlock"} => j \in Runs
         /\ h = "points" => j \in Givers
         /\ h \in {"days", "issue"} => j \in Givers \cup Flushers
         /\ h \in {"points", "days", "issue"} => job[j].ask.to \in Rewards
         /\ h \in {"pending", "flush"} => j \in Flushers
    BY <1>2, KindsOfTask
  <2>3. j \in Givers \cup Flushers => j \notin Runs
    BY JobAssumption
  <2>4. RunsInv
    BY DEF AccountsInv
  <2>5. CASE Interruptible(j)
    BY <2>1, <2>5, AwaitTyped DEF Interruptible
  <2>6. CASE ReadState(j) \/ Eligible(j) \/ TakeLock(j) \/ Mark(j) \/ Done(j) \/ Unlock(j)
    <3>1. Head(job[j].todo) \in {"seen", "eligible", "lock", "mark", "done", "unlock"}
      BY <2>6 DEF ReadState, Eligible, TakeLock, Mark, Done, Unlock, SetState, At
    <3> QED BY <2>1, <2>2, <2>4, <2>6, <3>1, RunLooksTyped
  <2>7. CASE Aim(j)
    <3>1. Head(job[j].todo) = "aim"
      BY <2>7 DEF Aim, At
    <3> QED BY <2>1, <2>2, <2>4, <2>7, <3>1, AimTyped
  <2>8. CASE Extend(j)
    <3>1. Head(job[j].todo) = "extend"
      BY <2>8 DEF Extend, At
    <3> QED BY <2>1, <2>2, <2>8, <3>1, ExtendTyped
  <2>9. CASE GiveDiscount(j) \/ GivePoints(j)
    <3>1. GivePoints(j) => Head(job[j].todo) = "points"
      BY DEF GivePoints, At
    <3> QED BY <2>1, <2>2, <2>9, <3>1, GiftTyped
  <2>10. CASE GiveDays(j)
    <3>1. Head(job[j].todo) = "days"
      BY <2>10 DEF GiveDays, At
    <3> QED BY <2>1, <2>2, <2>10, <3>1, GiveDaysTyped
  <2>11. CASE ListPending(j) \/ Flush(j) \/ Issue(j)
    <3>1. Head(job[j].todo) \in {"pending", "flush", "issue"}
      BY <2>11 DEF ListPending, Flush, Issue, At
    <3>2. j \in Givers \cup Flushers
      BY <2>2, <3>1
    <3> QED BY <2>1, <2>2, <2>3, <2>11, <3>2, FlushTyped
  <2>12. CASE Crash(j)
    BY <2>1, <2>12, CrashTyped
  <2>13. ~BeginGive(j) /\ ~BeginFlush(j) /\ \A u : ~BeginGrant(j, u)
    BY <1>2 DEF BeginGive, BeginFlush, BeginGrant, Idle
  <2> QED BY <2>5, <2>6, <2>7, <2>8, <2>9, <2>10, <2>11, <2>12, <2>13 DEF GrantsNext, GrantStep
<1> QED BY <1>1, <1>2

-----------------------------------------------------------------------------
(* Every step                                                              *)

\* At first the stores hold what StartAssumption says, no copy is in Redis and nobody is at work.
LEMMA TypesStart == Init => StoresTyped /\ RecordsOK
<1> SUFFICES ASSUME Init PROVE StoresTyped /\ RecordsOK
  OBVIOUS
<1>1. PICK s \in Start : /\ DashboardInit(s.agenda.at) /\ agenda = s.agenda
                         /\ AccountInit(s.people, s.subscriptions, s.panel, s.apart)
                         /\ GrantsInit({RewardOf[g] : g \in s.agenda.jobs \cap Givers})
  BY DEF Init
<1>2. /\ s.apart \subseteq Users /\ DOMAIN s.people = Users /\ DOMAIN s.panel = Users
      /\ \A id \in DOMAIN s.subscriptions : s.subscriptions[id] \in SubRecords /\ s.subscriptions[id].account < MaxAccounts
      /\ \A u \in Users : /\ s.panel[u] # None => s.panel[u] \in AccountRecords /\ s.panel[u].uuid < MaxAccounts
                          /\ s.people[u] \in UserRecords
  BY StartAssumption
<1>3. /\ person = s.people /\ subs = s.subscriptions /\ account = s.panel /\ accounts = MaxAccounts - 1
      /\ userCache = [u \in Users |-> Empty] /\ subCache = [u \in Users |-> Empty]
      /\ job = [j \in Jobs |-> IdleJob] /\ disturbed = s.apart
      /\ due = [u \in Users |-> [points |-> s.people[u].points, days |-> DaysOf(u)]]
      /\ state = [u \in Users |-> NoState] /\ issued = {}
  BY <1>1 DEF AccountInit, GrantsInit
<1>4. MaxAccounts \in Nat \ {0} /\ accounts \in Nat /\ accounts = MaxAccounts - 1
  <2>1. MaxAccounts \in Nat \ {0}
    BY AccountAssumption
  <2>2. accounts = MaxAccounts - 1
    BY <1>3
  <2> QED BY <2>1, <2>2
<1>5. PersonsTyped
  BY <1>2, <1>3 DEF PersonsTyped
<1>6. PanelTyped
  <2>1. ASSUME NEW u \in Users, account[u] # None PROVE AccT(account[u], accounts)
    <3>1. account[u] \in AccountRecords /\ account[u].uuid < MaxAccounts
      BY <1>2, <1>3, <2>1
    <3>2. account[u].uuid \in Nat
      BY <3>1 DEF AccountRecords
    <3> QED BY <1>4, <3>1, <3>2 DEF AccT
  <2> QED BY <1>4, <2>1 DEF PanelTyped
<1>7. BillsTyped
  <2>1. ASSUME NEW id \in DOMAIN subs PROVE SubT(subs[id], accounts)
    <3>1. subs[id] \in SubRecords /\ subs[id].account < MaxAccounts
      BY <1>2, <1>3
    <3>2. subs[id].account \in Nat
      BY <3>1 DEF SubRecords
    <3> QED BY <1>4, <3>1, <3>2 DEF SubT
  <2> QED BY <2>1 DEF BillsTyped
<1>8. CopiesTyped
  BY <1>3 DEF CopiesTyped, Empty
<1>9. StateTyped
  BY <1>3 DEF StateTyped, NoState
<1>10. DueTyped
  BY <1>2, <1>3 DEF DueTyped
<1>11. RecordsOK
  BY <1>3, IdleOK DEF RecordsOK
<1> QED BY <1>5, <1>6, <1>7, <1>8, <1>9, <1>10, <1>11 DEF StoresTyped

\* What the stores, the copies in Redis and the records of the jobs are made of, with what
\* the proofs of the other theorems rest on.
TypedInv == AccountsInv /\ CopiesOK /\ StoresTyped /\ RecordsOK

\* Every step keeps the types.
LEMMA TypesStep == TypedInv /\ [Next]_vars => TypedInv'
<1> SUFFICES ASSUME TypedInv, [Next]_vars PROVE TypedInv'
  OBVIOUS
<1>1. AccountsInv' /\ CopiesOK'
  BY AccountsStep, CopiesStep DEF TypedInv
<1>2. issued' \subseteq Rewards
  BY <1>1 DEF AccountsInv, RewardsInv
<1>3. PICK own : CopiesInv(own)
  BY DEF TypedInv, CopiesOK
<1>4. DOMAIN job = Jobs /\ agenda.jobs \subseteq Jobs
  BY <1>3 DEF CopiesInv
<1>5. ASSUME NEW j \in Jobs, Own(j), TypedStep(j) PROVE TypedInv'
  <2>1. RecordsOK'
    BY <1>4, <1>5, RecordsKeep DEF TypedStep, TypedInv
  <2> QED BY <1>1, <1>5, <2>1 DEF TypedStep, TypedInv
<1>6. ASSUME NEW d \in agenda.jobs \cap Desks, DeskNext(d) PROVE TypedInv'
  <2>1. d \in Jobs /\ Standing(own, d) /\ DeskInv
    BY <1>3, <1>4 DEF Standing, TypedInv, CopiesOK
  <2> QED BY <1>5, <1>6, <2>1, DeskOwn, DeskNextTyped
<1>7. ASSUME NEW j \in agenda.jobs \ Desks, GrantsNext(j) PROVE TypedInv'
  <2>1. j \in Jobs \ Desks /\ Standing(own, j)
    BY <1>3, <1>4 DEF Standing, TypedInv
  <2>2. TypedStep(j)
    BY <1>2, <1>7, <2>1, GrantsTyped DEF TypedInv
  <2> QED BY <1>5, <1>7, <2>1, <2>2, GrantOwn
<1>8. CASE UNCHANGED vars
  <2>1. UNCHANGED <<person, subs, account, accounts, userCache, subCache, due, disturbed, state, issued, job>>
    BY <1>8 DEF vars, accountVars, stores, caches, history, grantVars
  <2>2. disturbed' \subseteq Users
    BY <2>1 DEF TypedInv, StoresTyped, DueTyped
  <2>3. StoresTyped'
    BY <2>1, <2>2, StoresRest DEF TypedInv
  <2>4. RecordsOK'
    BY <2>1 DEF TypedInv, RecordsOK
  <2> QED BY <1>1, <2>3, <2>4 DEF TypedInv
<1> QED BY <1>6, <1>7, <1>8 DEF Next

\* The inductive invariant implies the type invariant.
LEMMA TypesEnough == TypedInv => TypeOK
<1> SUFFICES ASSUME TypedInv PROVE TypeOK
  OBVIOUS
<1>1. PICK own \in [Subs -> Users] : CopiesInv(own)
  BY DEF TypedInv, CopiesOK
<1>2. StoresTyped /\ RecordsOK /\ accounts \in Nat
  BY AccountAssumption DEF TypedInv, StoresTyped, PanelTyped
<1>3. ASSUME NEW u \in Users
      PROVE  /\ person[u].current \in Subs \cup {None} /\ person[u].points \in Nat
             /\ account[u] # None => account[u].uuid \in 1..accounts /\ account[u].devices \in Nat
             /\ subCache[u].cached => subCache[u].value \in SubRecords \cup {None}
  <2>1. person[u] \in UserRecords
    BY <1>2 DEF StoresTyped, PersonsTyped
  <2>2. person[u].current \in Subs \cup {None} /\ person[u].points \in Nat
    BY <2>1 DEF UserRecords
  <2>3. account[u] # None => account[u].uuid \in 1..accounts /\ account[u].devices \in Nat
    <3>1. account[u] # None => account[u] \in AccountRecords /\ account[u].uuid <= accounts
      BY <1>2 DEF StoresTyped, PanelTyped, AccT
    <3>2. account[u] # None => account[u].uuid \in 1..MaxAccounts /\ account[u].devices \in Nat
      BY <3>1 DEF AccountRecords
    <3> QED BY <1>2, <3>1, <3>2, AccountAssumption
  <2>4. subCache[u].cached => subCache[u].value \in SubRecords \cup {None}
    BY <1>2 DEF StoresTyped, CopiesTyped, SubT
  <2> QED BY <2>2, <2>3, <2>4
<1>4. DOMAIN subs \subseteq Subs /\ \A id \in DOMAIN subs : subs[id] \in SubRecords
  BY <1>1, <1>2 DEF CopiesInv, StoresOK, StoresTyped, BillsTyped, SubT
<1>5. \A j \in Jobs : job[j].sub \in SubRecords \cup {None} /\ job[j].user \in Users \cup {None}
  BY <1>2 DEF RecordsOK, RecordOK, Sound, SubT
<1>6. disturbed \subseteq Users /\ issued \subseteq Rewards
  BY <1>2 DEF StoresTyped, DueTyped, StateTyped
<1> QED BY <1>3, <1>4, <1>5, <1>6 DEF TypeOK

\* The stores of billing and the panel, the copies in Redis and the records of the jobs are
\* of their types in every state: no handler, run or task leaves a field empty that another
\* reads, and no subscription names an account the panel has not created
\* (services/user.py, services/subscription.py, the panel).
THEOREM AccountsTyped == Spec => []TypeOK
<1>1. Init => TypedInv
  BY AccountsStart, CopiesStart, TypesStart DEF TypedInv
<1>2. TypedInv /\ [Next]_vars => TypedInv'
  BY TypesStep
<1>3. TypedInv => TypeOK
  BY TypesEnough
<1> QED BY <1>1, <1>2, <1>3, PTL DEF Spec
=============================================================================
