------------------------- MODULE NewcomersProofs --------------------------
(*************************************************************************)
(* Proofs about Onboarding, for any people, updates on the way, settings *)
(* and bounds; about Reminders, for any number of users, members and runs *)
(* of the task; about Experiments, for any users, requests, features' local *)
(* experiments and published configurations; and about Newcomers, which  *)
(* is Onboarding, Reminders and Experiments side by side.                *)
(*                                                                       *)
(* Onboarding: what is read is older than what billing says, and billing *)
(* only moves forward: a user is not forgotten, rules once accepted stay *)
(* accepted, a discount stays, a block stays (Forward).  So whatever an  *)
(* update holds, or Redis, is below what billing says (Below).           *)
(*                                                                       *)
(* RemindersKept needs that whoever carries a marker is excused          *)
(* (MarkersExcuse): a run drops a member when it finds one.  RemindedOnce *)
(* needs that a user who was reminded carries a marker, and which one a  *)
(* run past the first check will still find (OnceFor).                   *)
(*                                                                       *)
(* How Estimand evaluates matters to CoverageSticky only (WidenedServes): *)
(* to the rest, an evaluation comes from a published configuration that  *)
(* serves the user something, or is a fallback.                          *)
(*************************************************************************)
EXTENDS Newcomers, SequenceTheorems, FiniteSetTheorems, WellFoundedInduction, TLAPS

-----------------------------------------------------------------------------
(* Onboarding                                                              *)

Pcs == {"idle", "get", "fetch", "store", "access", "user", "clear", "chain", "link", "reward", "rules", "channel",
        "throttle", "handle", "push", "restart"}
Updates == [kind : Kinds \cup {"none"}, who : People \cup {Nobody}, pc : Pcs,
            next : {"idle", "access", "user", "rules", "channel"}, seen : User \cup {Nobody},
            answer : User \cup {Nobody}, barred : BOOLEAN, unknown : BOOLEAN]

\* From its creation, or from the end of its reading, an update has a user in hand.
Handed == {"clear", "chain", "link", "reward", "rules", "channel", "throttle", "handle", "push", "restart"}
SlotOK(r) ==
    /\ r \in Updates
    /\ r.pc = "idle" <=> r = NoUpdate
    /\ r.pc # "idle" => r.who \in People /\ r.kind \in Kinds /\ r.next # "idle"
    /\ r.pc \in {"get", "fetch"} => r.next \in {"access", "user"}
    /\ r.pc \in Handed \/ r.next \in {"rules", "channel"} => r.seen # Nobody

Types ==
    /\ house \in Houses
    /\ billing \in [People -> Account]
    /\ copy \in [People -> User \cup {Nobody, NoCopy}]
    /\ update \in [Slots -> Updates] /\ \A s \in Slots : SlotOK(update[s])
    /\ UNION {panelSquad, told, joined, throttled, waitlist, blocking, stale, members, unchecked, invited, dropped}
          \subseteq People
    /\ joinedCopy \in [People -> {"none", "in", "out"}]
    /\ joined \subseteq members

\* value v says nothing of p that billing does not
LessThan(v, w) ==
    v \in User => /\ w \in User
                  /\ v.accepted => w.accepted
                  /\ v.discount => w.discount
                  /\ v.privileged = w.privileged
Below ==
    /\ \A p \in People : LessThan(copy[p], billing[p].user)
    /\ \A s \in Slots : update[s].pc # "idle" => /\ LessThan(Seen(s), billing[Who(s)].user)
                                                 /\ LessThan(update[s].answer, billing[Who(s)].user)

----------------------------------------------------------------------------
\* Neither Nobody nor NoCopy is a user, and the settings are what they say.
LEMMA Constants ==
    /\ Nobody \notin User /\ NoCopy \notin User /\ NoCopy # Nobody
    /\ \A h \in Houses : IsHouse(h)
BY HousesAssumption, NobodyAssumption

LEMMA NoUpdateType == SlotOK(NoUpdate) /\ NoUpdate.pc = "idle"
BY DEF NoUpdate, SlotOK, Updates, Pcs, Handed

LEMMA TypesInit == OnboardingInit => Types
<1> SUFFICES ASSUME OnboardingInit PROVE Types
    OBVIOUS
<1>1. house.knows \subseteq Account
    BY Constants DEF OnboardingInit, IsHouse
<1>2. billing \in [People -> Account] /\ copy \in [People -> User \cup {Nobody, NoCopy}]
    BY <1>1 DEF OnboardingInit
<1>3. update \in [Slots -> Updates] /\ \A s \in Slots : SlotOK(update[s])
    BY NoUpdateType DEF OnboardingInit, SlotOK
<1>4. joinedCopy \in [People -> {"none", "in", "out"}]
    BY DEF OnboardingInit
<1>5. UNION {panelSquad, told, joined, throttled, waitlist, blocking, stale, members, unchecked, invited, dropped}
          \subseteq People /\ house \in Houses /\ joined \subseteq members
    BY DEF OnboardingInit
<1>6. QED
    BY <1>2, <1>3, <1>4, <1>5 DEF Types

\* What an update that is on its way holds.
LEMMA OnItsWay ==
    ASSUME Types, NEW s \in Slots, update[s].pc # "idle"
    PROVE  /\ Who(s) \in People /\ update[s].kind \in Kinds /\ update[s].next # "idle"
           /\ Seen(s) \in User \cup {Nobody} /\ update[s].answer \in User \cup {Nobody}
           /\ update[s].pc \in Handed => Seen(s) \in User
           /\ update[s] \in Updates
BY DEF Types, SlotOK, Updates, Who, Seen

\* Whoever an update knows, billing knows.
LEMMA Registered ==
    ASSUME Types, Below, NEW s \in Slots, update[s].pc # "idle", Seen(s) # Nobody
    PROVE  Seen(s) \in User /\ billing[Who(s)].user \in User
BY OnItsWay DEF Below, LessThan

\* A step of one update, to a record as it should be, keeps all of them as they should be.
LEMMA SlotStep ==
    ASSUME Types, NEW s \in Slots, NEW r, SlotOK(r), update' = [update EXCEPT ![s] = r]
    PROVE  update' \in [Slots -> Updates] /\ \A t \in Slots : SlotOK(update'[t])
BY DEF Types, SlotOK

\* The ways a step goes on.
LEMMA Goes ==
    ASSUME Types, NEW s \in Slots, update[s].pc # "idle", NEW pc \in Pcs \ {"idle"},
           pc \in Handed => Seen(s) # Nobody, pc \in {"get", "fetch"} => update[s].next \in {"access", "user"}, GoesTo(s, pc)
    PROVE  update' \in [Slots -> Updates] /\ \A t \in Slots : SlotOK(update'[t])
<1> DEFINE r == [update[s] EXCEPT !.pc = pc]
<1>a. SlotOK(update[s]) /\ r \in Updates
    BY DEF Types, SlotOK, Updates
<1>b. /\ r.pc = pc /\ r.who = update[s].who /\ r.kind = update[s].kind
      /\ r.next = update[s].next /\ r.seen = update[s].seen
    BY <1>a DEF SlotOK, Updates
<1>1. SlotOK(r)
    BY <1>a, <1>b, NoUpdateType DEF SlotOK, Seen
<1>2. update' = [update EXCEPT ![s] = r]
    BY DEF GoesTo
<1>3. QED
    BY <1>1, <1>2, SlotStep

LEMMA EndsWell ==
    ASSUME Types, NEW s \in Slots, Ended(s)
    PROVE  update' \in [Slots -> Updates] /\ \A t \in Slots : SlotOK(update'[t])
BY NoUpdateType, SlotStep DEF Ended

LEMMA Writes ==
    ASSUME Types, NEW s \in Slots, update[s].pc # "idle", NEW user \in User, NEW seen \in User,
           NEW next \in {"rules", "channel"}, WriteUser(s, user, seen, next)
    PROVE  /\ update' \in [Slots -> Updates] /\ \A t \in Slots : SlotOK(update'[t])
           /\ billing' \in [People -> Account]
<1> DEFINE r == [update[s] EXCEPT !.seen = seen, !.answer = user, !.pc = "store", !.next = next]
<1>a. SlotOK(update[s]) /\ r \in Updates
    BY DEF Types, SlotOK, Updates, Pcs
<1>b. /\ r.pc = "store" /\ r.who = update[s].who /\ r.kind = update[s].kind
      /\ r.next = next /\ r.seen = seen
    BY <1>a DEF SlotOK, Updates
<1>1. SlotOK(r)
    BY <1>a, <1>b, NoUpdateType, Constants DEF SlotOK, Handed
<1>2. update' = [update EXCEPT ![s] = r]
    BY DEF WriteUser
<1>3. billing' \in [People -> Account]
    BY OnItsWay DEF WriteUser, Types, Account
<1>4. QED
    BY <1>1, <1>2, <1>3, SlotStep

\* Every step keeps the types.
LEMMA TypesStep == Types /\ Below /\ [OnboardingNext]_onboardingVars => Types'
<1> SUFFICES ASSUME Types, Below, [OnboardingNext]_onboardingVars PROVE Types'
    OBVIOUS
<1> USE DEF world, gates, beta
<1> DEFINE Slotted == update' \in [Slots -> Updates] /\ \A t \in Slots : SlotOK(update'[t])
<1>1. ASSUME NEW s \in Slots, Arrive(s) PROVE Types'
  <2>1. PICK p \in People, kind \in house.kinds :
            update' = [update EXCEPT ![s] = [NoUpdate EXCEPT !.kind = kind, !.who = p, !.pc = "get", !.next = "access",
                                                           !.barred = Barred(p), !.unknown = Unknown(p)]]
      BY <1>1 DEF Arrive
  <2> DEFINE r == [NoUpdate EXCEPT !.kind = kind, !.who = p, !.pc = "get", !.next = "access",
                                   !.barred = Barred(p), !.unknown = Unknown(p)]
  <2>2. kind \in Kinds
      BY Constants DEF Types, IsHouse
  <2>3. Barred(p) \in BOOLEAN /\ Unknown(p) \in BOOLEAN
    <3>1. Unknown(p) \in BOOLEAN
        BY DEF Unknown
    <3>2. billing[p].user # Nobody => billing[p].user.blocked \in BOOLEAN
        BY DEF Types, Account, User
    <3>3. QED
        BY <3>1, <3>2 DEF Barred
  <2>4. r \in Updates /\ r.pc = "get" /\ r.who = p /\ r.kind = kind /\ r.next = "access"
      BY <2>2, <2>3, NoUpdateType DEF NoUpdate, Updates, Pcs
  <2>5. SlotOK(r)
      BY <2>2, <2>4, NoUpdateType DEF SlotOK, Handed
  <2>6. Slotted
      BY <2>1, <2>5, SlotStep
  <2>7. QED
      BY <1>1, <2>6 DEF Arrive, Types
<1>2. ASSUME NEW s \in Slots, GetCopy(s) PROVE Types'
  <2>0. update[s].pc = "get"
      BY <1>2 DEF GetCopy, AtUpdate
  <2>1. CASE copy[Who(s)] = NoCopy
    <3>1. GoesTo(s, "fetch")
        BY <1>2, <2>1 DEF GetCopy, GoesTo
    <3>2. update[s].next \in {"access", "user"}
        BY <2>0 DEF Types, SlotOK
    <3>3. "fetch" \in Pcs \ {"idle"} /\ "fetch" \notin Handed
        BY DEF Pcs, Handed
    <3>4. Slotted
        BY <2>0, <3>1, <3>2, <3>3, Goes
    <3>5. QED
        BY <1>2, <3>4 DEF GetCopy, Types
  <2>2. CASE copy[Who(s)] # NoCopy
    <3> DEFINE r == [update[s] EXCEPT !.seen = copy[Who(s)], !.pc = update[s].next]
    <3>1. update' = [update EXCEPT ![s] = r]
        BY <1>2, <2>2 DEF GetCopy
    <3>2. copy[Who(s)] \in User \cup {Nobody}
        BY <2>0, <2>2, OnItsWay DEF Types
    <3>3. r.pc \in {"access", "user"} /\ r \in Updates /\ r.who = update[s].who /\ r.kind = update[s].kind
          /\ r.next = update[s].next
        BY <2>0, <3>2 DEF Types, SlotOK, Updates, Pcs
    <3>4. SlotOK(r)
        BY <2>0, <3>3, OnItsWay, NoUpdateType DEF SlotOK, Types, Who, Handed
    <3>5. Slotted
        BY <3>1, <3>4, SlotStep
    <3>6. QED
        BY <1>2, <3>5 DEF GetCopy, Types
  <2>3. QED
      BY <2>1, <2>2
<1>3. ASSUME NEW s \in Slots, FetchUser(s) PROVE Types'
  <2>0. update[s].pc = "fetch"
      BY <1>3 DEF FetchUser, AtUpdate
  <2> DEFINE v == billing[Who(s)].user
             r == [update[s] EXCEPT !.seen = v, !.answer = v, !.pc = "store"]
  <2>1. update' = [update EXCEPT ![s] = r]
      BY <1>3 DEF FetchUser
  <2>2. v \in User \cup {Nobody}
      BY <2>0, OnItsWay DEF Types, Account
  <2>3. r.pc = "store" /\ r \in Updates /\ r.who = update[s].who /\ r.kind = update[s].kind /\ r.next = update[s].next
      BY <2>0, <2>2 DEF Types, SlotOK, Updates, Pcs
  <2>4. SlotOK(r)
      BY <2>0, <2>3, OnItsWay, NoUpdateType DEF SlotOK, Types, Who, Handed
  <2>5. Slotted
      BY <2>1, <2>4, SlotStep
  <2>6. QED
      BY <1>3, <2>5 DEF FetchUser, Types
<1>4. ASSUME NEW s \in Slots, Store(s) PROVE Types'
  <2>0. update[s].pc = "store"
      BY <1>4 DEF Store, AtUpdate
  <2> DEFINE r == [update[s] EXCEPT !.answer = Nobody, !.pc = update[s].next]
  <2>1. update' = [update EXCEPT ![s] = r]
      BY <1>4 DEF Store
  <2>2. /\ r.pc \in {"access", "user", "rules", "channel"} /\ r.pc = r.next /\ r \in Updates /\ r.who = update[s].who
        /\ r.kind = update[s].kind /\ r.next = update[s].next /\ r.seen = update[s].seen
      BY <2>0, OnItsWay DEF Types, SlotOK, Updates, Pcs
  <2>3. SlotOK(r)
      BY <2>0, <2>2, OnItsWay, NoUpdateType DEF SlotOK, Types, Who, Handed
  <2>4. Slotted
      BY <2>1, <2>3, SlotStep
  <2>5. copy' \in [People -> User \cup {Nobody, NoCopy}] /\ stale' \subseteq People
      BY <1>4, <2>0, OnItsWay DEF Store, Types
  <2>6. QED
      BY <1>4, <2>4, <2>5 DEF Store, Types
<1>5. ASSUME NEW s \in Slots, Admit(s) PROVE Types'
  <2>0. update[s].pc = "access"
      BY <1>5 DEF Admit, AtUpdate
  <2> DEFINE r == [update[s] EXCEPT !.seen = Nobody, !.pc = "get", !.next = "user"]
  <2>1. update' = [update EXCEPT ![s] = r]
      BY <1>5 DEF Admit
  <2>2. r.pc = "get" /\ r \in Updates /\ r.who = update[s].who /\ r.kind = update[s].kind /\ r.next = "user"
      BY <2>0 DEF Types, SlotOK, Updates, Pcs
  <2>3. SlotOK(r)
      BY <2>0, <2>2, OnItsWay, NoUpdateType DEF SlotOK, Types, Who, Handed
  <2>4. Slotted
      BY <2>1, <2>3, SlotStep
  <2>5. QED
      BY <1>5, <2>4 DEF Admit, Types
<1>6. ASSUME NEW s \in Slots, Refuse(s) PROVE Types'
  <2>1. Slotted
      BY <1>6, EndsWell DEF Refuse
  <2>2. waitlist' \subseteq People
      BY <1>6, OnItsWay DEF Refuse, AtUpdate, Types
  <2>3. QED
      BY <1>6, <2>1, <2>2 DEF Refuse, Types
<1>7. ASSUME NEW s \in Slots, CompareAndUpdate(s) PROVE Types'
  <2>0. update[s].pc = "user" /\ Seen(s) # Nobody
      BY <1>7 DEF CompareAndUpdate, AtUpdate
  <2>1. CASE GoesTo(s, "rules") /\ UNCHANGED billing
    <3>1. Slotted
        BY <2>0, <2>1, Goes DEF Pcs
    <3>2. QED
        BY <1>7, <2>1, <3>1 DEF CompareAndUpdate, Types
  <2>2. CASE WriteUser(s, billing[Who(s)].user, Seen(s), "rules")
    <3>1. Slotted /\ billing' \in [People -> Account]
        BY <2>0, <2>2, Registered, Writes
    <3>2. QED
        BY <1>7, <3>1 DEF CompareAndUpdate, Types
  <2>3. QED
      BY <1>7, <2>1, <2>2 DEF CompareAndUpdate
<1>8. ASSUME NEW s \in Slots, Create(s) PROVE Types'
  <2>0. update[s].pc = "user"
      BY <1>8 DEF Create, AtUpdate
  <2> DEFINE user == IF billing[Who(s)].user = Nobody THEN NewUser ELSE billing[Who(s)].user
             r == [update[s] EXCEPT !.seen = user, !.pc = "clear"]
  <2>1. /\ update' = [update EXCEPT ![s] = r]
        /\ billing' = [billing EXCEPT ![Who(s)].user = user]
        /\ invited' \subseteq invited \cup {Who(s)}
      BY <1>8 DEF Create
  <2>2. user \in User
      BY <2>0, OnItsWay DEF NewUser, User, Types, Account
  <2>3. r.pc = "clear" /\ r \in Updates /\ r.who = update[s].who /\ r.kind = update[s].kind /\ r.seen = user
        /\ r.next = update[s].next
      BY <2>0, <2>2 DEF Types, SlotOK, Updates, Pcs
  <2> HIDE DEF r, user
  <2>4. SlotOK(r)
    <3>1. r.who \in People /\ r.kind \in Kinds /\ r.next # "idle" /\ r.seen # Nobody /\ r # NoUpdate
        BY <2>0, <2>2, <2>3, Constants, OnItsWay, NoUpdateType DEF Who
    <3>2. QED
        BY <2>3, <3>1 DEF SlotOK, Handed
  <2>5. Slotted
      BY <2>1, <2>4, SlotStep
  <2>6. billing' \in [People -> Account] /\ invited' \subseteq People
      BY <2>0, <2>1, <2>2, OnItsWay DEF Types, Account
  <2>7. QED
      BY <1>8, <2>5, <2>6 DEF Create, Types
<1>9. ASSUME NEW s \in Slots, ClearCopy(s) PROVE Types'
  <2>0. update[s].pc = "clear" /\ Seen(s) # Nobody
      BY <1>9, OnItsWay, Constants DEF ClearCopy, AtUpdate, Handed
  <2>1. Slotted
      BY <1>9, <2>0, Goes DEF ClearCopy, Pcs
  <2>2. copy' \in [People -> User \cup {Nobody, NoCopy}]
      BY <1>9 DEF ClearCopy, Types
  <2>3. QED
      BY <1>9, <2>1, <2>2 DEF ClearCopy, Types
<1>10. ASSUME NEW s \in Slots, Chain(s) PROVE Types'
  <2>0. update[s].pc = "chain" /\ Seen(s) # Nobody
      BY <1>10, OnItsWay, Constants DEF Chain, AtUpdate, Handed
  <2>1. Slotted
      BY <1>10, <2>0, Goes DEF Chain, Pcs
  <2>2. QED
      BY <1>10, <2>1 DEF Chain, Types
<1>11. ASSUME NEW s \in Slots, CreateReferral(s) PROVE Types'
  <2>0. update[s].pc = "link" /\ Seen(s) # Nobody
      BY <1>11, OnItsWay, Constants DEF CreateReferral, AtUpdate, Handed
  <2>1. Slotted
      BY <1>11, <2>0, Goes DEF CreateReferral, Pcs
  <2>2. billing' \in [People -> Account]
      BY <1>11, <2>0, OnItsWay DEF CreateReferral, Types, Account
  <2>3. QED
      BY <1>11, <2>1, <2>2 DEF CreateReferral, Types
<1>12. ASSUME NEW s \in Slots, ApplyInviteeReward(s) PROVE Types'
  <2>0. update[s].pc = "reward" /\ Seen(s) # Nobody
      BY <1>12, OnItsWay, Constants DEF ApplyInviteeReward, AtUpdate, Handed
  <2>1. CASE GoesTo(s, "rules") /\ UNCHANGED billing
    <3>1. Slotted
        BY <2>0, <2>1, Goes DEF Pcs
    <3>2. QED
        BY <1>12, <2>1, <3>1 DEF ApplyInviteeReward, Types
  <2>2. CASE WriteUser(s, [billing[Who(s)].user EXCEPT !.discount = TRUE], [Seen(s) EXCEPT !.discount = TRUE], "rules")
    <3>1. [billing[Who(s)].user EXCEPT !.discount = TRUE] \in User /\ [Seen(s) EXCEPT !.discount = TRUE] \in User
        BY <2>0, Registered DEF User
    <3>2. Slotted /\ billing' \in [People -> Account]
        BY <2>0, <2>2, <3>1, Writes
    <3>3. QED
        BY <1>12, <3>2 DEF ApplyInviteeReward, Types
  <2>3. QED
      BY <1>12, <2>1, <2>2 DEF ApplyInviteeReward
<1>13. ASSUME NEW s \in Slots, AcceptRules(s) PROVE Types'
  <2>0. update[s].pc = "rules" /\ Seen(s) # Nobody
      BY <1>13, OnItsWay, Constants DEF AcceptRules, AtUpdate, Handed
  <2>1. CASE GoesTo(s, "channel") /\ UNCHANGED billing
    <3>1. Slotted
        BY <2>0, <2>1, Goes DEF Pcs
    <3>2. QED
        BY <1>13, <2>1, <3>1 DEF AcceptRules, Types
  <2>2. CASE WriteUser(s, [billing[Who(s)].user EXCEPT !.accepted = TRUE], [Seen(s) EXCEPT !.accepted = TRUE], "channel")
    <3>1. [billing[Who(s)].user EXCEPT !.accepted = TRUE] \in User /\ [Seen(s) EXCEPT !.accepted = TRUE] \in User
        BY <2>0, Registered DEF User
    <3>2. Slotted /\ billing' \in [People -> Account]
        BY <2>0, <2>2, <3>1, Writes
    <3>3. QED
        BY <1>13, <3>2 DEF AcceptRules, Types
  <2>3. QED
      BY <1>13, <2>1, <2>2 DEF AcceptRules
<1>14. ASSUME NEW s \in Slots, CheckRules(s) PROVE Types'
  <2>0. update[s].pc = "rules" /\ Seen(s) # Nobody
      BY <1>14, OnItsWay, Constants DEF CheckRules, AtUpdate, Handed
  <2>1. Slotted
      BY <1>14, <2>0, Goes, EndsWell DEF CheckRules, Pcs
  <2>2. QED
      BY <1>14, <2>1 DEF CheckRules, Types
<1>15. ASSUME NEW s \in Slots, CheckChannel(s) PROVE Types'
  <2>0. update[s].pc = "channel" /\ Seen(s) # Nobody
      BY <1>15, OnItsWay, Constants DEF CheckChannel, AtUpdate, Handed
  <2>1. GoesTo(s, "throttle") \/ Ended(s)
      BY <1>15 DEF CheckChannel
  <2>2. Slotted
      BY <2>0, <2>1, Goes, EndsWell DEF Pcs
  <2>3. joinedCopy' \in [People -> {"none", "in", "out"}]
      BY <1>15, <2>0, OnItsWay DEF CheckChannel, Types
  <2>4. QED
      BY <1>15, <2>2, <2>3 DEF CheckChannel, Types
<1>16. ASSUME NEW s \in Slots, SkipChannel(s) PROVE Types'
  <2>0. update[s].pc = "channel" /\ Seen(s) # Nobody /\ Who(s) \in People
      BY <1>16, OnItsWay, Constants DEF SkipChannel, AtUpdate, Handed
  <2>1. Slotted
      BY <1>16, <2>0, Goes DEF SkipChannel, Pcs
  <2>2. QED
      BY <1>16, <2>0, <2>1 DEF SkipChannel, Types
<1>17. ASSUME NEW s \in Slots, Throttle(s) PROVE Types'
  <2>0. update[s].pc = "throttle" /\ Seen(s) # Nobody /\ Who(s) \in People
      BY <1>17, OnItsWay, Constants DEF Throttle, AtUpdate, Handed
  <2>1. Slotted
      BY <1>17, <2>0, Goes, EndsWell DEF Throttle, Pcs
  <2>2. QED
      BY <1>17, <2>0, <2>1 DEF Throttle, Types
<1>18. ASSUME NEW s \in Slots, HandleMenu(s) PROVE Types'
    BY <1>18, EndsWell DEF HandleMenu, Types
<1>19. ASSUME NEW s \in Slots, GetTrial(s) PROVE Types'
  <2>1. Slotted
      BY <1>19, EndsWell DEF GetTrial
  <2>2. billing' \in [People -> Account]
      BY <1>19, OnItsWay DEF GetTrial, AtUpdate, Types, Account
  <2>3. QED
      BY <1>19, <2>1, <2>2 DEF GetTrial, Types
<1>20. ASSUME NEW s \in Slots, EnrollAtBilling(s) PROVE Types'
  <2>0. update[s].pc = "handle" /\ Seen(s) # Nobody
      BY <1>20, OnItsWay, Constants DEF EnrollAtBilling, AtUpdate, Handed
  <2>1. Slotted
      BY <1>20, <2>0, Goes, EndsWell DEF EnrollAtBilling, Pcs
  <2>2. billing' \in [People -> Account]
      BY <1>20, <2>0, OnItsWay DEF EnrollAtBilling, Types, Account
  <2>3. QED
      BY <1>20, <2>1, <2>2 DEF EnrollAtBilling, Types
<1>21. ASSUME NEW s \in Slots, EnrollAtPanel(s) PROVE Types'
  <2>0. update[s].pc = "push" /\ Seen(s) # Nobody /\ Who(s) \in People
      BY <1>21, OnItsWay, Constants DEF EnrollAtPanel, AtUpdate, Handed
  <2>1. Slotted
      BY <1>21, <2>0, Goes DEF EnrollAtPanel, Pcs
  <2>2. QED
      BY <1>21, <2>0, <2>1 DEF EnrollAtPanel, Types
<1>22. ASSUME NEW s \in Slots, RestartNodes(s) PROVE Types'
  <2>1. Slotted /\ Who(s) \in People
      BY <1>22, EndsWell, OnItsWay DEF RestartNodes, AtUpdate
  <2>2. QED
      BY <1>22, <2>1 DEF RestartNodes, Types
<1>23. ASSUME NEW s \in Slots, UpdateFault(s) PROVE Types'
  <2>1. Slotted /\ Who(s) \in People
      BY <1>23, EndsWell, OnItsWay DEF UpdateFault, AtUpdate
  <2>2. QED
      BY <1>23, <2>1 DEF UpdateFault, Types
<1>24. ASSUME NEW p \in People, SetBlock(p) PROVE Types'
  <2>1. billing' \in [People -> Account]
      BY <1>24 DEF SetBlock, Types, Account, User
  <2>2. QED
      BY <1>24, <2>1 DEF SetBlock, Turn, Types
<1>25. ASSUME NEW p \in People, ClearBlocked(p) PROVE Types'
    BY <1>25 DEF ClearBlocked, Types
<1>26. ASSUME NEW p \in People, JoinOrLeave(p) PROVE Types'
    BY <1>26 DEF JoinOrLeave, Turn, Types
<1>27. ASSUME NEW p \in People, Buys(p) PROVE Types'
  <2>1. billing' \in [People -> Account]
      BY <1>27 DEF Buys, Types, Account
  <2>2. QED
      BY <1>27, <2>1 DEF Buys, Turn, Types
<1>28. ASSUME NEW p \in People, TimePasses(p) PROVE Types'
    BY <1>28 DEF TimePasses, Types
<1>29. CASE UNCHANGED onboardingVars
    BY <1>29 DEF onboardingVars, Types
<1>30. QED
    BY <1>1, <1>2, <1>3, <1>4, <1>5, <1>6, <1>7, <1>8, <1>9, <1>10, <1>11, <1>12, <1>13, <1>14, <1>15, <1>16, <1>17,
       <1>18, <1>19, <1>20, <1>21, <1>22, <1>23, <1>24, <1>25, <1>26, <1>27, <1>28, <1>29
       DEF OnboardingNext, UpdateStep

----------------------------------------------------------------------------
(***************************************************************************)
(* Billing moves forward, and what is read stays below it.                 *)
(***************************************************************************)

Forward ==
    \A p \in People :
        /\ LessThan(billing[p].user, billing'[p].user)
        /\ billing[p].user \in User /\ billing[p].user.blocked => billing'[p].user.blocked
        /\ billing[p].referred => billing'[p].referred
        /\ billing[p].squad => billing'[p].squad
        /\ billing[p].subscription = "paid" => billing'[p].subscription = "paid"

\* A write of p at billing that is forward for p.
LEMMA ForwardFor ==
    ASSUME Types, NEW p \in People, NEW account \in Account, billing' = [billing EXCEPT ![p] = account],
           LessThan(billing[p].user, account.user),
           billing[p].user \in User /\ billing[p].user.blocked => account.user.blocked,
           billing[p].referred => account.referred, billing[p].squad => account.squad,
           billing[p].subscription = "paid" => account.subscription = "paid"
    PROVE  Forward
BY DEF Forward, LessThan, Types

\* A write of the user of an update, with no less than billing has.
LEMMA ForwardUser ==
    ASSUME Types, NEW p \in People, NEW user \in User, billing' = [billing EXCEPT ![p].user = user],
           LessThan(billing[p].user, user), billing[p].user \in User /\ billing[p].user.blocked => user.blocked
    PROVE  Forward /\ billing'[p].user = user
<1>1. billing[p] \in Account
    BY DEF Types
<1> DEFINE account == [billing[p] EXCEPT !.user = user]
<1>2. /\ account \in Account /\ account.user = user /\ account.referred = billing[p].referred
      /\ account.squad = billing[p].squad /\ account.subscription = billing[p].subscription
    BY <1>1 DEF Account
<1>3. billing' = [billing EXCEPT ![p] = account]
    OBVIOUS
<1> HIDE DEF account
<1>4. /\ LessThan(billing[p].user, account.user)
      /\ billing[p].user \in User /\ billing[p].user.blocked => account.user.blocked
    BY <1>2
<1>5. /\ billing[p].referred => account.referred
      /\ billing[p].squad => account.squad
      /\ billing[p].subscription = "paid" => account.subscription = "paid"
    BY <1>2
<1>6. Forward
    BY <1>2, <1>3, <1>4, <1>5, ForwardFor
<1>7. QED
    BY <1>2, <1>3, <1>6 DEF Types

LEMMA ForwardStep ==
    ASSUME Types, Below, [OnboardingNext]_onboardingVars
    PROVE  Forward
<1>1. CASE UNCHANGED billing
    BY <1>1 DEF Forward, LessThan
<1>2. ASSUME NEW s \in Slots, update[s].pc # "idle", Seen(s) # Nobody, NEW user, NEW seen, NEW next,
             LessThan(billing[Who(s)].user, user), user \in User, user.blocked = billing[Who(s)].user.blocked,
             WriteUser(s, user, seen, next)
      PROVE  Forward
    BY <1>2, OnItsWay, ForwardUser DEF WriteUser
<1>3. ASSUME NEW s \in Slots, CompareAndUpdate(s) PROVE Forward
  <2>1. update[s].pc # "idle" /\ Seen(s) # Nobody /\ billing[Who(s)].user \in User
      BY <1>3, Registered DEF CompareAndUpdate, AtUpdate
  <2>2. LessThan(billing[Who(s)].user, billing[Who(s)].user)
      BY DEF LessThan
  <2>3. QED
      BY <1>1, <1>2, <1>3, <2>1, <2>2 DEF CompareAndUpdate
<1>4. ASSUME NEW s \in Slots, Create(s) PROVE Forward
  <2>0. update[s].pc # "idle"
      BY <1>4 DEF Create, AtUpdate
  <2> DEFINE user == IF billing[Who(s)].user = Nobody THEN NewUser ELSE billing[Who(s)].user
  <2>1. Who(s) \in People /\ user \in User /\ LessThan(billing[Who(s)].user, user)
        /\ (billing[Who(s)].user \in User => user = billing[Who(s)].user)
      BY <2>0, OnItsWay, Constants DEF NewUser, User, LessThan, Types, Account
  <2>2. billing' = [billing EXCEPT ![Who(s)].user = user]
      BY <1>4 DEF Create
  <2> HIDE DEF user
  <2>3. QED
      BY <2>1, <2>2, ForwardUser
<1>5. ASSUME NEW s \in Slots, CreateReferral(s) PROVE Forward
  <2>1. Who(s) \in People /\ billing[Who(s)] \in Account
      BY <1>5, OnItsWay DEF CreateReferral, AtUpdate, Types
  <2> DEFINE account == [billing[Who(s)] EXCEPT !.referred = TRUE]
  <2>2. /\ account \in Account /\ account.user = billing[Who(s)].user /\ account.referred
        /\ account.squad = billing[Who(s)].squad /\ account.subscription = billing[Who(s)].subscription
      BY <2>1 DEF Account
  <2>3. billing' = [billing EXCEPT ![Who(s)] = account]
      BY <1>5 DEF CreateReferral
  <2> HIDE DEF account
  <2>4. QED
      BY <2>1, <2>2, <2>3, ForwardFor DEF LessThan
<1>6. ASSUME NEW s \in Slots, ApplyInviteeReward(s) PROVE Forward
  <2>0. update[s].pc # "idle" /\ Seen(s) # Nobody
      BY <1>6, OnItsWay, Constants DEF ApplyInviteeReward, AtUpdate, Handed
  <2>1. billing[Who(s)].user \in User
      BY <2>0, Registered
  <2> DEFINE user == [billing[Who(s)].user EXCEPT !.discount = TRUE]
  <2>2. LessThan(billing[Who(s)].user, user) /\ user \in User /\ user.blocked = billing[Who(s)].user.blocked
      BY <2>1 DEF User, LessThan
  <2>3. \/ UNCHANGED billing
        \/ WriteUser(s, user, [Seen(s) EXCEPT !.discount = TRUE], "rules")
      BY <1>6 DEF ApplyInviteeReward
  <2> HIDE DEF user
  <2>4. QED
      BY <1>1, <1>2, <2>0, <2>2, <2>3
<1>7. ASSUME NEW s \in Slots, AcceptRules(s) PROVE Forward
  <2>0. update[s].pc # "idle" /\ Seen(s) # Nobody
      BY <1>7, OnItsWay, Constants DEF AcceptRules, AtUpdate, Handed
  <2>1. billing[Who(s)].user \in User
      BY <2>0, Registered
  <2> DEFINE user == [billing[Who(s)].user EXCEPT !.accepted = TRUE]
  <2>2. LessThan(billing[Who(s)].user, user) /\ user \in User /\ user.blocked = billing[Who(s)].user.blocked
      BY <2>1 DEF User, LessThan
  <2>3. \/ UNCHANGED billing
        \/ WriteUser(s, user, [Seen(s) EXCEPT !.accepted = TRUE], "channel")
      BY <1>7 DEF AcceptRules
  <2> HIDE DEF user
  <2>4. QED
      BY <1>1, <1>2, <2>0, <2>2, <2>3
<1>8. ASSUME NEW s \in Slots, GetTrial(s) PROVE Forward
  <2>1. Who(s) \in People /\ billing[Who(s)] \in Account
      BY <1>8, OnItsWay DEF GetTrial, AtUpdate, Types
  <2> DEFINE account == [billing[Who(s)] EXCEPT !.subscription = "trial"]
  <2>2. /\ account \in Account /\ account.user = billing[Who(s)].user /\ account.referred = billing[Who(s)].referred
        /\ account.squad = billing[Who(s)].squad
      BY <2>1 DEF Account
  <2>3. \/ UNCHANGED billing
        \/ billing[Who(s)].subscription = "none" /\ billing' = [billing EXCEPT ![Who(s)] = account]
      BY <1>8 DEF GetTrial
  <2> HIDE DEF account
  <2>4. QED
      BY <1>1, <2>1, <2>2, <2>3, ForwardFor DEF LessThan
<1>9. ASSUME NEW s \in Slots, EnrollAtBilling(s) PROVE Forward
  <2>1. Who(s) \in People /\ billing[Who(s)] \in Account
      BY <1>9, OnItsWay DEF EnrollAtBilling, AtUpdate, Types
  <2> DEFINE account == [billing[Who(s)] EXCEPT !.squad = TRUE]
  <2>2. /\ account \in Account /\ account.user = billing[Who(s)].user /\ account.referred = billing[Who(s)].referred
        /\ account.squad /\ account.subscription = billing[Who(s)].subscription
      BY <2>1 DEF Account
  <2>3. UNCHANGED billing \/ billing' = [billing EXCEPT ![Who(s)] = account]
      BY <1>9 DEF EnrollAtBilling
  <2> HIDE DEF account
  <2>4. QED
      BY <1>1, <2>1, <2>2, <2>3, ForwardFor DEF LessThan
<1>10. ASSUME NEW p \in People, SetBlock(p) PROVE Forward
  <2>1. billing[p].user \in User
      BY <1>10 DEF SetBlock, Types, Account
  <2> DEFINE user == [billing[p].user EXCEPT !.blocked = TRUE]
  <2>2. LessThan(billing[p].user, user) /\ user \in User /\ user.blocked
      BY <2>1 DEF User, LessThan
  <2>3. billing' = [billing EXCEPT ![p].user = user]
      BY <1>10 DEF SetBlock
  <2> HIDE DEF user
  <2>4. QED
      BY <2>2, <2>3, ForwardUser
<1>11. ASSUME NEW p \in People, Buys(p) PROVE Forward
  <2>1. billing[p] \in Account
      BY DEF Types
  <2> DEFINE account == [billing[p] EXCEPT !.subscription = "paid"]
  <2>2. /\ account \in Account /\ account.user = billing[p].user /\ account.referred = billing[p].referred
        /\ account.squad = billing[p].squad /\ account.subscription = "paid"
      BY <2>1 DEF Account
  <2>3. billing' = [billing EXCEPT ![p] = account]
      BY <1>11 DEF Buys
  <2> HIDE DEF account
  <2>4. QED
      BY <2>2, <2>3, ForwardFor DEF LessThan
<1>12. QED
    BY <1>1, <1>3, <1>4, <1>5, <1>6, <1>7, <1>8, <1>9, <1>10, <1>11
       DEF OnboardingNext, UpdateStep, onboardingVars, Arrive, GetCopy, FetchUser, Store, Admit, Refuse, ClearCopy, Chain,
           CheckRules, CheckChannel, SkipChannel, Throttle, HandleMenu, EnrollAtPanel, RestartNodes, UpdateFault,
           ClearBlocked, JoinOrLeave, TimePasses

LEMMA BelowInit == OnboardingInit => Below
BY Constants DEF OnboardingInit, Below, LessThan, NoUpdate

\* What was below billing is below what billing says after a step.
LEMMA StillBelow ==
    ASSUME Types, Forward, NEW p \in People, NEW v, LessThan(v, billing[p].user)
    PROVE  LessThan(v, billing'[p].user)
<1>1. LessThan(billing[p].user, billing'[p].user)
    BY DEF Forward
<1>2. QED
    BY <1>1 DEF LessThan

\* A step of one update that leaves below billing what it holds and what it keeps in Redis.
LEMMA BelowFrom ==
    ASSUME Types, Below, Forward, NEW s \in Slots, NEW r \in Updates, update' = [update EXCEPT ![s] = r],
           r.pc # "idle" => LessThan(r.seen, billing'[r.who].user) /\ LessThan(r.answer, billing'[r.who].user),
           \A p \in People : copy'[p] = copy[p] \/ LessThan(copy'[p], billing'[p].user)
    PROVE  Below'
<1>1. ASSUME NEW p \in People PROVE LessThan(copy'[p], billing'[p].user)
    BY <1>1, StillBelow DEF Below
<1>2. ASSUME NEW t \in Slots, update'[t].pc # "idle"
      PROVE  LessThan(update'[t].seen, billing'[update'[t].who].user)
             /\ LessThan(update'[t].answer, billing'[update'[t].who].user)
  <2>1. CASE t = s
      BY <1>2, <2>1 DEF Types
  <2>2. CASE t # s
    <3>1. update'[t] = update[t] /\ update[t].pc # "idle"
        BY <1>2, <2>2 DEF Types
    <3>2. Who(t) \in People /\ LessThan(Seen(t), billing[Who(t)].user) /\ LessThan(update[t].answer, billing[Who(t)].user)
        BY <3>1, OnItsWay DEF Below
    <3>3. QED
        BY <3>1, <3>2, StillBelow DEF Who, Seen
  <2>3. QED
      BY <2>1, <2>2
<1>3. QED
    BY <1>1, <1>2 DEF Below, Seen, Who, LessThan

\* A step that leaves what the updates hold.
LEMMA BelowKept ==
    ASSUME Types, Below, Forward, NEW s \in Slots, (\E pc \in Pcs : update[s].pc # "idle" /\ GoesTo(s, pc)) \/ Ended(s),
           \A p \in People : copy'[p] = copy[p] \/ copy'[p] = NoCopy
    PROVE  Below'
<1>1. \A p \in People : copy'[p] = copy[p] \/ LessThan(copy'[p], billing'[p].user)
    BY Constants DEF LessThan
<1>2. CASE Ended(s)
    BY <1>1, <1>2, BelowFrom, NoUpdateType DEF Ended, SlotOK
<1>3. ASSUME NEW pc \in Pcs, update[s].pc # "idle", GoesTo(s, pc) PROVE Below'
  <2> DEFINE r == [update[s] EXCEPT !.pc = pc]
  <2>1. r \in Updates /\ r.seen = Seen(s) /\ r.answer = update[s].answer /\ r.who = Who(s)
      BY <1>3, OnItsWay DEF Updates, Seen, Who
  <2>2. update' = [update EXCEPT ![s] = r]
      BY <1>3 DEF GoesTo
  <2> HIDE DEF r
  <2>3. LessThan(r.seen, billing'[r.who].user) /\ LessThan(r.answer, billing'[r.who].user)
      BY <1>3, <2>1, OnItsWay, StillBelow DEF Below
  <2>4. QED
      BY <1>1, <2>1, <2>2, <2>3, BelowFrom
<1>4. QED
    BY <1>2, <1>3

\* A step of update.
LEMMA BelowWrites ==
    ASSUME Types, Below, Forward, NEW s \in Slots, update[s].pc # "idle", NEW user \in User, NEW seen \in User,
           NEW next \in {"rules", "channel"}, WriteUser(s, user, seen, next), LessThan(seen, user), UNCHANGED copy
    PROVE  Below'
<1> DEFINE r == [update[s] EXCEPT !.seen = seen, !.answer = user, !.pc = "store", !.next = next]
<1>1. r \in Updates /\ r.seen = seen /\ r.answer = user /\ r.who = Who(s)
    BY OnItsWay DEF Updates, Pcs, Seen, Who
<1>2. update' = [update EXCEPT ![s] = r] /\ billing'[Who(s)].user = user
    BY OnItsWay DEF WriteUser, Types, Account
<1> HIDE DEF r
<1>3. LessThan(user, user)
    BY DEF LessThan
<1>4. QED
    BY <1>1, <1>2, <1>3, BelowFrom

LEMMA BelowStep == Types /\ Below /\ [OnboardingNext]_onboardingVars => Below'
<1> SUFFICES ASSUME Types, Below, [OnboardingNext]_onboardingVars PROVE Below'
    OBVIOUS
<1> USE DEF world, gates, beta
<1>0. Forward /\ Types'
    BY ForwardStep, TypesStep
<1>1. ASSUME NEW s \in Slots, Arrive(s) PROVE Below'
  <2>1. PICK p \in People, kind \in house.kinds :
            update' = [update EXCEPT ![s] = [NoUpdate EXCEPT !.kind = kind, !.who = p, !.pc = "get", !.next = "access",
                                                           !.barred = Barred(p), !.unknown = Unknown(p)]]
      BY <1>1 DEF Arrive
  <2> DEFINE r == [NoUpdate EXCEPT !.kind = kind, !.who = p, !.pc = "get", !.next = "access",
                                   !.barred = Barred(p), !.unknown = Unknown(p)]
  <2>2. r.seen = Nobody /\ r.answer = Nobody
      BY DEF NoUpdate
  <2>3. update'[s] = r /\ update' = [update EXCEPT ![s] = r]
      BY <2>1 DEF Types
  <2> HIDE DEF r
  <2>4. r \in Updates
      BY <1>0, <2>3 DEF Types
  <2>5. LessThan(r.seen, billing'[r.who].user) /\ LessThan(r.answer, billing'[r.who].user)
      BY <2>2, Constants DEF LessThan
  <2>6. \A q \in People : copy'[q] = copy[q]
      BY <1>1 DEF Arrive
  <2>7. update' = [update EXCEPT ![s] = r]
      BY <2>3
  <2>8. QED
      BY <1>0, <2>4, <2>5, <2>6, <2>7, BelowFrom
<1>2. ASSUME NEW s \in Slots, GetCopy(s) PROVE Below'
  <2>1. CASE copy[Who(s)] = NoCopy
    <3>1. GoesTo(s, "fetch") /\ UNCHANGED copy /\ update[s].pc # "idle" /\ "fetch" \in Pcs
        BY <1>2, <2>1 DEF GetCopy, GoesTo, AtUpdate, Pcs
    <3>2. QED
        BY <1>0, <3>1, BelowKept
  <2>2. CASE copy[Who(s)] # NoCopy
    <3> DEFINE r == [update[s] EXCEPT !.seen = copy[Who(s)], !.pc = update[s].next]
    <3>1. update' = [update EXCEPT ![s] = r] /\ update[s].pc # "idle" /\ UNCHANGED copy
        BY <1>2, <2>2 DEF GetCopy, AtUpdate
    <3>2. r.seen = copy[Who(s)] /\ r.answer = update[s].answer /\ r.who = Who(s)
        BY <3>1, OnItsWay DEF Updates, Who
    <3>3. r \in Updates
        BY <1>0, <3>1 DEF Types
    <3> HIDE DEF r
    <3>4. LessThan(r.seen, billing'[r.who].user) /\ LessThan(r.answer, billing'[r.who].user)
        BY <1>0, <3>1, <3>2, OnItsWay, StillBelow DEF Below
    <3>5. QED
        BY <1>0, <3>1, <3>3, <3>4, BelowFrom
  <2>3. QED
      BY <2>1, <2>2
<1>3. ASSUME NEW s \in Slots, FetchUser(s) PROVE Below'
  <2> DEFINE v == billing[Who(s)].user
             r == [update[s] EXCEPT !.seen = v, !.answer = v, !.pc = "store"]
  <2>1. update' = [update EXCEPT ![s] = r] /\ update[s].pc # "idle" /\ UNCHANGED <<copy, billing>>
      BY <1>3 DEF FetchUser, AtUpdate
  <2>2. r.seen = v /\ r.answer = v /\ r.who = Who(s)
      BY <2>1, OnItsWay DEF Updates, Who
  <2>3. r \in Updates
      BY <1>0, <2>1 DEF Types
  <2> HIDE DEF r
  <2>4. QED
      BY <1>0, <2>1, <2>2, <2>3, BelowFrom DEF LessThan
<1>4. ASSUME NEW s \in Slots, Store(s) PROVE Below'
  <2> DEFINE r == [update[s] EXCEPT !.answer = Nobody, !.pc = update[s].next]
  <2>1. /\ update' = [update EXCEPT ![s] = r] /\ update[s].pc # "idle"
        /\ copy' = [copy EXCEPT ![Who(s)] = update[s].answer]
      BY <1>4 DEF Store, AtUpdate
  <2>2. r.seen = Seen(s) /\ r.answer = Nobody /\ r.who = Who(s)
      BY <2>1, OnItsWay DEF Updates, Who, Seen
  <2>3. r \in Updates
      BY <1>0, <2>1 DEF Types
  <2> HIDE DEF r
  <2>4. /\ LessThan(Seen(s), billing'[Who(s)].user) /\ LessThan(update[s].answer, billing'[Who(s)].user)
        /\ LessThan(Nobody, billing'[Who(s)].user)
      BY <1>0, <2>1, OnItsWay, StillBelow, Constants DEF Below, LessThan
  <2>5. \A p \in People : copy'[p] = copy[p] \/ LessThan(copy'[p], billing'[p].user)
      BY <2>1, <2>4 DEF Types
  <2>6. QED
      BY <1>0, <2>1, <2>2, <2>3, <2>4, <2>5, BelowFrom
<1>5. ASSUME NEW s \in Slots, Admit(s) PROVE Below'
  <2> DEFINE r == [update[s] EXCEPT !.seen = Nobody, !.pc = "get", !.next = "user"]
  <2>1. update' = [update EXCEPT ![s] = r] /\ update[s].pc # "idle" /\ UNCHANGED copy
      BY <1>5 DEF Admit, AtUpdate
  <2>2. r.seen = Nobody /\ r.answer = update[s].answer /\ r.who = Who(s)
      BY <2>1, OnItsWay DEF Updates, Who
  <2>3. r \in Updates
      BY <1>0, <2>1 DEF Types
  <2> HIDE DEF r
  <2>4. LessThan(Nobody, billing'[Who(s)].user) /\ LessThan(update[s].answer, billing'[Who(s)].user)
      BY <1>0, <2>1, OnItsWay, StillBelow, Constants DEF Below, LessThan
  <2>5. QED
      BY <1>0, <2>1, <2>2, <2>3, <2>4, BelowFrom
<1>6. ASSUME NEW s \in Slots, CompareAndUpdate(s) PROVE Below'
  <2>1. update[s].pc # "idle" /\ Seen(s) \in User /\ billing[Who(s)].user \in User /\ UNCHANGED copy
      BY <1>6, Registered DEF CompareAndUpdate, AtUpdate
  <2>2. LessThan(Seen(s), billing[Who(s)].user)
      BY <2>1 DEF Below
  <2>3. GoesTo(s, "rules") \/ WriteUser(s, billing[Who(s)].user, Seen(s), "rules")
      BY <1>6 DEF CompareAndUpdate
  <2>4. QED
      BY <1>0, <2>1, <2>2, <2>3, BelowKept, BelowWrites DEF Pcs
<1>7. ASSUME NEW s \in Slots, Create(s) PROVE Below'
  <2> DEFINE user == IF billing[Who(s)].user = Nobody THEN NewUser ELSE billing[Who(s)].user
             r == [update[s] EXCEPT !.seen = user, !.pc = "clear"]
  <2>1. /\ update' = [update EXCEPT ![s] = r] /\ update[s].pc # "idle" /\ UNCHANGED copy
        /\ billing' = [billing EXCEPT ![Who(s)].user = user]
      BY <1>7 DEF Create, AtUpdate
  <2>2. r.seen = user /\ r.answer = update[s].answer /\ r.who = Who(s)
      BY <2>1, OnItsWay DEF Updates, Who
  <2>3. r \in Updates
      BY <1>0, <2>1 DEF Types
  <2> HIDE DEF r, user
  <2>4. billing'[Who(s)].user = user
      BY <2>1, OnItsWay DEF Types, Account
  <2>5. LessThan(user, user) /\ LessThan(update[s].answer, billing'[Who(s)].user)
      BY <1>0, <2>1, OnItsWay, StillBelow DEF Below, LessThan
  <2>6. QED
      BY <1>0, <2>1, <2>2, <2>3, <2>4, <2>5, BelowFrom
<1>8. ASSUME NEW s \in Slots, ClearCopy(s) PROVE Below'
    BY <1>0, <1>8, BelowKept DEF ClearCopy, AtUpdate, Pcs, Types
<1>9. ASSUME NEW s \in Slots, Chain(s) \/ CreateReferral(s) \/ CheckRules(s) \/ EnrollAtBilling(s) \/ EnrollAtPanel(s)
      PROVE  Below'
    BY <1>0, <1>9, BelowKept DEF Chain, CreateReferral, CheckRules, EnrollAtBilling, EnrollAtPanel, AtUpdate, Pcs
<1>10. ASSUME NEW s \in Slots, ApplyInviteeReward(s) PROVE Below'
  <2>1. update[s].pc # "idle" /\ Seen(s) \in User /\ billing[Who(s)].user \in User /\ UNCHANGED copy
      BY <1>10, OnItsWay, Registered, Constants DEF ApplyInviteeReward, AtUpdate, Handed
  <2>2. LessThan(Seen(s), billing[Who(s)].user)
      BY <2>1 DEF Below
  <2> DEFINE user == [billing[Who(s)].user EXCEPT !.discount = TRUE]
             seen == [Seen(s) EXCEPT !.discount = TRUE]
  <2>3. GoesTo(s, "rules") \/ WriteUser(s, user, seen, "rules")
      BY <1>10 DEF ApplyInviteeReward
  <2>4. user \in User /\ seen \in User /\ LessThan(seen, user)
      BY <2>1, <2>2 DEF User, LessThan
  <2> HIDE DEF user, seen
  <2>5. QED
      BY <1>0, <2>1, <2>3, <2>4, BelowKept, BelowWrites DEF Pcs
<1>11. ASSUME NEW s \in Slots, AcceptRules(s) PROVE Below'
  <2>1. update[s].pc # "idle" /\ Seen(s) \in User /\ billing[Who(s)].user \in User /\ UNCHANGED copy
      BY <1>11, OnItsWay, Registered, Constants DEF AcceptRules, AtUpdate, Handed
  <2>2. LessThan(Seen(s), billing[Who(s)].user)
      BY <2>1 DEF Below
  <2> DEFINE user == [billing[Who(s)].user EXCEPT !.accepted = TRUE]
             seen == [Seen(s) EXCEPT !.accepted = TRUE]
  <2>3. GoesTo(s, "channel") \/ WriteUser(s, user, seen, "channel")
      BY <1>11 DEF AcceptRules
  <2>4. user \in User /\ seen \in User /\ LessThan(seen, user)
      BY <2>1, <2>2 DEF User, LessThan
  <2> HIDE DEF user, seen
  <2>5. QED
      BY <1>0, <2>1, <2>3, <2>4, BelowKept, BelowWrites DEF Pcs
<1>12. ASSUME NEW s \in Slots, CheckChannel(s) \/ SkipChannel(s) \/ Throttle(s) PROVE Below'
  <2>1. /\ GoesTo(s, "throttle") \/ GoesTo(s, "handle") \/ Ended(s)
        /\ update[s].pc # "idle" /\ UNCHANGED copy /\ {"throttle", "handle"} \subseteq Pcs
      BY <1>12 DEF CheckChannel, SkipChannel, Throttle, AtUpdate, Pcs
  <2>2. QED
      BY <1>0, <2>1, BelowKept
<1>13. ASSUME NEW s \in Slots, Refuse(s) \/ HandleMenu(s) \/ GetTrial(s) \/ RestartNodes(s) \/ UpdateFault(s)
       PROVE  Below'
    BY <1>0, <1>13, BelowKept DEF Refuse, HandleMenu, GetTrial, RestartNodes, UpdateFault
<1>14. CASE UNCHANGED update /\ \A p \in People : copy'[p] = copy[p] \/ copy'[p] = NoCopy
  <2>1. \A p \in People : LessThan(copy'[p], billing'[p].user)
      BY <1>0, <1>14, StillBelow, Constants DEF Below, LessThan
  <2>2. ASSUME NEW t \in Slots, update[t].pc # "idle"
        PROVE  LessThan(Seen(t), billing'[Who(t)].user) /\ LessThan(update[t].answer, billing'[Who(t)].user)
      BY <1>0, <2>2, OnItsWay, StillBelow DEF Below
  <2>3. QED
      BY <1>14, <2>1, <2>2 DEF Below, Seen, Who, LessThan
<1>15. ASSUME NEW p \in People, SetBlock(p) \/ ClearBlocked(p) \/ JoinOrLeave(p) \/ Buys(p) \/ TimePasses(p)
       PROVE  Below'
    BY <1>14, <1>15 DEF SetBlock, ClearBlocked, JoinOrLeave, Buys, TimePasses, Types
<1>16. CASE UNCHANGED onboardingVars
    BY <1>14, <1>16 DEF onboardingVars
<1>17. QED
    BY <1>1, <1>2, <1>3, <1>4, <1>5, <1>6, <1>7, <1>8, <1>9, <1>10, <1>11, <1>12, <1>13, <1>15, <1>16
       DEF OnboardingNext, UpdateStep

----------------------------------------------------------------------------
(***************************************************************************)
(* Who did it: an update changes by its own step, a user is registered by  *)
(* Create and blocked by SetBlock, and Redis forgets or is told by Store.  *)
(***************************************************************************)

SlotAction(s) == Arrive(s) \/ UpdateStep(s) \/ UpdateFault(s)

LEMMA OnlyOwn ==
    ASSUME Types, NEW s \in Slots, SlotAction(s), NEW t \in Slots, t # s
    PROVE  update'[t] = update[t]
<1>1. CASE Arrive(s) \/ GetCopy(s) \/ FetchUser(s) \/ Store(s) \/ Admit(s) \/ Create(s)
    BY <1>1 DEF Arrive, GetCopy, FetchUser, Store, Admit, Create, Types
<1>2. ASSUME NEW pc, GoesTo(s, pc) PROVE update'[t] = update[t]
    BY <1>2 DEF GoesTo, Types
<1>3. CASE Ended(s)
    BY <1>3 DEF Ended, Types
<1>4. ASSUME NEW user, NEW seen, NEW next, WriteUser(s, user, seen, next) PROVE update'[t] = update[t]
    BY <1>4 DEF WriteUser, Types
<1>5. QED
    BY <1>1, <1>2, <1>3, <1>4
       DEF SlotAction, UpdateStep, Refuse, CompareAndUpdate, ClearCopy, Chain, CreateReferral, ApplyInviteeReward,
           AcceptRules, CheckRules, CheckChannel, SkipChannel, Throttle, HandleMenu, GetTrial, EnrollAtBilling,
           EnrollAtPanel, RestartNodes, UpdateFault

LEMMA OwnStep ==
    ASSUME Types, [OnboardingNext]_onboardingVars, NEW t \in Slots, update'[t] # update[t]
    PROVE  SlotAction(t)
<1>1. PICK s \in Slots : SlotAction(s)
    BY DEF OnboardingNext, SlotAction, onboardingVars, SetBlock, ClearBlocked, JoinOrLeave, Buys, TimePasses, world
<1>2. QED
    BY <1>1, OnlyOwn

\* Who is newly known was registered, and who is newly blocked is being blocked.
LEMMA WhoWrote ==
    ASSUME Types, Below, [OnboardingNext]_onboardingVars, NEW p \in People, billing'[p].user \in User
    PROVE  /\ billing[p].user \in User \/ \E s \in Slots : Create(s) /\ Who(s) = p
           /\ billing'[p].user.blocked => (billing[p].user \in User /\ billing[p].user.blocked) \/ SetBlock(p)
<1> DEFINE Goal == /\ billing[p].user \in User \/ \E s \in Slots : Create(s) /\ Who(s) = p
                   /\ billing'[p].user.blocked => (billing[p].user \in User /\ billing[p].user.blocked) \/ SetBlock(p)
<1>1. CASE billing'[p].user = billing[p].user
    BY <1>1
<1>2. ASSUME NEW s \in Slots, update[s].pc # "idle", Seen(s) # Nobody, NEW user, NEW seen, NEW next,
             user.blocked = billing[Who(s)].user.blocked, WriteUser(s, user, seen, next)
      PROVE  Goal
  <2>1. CASE Who(s) = p
    <3>1. billing[p].user \in User /\ billing'[p].user = user
        BY <1>2, <2>1, Registered DEF WriteUser, Types, Account
    <3>2. QED
        BY <1>2, <2>1, <3>1
  <2>2. CASE Who(s) # p
      BY <1>1, <1>2, <2>2 DEF WriteUser, Types
  <2>3. QED
      BY <2>1, <2>2
<1>3. ASSUME NEW s \in Slots, CompareAndUpdate(s) PROVE Goal
    BY <1>1, <1>2, <1>3 DEF CompareAndUpdate, AtUpdate
<1>4. ASSUME NEW s \in Slots, Create(s) PROVE Goal
  <2> DEFINE user == IF billing[Who(s)].user = Nobody THEN NewUser ELSE billing[Who(s)].user
  <2>1. billing' = [billing EXCEPT ![Who(s)].user = user]
      BY <1>4 DEF Create
  <2>2. Who(s) = p => billing'[p].user = user /\ billing[p].user \in User \cup {Nobody}
      BY <2>1 DEF Types, Account
  <2>3. Who(s) # p => billing'[p].user = billing[p].user
      BY <2>1 DEF Types
  <2>4. user = billing[Who(s)].user \/ user.blocked = FALSE
      BY DEF NewUser
  <2> HIDE DEF user
  <2>5. QED
      BY <1>1, <1>4, <2>2, <2>3, <2>4
<1>5. ASSUME NEW s \in Slots, ApplyInviteeReward(s) PROVE Goal
  <2>0. update[s].pc # "idle" /\ Seen(s) # Nobody
      BY <1>5, OnItsWay, Constants DEF ApplyInviteeReward, AtUpdate, Handed
  <2>1. billing[Who(s)].user \in User
      BY <2>0, Registered
  <2> DEFINE user == [billing[Who(s)].user EXCEPT !.discount = TRUE]
  <2>2. user.blocked = billing[Who(s)].user.blocked
      BY <2>1 DEF User
  <2>3. UNCHANGED billing \/ WriteUser(s, user, [Seen(s) EXCEPT !.discount = TRUE], "rules")
      BY <1>5 DEF ApplyInviteeReward
  <2> HIDE DEF user
  <2>4. QED
      BY <1>1, <1>2, <2>0, <2>2, <2>3
<1>6. ASSUME NEW s \in Slots, AcceptRules(s) PROVE Goal
  <2>0. update[s].pc # "idle" /\ Seen(s) # Nobody
      BY <1>6, OnItsWay, Constants DEF AcceptRules, AtUpdate, Handed
  <2>1. billing[Who(s)].user \in User
      BY <2>0, Registered
  <2> DEFINE user == [billing[Who(s)].user EXCEPT !.accepted = TRUE]
  <2>2. user.blocked = billing[Who(s)].user.blocked
      BY <2>1 DEF User
  <2>3. UNCHANGED billing \/ WriteUser(s, user, [Seen(s) EXCEPT !.accepted = TRUE], "channel")
      BY <1>6 DEF AcceptRules
  <2> HIDE DEF user
  <2>4. QED
      BY <1>1, <1>2, <2>0, <2>2, <2>3
<1>7. ASSUME NEW s \in Slots, CreateReferral(s) \/ GetTrial(s) \/ EnrollAtBilling(s) PROVE Goal
  <2>1. billing'[p].user = billing[p].user
      BY <1>7 DEF CreateReferral, GetTrial, EnrollAtBilling, Types, Account
  <2>2. QED
      BY <1>1, <2>1
<1>8. ASSUME NEW q \in People, SetBlock(q) \/ Buys(q) PROVE Goal
  <2>1. CASE SetBlock(q) /\ q = p
      BY <2>1 DEF SetBlock, Types, Account
  <2>2. CASE ~(SetBlock(q) /\ q = p)
    <3>1. billing'[p].user = billing[p].user
        BY <1>8, <2>2 DEF SetBlock, Buys, Types, Account
    <3>2. QED
        BY <1>1, <3>1
  <2>3. QED
      BY <2>1, <2>2
<1>9. CASE UNCHANGED billing
    BY <1>1, <1>9
<1>10. QED
    BY <1>3, <1>4, <1>5, <1>6, <1>7, <1>8, <1>9
       DEF OnboardingNext, UpdateStep, onboardingVars, Arrive, GetCopy, FetchUser, Store, Admit, Refuse, ClearCopy, Chain,
           CheckRules, CheckChannel, SkipChannel, Throttle, HandleMenu, EnrollAtPanel, RestartNodes, UpdateFault,
           ClearBlocked, JoinOrLeave, TimePasses

\* What Redis says anew, an update stored; if billing knows better, it is noted.
LEMMA WhoStored ==
    ASSUME Types, [OnboardingNext]_onboardingVars, NEW p \in People
    PROVE  /\ stale \subseteq stale'
           /\ \/ copy'[p] \in {copy[p], NoCopy}
              \/ copy'[p] = billing'[p].user
              \/ p \in stale'
<1>1. ASSUME NEW s \in Slots, Store(s)
      PROVE  stale \subseteq stale' /\ (copy'[p] = copy[p] \/ copy'[p] = billing'[p].user \/ p \in stale')
  <2>1. stale \subseteq stale' /\ UNCHANGED billing /\ (Who(s) # p => copy'[p] = copy[p])
      BY <1>1 DEF Store, Types
  <2>2. Who(s) = p => copy'[p] = update[s].answer
      BY <1>1 DEF Store, Types
  <2>3. Who(s) = p /\ update[s].answer # billing[p].user => p \in stale'
      BY <1>1 DEF Store
  <2>4. QED
      BY <2>1, <2>2, <2>3
<1>2. ASSUME NEW s \in Slots, ClearCopy(s) PROVE stale \subseteq stale' /\ copy'[p] \in {copy[p], NoCopy}
    BY <1>2 DEF ClearCopy, Types
<1>3. ASSUME NEW q \in People, ClearBlocked(q) \/ TimePasses(q)
      PROVE  stale \subseteq stale' /\ copy'[p] \in {copy[p], NoCopy}
    BY <1>3 DEF ClearBlocked, TimePasses, Types
<1>4. CASE UNCHANGED copy /\ stale \subseteq stale'
    BY <1>4
<1>5. QED
    BY <1>1, <1>2, <1>3, <1>4
       DEF OnboardingNext, UpdateStep, onboardingVars, Arrive, GetCopy, FetchUser, Admit, Refuse, CompareAndUpdate, Create,
           Chain, CreateReferral, ApplyInviteeReward, AcceptRules, CheckRules, CheckChannel, SkipChannel, Throttle,
           HandleMenu, GetTrial, EnrollAtBilling, EnrollAtPanel, RestartNodes, UpdateFault, SetBlock, JoinOrLeave, Buys

----------------------------------------------------------------------------
(***************************************************************************)
(* The invariants behind what is proved below.                             *)
(***************************************************************************)

Entered == {"throttle", "handle", "push", "restart"}

\* past AccessMiddleware
Past(r) == r.pc \notin {"idle", "access"} /\ ~(r.pc \in {"get", "fetch", "store"} /\ r.next = "access")

\* Of an enrolment: billing has it before the panel, the panel before the answer.
Enrolling(t) ==
    /\ AtUpdate(t, "push") => billing[Who(t)].squad
    /\ AtUpdate(t, "restart") => billing[Who(t)].squad /\ Who(t) \in panelSquad

\* Of a registration through a link: the referral is on its way or there, the discount too.
Linked(p) ==
    \/ p \in dropped
    \/ IF billing[p].referred
       THEN \/ house.invitee => billing[p].user.discount \/ billing[p].subscription = "paid"
            \/ \E s \in Slots : Who(s) = p /\ update[s].kind = "ref" /\ AtUpdate(s, "reward")
       ELSE \E s \in Slots : Who(s) = p /\ update[s].kind = "ref" /\ update[s].pc \in {"clear", "chain", "link"}
ByLink(t) == update[t].pc \in {"chain", "link", "reward"} => update[t].kind = "ref"
Referrals == /\ \A p \in People : billing[p].user = Nobody => ~billing[p].referred
             /\ \A p \in invited : Linked(p)
             /\ \A t \in Slots : ByLink(t)

\* Of the gates: what lets an update through, still so at billing.
Ruled(t) ==
    house.rules /\ (update[t].pc \in {"channel"} \cup Entered \/ (AtUpdate(t, "store") /\ update[t].next = "channel"))
        => billing[Who(t)].user \in User /\ billing[Who(t)].user.accepted
Joined(t) == house.channel /\ update[t].pc \in Entered => Seen(t).privileged \/ Who(t) \in members \cup unchecked
Restricted(t) ==
    house.mode = "RESTRICTED" /\ Past(update[t]) => billing[Who(t)].user \in User /\ billing[Who(t)].user.privileged
\* a user who is known is seen as known
Recognised(t) ==
    ~AtUpdate(t, "idle") /\ ~Past(update[t]) /\ ~update[t].unknown /\ Who(t) \notin stale =>
        /\ billing[Who(t)].user \in User /\ copy[Who(t)] # Nobody
        /\ update[t].pc \in {"store", "access"} => Seen(t) # Nobody
Buying(t) ==
    update[t].kind = "buy" /\ ~house.purchases /\ Past(update[t]) =>
        \/ Who(t) \in stale \/ update[t].unknown
        \/ billing[Who(t)].user \in User /\ billing[Who(t)].user.privileged
\* a user who is blocked is seen as blocked
Barring(t) ==
    update[t].barred =>
        /\ billing[Who(t)].user \in User /\ billing[Who(t)].user.blocked /\ Who(t) \notin blocking
        /\ Who(t) \notin stale => /\ ~Past(update[t])
                                  /\ update[t].pc \in {"store", "access"} => Seen(t) \in User /\ Seen(t).blocked
\* Of the copies.
CopyBlocked(p) ==
    p \notin stale \cup blocking /\ billing[p].user \in User /\ billing[p].user.blocked =>
        copy[p] = NoCopy \/ (copy[p] \in User /\ copy[p].blocked)
CopyKnown(p) ==
    p \notin stale /\ billing[p].user \in User /\ (\A s \in Slots : ~(Who(s) = p /\ AtUpdate(s, "clear")))
        => copy[p] # Nobody
CopyJoined(p) == joinedCopy[p] = "in" => p \in members

----------------------------------------------------------------------------
(***************************************************************************)
(* Where an update stands at each step, and where the step leaves it.      *)
(***************************************************************************)

Same(s) == /\ update'[s].who = update[s].who /\ update'[s].kind = update[s].kind
           /\ update'[s].barred = update[s].barred /\ update'[s].unknown = update[s].unknown
GoesWith(s, pc, next) == Same(s) /\ update'[s].pc = pc /\ update'[s].next = next
GoesOn(s, pc) == GoesWith(s, pc, update[s].next) /\ update'[s].seen = update[s].seen

LEMMA GoesOnTo ==
    ASSUME Types, NEW s \in Slots, NEW pc, GoesTo(s, pc)
    PROVE  GoesOn(s, pc)
<1>1. update[s] \in Updates
    BY DEF Types
<1>2. QED
    BY <1>1 DEF GoesTo, GoesOn, GoesWith, Same, Types, Updates

LEMMA WritesThen ==
    ASSUME Types, NEW s \in Slots, NEW user, NEW seen, NEW next, WriteUser(s, user, seen, next)
    PROVE  GoesWith(s, "store", next)
<1>1. update[s] \in Updates
    BY DEF Types
<1>2. QED
    BY <1>1 DEF WriteUser, GoesWith, Same, Types, Updates

LEMMA EndsIdle ==
    ASSUME Types, NEW s \in Slots, Ended(s)
    PROVE  update'[s].pc = "idle"
BY NoUpdateType DEF Ended, Types

\* Of the way to the user.
LEMMA StepsIn ==
    ASSUME Types, NEW s \in Slots
    PROVE  /\ Arrive(s) => /\ AtUpdate(s, "idle") /\ update'[s].pc = "get" /\ update'[s].next = "access"
                           /\ Who(s)' \in People
                           /\ update'[s].barred = Barred(update'[s].who) /\ update'[s].unknown = Unknown(update'[s].who)
           /\ GetCopy(s) => /\ AtUpdate(s, "get")
                            /\ \/ GoesOn(s, "fetch")
                               \/ /\ copy[Who(s)] # NoCopy /\ update'[s].seen = copy[Who(s)]
                                  /\ GoesWith(s, update[s].next, update[s].next)
           /\ FetchUser(s) => /\ AtUpdate(s, "fetch") /\ update'[s].seen = billing[Who(s)].user
                              /\ GoesWith(s, "store", update[s].next)
           /\ Store(s) => AtUpdate(s, "store") /\ GoesOn(s, update[s].next)
           /\ Admit(s) => AtUpdate(s, "access") /\ Allowed(s) /\ GoesWith(s, "get", "user")
           /\ Refuse(s) => AtUpdate(s, "access") /\ update'[s].pc = "idle"
           /\ CompareAndUpdate(s) => AtUpdate(s, "user") /\ (GoesOn(s, "rules") \/ GoesWith(s, "store", "rules"))
           /\ Create(s) => AtUpdate(s, "user") /\ GoesWith(s, "clear", update[s].next)
<1>0. update[s] \in Updates
    BY DEF Types
<1>1. ASSUME Arrive(s)
      PROVE  /\ AtUpdate(s, "idle") /\ update'[s].pc = "get" /\ update'[s].next = "access" /\ Who(s)' \in People
             /\ update'[s].barred = Barred(update'[s].who) /\ update'[s].unknown = Unknown(update'[s].who)
  <2>1. PICK p \in People, kind \in house.kinds :
            update' = [update EXCEPT ![s] = [NoUpdate EXCEPT !.kind = kind, !.who = p, !.pc = "get", !.next = "access",
                                                           !.barred = Barred(p), !.unknown = Unknown(p)]]
      BY <1>1 DEF Arrive
  <2>2. /\ update'[s].pc = "get" /\ update'[s].next = "access" /\ update'[s].who = p
        /\ update'[s].barred = Barred(p) /\ update'[s].unknown = Unknown(p)
      BY <2>1 DEF NoUpdate, Types
  <2>3. QED
      BY <1>1, <2>2 DEF Arrive, Who
<1>2. ASSUME GetCopy(s)
      PROVE  /\ AtUpdate(s, "get")
             /\ \/ GoesOn(s, "fetch")
                \/ /\ copy[Who(s)] # NoCopy /\ update'[s].seen = copy[Who(s)]
                   /\ GoesWith(s, update[s].next, update[s].next)
    BY <1>0, <1>2 DEF GetCopy, GoesOn, GoesWith, Same, Types, Updates
<1>3. FetchUser(s) => AtUpdate(s, "fetch") /\ update'[s].seen = billing[Who(s)].user /\ GoesWith(s, "store", update[s].next)
    BY <1>0 DEF FetchUser, GoesWith, Same, Types, Updates
<1>4. Store(s) => AtUpdate(s, "store") /\ GoesOn(s, update[s].next)
    BY <1>0 DEF Store, GoesOn, GoesWith, Same, Types, Updates
<1>5. Admit(s) => AtUpdate(s, "access") /\ Allowed(s) /\ GoesWith(s, "get", "user")
    BY <1>0 DEF Admit, GoesWith, Same, Types, Updates
<1>6. Refuse(s) => AtUpdate(s, "access") /\ update'[s].pc = "idle"
    BY EndsIdle DEF Refuse
<1>7. CompareAndUpdate(s) => AtUpdate(s, "user") /\ (GoesOn(s, "rules") \/ GoesWith(s, "store", "rules"))
    BY GoesOnTo, WritesThen DEF CompareAndUpdate
<1>8. Create(s) => AtUpdate(s, "user") /\ GoesWith(s, "clear", update[s].next)
    BY <1>0 DEF Create, GoesWith, Same, Types, Updates
<1>9. QED
    BY <1>1, <1>2, <1>3, <1>4, <1>5, <1>6, <1>7, <1>8

\* Of the way on.
LEMMA StepsOn ==
    ASSUME Types, NEW s \in Slots
    PROVE  /\ ClearCopy(s) => AtUpdate(s, "clear") /\ GoesOn(s, IF update[s].kind = "ref" THEN "chain" ELSE "rules")
           /\ Chain(s) => AtUpdate(s, "chain") /\ GoesOn(s, IF billing[Who(s)].referred THEN "rules" ELSE "link")
           /\ CreateReferral(s) => AtUpdate(s, "link") /\ GoesOn(s, "reward")
           /\ ApplyInviteeReward(s) => AtUpdate(s, "reward") /\ (GoesOn(s, "rules") \/ GoesWith(s, "store", "rules"))
           /\ AcceptRules(s) => AtUpdate(s, "rules") /\ (GoesOn(s, "channel") \/ GoesWith(s, "store", "channel"))
           /\ CheckRules(s) => AtUpdate(s, "rules") /\ (GoesOn(s, "channel") \/ update'[s].pc = "idle")
           /\ CheckChannel(s) => AtUpdate(s, "channel") /\ (GoesOn(s, "throttle") \/ update'[s].pc = "idle")
           /\ SkipChannel(s) => AtUpdate(s, "channel") /\ GoesOn(s, "throttle")
           /\ Throttle(s) => AtUpdate(s, "throttle") /\ (GoesOn(s, "handle") \/ update'[s].pc = "idle")
           /\ HandleMenu(s) \/ GetTrial(s) => AtUpdate(s, "handle") /\ update'[s].pc = "idle"
           /\ EnrollAtBilling(s) => AtUpdate(s, "handle") /\ (GoesOn(s, "push") \/ update'[s].pc = "idle")
           /\ EnrollAtPanel(s) => AtUpdate(s, "push") /\ GoesOn(s, "restart")
           /\ RestartNodes(s) => AtUpdate(s, "restart") /\ update'[s].pc = "idle"
           /\ UpdateFault(s) => ~AtUpdate(s, "idle") /\ update'[s].pc = "idle"
BY GoesOnTo, WritesThen, EndsIdle
   DEF ClearCopy, Chain, CreateReferral, ApplyInviteeReward, AcceptRules, CheckRules, CheckChannel, SkipChannel, Throttle,
       HandleMenu, GetTrial, EnrollAtBilling, EnrollAtPanel, RestartNodes, UpdateFault

\* An update is whose it was, and is past AccessMiddleware only if let in.
LEMMA Onward ==
    ASSUME Types, NEW s \in Slots, SlotAction(s), update'[s].pc # "idle"
    PROVE  /\ Arrive(s) \/ (Same(s) /\ update[s].pc # "idle")
           /\ Past(update'[s]) => Past(update[s]) \/ Admit(s)
<1>1. update[s].next \in {"access", "user", "rules", "channel", "idle"}
    BY DEF Types, Updates
<1>2. /\ Arrive(s) \/ (Same(s) /\ update[s].pc # "idle")
    BY StepsIn, StepsOn DEF SlotAction, UpdateStep, GoesOn, GoesWith, AtUpdate
<1>3. Past(update'[s]) => Past(update[s]) \/ Admit(s)
    BY <1>1, StepsIn, StepsOn DEF SlotAction, UpdateStep, GoesOn, GoesWith, AtUpdate, Past
<1>4. QED
    BY <1>2, <1>3

\* What only grows, and the settings, which stay.
LEMMA Grows ==
    ASSUME Types, [OnboardingNext]_onboardingVars
    PROVE  /\ house' = house
           /\ members \subseteq members' /\ unchecked \subseteq unchecked' /\ stale \subseteq stale'
           /\ dropped \subseteq dropped' /\ panelSquad \subseteq panelSquad'
<1> USE DEF world, gates, beta
<1>1. ASSUME NEW s \in Slots, Arrive(s) \/ GetCopy(s) \/ FetchUser(s) \/ Store(s) \/ Admit(s) \/ Refuse(s)
      PROVE  /\ house' = house
             /\ members \subseteq members' /\ unchecked \subseteq unchecked' /\ stale \subseteq stale'
             /\ dropped \subseteq dropped' /\ panelSquad \subseteq panelSquad'
    BY <1>1 DEF Arrive, GetCopy, FetchUser, Store, Admit, Refuse
<1>2. ASSUME NEW s \in Slots, CompareAndUpdate(s) \/ Create(s) \/ ClearCopy(s) \/ Chain(s) \/ CreateReferral(s)
                              \/ ApplyInviteeReward(s) \/ AcceptRules(s) \/ CheckRules(s) \/ CheckChannel(s)
      PROVE  /\ house' = house
             /\ members \subseteq members' /\ unchecked \subseteq unchecked' /\ stale \subseteq stale'
             /\ dropped \subseteq dropped' /\ panelSquad \subseteq panelSquad'
    BY <1>2 DEF CompareAndUpdate, Create, ClearCopy, Chain, CreateReferral, ApplyInviteeReward, AcceptRules, CheckRules,
                CheckChannel
<1>3. ASSUME NEW s \in Slots, SkipChannel(s) \/ Throttle(s) \/ HandleMenu(s) \/ GetTrial(s) \/ EnrollAtBilling(s)
                              \/ EnrollAtPanel(s) \/ RestartNodes(s) \/ UpdateFault(s)
      PROVE  /\ house' = house
             /\ members \subseteq members' /\ unchecked \subseteq unchecked' /\ stale \subseteq stale'
             /\ dropped \subseteq dropped' /\ panelSquad \subseteq panelSquad'
    BY <1>3 DEF SkipChannel, Throttle, HandleMenu, GetTrial, EnrollAtBilling, EnrollAtPanel, RestartNodes, UpdateFault
<1>4. ASSUME NEW p \in People, SetBlock(p) \/ ClearBlocked(p) \/ JoinOrLeave(p) \/ Buys(p) \/ TimePasses(p)
      PROVE  /\ house' = house
             /\ members \subseteq members' /\ unchecked \subseteq unchecked' /\ stale \subseteq stale'
             /\ dropped \subseteq dropped' /\ panelSquad \subseteq panelSquad'
    BY <1>4 DEF SetBlock, ClearBlocked, JoinOrLeave, Buys, TimePasses
<1>5. QED
    BY <1>1, <1>2, <1>3, <1>4 DEF OnboardingNext, UpdateStep, onboardingVars

----------------------------------------------------------------------------
(***************************************************************************)
(* The theorems.  Types and Below are kept together, and the rest follows  *)
(* from them.                                                              *)
(***************************************************************************)

Base == Types /\ Below
LEMMA BaseHolds == OnboardingSpec => []Base
<1>1. OnboardingInit => Base
    BY TypesInit, BelowInit DEF Base
<1>2. Base /\ [OnboardingNext]_onboardingVars => Base'
    BY TypesStep, BelowStep DEF Base
<1>3. QED
    BY <1>1, <1>2, PTL DEF OnboardingSpec

\* The variables have their types: an update that is on its way has its person, and users in
\* Redis and in hand are users (user.py:95-109).
THEOREM OnboardingTyped == OnboardingSpec => []OnboardingTypeOK
<1>1. Base => OnboardingTypeOK
  <2> SUFFICES ASSUME Types PROVE OnboardingTypeOK
      BY DEF Base
  <2>1. ASSUME NEW s \in Slots
        PROVE  /\ update[s].who \in People \cup {Nobody} /\ update[s].seen \in User \cup {Nobody}
               /\ update[s].pc = "idle" <=> update[s] = NoUpdate
      BY DEF Types, SlotOK, Updates
  <2>2. QED
      BY <2>1 DEF Types, OnboardingTypeOK
<1>2. QED
    BY <1>1, BaseHolds, PTL

----------------------------------------------------------------------------
BetaEnrolled(p) == billing[p].squad /\ p \in panelSquad
Told == told \subseteq {p \in People : BetaEnrolled(p)} /\ \A t \in Slots : Enrolling(t)

LEMMA EnrollingStep ==
    ASSUME Types, Below, Told, [OnboardingNext]_onboardingVars, NEW t \in Slots
    PROVE  Enrolling(t)'
<1>0. Forward /\ panelSquad \subseteq panelSquad' /\ Types'
    BY ForwardStep, Grows, TypesStep
<1>1. CASE update'[t] = update[t]
  <2>1. update[t].pc # "idle" => Who(t) \in People
      BY OnItsWay
  <2>2. QED
      BY <1>0, <1>1, <2>1 DEF Told, Enrolling, AtUpdate, Who, Forward
<1>2. CASE update'[t] # update[t]
  <2>1. SlotAction(t)
      BY <1>2, OwnStep
  <2>2. CASE EnrollAtBilling(t)
    <3>1. update'[t].pc = "push" => billing[Who(t)].subscription = "paid"
        BY <2>2, EndsIdle DEF EnrollAtBilling
    <3>2. update[t].pc # "idle"
        BY <2>2 DEF EnrollAtBilling, AtUpdate
    <3>3. billing[Who(t)].subscription = "paid" => billing'[Who(t)].squad
        BY <2>2, <3>2, OnItsWay DEF EnrollAtBilling, Types, Account
    <3>4. update'[t].pc \in {"push", "idle"} /\ (update'[t].pc = "push" => Who(t)' = Who(t))
        BY <2>2, StepsOn DEF GoesOn, GoesWith, Same, Who
    <3>5. QED
        BY <3>1, <3>3, <3>4 DEF Enrolling, AtUpdate
  <2>3. CASE EnrollAtPanel(t)
    <3>1. update'[t].pc = "restart" /\ Who(t)' = Who(t) /\ Who(t) \in panelSquad' /\ billing[Who(t)].squad
        BY <2>3, StepsOn DEF EnrollAtPanel, GoesOn, GoesWith, Same, Who, Told, Enrolling
    <3>2. Who(t) \in People
        BY <2>3, OnItsWay DEF EnrollAtPanel, AtUpdate
    <3>3. QED
        BY <1>0, <3>1, <3>2 DEF Enrolling, AtUpdate, Forward
  <2>4. CASE ~EnrollAtBilling(t) /\ ~EnrollAtPanel(t)
    <3>1. update[t].next \in {"access", "user", "rules", "channel", "idle"}
        BY DEF Types, Updates
    <3>2. update'[t].pc \notin {"push", "restart"}
        BY <2>1, <2>4, <3>1, StepsIn, StepsOn DEF SlotAction, UpdateStep, GoesOn, GoesWith
    <3>3. QED
        BY <3>2 DEF Enrolling, AtUpdate
  <2>5. QED
      BY <2>2, <2>3, <2>4
<1>3. QED
    BY <1>1, <1>2

LEMMA ToldStep ==
    ASSUME Types, Below, Told, [OnboardingNext]_onboardingVars
    PROVE  Told'
<1>0. Forward /\ panelSquad \subseteq panelSquad'
    BY ForwardStep, Grows
<1>1. \A t \in Slots : Enrolling(t)'
    BY EnrollingStep
<1>2. told' \subseteq {p \in People : BetaEnrolled(p)}
  <2>1. ASSUME NEW s \in Slots, RestartNodes(s) PROVE told' \subseteq {p \in People : BetaEnrolled(p)}
    <3>1. Who(s) \in People /\ BetaEnrolled(Who(s))
        BY <2>1, OnItsWay DEF RestartNodes, AtUpdate, Told, Enrolling, BetaEnrolled
    <3>2. QED
        BY <2>1, <3>1 DEF RestartNodes, Told
  <2>2. CASE UNCHANGED told
      BY <2>2 DEF Told
  <2>3. QED
      BY <2>1, <2>2
         DEF OnboardingNext, UpdateStep, onboardingVars, Arrive, GetCopy, FetchUser, Store, Admit, Refuse,
             CompareAndUpdate, Create, ClearCopy, Chain, CreateReferral, ApplyInviteeReward, AcceptRules, CheckRules,
             CheckChannel, SkipChannel, Throttle, HandleMenu, GetTrial, EnrollAtBilling, EnrollAtPanel, UpdateFault,
             SetBlock, ClearBlocked, JoinOrLeave, Buys, TimePasses, beta
<1>3. \A p \in People : BetaEnrolled(p) => BetaEnrolled(p)'
    BY <1>0 DEF BetaEnrolled, Forward
<1>4. QED
    BY <1>1, <1>2, <1>3 DEF Told

\* Who is told to be a beta tester is one at billing and at the panel (remnawave.py:171-197).
THEOREM BetaIsBeta == OnboardingSpec => []BetaToldIsBeta
<1>1. OnboardingInit => Told
    BY NoUpdateType DEF OnboardingInit, Told, Enrolling, AtUpdate
<1>2. Base /\ Told /\ [OnboardingNext]_onboardingVars => Told'
    BY ToldStep DEF Base
<1>3. Told => BetaToldIsBeta
    BY DEF Told, BetaToldIsBeta, BetaEnrolled
<1>4. QED
    BY <1>1, <1>2, <1>3, BaseHolds, PTL DEF OnboardingSpec

----------------------------------------------------------------------------
\* Whose referral, discount or payment a step brings about, and of whom billing knows nothing.
LEMMA WhoReferred ==
    ASSUME Types, Below, [OnboardingNext]_onboardingVars, NEW p \in People, billing'[p].referred, ~billing[p].referred
    PROVE  \E s \in Slots : CreateReferral(s) /\ Who(s) = p
<1>1. ASSUME NEW s \in Slots, CreateReferral(s), Who(s) # p PROVE FALSE
    BY <1>1 DEF CreateReferral, Types
<1>2. ASSUME NEW s \in Slots, NEW user, NEW seen, NEW next, WriteUser(s, user, seen, next) PROVE FALSE
    BY <1>2 DEF WriteUser, Types, Account
<1>3. ASSUME NEW s \in Slots, Create(s) \/ GetTrial(s) \/ EnrollAtBilling(s) PROVE FALSE
    BY <1>3 DEF Create, GetTrial, EnrollAtBilling, Types, Account
<1>4. ASSUME NEW q \in People, SetBlock(q) \/ Buys(q) PROVE FALSE
  <2>1. DOMAIN billing = People /\ DOMAIN billing[p] = {"user", "referred", "squad", "subscription"}
      BY DEF Types, Account
  <2>2. CASE SetBlock(q)
    <3>1. billing' = [billing EXCEPT ![q] = [@ EXCEPT !.user = [@ EXCEPT !.blocked = TRUE]]]
        BY <2>2 DEF SetBlock
    <3>2. QED
        BY <2>1, <3>1
  <2>3. CASE Buys(q)
    <3>1. billing' = [billing EXCEPT ![q] = [@ EXCEPT !.subscription = "paid"]]
        BY <2>3 DEF Buys
    <3>2. QED
        BY <2>1, <3>1
  <2>4. QED
      BY <1>4, <2>2, <2>3
<1>5. ASSUME UNCHANGED billing PROVE FALSE
    BY <1>5
<1>6. ASSUME NEW s \in Slots, UpdateStep(s) PROVE CreateReferral(s) /\ Who(s) = p
  <2>1. CASE CompareAndUpdate(s)
      BY <2>1, <1>2, <1>5 DEF CompareAndUpdate
  <2>2. CASE ApplyInviteeReward(s)
      BY <2>2, <1>2, <1>5 DEF ApplyInviteeReward
  <2>3. CASE AcceptRules(s)
      BY <2>3, <1>2, <1>5 DEF AcceptRules
  <2>4. CASE GetCopy(s) \/ FetchUser(s) \/ Store(s) \/ Admit(s) \/ Refuse(s) \/ ClearCopy(s) \/ Chain(s)
      BY <2>4, <1>5 DEF GetCopy, FetchUser, Store, Admit, Refuse, ClearCopy, Chain
  <2>5. CASE CheckRules(s) \/ CheckChannel(s) \/ SkipChannel(s) \/ Throttle(s) \/ HandleMenu(s)
             \/ EnrollAtPanel(s) \/ RestartNodes(s)
      BY <2>5, <1>5 DEF CheckRules, CheckChannel, SkipChannel, Throttle, HandleMenu, EnrollAtPanel, RestartNodes
  <2>6. QED
      BY <1>1, <1>3, <1>6, <2>1, <2>2, <2>3, <2>4, <2>5 DEF UpdateStep
<1>7. ASSUME NEW s \in Slots, Arrive(s) \/ UpdateFault(s) PROVE FALSE
    BY <1>5, <1>7 DEF Arrive, UpdateFault
<1>8. ASSUME NEW q \in People, ClearBlocked(q) \/ JoinOrLeave(q) \/ TimePasses(q) PROVE FALSE
    BY <1>5, <1>8 DEF ClearBlocked, JoinOrLeave, TimePasses
<1>9. CASE UNCHANGED onboardingVars
    BY <1>5, <1>9 DEF onboardingVars
<1>10. QED
    BY <1>4, <1>6, <1>7, <1>8, <1>9 DEF OnboardingNext

LEMMA ByLinkStep ==
    ASSUME Types, Below, Referrals, [OnboardingNext]_onboardingVars, NEW t \in Slots
    PROVE  ByLink(t)'
<1>1. CASE update'[t] = update[t]
    BY <1>1 DEF Referrals, ByLink
<1>2. CASE update'[t] # update[t]
  <2>1. SlotAction(t) /\ update[t].next \in {"access", "user", "rules", "channel", "idle"}
      BY <1>2, OwnStep DEF Types, Updates
  <2>2. update'[t].pc \in {"chain", "link", "reward"} => ClearCopy(t) \/ Chain(t) \/ CreateReferral(t)
      BY <2>1, StepsIn, StepsOn DEF SlotAction, UpdateStep, GoesOn, GoesWith
  <2>3. ByLink(t)
      BY DEF Referrals
  <2>4. QED
      BY <2>2, <2>3, StepsOn DEF ByLink, GoesOn, GoesWith, Same, AtUpdate
<1>3. QED
    BY <1>1, <1>2

\* The moves of an update that refers somebody.
LEMMA LinkMoves ==
    ASSUME Types, Below, NEW s \in Slots, SlotAction(s), NEW p \in People, Who(s) = p, update[s].kind = "ref"
    PROVE  /\ AtUpdate(s, "clear") => p \in dropped' \/ (GoesOn(s, "chain") /\ UNCHANGED billing)
           /\ AtUpdate(s, "chain") /\ ~billing[p].referred => p \in dropped' \/ (GoesOn(s, "link") /\ UNCHANGED billing)
           /\ AtUpdate(s, "link") => p \in dropped' \/ (GoesOn(s, "reward") /\ billing'[p].referred)
           /\ AtUpdate(s, "reward") =>
                  \/ p \in dropped'
                  \/ house.invitee => billing'[p].user.discount \/ billing'[p].subscription = "paid"
<1>1. UpdateFault(s) => p \in dropped'
    BY DEF UpdateFault
<1>2. AtUpdate(s, "clear") => UpdateFault(s) \/ (GoesOn(s, "chain") /\ UNCHANGED billing)
  <2>1. AtUpdate(s, "clear") => UpdateFault(s) \/ ClearCopy(s)
      BY StepsIn, StepsOn DEF SlotAction, UpdateStep, AtUpdate
  <2>2. ClearCopy(s) => UNCHANGED billing
      BY DEF ClearCopy
  <2>3. QED
      BY <2>1, <2>2, StepsOn
<1>3. AtUpdate(s, "chain") /\ ~billing[p].referred => UpdateFault(s) \/ (GoesOn(s, "link") /\ UNCHANGED billing)
  <2>1. AtUpdate(s, "chain") => UpdateFault(s) \/ Chain(s)
      BY StepsIn, StepsOn DEF SlotAction, UpdateStep, AtUpdate
  <2>2. Chain(s) => UNCHANGED billing
      BY DEF Chain
  <2>3. QED
      BY <2>1, <2>2, StepsOn
<1>4. AtUpdate(s, "link") => UpdateFault(s) \/ (GoesOn(s, "reward") /\ billing'[p].referred)
  <2>1. AtUpdate(s, "link") => UpdateFault(s) \/ CreateReferral(s)
      BY StepsIn, StepsOn DEF SlotAction, UpdateStep, AtUpdate
  <2>2. CreateReferral(s) => billing'[p].referred
      BY DEF CreateReferral, Types, Account
  <2>3. QED
      BY <2>1, <2>2, StepsOn
<1>5. AtUpdate(s, "reward") =>
          UpdateFault(s) \/ (house.invitee => billing'[p].user.discount \/ billing'[p].subscription = "paid")
  <2>1. AtUpdate(s, "reward") => UpdateFault(s) \/ ApplyInviteeReward(s)
      BY StepsIn, StepsOn DEF SlotAction, UpdateStep, AtUpdate
  <2>2. ASSUME ApplyInviteeReward(s), house.invitee
        PROVE  billing'[p].user.discount \/ billing'[p].subscription = "paid"
    <3>1. update[s].pc = "reward" /\ Seen(s) \in User /\ billing[p].user \in User
        BY <2>2, OnItsWay, Registered, Constants DEF ApplyInviteeReward, AtUpdate, Handed
    <3>2. Seen(s).discount => billing[p].user.discount
        BY <3>1 DEF Below, LessThan
    <3> DEFINE user == [billing[Who(s)].user EXCEPT !.discount = TRUE]
    <3>3. user.discount
        BY <3>1 DEF User
    <3>4. \/ /\ billing[Who(s)].subscription = "paid" \/ Seen(s).discount
             /\ UNCHANGED billing
          \/ billing' = [billing EXCEPT ![Who(s)].user = user]
        BY <2>2 DEF ApplyInviteeReward, WriteUser
    <3> HIDE DEF user
    <3>5. QED
        BY <3>2, <3>3, <3>4 DEF Types, Account
  <2>3. QED
      BY <2>1, <2>2
<1>6. QED
    BY <1>1, <1>2, <1>3, <1>4, <1>5

LEMMA LinkedStep ==
    ASSUME Types, Below, Referrals, [OnboardingNext]_onboardingVars, NEW p \in People, Linked(p)
    PROVE  Linked(p)'
<1>0. Forward /\ dropped \subseteq dropped' /\ house' = house
    BY ForwardStep, Grows
<1> SUFFICES ASSUME p \notin dropped' PROVE Linked(p)'
    BY DEF Linked
<1>1. CASE ~billing[p].referred
  <2>1. PICK s \in Slots : Who(s) = p /\ update[s].kind = "ref" /\ update[s].pc \in {"clear", "chain", "link"}
      BY <1>0, <1>1 DEF Linked
  <2>2. CASE update'[s] = update[s]
    <3>1. CASE ~billing'[p].referred
        BY <2>1, <2>2, <3>1 DEF Linked, Who
    <3>2. CASE billing'[p].referred
      <4>1. PICK t \in Slots : CreateReferral(t) /\ Who(t) = p
          BY <1>1, <3>2, WhoReferred
      <4>2. update[t].kind = "ref"
          BY <4>1 DEF CreateReferral, Referrals, ByLink, AtUpdate
      <4>3. update'[t].kind = "ref" /\ update'[t].who = p /\ update'[t].pc = "reward"
          BY <4>1, <4>2, StepsOn DEF GoesOn, GoesWith, Same, Who
      <4>4. QED
          BY <3>2, <4>3 DEF Linked, Who, AtUpdate
    <3>3. QED
        BY <3>1, <3>2
  <2>3. CASE update'[s] # update[s]
    <3>1. SlotAction(s)
        BY <2>3, OwnStep
    <3>2. \/ GoesOn(s, "chain") /\ UNCHANGED billing
          \/ GoesOn(s, "link") /\ UNCHANGED billing
          \/ GoesOn(s, "reward") /\ billing'[p].referred
        BY <1>1, <2>1, <3>1, LinkMoves DEF AtUpdate
    <3>3. QED
        BY <1>1, <2>1, <3>2 DEF Linked, GoesOn, GoesWith, Same, Who, AtUpdate
  <2>4. QED
      BY <2>2, <2>3
<1>2. CASE billing[p].referred /\ (house.invitee => billing[p].user.discount \/ billing[p].subscription = "paid")
  <2>1. billing'[p].referred /\ (house.invitee => billing'[p].user.discount \/ billing'[p].subscription = "paid")
    <3>1. /\ billing[p].referred => billing'[p].referred
          /\ billing[p].subscription = "paid" => billing'[p].subscription = "paid"
          /\ LessThan(billing[p].user, billing'[p].user)
        BY <1>0 DEF Forward
    <3>2. billing[p].user \in User
        BY <1>2 DEF Referrals, Types, Account
    <3>3. QED
        BY <1>2, <3>1, <3>2 DEF LessThan
  <2>2. QED
      BY <1>0, <2>1 DEF Linked
<1>3. CASE billing[p].referred /\ \E s \in Slots : Who(s) = p /\ update[s].kind = "ref" /\ AtUpdate(s, "reward")
  <2>1. PICK s \in Slots : Who(s) = p /\ update[s].kind = "ref" /\ AtUpdate(s, "reward")
      BY <1>3
  <2>2. billing'[p].referred
      BY <1>0, <1>3 DEF Forward
  <2>3. CASE update'[s] = update[s]
      BY <2>1, <2>2, <2>3 DEF Linked, Who, AtUpdate
  <2>4. CASE update'[s] # update[s]
    <3>1. house.invitee => billing'[p].user.discount \/ billing'[p].subscription = "paid"
        BY <2>1, <2>4, OwnStep, LinkMoves
    <3>2. QED
        BY <1>0, <2>2, <3>1 DEF Linked
  <2>5. QED
      BY <2>3, <2>4
<1>4. QED
    BY <1>0, <1>1, <1>2, <1>3 DEF Linked

LEMMA ReferralsStep ==
    ASSUME Types, Below, Referrals, [OnboardingNext]_onboardingVars
    PROVE  Referrals'
<1>0. Forward /\ Types'
    BY ForwardStep, TypesStep
<1>1. ASSUME NEW p \in People, billing'[p].user = Nobody PROVE ~billing'[p].referred
  <2>1. billing[p].user = Nobody
      BY <1>0, <1>1, Constants DEF Forward, LessThan, Types, Account
  <2>2. ~billing[p].referred
      BY <2>1 DEF Referrals
  <2>3. ASSUME NEW s \in Slots, CreateReferral(s), Who(s) = p PROVE FALSE
    <3>1. update[s].pc # "idle" /\ Seen(s) # Nobody
        BY <2>3, OnItsWay, Constants DEF CreateReferral, AtUpdate, Handed
    <3>2. QED
        BY <2>1, <2>3, <3>1, Registered, Constants
  <2>4. QED
      BY <2>2, <2>3, WhoReferred
<1>2. ASSUME NEW p \in invited' PROVE Linked(p)'
  <2>1. CASE p \in invited
      BY <2>1, LinkedStep DEF Referrals, Types
  <2>2. CASE p \notin invited
    <3>1. PICK s \in Slots : Create(s) /\ Who(s) = p /\ billing[p].user = Nobody /\ update[s].kind = "ref"
      <4>1. \E s \in Slots : Create(s)
          BY <1>2, <2>2
             DEF OnboardingNext, UpdateStep, onboardingVars, Arrive, GetCopy, FetchUser, Store, Admit, Refuse,
                 CompareAndUpdate, ClearCopy, Chain, CreateReferral, ApplyInviteeReward, AcceptRules, CheckRules,
                 CheckChannel, SkipChannel, Throttle, HandleMenu, GetTrial, EnrollAtBilling, EnrollAtPanel,
                 RestartNodes, UpdateFault, SetBlock, ClearBlocked, JoinOrLeave, Buys, TimePasses
      <4>2. QED
          BY <1>2, <2>2, <4>1 DEF Create
    <3>2. p \in People /\ ~billing[p].referred
        BY <3>1, OnItsWay DEF Create, AtUpdate, Referrals
    <3>3. ~billing'[p].referred
        BY <3>1, <3>2 DEF Create, Types, Account
    <3>4. update'[s].pc = "clear" /\ update'[s].who = p /\ update'[s].kind = "ref"
        BY <3>1, StepsIn DEF GoesWith, Same, Who
    <3>5. QED
        BY <3>3, <3>4 DEF Linked, Who
  <2>3. QED
      BY <2>1, <2>2
<1>3. \A t \in Slots : ByLink(t)'
    BY ByLinkStep
<1>4. QED
    BY <1>1, <1>2, <1>3 DEF Referrals

\* Who was registered through a link is referred and keeps the invitee's discount, unless
\* an update of theirs was cut short (user.py:84-92, referral.py:290-327, 424-456).
THEOREM InvitesAreKept == OnboardingSpec => []InviteKept
<1>1. OnboardingInit => Referrals
  <2> SUFFICES ASSUME OnboardingInit PROVE Referrals
      OBVIOUS
  <2>1. house.knows \subseteq {a \in Account : a.user = Nobody => ~a.referred}
      BY Constants DEF OnboardingInit, IsHouse
  <2>2. QED
      BY <2>1, NoUpdateType DEF OnboardingInit, Referrals, ByLink
<1>2. Base /\ Referrals /\ [OnboardingNext]_onboardingVars => Referrals'
    BY ReferralsStep DEF Base
<1>3. Referrals => InviteKept
    BY DEF Referrals, Linked, InviteKept, Referring, AtUpdate
<1>4. QED
    BY <1>1, <1>2, <1>3, BaseHolds, PTL DEF OnboardingSpec

----------------------------------------------------------------------------
(***************************************************************************)
(* Who is let in.                                                          *)
(***************************************************************************)

Gate(t) == Ruled(t) /\ Joined(t) /\ Restricted(t) /\ Recognised(t) /\ Buying(t) /\ Barring(t)
Gates == /\ \A t \in Slots : Gate(t)
         /\ \A p \in People : CopyBlocked(p) /\ CopyKnown(p) /\ CopyJoined(p)

\* A step leaves no more of p blocked, and not yet cleared, than it blocks.
LEMMA WhoBlocks ==
    ASSUME Types, [OnboardingNext]_onboardingVars, NEW p \in People
    PROVE  /\ p \in blocking' => p \in blocking \/ (SetBlock(p) /\ billing[p].user \in User /\ ~billing[p].user.blocked)
           /\ p \in blocking => p \in blocking' \/ copy'[p] = NoCopy
<1>1. ASSUME NEW q \in People, SetBlock(q)
      PROVE  blocking' = blocking \cup {q} /\ billing[q].user \in User /\ ~billing[q].user.blocked
    BY <1>1 DEF SetBlock, Types, Account
<1>2. ASSUME NEW q \in People, ClearBlocked(q) PROVE blocking' = blocking \ {q} /\ copy'[q] = NoCopy
    BY <1>2 DEF ClearBlocked, Types
<1>3. CASE UNCHANGED blocking
    BY <1>3
<1>4. QED
    BY <1>1, <1>2, <1>3
       DEF OnboardingNext, UpdateStep, onboardingVars, Arrive, GetCopy, FetchUser, Store, Admit, Refuse,
           CompareAndUpdate, Create, ClearCopy, Chain, CreateReferral, ApplyInviteeReward, AcceptRules, CheckRules,
           CheckChannel, SkipChannel, Throttle, HandleMenu, GetTrial, EnrollAtBilling, EnrollAtPanel, RestartNodes,
           UpdateFault, JoinOrLeave, Buys, TimePasses, world

LEMMA CopyBlockedStep ==
    ASSUME Types, Below, Gates, [OnboardingNext]_onboardingVars, NEW p \in People
    PROVE  CopyBlocked(p)'
<1> SUFFICES ASSUME p \notin stale', p \notin blocking', billing'[p].user \in User, billing'[p].user.blocked
             PROVE  copy'[p] = NoCopy \/ (copy'[p] \in User /\ copy'[p].blocked)
    BY DEF CopyBlocked
<1>0. p \notin stale
    BY WhoStored
<1>1. billing[p].user \in User /\ billing[p].user.blocked
  <2>1. ~SetBlock(p)
      BY DEF SetBlock
  <2>2. QED
      BY <2>1, WhoWrote
<1>2. CASE p \in blocking
    BY <1>2, WhoBlocks
<1>3. CASE p \notin blocking
  <2>1. copy[p] = NoCopy \/ (copy[p] \in User /\ copy[p].blocked)
      BY <1>0, <1>1, <1>3 DEF Gates, CopyBlocked
  <2>2. QED
      BY <2>1, WhoStored
<1>4. QED
    BY <1>2, <1>3

LEMMA CopyKnownStep ==
    ASSUME Types, Below, Gates, [OnboardingNext]_onboardingVars, NEW p \in People
    PROVE  CopyKnown(p)'
<1> SUFFICES ASSUME p \notin stale', billing'[p].user \in User,
                    \A s \in Slots : ~(update'[s].who = p /\ update'[s].pc = "clear"), copy'[p] = Nobody
             PROVE  FALSE
    BY DEF CopyKnown, Who, AtUpdate
<1>0. p \notin stale /\ copy[p] = Nobody
    BY WhoStored, Constants
<1>1. billing[p].user \in User
    BY WhoWrote, StepsIn DEF GoesWith, Same, Who
<1>2. PICK s \in Slots : Who(s) = p /\ AtUpdate(s, "clear")
    BY <1>0, <1>1 DEF Gates, CopyKnown
<1>3. SlotAction(s)
    BY <1>2, OwnStep DEF Who, AtUpdate
<1>4. ClearCopy(s) \/ UpdateFault(s)
    BY <1>2, <1>3, StepsIn, StepsOn DEF SlotAction, UpdateStep, AtUpdate
<1>5. ClearCopy(s) => copy'[p] = NoCopy
    BY <1>2 DEF ClearCopy, Types
<1>6. UpdateFault(s) => p \in stale'
    BY <1>2 DEF UpdateFault
<1>7. QED
    BY <1>4, <1>5, <1>6, Constants

LEMMA CopyJoinedStep ==
    ASSUME Types, Below, Gates, [OnboardingNext]_onboardingVars, NEW p \in People
    PROVE  CopyJoined(p)'
<1>0. members \subseteq members' /\ CopyJoined(p)
    BY Grows DEF Gates
<1>1. ASSUME NEW s \in Slots, CheckChannel(s) PROVE CopyJoined(p)'
  <2>1. joinedCopy'[p] = "in" => joinedCopy[p] = "in" \/ p \in joined
      BY <1>1 DEF CheckChannel, Types
  <2>2. QED
      BY <1>0, <2>1 DEF CopyJoined, Types
<1>2. ASSUME NEW q \in People, TimePasses(q) PROVE joinedCopy'[p] \in {joinedCopy[p], "none"}
    BY <1>2 DEF TimePasses, Types
<1>3. CASE joinedCopy'[p] \in {joinedCopy[p], "none"}
    BY <1>0, <1>3 DEF CopyJoined
<1>4. CASE UNCHANGED joinedCopy
    BY <1>3, <1>4
<1>5. QED
    BY <1>1, <1>2, <1>3, <1>4
       DEF OnboardingNext, UpdateStep, onboardingVars, Arrive, GetCopy, FetchUser, Store, Admit, Refuse,
           CompareAndUpdate, Create, ClearCopy, Chain, CreateReferral, ApplyInviteeReward, AcceptRules, CheckRules,
           SkipChannel, Throttle, HandleMenu, GetTrial, EnrollAtBilling, EnrollAtPanel, RestartNodes,
           UpdateFault, SetBlock, ClearBlocked, JoinOrLeave, Buys, gates

\* What the gates say of an update that stays where it is stays so.
LEMMA GateStays ==
    ASSUME Types, Below, Gates, [OnboardingNext]_onboardingVars, NEW t \in Slots, update'[t] = update[t]
    PROVE  Gate(t)'
<1>0. Forward /\ house' = house /\ members \subseteq members' /\ unchecked \subseteq unchecked' /\ stale \subseteq stale'
    BY ForwardStep, Grows
<1> DEFINE p == Who(t)
<1>a. CASE AtUpdate(t, "idle")
  <2>1. update[t] = NoUpdate
      BY <1>a DEF Types, SlotOK, AtUpdate
  <2>2. QED
      BY <1>a, <2>1 DEF Gate, Ruled, Joined, Restricted, Recognised, Buying, Barring, AtUpdate, Past, NoUpdate, Entered
<1>b. CASE ~AtUpdate(t, "idle")
  <2>1. p \in People /\ Gate(t) /\ Who(t)' = p /\ Seen(t)' = Seen(t)
      BY <1>b, OnItsWay DEF AtUpdate, Gates, Who, Seen
  <2>2. /\ LessThan(billing[p].user, billing'[p].user)
        /\ billing[p].user \in User /\ billing[p].user.blocked => billing'[p].user.blocked
      BY <1>0, <2>1 DEF Forward
  <2> HIDE DEF p
  <2>3. Ruled(t)' /\ Joined(t)' /\ Restricted(t)' /\ Buying(t)'
      BY <1>0, <2>1, <2>2 DEF Gate, Ruled, Joined, Restricted, Buying, LessThan, AtUpdate, p
  <2>4. Recognised(t)'
    <3>1. copy[p] # Nobody /\ p \notin stale' /\ billing'[p].user \in User => copy'[p] # Nobody
        BY <2>1, WhoStored, Constants
    <3>2. QED
        BY <1>0, <2>1, <2>2, <3>1 DEF Gate, Recognised, LessThan, AtUpdate, p
  <2>5. Barring(t)'
    <3>1. billing[p].user.blocked /\ p \notin blocking => p \notin blocking'
        BY <2>1, WhoBlocks
    <3>2. QED
        BY <1>0, <2>1, <2>2, <3>1 DEF Gate, Barring, LessThan, AtUpdate, p
  <2>6. QED
      BY <2>3, <2>4, <2>5 DEF Gate
<1>c. QED
    BY <1>a, <1>b

\* Once past AccessMiddleware, past it until the end.
LEMMA StaysPast ==
    ASSUME Types, NEW s \in Slots, SlotAction(s), ~Arrive(s), update'[s].pc # "idle", ~Past(update'[s])
    PROVE  ~Past(update[s])
<1>1. update[s].pc \in {"get", "fetch"} => update[s].next \in {"access", "user"}
    BY DEF Types, SlotOK
<1>2. update[s].pc = "store" => update[s].next \in {"access", "user", "rules", "channel"}
    BY DEF Types, SlotOK, Updates
<1>3. QED
    BY <1>1, <1>2, StepsIn, StepsOn DEF SlotAction, UpdateStep, GoesOn, GoesWith, AtUpdate, Past

\* What an update that is not past it has seen when it stores, or is asked about: what Redis
\* or billing said at this step, or what it had seen before.
LEMMA SeenIn ==
    ASSUME Types, NEW s \in Slots, SlotAction(s), ~Arrive(s), ~Past(update[s]), ~Past(update'[s]),
           update'[s].pc \in {"store", "access"}
    PROVE  \/ Seen(s)' = copy[Who(s)] /\ copy[Who(s)] # NoCopy
           \/ Seen(s)' = billing[Who(s)].user
           \/ Seen(s)' = Seen(s) /\ update[s].pc \in {"store", "access"}
<1>1. update[s].pc = "store" => update[s].next = "access"
    BY DEF Past
<1>2. update[s].pc \in {"get", "fetch", "store", "access", "idle"}
    BY DEF Past
<1>3. QED
    BY <1>1, <1>2, StepsIn, StepsOn DEF SlotAction, UpdateStep, GoesOn, GoesWith, AtUpdate, Seen

\* An update that arrives.
LEMMA GateArrives ==
    ASSUME Types, Below, Gates, NEW t \in Slots, Arrive(t)
    PROVE  Gate(t)'
<1> DEFINE p == Who(t)'
<1>1. /\ update'[t].pc = "get" /\ update'[t].next = "access" /\ p \in People /\ update'[t].who = p
      /\ update'[t].barred = Barred(p) /\ update'[t].unknown = Unknown(p)
    BY StepsIn DEF Who
<1>2. UNCHANGED <<billing, copy, blocking, stale>>
    BY DEF Arrive, world
<1> HIDE DEF p
<1>3. ~Past(update'[t])
    BY <1>1 DEF Past
<1>4. Ruled(t)' /\ Joined(t)' /\ Restricted(t)' /\ Buying(t)'
    BY <1>1, <1>3 DEF Ruled, Joined, Restricted, Buying, AtUpdate, Entered
<1>5. Recognised(t)'
  <2>1. ASSUME ~Unknown(p), p \notin stale PROVE billing[p].user \in User /\ copy[p] # Nobody
    <3>1. billing[p].user \in User
        BY <1>1, <2>1 DEF Unknown, Types, Account
    <3>2. QED
        BY <1>1, <2>1, <3>1 DEF Unknown, Gates, CopyKnown
  <2>2. QED
      BY <1>1, <1>2, <2>1 DEF Recognised, Who
<1>6. Barring(t)'
  <2>1. Barred(p) => billing[p].user \in User /\ billing[p].user.blocked /\ p \notin blocking
      BY <1>1 DEF Barred, Types, Account
  <2>2. QED
      BY <1>1, <1>2, <1>3, <2>1 DEF Barring, Who
<1>7. QED
    BY <1>4, <1>5, <1>6 DEF Gate

\* An update that moves on.
LEMMA GateMoves ==
    ASSUME Types, Below, Gates, [OnboardingNext]_onboardingVars, NEW t \in Slots, SlotAction(t), ~Arrive(t),
           update'[t].pc # "idle"
    PROVE  Gate(t)'
<1>0. Forward /\ house' = house /\ members \subseteq members' /\ unchecked \subseteq unchecked' /\ stale \subseteq stale'
      /\ Types' /\ Below' /\ house \in Houses
    BY ForwardStep, Grows, TypesStep, BelowStep DEF Types
<1> DEFINE p == Who(t)
           b == billing[p].user
<1>1. /\ update[t].pc # "idle" /\ p \in People /\ Gate(t) /\ Same(t) /\ Who(t)' = p
    BY Onward, OnItsWay DEF Same, Who, Gates
<1>2. /\ LessThan(b, b') /\ b \in User \cup {Nobody} /\ b' \in User \cup {Nobody}
      /\ b \in User /\ b.blocked => b'.blocked
  <2>1. b' = billing'[p].user
      BY <1>1
  <2>2. QED
      BY <1>0, <1>1, <2>1 DEF Forward, Types, Account
<1>3. Past(update'[t]) => Past(update[t]) \/ Admit(t)
    BY Onward
<1>4. Seen(t) \in User \cup {Nobody} /\ LessThan(Seen(t), b)
    BY <1>1, OnItsWay DEF Below
<1>5. Seen(t)' \in User \cup {Nobody} /\ LessThan(Seen(t)', b')
    BY <1>0, <1>1, OnItsWay DEF Below, Seen, Types, SlotOK, Updates
<1>6. Ruled(t)'
  <2> DEFINE At(r) == r.pc \in {"channel"} \cup Entered \/ (r.pc = "store" /\ r.next = "channel")
  <2>1. At(update'[t]) => At(update[t]) \/ AcceptRules(t) \/ (CheckRules(t) /\ GoesOn(t, "channel"))
    <3>1. update[t].next \in {"access", "user", "rules", "channel", "idle"}
        BY DEF Types, Updates
    <3>2. update[t].pc = "get" => update[t].next \in {"access", "user"}
        BY DEF Types, SlotOK
    <3>3. update[t].pc = "fetch" => update[t].next \in {"access", "user"}
        BY DEF Types, SlotOK
    <3>4. QED
        BY <3>1, <3>2, <3>3, StepsIn, StepsOn DEF SlotAction, UpdateStep, GoesOn, GoesWith, AtUpdate, Entered
  <2>2. house.rules /\ At(update[t]) => b \in User /\ b.accepted
      BY <1>1 DEF Gate, Ruled, AtUpdate
  <2>3. AcceptRules(t) => b' \in User /\ b'.accepted
    <3> SUFFICES ASSUME AcceptRules(t) PROVE b' \in User /\ b'.accepted
        OBVIOUS
    <3>1. Seen(t) \in User /\ b \in User
        BY <1>1, OnItsWay, Registered, Constants DEF AcceptRules, AtUpdate, Handed
    <3>2. Seen(t).accepted => b'.accepted
        BY <1>2, <1>4, <3>1 DEF LessThan
    <3> DEFINE new == [b EXCEPT !.accepted = TRUE]
    <3>3. ~Seen(t).accepted => billing' = [billing EXCEPT ![p].user = new]
        BY DEF AcceptRules, WriteUser
    <3>4. new.accepted
        BY <3>1 DEF User
    <3>5. ~Seen(t).accepted => billing'[p].user = new
      <4> HIDE DEF new
      <4>1. QED
          BY <1>1, <3>3 DEF Types, Account
    <3>b. b' = billing'[p].user
        BY <1>1
    <3>6. b' \in User
        BY <1>2, <3>1 DEF LessThan
    <3>7. QED
        BY <3>2, <3>4, <3>5, <3>6, <3>b
  <2>4. CheckRules(t) /\ GoesOn(t, "channel") /\ house.rules => b \in User /\ b.accepted
    <3>1. CheckRules(t) => Seen(t) \in User /\ b \in User
        BY <1>1, OnItsWay, Registered, Constants DEF CheckRules, AtUpdate, Handed
    <3>2. CheckRules(t) /\ GoesOn(t, "channel") /\ house.rules => Seen(t).accepted
        BY EndsIdle DEF CheckRules, GoesOn, GoesWith
    <3>3. QED
        BY <1>4, <3>1, <3>2 DEF LessThan
  <2>5. b \in User /\ b.accepted => b' \in User /\ b'.accepted
      BY <1>2 DEF LessThan
  <2>6. house.rules /\ At(update'[t]) => b' \in User /\ b'.accepted
      BY <2>1, <2>2, <2>3, <2>4, <2>5
  <2>7. b' = billing'[p].user
      BY <1>1
  <2>8. QED
      BY <1>0, <1>1, <2>6, <2>7 DEF Ruled, AtUpdate
<1>7. Joined(t)'
  <2>1. update'[t].pc \in Entered => /\ Seen(t)' = Seen(t)
                                     /\ update[t].pc \in Entered \/ CheckChannel(t) \/ SkipChannel(t)
    <3>1. update[t].next \in {"access", "user", "rules", "channel", "idle"}
        BY DEF Types, Updates
    <3>2. QED
        BY <3>1, StepsIn, StepsOn DEF SlotAction, UpdateStep, GoesOn, GoesWith, AtUpdate, Entered, Seen
  <2>2. CheckChannel(t) /\ update'[t].pc \in Entered /\ house.channel => Seen(t).privileged \/ p \in members
    <3>1. joinedCopy[p] \in {"none", "in", "out"} /\ (joinedCopy[p] = "in" => p \in members) /\ joined \subseteq members
        BY <1>1 DEF Gates, CopyJoined, Types
    <3>2. Ended(t) => update'[t].pc \notin Entered
        BY EndsIdle DEF Entered
    <3>3. QED
        BY <3>1, <3>2 DEF CheckChannel
  <2>3. SkipChannel(t) => p \in unchecked'
      BY DEF SkipChannel
  <2>4. update[t].pc \in Entered /\ house.channel => Seen(t).privileged \/ p \in members \cup unchecked
      BY <1>1 DEF Gate, Joined
  <2>5. QED
      BY <1>0, <1>1, <2>1, <2>2, <2>3, <2>4 DEF Joined
<1>8. Admit(t) => /\ Seen(t) = Nobody => NewcomerAllowed(t)
                  /\ Seen(t) # Nobody => /\ b \in User /\ b.privileged = Seen(t).privileged /\ ~Seen(t).blocked
                                         /\ b.privileged \/ (~PurchaseDenied(t) /\ house.mode # "RESTRICTED")
  <2>1. Seen(t) # Nobody => b \in User /\ b.privileged = Seen(t).privileged
      BY <1>4 DEF LessThan
  <2>2. QED
      BY <2>1, StepsIn DEF Allowed, UserAllowed
<1>9. Restricted(t)'
  <2>1. house.mode = "RESTRICTED" /\ Past(update'[t]) => b \in User /\ b.privileged
      BY <1>1, <1>3, <1>8 DEF Gate, Restricted, NewcomerAllowed
  <2>2. QED
      BY <1>0, <1>1, <1>2, <2>1 DEF Restricted, LessThan
<1>10. Recognised(t)'
  <2> SUFFICES ASSUME ~Past(update'[t]), ~update[t].unknown, p \notin stale'
               PROVE  /\ b' \in User /\ copy'[p] # Nobody
                      /\ update'[t].pc \in {"store", "access"} => Seen(t)' # Nobody
      BY <1>1 DEF Recognised, Same
  <2>1. ~Past(update[t])
      BY StaysPast
  <2>2. b \in User /\ copy[p] # Nobody /\ (update[t].pc \in {"store", "access"} => Seen(t) # Nobody)
      BY <1>0, <1>1, <2>1 DEF Gate, Recognised, AtUpdate
  <2>3. b' \in User
      BY <1>2, <2>2 DEF LessThan
  <2>4. copy'[p] # Nobody
      BY <1>1, <2>2, <2>3, WhoStored, Constants
  <2>5. update'[t].pc \in {"store", "access"} => Seen(t)' # Nobody
      BY <2>1, <2>2, SeenIn, Constants
  <2>6. QED
      BY <2>3, <2>4, <2>5
<1>11. Buying(t)'
  <2> SUFFICES ASSUME update[t].kind = "buy", ~house.purchases, Past(update'[t]), ~update[t].unknown, p \notin stale'
               PROVE  b' \in User /\ b'.privileged
      BY <1>0, <1>1 DEF Buying, Same
  <2>1. CASE Past(update[t])
      BY <1>0, <1>1, <1>2, <2>1 DEF Gate, Buying, LessThan
  <2>2. CASE ~Past(update[t])
    <3>1. Admit(t) /\ update[t].pc = "access"
        BY <1>3, <2>2, StepsIn DEF AtUpdate
    <3>2. Seen(t) # Nobody
        BY <1>0, <1>1, <2>2, <3>1 DEF Gate, Recognised, AtUpdate
    <3>3. b \in User /\ b.privileged
        BY <1>8, <3>1, <3>2 DEF PurchaseDenied
    <3>4. QED
        BY <1>2, <3>3 DEF LessThan
  <2>3. QED
      BY <2>1, <2>2
<1>12. Barring(t)'
  <2> SUFFICES ASSUME update[t].barred
               PROVE  /\ b' \in User /\ b'.blocked /\ p \notin blocking'
                      /\ p \notin stale' => /\ ~Past(update'[t])
                                            /\ update'[t].pc \in {"store", "access"} =>
                                                   Seen(t)' \in User /\ Seen(t)'.blocked
      BY <1>1 DEF Barring, Same
  <2>1. b \in User /\ b.blocked /\ p \notin blocking
      BY <1>1 DEF Gate, Barring
  <2>2. b' \in User /\ b'.blocked /\ p \notin blocking'
      BY <1>1, <1>2, <2>1, WhoBlocks DEF LessThan
  <2>3. ASSUME p \notin stale' PROVE ~Past(update'[t])
    <3>1. ~Past(update[t]) /\ (update[t].pc = "access" => Seen(t) \in User /\ Seen(t).blocked)
        BY <1>0, <1>1, <2>3 DEF Gate, Barring
    <3>2. ~Admit(t)
        BY <1>8, <3>1, StepsIn, Constants DEF AtUpdate
    <3>3. QED
        BY <1>3, <3>1, <3>2
  <2>4. ASSUME p \notin stale', update'[t].pc \in {"store", "access"} PROVE Seen(t)' \in User /\ Seen(t)'.blocked
    <3>1. ~Past(update'[t]) /\ ~Past(update[t])
        BY <2>3, <2>4, StaysPast
    <3>2. update[t].pc \in {"store", "access"} => Seen(t) \in User /\ Seen(t).blocked
        BY <1>0, <1>1, <2>4 DEF Gate, Barring
    <3>3. copy[p] = NoCopy \/ (copy[p] \in User /\ copy[p].blocked)
        BY <1>0, <1>1, <2>1, <2>4 DEF Gates, CopyBlocked
    <3>4. QED
        BY <2>1, <2>4, <3>1, <3>2, <3>3, SeenIn
  <2>5. QED
      BY <2>2, <2>3, <2>4
<1>13. QED
    BY <1>6, <1>7, <1>9, <1>10, <1>11, <1>12 DEF Gate

LEMMA GatesStep ==
    ASSUME Types, Below, Gates, [OnboardingNext]_onboardingVars
    PROVE  Gates'
<1>1. ASSUME NEW t \in Slots PROVE Gate(t)'
  <2>1. CASE update'[t] = update[t]
      BY <2>1, GateStays
  <2>2. CASE update'[t] # update[t]
    <3>1. SlotAction(t)
        BY <2>2, OwnStep
    <3>2. CASE Arrive(t)
        BY <3>2, GateArrives
    <3>3. CASE ~Arrive(t) /\ update'[t].pc # "idle"
        BY <3>1, <3>3, GateMoves
    <3>4. CASE update'[t].pc = "idle"
      <4>1. update'[t] = NoUpdate
          BY <3>4, TypesStep DEF Types, SlotOK
      <4>2. QED
          BY <4>1 DEF Gate, Ruled, Joined, Restricted, Recognised, Buying, Barring, AtUpdate, Past, NoUpdate, Entered
    <3>5. QED
        BY <3>2, <3>3, <3>4
  <2>3. QED
      BY <2>1, <2>2
<1>2. \A p \in People : CopyBlocked(p)' /\ CopyKnown(p)' /\ CopyJoined(p)'
    BY CopyBlockedStep, CopyKnownStep, CopyJoinedStep
<1>3. QED
    BY <1>1, <1>2 DEF Gates

LEMMA GatesInit == OnboardingInit => Gates
<1> SUFFICES ASSUME OnboardingInit PROVE Gates
    OBVIOUS
<1>1. ASSUME NEW t \in Slots PROVE Gate(t)
  <2>1. update[t] = NoUpdate
      BY DEF OnboardingInit
  <2>2. QED
      BY <2>1 DEF Gate, Ruled, Joined, Restricted, Recognised, Buying, Barring, AtUpdate, Past, NoUpdate, Entered
<1>2. ASSUME NEW p \in People PROVE CopyBlocked(p) /\ CopyKnown(p) /\ CopyJoined(p)
    BY Constants DEF OnboardingInit, CopyBlocked, CopyKnown, CopyJoined
<1>3. QED
    BY <1>1, <1>2 DEF Gates

\* Who reaches a handler was let in by every gate: the rules are accepted at billing, the
\* channel was joined, who was blocked when the update arrived stays out, RESTRICTED lets in
\* the privileged and a purchase stays out while they are closed - but for the copies that
\* `stale`, `unknown` and `unchecked` name (access.py:49-117, rules.py:25-55,
\* channel.py:36-125).
THEOREM OnlyAdmitted == OnboardingSpec => []AdmittedOnly
<1>1. Base /\ Gates => AdmittedOnly
  <2> SUFFICES ASSUME Types, Below, Gates, NEW s \in Reached PROVE
           /\ house.rules => billing[Who(s)].user.accepted
           /\ house.channel => Seen(s).privileged \/ Who(s) \in members \cup unchecked
           /\ update[s].barred => Who(s) \in stale
           /\ house.mode = "RESTRICTED" => Seen(s).privileged
           /\ update[s].kind = "buy" /\ ~house.purchases =>
                  Seen(s).privileged \/ Who(s) \in stale \/ update[s].unknown
      BY DEF Base, AdmittedOnly
  <2>1. s \in Slots /\ update[s].pc \in Entered /\ Past(update[s])
      BY DEF Reached, Entered, Past
  <2>2. Gate(s) /\ update[s].pc # "idle" /\ Seen(s) \in User
      BY <2>1, OnItsWay DEF Gates, Entered, Handed
  <2>3. billing[Who(s)].user \in User /\ billing[Who(s)].user.privileged = Seen(s).privileged
      BY <2>1, <2>2 DEF Below, LessThan
  <2>4. QED
      BY <2>1, <2>2, <2>3 DEF Gate, Ruled, Joined, Restricted, Buying, Barring
<1>2. Base /\ Gates /\ [OnboardingNext]_onboardingVars => Gates'
    BY GatesStep DEF Base
<1>3. QED
    BY <1>1, <1>2, GatesInit, BaseHolds, PTL DEF OnboardingSpec

-----------------------------------------------------------------------------
(* Reminders, Experiments, and the three together                          *)

At(s, pc, u) == sweep[s].pc = pc /\ InHand(s, u)

\* A marker, and the place a run has come to, say that its user is excused.
MarkersExcuse ==
    /\ \A u \in markKey : reminders[u] > 0
    /\ \A u \in sentKey : Excused(u)
    /\ \A s \in Sweeps, u \in Users :
          /\ At(s, "mark", u) => reminders[u] > 0
          /\ At(s, "setex", u) => Excused(u)

Marking(u) == \E t \in Sweeps : At(t, "mark", u)
RemindersInv == RemindersTypeOK /\ MarkersExcuse /\ RemindersKept

----------------------------------------------------------------------------
(***************************************************************************)
(* Types.                                                                  *)
(***************************************************************************)

SweepRecords == [pc : SweepPcs, todo : SUBSET scheduled, member : scheduled \cup {NoMember}]

\* A run that has a member in hand has one of its user.
LEMMA HandIsUser ==
    ASSUME RemindersTypeOK, NEW s \in Sweeps, sweep[s].pc \notin {"idle", "remove"}
    PROVE  sweep[s].member \in Members /\ sweep[s].member # NoMember /\ Hand(s) \in Users /\ InHand(s, Hand(s))
<1>1. sweep[s].member \in scheduled
    BY DEF RemindersTypeOK
<1>2. QED
    BY <1>1, MembersAssumption, NoMemberAssumption DEF RemindersTypeOK, Hand, InHand

\* What a run that moves on, or takes the next member, becomes.
LEMMA ProceedType ==
    ASSUME RemindersTypeOK, NEW s \in Sweeps, sweep[s].pc \notin {"idle", "remove"},
           NEW pc \in SweepPcs \ {"idle", "remove"}, Proceed(s, pc)
    PROVE  /\ sweep' \in [Sweeps -> SweepRecords]
           /\ \A t \in Sweeps : sweep'[t].member = NoMember <=> sweep'[t].pc \in {"idle", "remove"}
BY DEF RemindersTypeOK, Proceed, SweepRecords, SweepPcs

LEMMA NextMemberType ==
    ASSUME RemindersTypeOK, NEW s \in Sweeps, NextMember(s)
    PROVE  /\ sweep' \in [Sweeps -> SweepRecords]
           /\ \A t \in Sweeps : sweep'[t].member = NoMember <=> sweep'[t].pc \in {"idle", "remove"}
<1>1. sweep \in [Sweeps -> SweepRecords]
    BY DEF RemindersTypeOK, SweepRecords
<1>2. /\ Resting \in SweepRecords
      /\ [pc |-> "remove", todo |-> sweep[s].todo, member |-> NoMember] \in SweepRecords
    BY <1>1 DEF SweepRecords, SweepPcs, Resting
<1>3. QED
    BY <1>1, <1>2 DEF NextMember, RemindersTypeOK, Resting

\* The types hold at first.
LEMMA TypeInit == RemindersInit => RemindersTypeOK
<1> SUFFICES ASSUME RemindersInit PROVE RemindersTypeOK
    OBVIOUS
<1>1. sweep \in [Sweeps -> [pc : SweepPcs, todo : SUBSET scheduled, member : scheduled \cup {NoMember}]]
    BY DEF RemindersInit, Resting, SweepPcs
<1>2. reminders \in [Users -> Nat]
    BY DEF RemindersInit
<1>3. \A s \in Sweeps : sweep[s].member = NoMember <=> sweep[s].pc \in {"idle", "remove"}
    BY DEF RemindersInit, Resting
<1>4. UNION {sentKey, markKey, connected, lapsed, unreachable, loose} \subseteq Users
    BY DEF RemindersInit
<1>5. QED
    BY <1>1, <1>2, <1>3, <1>4 DEF RemindersInit, RemindersTypeOK

\* Every step keeps the types.
LEMMA TypeStep == RemindersTypeOK /\ [RemindersNext]_reminderVars => RemindersTypeOK'
<1> SUFFICES ASSUME RemindersTypeOK, [RemindersNext]_reminderVars PROVE RemindersTypeOK'
    OBVIOUS
<1> USE DEF env
<1>1. ASSUME NEW m \in Members, Schedule(m) PROVE RemindersTypeOK'
    BY <1>1 DEF Schedule, RemindersTypeOK
<1>2. ASSUME NEW m \in Members, TwoHoursPass(m) PROVE RemindersTypeOK'
    BY <1>2 DEF TwoHoursPass, RemindersTypeOK
<1>3. CASE World
  <2>1. UNCHANGED <<waiting, ripe, sentKey, markKey, sweep, reminders, scheduled, loose, failed, sweepFaults>>
      BY <1>3 DEF World
  <2>2. /\ connected' \cup lapsed' \cup unreachable' \subseteq Users
        /\ switchedOff' \in BOOLEAN
      BY <1>3 DEF World, RemindersTypeOK
  <2>3. QED
      BY <2>1, <2>2 DEF RemindersTypeOK
<1>4. ASSUME NEW u \in Users, DayPasses(u) PROVE RemindersTypeOK'
    BY <1>4 DEF DayPasses, RemindersTypeOK
<1>5. ASSUME NEW s \in Sweeps, List(s) PROVE RemindersTypeOK'
    BY <1>5 DEF List, AtPc, RemindersTypeOK, SweepPcs
<1>6. ASSUME NEW s \in Sweeps, Take(s) PROVE RemindersTypeOK'
    BY <1>6, NoMemberAssumption DEF Take, AtPc, RemindersTypeOK, SweepPcs
<1>7. ASSUME NEW s \in Sweeps, CheckSent(s) PROVE RemindersTypeOK'
  <2>1. sweep[s].pc \notin {"idle", "remove"} /\ "look" \in SweepPcs \ {"idle", "remove"}
      BY <1>7 DEF CheckSent, AtPc, SweepPcs
  <2>2. QED
      BY <1>7, <2>1, ProceedType, NextMemberType DEF CheckSent, RemindersTypeOK, SweepRecords
<1>8. ASSUME NEW s \in Sweeps, LookAt(s) PROVE RemindersTypeOK'
  <2>1. sweep[s].pc \notin {"idle", "remove"} /\ "notify" \in SweepPcs \ {"idle", "remove"}
      BY <1>8 DEF LookAt, AtPc, SweepPcs
  <2>2. QED
      BY <1>8, <2>1, ProceedType, NextMemberType DEF LookAt, RemindersTypeOK, SweepRecords
<1>9. ASSUME NEW s \in Sweeps, Notify(s) PROVE RemindersTypeOK'
  <2>1. sweep[s].pc \notin {"idle", "remove"} /\ {"setex", "send"} \subseteq SweepPcs \ {"idle", "remove"}
      BY <1>9 DEF Notify, AtPc, SweepPcs
  <2>2. QED
      BY <1>9, <2>1, ProceedType, HandIsUser DEF Notify, RemindersTypeOK, SweepRecords
<1>10. ASSUME NEW s \in Sweeps, Deliver(s) PROVE RemindersTypeOK'
  <2>1. sweep[s].pc \notin {"idle", "remove"} /\ {"setex", "mark"} \subseteq SweepPcs \ {"idle", "remove"}
      BY <1>10 DEF Deliver, AtPc, SweepPcs
  <2>2. reminders' \in [Users -> Nat]
      BY <1>10, <2>1, HandIsUser DEF Deliver, RemindersTypeOK
  <2>3. QED
      BY <1>10, <2>1, <2>2, ProceedType DEF Deliver, RemindersTypeOK, SweepRecords
<1>11. ASSUME NEW s \in Sweeps, MarkSent(s) PROVE RemindersTypeOK'
  <2>1. sweep[s].pc \notin {"idle", "remove"} /\ "setex" \in SweepPcs \ {"idle", "remove"}
      BY <1>11 DEF MarkSent, AtPc, SweepPcs
  <2>2. QED
      BY <1>11, <2>1, ProceedType, HandIsUser DEF MarkSent, RemindersTypeOK, SweepRecords
<1>12. ASSUME NEW s \in Sweeps, Remember(s) PROVE RemindersTypeOK'
  <2>1. sweep[s].pc \notin {"idle", "remove"}
      BY <1>12 DEF Remember, AtPc
  <2>2. QED
      BY <1>12, <2>1, NextMemberType, HandIsUser DEF Remember, RemindersTypeOK, SweepRecords
<1>13. ASSUME NEW s \in Sweeps, SweepFault(s) PROVE RemindersTypeOK'
  <2>1. sweepFaults' \in Nat
      BY <1>13 DEF SweepFault, RemindersTypeOK
  <2>2. failed' \subseteq Members
      BY <1>13 DEF SweepFault, RemindersTypeOK
  <2>3. loose' \subseteq Users
    <3>1. CASE AtPc(s, "mark")
        BY <1>13, <3>1, HandIsUser DEF SweepFault, RemindersTypeOK, AtPc
    <3>2. CASE ~AtPc(s, "mark")
        BY <1>13, <3>2 DEF SweepFault, RemindersTypeOK
    <3>3. QED
        BY <3>1, <3>2
  <2>4. QED
      BY <1>13, <2>1, <2>2, <2>3 DEF SweepFault, RemindersTypeOK, Resting, SweepPcs
<1>14. CASE UNCHANGED reminderVars
    BY <1>14 DEF reminderVars, RemindersTypeOK
<1>15. QED
    BY <1>1, <1>2, <1>3, <1>4, <1>5, <1>6, <1>7, <1>8, <1>9, <1>10, <1>11, <1>12, <1>13, <1>14
       DEF RemindersNext, SweepStep

----------------------------------------------------------------------------
(***************************************************************************)
(* RemindersKept.                                                          *)
(***************************************************************************)

\* Who is excused stays excused.
LEMMA ExcusedStays ==
    ASSUME RemindersTypeOK, [RemindersNext]_reminderVars, NEW u \in Users, Excused(u)
    PROVE  Excused(u)'
<1> USE DEF env
<1>1. /\ connected \subseteq connected' /\ lapsed \subseteq lapsed' /\ unreachable \subseteq unreachable'
      /\ switchedOff => switchedOff'
    BY DEF RemindersNext, SweepStep, reminderVars, Schedule, TwoHoursPass, World, DayPasses, List, Take, CheckSent,
           LookAt, Notify, Deliver, MarkSent, Remember, SweepFault
<1>2. reminders[u] > 0 => reminders'[u] > 0
  <2>1. ASSUME NEW s \in Sweeps, Deliver(s) PROVE reminders[u] > 0 => reminders'[u] > 0
      BY <2>1 DEF Deliver, RemindersTypeOK
  <2>2. CASE UNCHANGED reminders
      BY <2>2
  <2>3. QED
      BY <2>1, <2>2
         DEF RemindersNext, SweepStep, reminderVars, Schedule, TwoHoursPass, World, DayPasses, List, Take, CheckSent,
             LookAt, Notify, MarkSent, Remember, SweepFault
<1>3. QED
    BY <1>1, <1>2 DEF Excused

\* What a step of a run does to where the runs are.
LEMMA Moves ==
    ASSUME RemindersTypeOK, NEW s \in Sweeps, NEW pc, Proceed(s, pc), NEW t \in Sweeps, NEW u, NEW at
    PROVE  /\ t # s => (At(t, at, u)' <=> At(t, at, u))
           /\ At(s, at, u)' <=> (at = pc /\ InHand(s, u))
           /\ sweep'[t].member = sweep[t].member
BY DEF RemindersTypeOK, Proceed, At, InHand

LEMMA Releases ==
    ASSUME RemindersTypeOK, NEW s \in Sweeps, NextMember(s) \/ sweep' = [sweep EXCEPT ![s] = Resting],
           NEW t \in Sweeps, NEW u, NEW at
    PROVE  /\ t # s => (At(t, at, u)' <=> At(t, at, u)) /\ sweep'[t] = sweep[t]
           /\ ~At(s, at, u)'
BY DEF RemindersTypeOK, NextMember, Resting, At, InHand

\* MarkersExcuse at first, and after every step.
LEMMA ExcuseInit == RemindersInit => MarkersExcuse
BY DEF RemindersInit, MarkersExcuse, At, InHand, Resting

LEMMA ExcuseStep ==
    RemindersTypeOK /\ MarkersExcuse /\ [RemindersNext]_reminderVars => MarkersExcuse'
<1> SUFFICES ASSUME RemindersTypeOK, MarkersExcuse, [RemindersNext]_reminderVars PROVE MarkersExcuse'
    OBVIOUS
<1> USE DEF env
<1>0. /\ \A u \in Users : Excused(u) => Excused(u)'
      /\ \A u \in Users : reminders[u] > 0 => reminders'[u] > 0
  <2>1. \A u \in Users : Excused(u) => Excused(u)'
      BY ExcusedStays
  <2>2. ASSUME NEW s \in Sweeps, Deliver(s) PROVE \A u \in Users : reminders[u] > 0 => reminders'[u] > 0
      BY <2>2 DEF Deliver, RemindersTypeOK
  <2>3. QED
      BY <2>1, <2>2
         DEF RemindersNext, SweepStep, reminderVars, Schedule, TwoHoursPass, World, DayPasses, List, Take, CheckSent,
             LookAt, Notify, MarkSent, Remember, SweepFault
<1>m. markKey \subseteq Users /\ sentKey \subseteq Users
    BY DEF RemindersTypeOK
<1>1. CASE sweep' = sweep /\ markKey' \subseteq markKey /\ sentKey' = sentKey
    BY <1>0, <1>1, <1>m DEF MarkersExcuse, At, InHand
<1>2. ASSUME NEW s \in Sweeps, UNCHANGED <<markKey, sentKey>>, NextMember(s) \/ sweep' = [sweep EXCEPT ![s] = Resting]
      PROVE  MarkersExcuse'
    BY <1>0, <1>2, <1>m, Releases DEF MarkersExcuse
<1>3. ASSUME NEW s \in Sweeps, UNCHANGED <<markKey, sentKey>>, NEW pc \in SweepPcs \ {"mark", "setex"}, Proceed(s, pc)
      PROVE  MarkersExcuse'
    BY <1>0, <1>3, <1>m, Moves DEF MarkersExcuse
<1>4. ASSUME NEW s \in Sweeps, List(s) PROVE MarkersExcuse'
    BY <1>0, <1>4, <1>m DEF List, AtPc, MarkersExcuse, At, InHand, RemindersTypeOK
<1>5. ASSUME NEW s \in Sweeps, Take(s) PROVE MarkersExcuse'
    BY <1>0, <1>5, <1>m DEF Take, AtPc, MarkersExcuse, At, InHand, RemindersTypeOK
<1>6. ASSUME NEW s \in Sweeps, Notify(s) PROVE MarkersExcuse'
  <2>1. CASE switchedOff \/ Hand(s) \in markKey
    <3>1. Proceed(s, "setex") /\ UNCHANGED <<markKey, sentKey, reminders, env>>
        BY <1>6, <2>1 DEF Notify
    <3>2. ASSUME NEW u \in Users, InHand(s, u) PROVE Excused(u)
        BY <2>1, <3>2 DEF InHand, Hand, Excused, MarkersExcuse
    <3>3. QED
        BY <1>0, <1>m, <3>1, <3>2, Moves DEF MarkersExcuse
  <2>2. CASE ~(switchedOff \/ Hand(s) \in markKey)
    <3>1. Proceed(s, "send") /\ UNCHANGED <<markKey, sentKey>> /\ "send" \in SweepPcs \ {"mark", "setex"}
        BY <1>6, <2>2 DEF Notify, SweepPcs
    <3>2. QED
        BY <1>3, <3>1
  <2>3. QED
      BY <2>1, <2>2
<1>7. ASSUME NEW s \in Sweeps, Deliver(s) PROVE MarkersExcuse'
  <2>1. CASE Hand(s) \in unreachable
    <3>1. Proceed(s, "setex") /\ UNCHANGED <<markKey, sentKey>>
        BY <1>7, <2>1 DEF Deliver
    <3>2. ASSUME NEW u \in Users, InHand(s, u) PROVE Excused(u)
        BY <2>1, <3>2 DEF InHand, Hand, Excused
    <3>3. QED
        BY <1>0, <1>m, <3>1, <3>2, Moves DEF MarkersExcuse
  <2>2. CASE Hand(s) \notin unreachable
    <3>1. Proceed(s, "mark") /\ UNCHANGED <<markKey, sentKey>>
        BY <1>7, <2>2 DEF Deliver
    <3>2. ASSUME NEW u \in Users, InHand(s, u) PROVE reminders'[u] > 0
        BY <1>7, <2>2, <3>2 DEF Deliver, InHand, Hand, RemindersTypeOK
    <3>3. QED
        BY <1>0, <1>m, <3>1, <3>2, Moves DEF MarkersExcuse
  <2>3. QED
      BY <2>1, <2>2
<1>8. ASSUME NEW s \in Sweeps, MarkSent(s) PROVE MarkersExcuse'
  <2>1. sweep[s].pc \notin {"idle", "remove"}
      BY <1>8 DEF MarkSent, AtPc
  <2>2. Hand(s) \in Users /\ At(s, "mark", Hand(s))
      BY <1>8, <2>1, HandIsUser DEF MarkSent, AtPc, At
  <2>3. reminders'[Hand(s)] > 0
      BY <1>0, <2>2 DEF MarkersExcuse
  <2>4. ASSUME NEW u \in Users, InHand(s, u) PROVE Excused(u)'
      BY <2>3, <2>4 DEF InHand, Hand, Excused
  <2>5. Proceed(s, "setex") /\ markKey' = markKey \cup {Hand(s)} /\ UNCHANGED sentKey
      BY <1>8 DEF MarkSent
  <2>6. QED
      BY <1>0, <1>m, <2>3, <2>4, <2>5, Moves DEF MarkersExcuse
<1>9. ASSUME NEW s \in Sweeps, Remember(s) PROVE MarkersExcuse'
  <2>1. sweep[s].pc \notin {"idle", "remove"}
      BY <1>9 DEF Remember, AtPc
  <2>2. PICK u \in Users : u = Hand(s) /\ At(s, "setex", u)
      BY <1>9, <2>1, HandIsUser DEF Remember, AtPc, At
  <2>3. Excused(u)'
      BY <1>0, <2>2 DEF MarkersExcuse
  <2>4. NextMember(s) /\ sentKey' = sentKey \cup {u} /\ UNCHANGED markKey
      BY <1>9, <2>2 DEF Remember
  <2>5. \A v \in sentKey' : Excused(v)'
      BY <1>0, <1>m, <2>3, <2>4 DEF MarkersExcuse
  <2>6. QED
      BY <1>0, <1>m, <2>4, <2>5, Releases DEF MarkersExcuse
<1>10. ASSUME NEW s \in Sweeps, CheckSent(s) PROVE MarkersExcuse'
  <2>1. "look" \in SweepPcs \ {"mark", "setex"}
      BY DEF SweepPcs
  <2>2. QED
      BY <1>2, <1>3, <1>10, <2>1 DEF CheckSent
<1>11. ASSUME NEW s \in Sweeps, LookAt(s) PROVE MarkersExcuse'
  <2>1. "notify" \in SweepPcs \ {"mark", "setex"}
      BY DEF SweepPcs
  <2>2. QED
      BY <1>2, <1>3, <1>11, <2>1 DEF LookAt
<1>12. ASSUME NEW s \in Sweeps, SweepFault(s) PROVE MarkersExcuse'
    BY <1>2, <1>12 DEF SweepFault
<1>13. QED
    BY <1>1, <1>4, <1>5, <1>6, <1>7, <1>8, <1>9, <1>10, <1>11, <1>12
       DEF RemindersNext, SweepStep, reminderVars, Schedule, TwoHoursPass, World, DayPasses

\* RemindersKept at first, and after every step.
LEMMA KeptInit == RemindersInit => RemindersKept
BY DEF RemindersInit, RemindersKept

LEMMA KeptStep == RemindersInv /\ [RemindersNext]_reminderVars => RemindersKept'
<1> SUFFICES ASSUME RemindersInv, [RemindersNext]_reminderVars PROVE RemindersKept'
    OBVIOUS
<1> USE DEF env
<1>0. RemindersTypeOK /\ MarkersExcuse /\ RemindersKept /\ scheduled \subseteq Members
    BY DEF RemindersInv, RemindersTypeOK
<1>1. \A m \in scheduled : Excused(UserOf[m]) => Excused(UserOf[m])'
    BY <1>0, ExcusedStays, MembersAssumption
<1>2. CASE sweep' = sweep /\ scheduled' = scheduled /\ waiting' = waiting /\ failed' = failed
    BY <1>0, <1>1, <1>2 DEF RemindersKept
<1>3. ASSUME NEW m \in Members, Schedule(m) PROVE RemindersKept'
    BY <1>0, <1>1, <1>3 DEF Schedule, RemindersKept
<1>4. ASSUME NEW s \in Sweeps, NEW pc, Proceed(s, pc), UNCHANGED <<scheduled, waiting, failed>> PROVE RemindersKept'
    BY <1>0, <1>1, <1>4, Moves DEF RemindersKept
<1>5. ASSUME NEW s \in Sweeps, NextMember(s), UNCHANGED <<scheduled, waiting, failed>>,
             sweep[s].member \in Members => Excused(UserOf[sweep[s].member])
      PROVE  RemindersKept'
    BY <1>0, <1>1, <1>5, Releases DEF RemindersKept
<1>6. ASSUME NEW s \in Sweeps, List(s) PROVE RemindersKept'
  <2>1. sweep[s].member = NoMember
      BY <1>0, <1>6 DEF List, AtPc, RemindersTypeOK
  <2>2. UNCHANGED <<scheduled, waiting, failed>> /\ \A t \in Sweeps : sweep'[t].member = sweep[t].member
      BY <1>0, <1>6, <2>1 DEF List, RemindersTypeOK
  <2>3. QED
      BY <1>0, <1>1, <2>2 DEF RemindersKept
<1>7. ASSUME NEW s \in Sweeps, Take(s) PROVE RemindersKept'
  <2>1. PICK m \in sweep[s].todo : /\ waiting' = waiting \ {m}
                                   /\ sweep' = [sweep EXCEPT ![s] = [pc |-> "exists", todo |-> @.todo \ {m}, member |-> m]]
                                   /\ UNCHANGED <<scheduled, failed>>
      BY <1>7 DEF Take
  <2>2. sweep[s].member = NoMember
      BY <1>0, <1>7 DEF Take, AtPc, RemindersTypeOK
  <2>3. \A n \in scheduled, t \in Sweeps : sweep[t].member = n => sweep'[t].member = n
      BY <1>0, <2>1, <2>2, NoMemberAssumption DEF RemindersTypeOK
  <2>4. sweep'[s].member = m
      BY <1>0, <2>1 DEF RemindersTypeOK
  <2>5. QED
      BY <1>0, <1>1, <2>1, <2>3, <2>4 DEF RemindersKept
<1>8. ASSUME NEW s \in Sweeps, CheckSent(s) PROVE RemindersKept'
    BY <1>0, <1>4, <1>5, <1>8 DEF CheckSent, Hand, MarkersExcuse
<1>9. ASSUME NEW s \in Sweeps, LookAt(s) PROVE RemindersKept'
    BY <1>0, <1>4, <1>5, <1>9 DEF LookAt, Hand, Excused
<1>10. ASSUME NEW s \in Sweeps, Remember(s) PROVE RemindersKept'
  <2>1. sweep[s].pc \notin {"idle", "remove"}
      BY <1>10 DEF Remember, AtPc
  <2>2. Hand(s) \in Users /\ At(s, "setex", Hand(s))
      BY <1>0, <1>10, <2>1, HandIsUser DEF Remember, AtPc, At
  <2>3. Excused(UserOf[sweep[s].member])
      BY <1>0, <2>2 DEF MarkersExcuse, Hand
  <2>4. QED
      BY <1>5, <1>10, <2>3 DEF Remember
<1>11. ASSUME NEW s \in Sweeps, SweepFault(s) PROVE RemindersKept'
  <2>1. sweep' = [sweep EXCEPT ![s] = Resting] /\ UNCHANGED <<scheduled, waiting>>
      BY <1>11 DEF SweepFault
  <2>2. failed \subseteq failed' /\ (sweep[s].member # NoMember => sweep[s].member \in failed')
      BY <1>11 DEF SweepFault
  <2>3. \A t \in Sweeps : t # s => sweep'[t].member = sweep[t].member
      BY <1>0, <2>1, Releases
  <2>4. QED
      BY <1>0, <1>1, <2>1, <2>2, <2>3, NoMemberAssumption DEF RemindersKept
<1>12. ASSUME NEW s \in Sweeps, Notify(s) \/ Deliver(s) \/ MarkSent(s) PROVE RemindersKept'
    BY <1>4, <1>12 DEF Notify, Deliver, MarkSent
<1>13. QED
    BY <1>2, <1>3, <1>6, <1>7, <1>8, <1>9, <1>10, <1>11, <1>12
       DEF RemindersNext, SweepStep, reminderVars, TwoHoursPass, World, DayPasses

\* However many reminders wait and runs overlap, fail or are stopped, the types hold.
THEOREM RemindersTyped == RemindersSpec => []RemindersTypeOK
<1>1. QED
    BY TypeInit, TypeStep, PTL DEF RemindersSpec

\* No reminder is lost without a reason: the sorted set, the runs and the markers together
\* account for every member ever scheduled.
THEOREM RemindersAreKept == RemindersSpec => []RemindersKept
<1>1. RemindersInit => RemindersInv
    BY TypeInit, ExcuseInit, KeptInit DEF RemindersInv
<1>2. RemindersInv /\ [RemindersNext]_reminderVars => RemindersInv'
    BY TypeStep, ExcuseStep, KeptStep DEF RemindersInv
<1>3. RemindersInv => RemindersKept
    BY DEF RemindersInv
<1>4. QED
    BY <1>1, <1>2, <1>3, PTL DEF RemindersSpec

----------------------------------------------------------------------------
(***************************************************************************)
(* RemindedOnce, for one user: OnceFor(u) is an invariant by itself.       *)
(***************************************************************************)

OnceFor(u) ==
    u \notin loose =>
        /\ reminders[u] > 0 => reminders[u] = 1 /\ (u \in sentKey \cup markKey \/ Marking(u))
        /\ \A s \in Sweeps :
              /\ At(s, "look", u) \/ At(s, "notify", u) => reminders[u] = 0 \/ u \in markKey \/ Marking(u)
              /\ At(s, "send", u) =>
                    reminders[u] = 0 /\ \A t \in Sweeps \ {s} : ~At(t, "send", u) /\ ~At(t, "mark", u)

LEMMA OnceInit == ASSUME NEW u \in Users, RemindersInit PROVE OnceFor(u)
BY DEF RemindersInit, OnceFor, At, InHand, Resting

\* A run that moves on, of whichever user, with the markers and reminders as they are: what
\* it must not do is leave "mark", or come to "look", "notify", "send" without cause.
LEMMA OnceMoves ==
    ASSUME RemindersTypeOK, NEW u \in Users, OnceFor(u), NEW s \in Sweeps, NEW pc, Proceed(s, pc),
           UNCHANGED <<sentKey, markKey, reminders>>, loose \subseteq loose',
           ~At(s, "mark", u), pc \notin {"send", "mark"},
           pc \in {"look", "notify"} /\ InHand(s, u) /\ u \notin loose =>
               reminders[u] = 0 \/ u \in markKey \/ Marking(u)
    PROVE  OnceFor(u)'
<1> SUFFICES ASSUME u \notin loose' PROVE OnceFor(u)'
    BY DEF OnceFor
<1>1. u \notin loose
    OBVIOUS
<1>2. Marking(u) => Marking(u)'
    BY Moves DEF Marking
<1>3. ASSUME NEW t \in Sweeps, At(t, "look", u)' \/ At(t, "notify", u)'
      PROVE  reminders[u] = 0 \/ u \in markKey \/ Marking(u)
  <2>1. CASE t = s
      BY <1>1, <1>3, <2>1, Moves
  <2>2. CASE t # s
      BY <1>1, <1>3, <2>2, Moves DEF OnceFor
  <2>3. QED
      BY <2>1, <2>2
<1>4. ASSUME NEW t \in Sweeps, At(t, "send", u)'
      PROVE  reminders[u] = 0 /\ \A r \in Sweeps \ {t} : ~At(r, "send", u)' /\ ~At(r, "mark", u)'
  <2>1. t # s /\ At(t, "send", u)
      BY <1>4, Moves
  <2>2. reminders[u] = 0 /\ \A r \in Sweeps \ {t} : ~At(r, "send", u) /\ ~At(r, "mark", u)
      BY <1>1, <2>1 DEF OnceFor
  <2>3. QED
      BY <2>1, <2>2, Moves
<1>5. QED
    BY <1>1, <1>2, <1>3, <1>4 DEF OnceFor

\* A run that leaves its member.
LEMMA OnceReleases ==
    ASSUME RemindersTypeOK, NEW u \in Users, OnceFor(u), NEW s \in Sweeps,
           NextMember(s) \/ sweep' = [sweep EXCEPT ![s] = Resting],
           UNCHANGED <<markKey, reminders>>, sentKey \subseteq sentKey', loose \subseteq loose',
           At(s, "mark", u) => u \in loose'
    PROVE  OnceFor(u)'
<1> SUFFICES ASSUME u \notin loose' PROVE OnceFor(u)'
    BY DEF OnceFor
<1>1. u \notin loose /\ ~At(s, "mark", u)
    OBVIOUS
<1>2. Marking(u) => Marking(u)'
    BY <1>1, Releases DEF Marking
<1>3. \A t \in Sweeps : \A at \in SweepPcs : At(t, at, u)' => At(t, at, u)
    BY Releases
<1>4. {"look", "notify", "send", "mark"} \subseteq SweepPcs
    BY DEF SweepPcs
<1>5. QED
    BY <1>1, <1>2, <1>3, <1>4 DEF OnceFor

LEMMA OnceStep ==
    ASSUME RemindersTypeOK, NEW u \in Users, OnceFor(u), [RemindersNext]_reminderVars
    PROVE  OnceFor(u)'
<1> USE DEF env
<1>1. CASE UNCHANGED <<sentKey, markKey, reminders, sweep, loose>>
    BY <1>1 DEF OnceFor, Marking, At, InHand
<1>2. ASSUME NEW v \in Users, DayPasses(v) PROVE OnceFor(u)'
  <2>1. CASE v = u
    <3>1. /\ \A s \in Sweeps, at \in SweepPcs : ~At(s, at, u)'
          /\ u \notin loose' => u \notin loose /\ u \in sentKey' /\ UNCHANGED reminders
        BY <1>2, <2>1 DEF DayPasses, At, InHand
    <3>2. {"look", "notify", "send", "mark"} \subseteq SweepPcs
        BY DEF SweepPcs
    <3>3. QED
        BY <3>1, <3>2 DEF OnceFor
  <2>2. CASE v # u
    <3>1. /\ UNCHANGED <<sentKey, reminders, sweep>> /\ (u \in markKey' <=> u \in markKey)
          /\ u \notin loose' => u \notin loose
        BY <1>2, <2>2 DEF DayPasses
    <3>2. QED
        BY <3>1 DEF OnceFor, Marking, At, InHand
  <2>3. QED
      BY <2>1, <2>2
<1>3. ASSUME NEW s \in Sweeps, List(s) PROVE OnceFor(u)'
  <2>1. /\ \A t \in Sweeps : t # s => sweep'[t] = sweep[t]
        /\ sweep'[s].pc = "remove" /\ sweep[s].pc = "idle"
        /\ UNCHANGED <<sentKey, markKey, reminders, loose>>
      BY <1>3 DEF List, AtPc, RemindersTypeOK
  <2>2. \A t \in Sweeps, at \in SweepPcs \ {"idle", "remove"} : At(t, at, u)' <=> At(t, at, u)
      BY <2>1 DEF At, InHand
  <2>3. {"look", "notify", "send", "mark"} \subseteq SweepPcs \ {"idle", "remove"}
      BY DEF SweepPcs
  <2>4. Marking(u)' <=> Marking(u)
      BY <2>2, <2>3 DEF Marking
  <2>5. QED
      BY <2>1, <2>2, <2>3, <2>4 DEF OnceFor
<1>4. ASSUME NEW s \in Sweeps, Take(s) PROVE OnceFor(u)'
  <2>1. /\ \A t \in Sweeps : t # s => sweep'[t] = sweep[t]
        /\ sweep'[s].pc = "exists" /\ sweep[s].pc = "remove"
        /\ UNCHANGED <<sentKey, markKey, reminders, loose>>
      BY <1>4 DEF Take, AtPc, RemindersTypeOK
  <2>2. \A t \in Sweeps, at \in SweepPcs \ {"exists", "remove"} : At(t, at, u)' <=> At(t, at, u)
      BY <2>1 DEF At, InHand
  <2>3. {"look", "notify", "send", "mark"} \subseteq SweepPcs \ {"exists", "remove"}
      BY DEF SweepPcs
  <2>4. Marking(u)' <=> Marking(u)
      BY <2>2, <2>3 DEF Marking
  <2>5. QED
      BY <2>1, <2>2, <2>3, <2>4 DEF OnceFor
<1>5. ASSUME NEW s \in Sweeps, CheckSent(s) PROVE OnceFor(u)'
  <2>1. ~At(s, "mark", u) /\ UNCHANGED <<sentKey, markKey, reminders, loose>>
      BY <1>5 DEF CheckSent, AtPc, At
  <2>2. CASE Hand(s) \in sentKey
      BY <1>5, <2>1, <2>2, OnceReleases DEF CheckSent
  <2>3. CASE Hand(s) \notin sentKey
    <3>1. InHand(s, u) => u \notin sentKey
        BY <2>3 DEF InHand, Hand
    <3>2. InHand(s, u) /\ u \notin loose => reminders[u] = 0 \/ u \in markKey \/ Marking(u)
        BY <3>1 DEF OnceFor, RemindersTypeOK
    <3>3. Proceed(s, "look")
        BY <1>5, <2>3 DEF CheckSent
    <3>4. QED
        BY <2>1, <3>2, <3>3, OnceMoves
  <2>4. QED
      BY <2>2, <2>3
<1>6. ASSUME NEW s \in Sweeps, LookAt(s) PROVE OnceFor(u)'
  <2>1. ~At(s, "mark", u) /\ UNCHANGED <<sentKey, markKey, reminders, loose>> /\ (InHand(s, u) => At(s, "look", u))
      BY <1>6 DEF LookAt, AtPc, At
  <2>2. InHand(s, u) /\ u \notin loose => reminders[u] = 0 \/ u \in markKey \/ Marking(u)
      BY <2>1 DEF OnceFor
  <2>3. NextMember(s) \/ Proceed(s, "notify")
      BY <1>6 DEF LookAt
  <2>4. CASE NextMember(s)
      BY <2>1, <2>4, OnceReleases
  <2>5. CASE Proceed(s, "notify")
      BY <2>1, <2>2, <2>5, OnceMoves
  <2>6. QED
      BY <2>3, <2>4, <2>5
<1>7. ASSUME NEW s \in Sweeps, Notify(s) PROVE OnceFor(u)'
  <2>1. ~At(s, "mark", u) /\ UNCHANGED <<sentKey, markKey, reminders>> /\ loose \subseteq loose'
      BY <1>7 DEF Notify, AtPc, At
  <2>2. CASE switchedOff \/ Hand(s) \in markKey
      BY <1>7, <2>1, <2>2, OnceMoves DEF Notify
  <2>3. CASE ~(switchedOff \/ Hand(s) \in markKey)
    <3> SUFFICES ASSUME u \notin loose' PROVE OnceFor(u)'
        BY DEF OnceFor
    <3>1. u \notin loose /\ Proceed(s, "send")
        BY <1>7, <2>1, <2>3 DEF Notify
    <3>2. InHand(s, u) =>
            reminders[u] = 0 /\ \A t \in Sweeps \ {s} : ~At(t, "send", u) /\ ~At(t, "mark", u)
      <4> SUFFICES ASSUME InHand(s, u)
                   PROVE  reminders[u] = 0 /\ \A t \in Sweeps \ {s} : ~At(t, "send", u) /\ ~At(t, "mark", u)
          OBVIOUS
      <4>1. Hand(s) = u /\ u \notin markKey /\ At(s, "notify", u)
          BY <1>7, <2>3 DEF InHand, Hand, Notify, AtPc, At
      <4>2. \A t \in Sweeps \ {s} : ~At(t, "send", u) /\ ~At(t, "mark", u)
          BY <1>7, <2>3, <4>1 DEF Notify, Sending, At, InHand, Hand
      <4>3. ~Marking(u)
          BY <2>1, <4>2 DEF Marking
      <4>4. QED
          BY <3>1, <4>1, <4>2, <4>3 DEF OnceFor
    <3>3. Marking(u)' <=> Marking(u)
        BY <2>1, <3>1, Moves DEF Marking
    <3>4. \A t \in Sweeps : (At(t, "look", u)' => At(t, "look", u)) /\ (At(t, "notify", u)' => At(t, "notify", u))
        BY <3>1, Moves
    <3>5. ASSUME NEW t \in Sweeps, At(t, "send", u)'
          PROVE  reminders[u] = 0 /\ \A r \in Sweeps \ {t} : ~At(r, "send", u)' /\ ~At(r, "mark", u)'
      <4>1. CASE t = s
          BY <3>1, <3>2, <3>5, <4>1, Moves
      <4>2. CASE t # s
        <5>1. At(t, "send", u)
            BY <3>1, <3>5, <4>2, Moves
        <5>2. reminders[u] = 0 /\ ~InHand(s, u) /\ \A r \in Sweeps \ {t} : ~At(r, "send", u) /\ ~At(r, "mark", u)
            BY <3>1, <3>2, <4>2, <5>1 DEF OnceFor
        <5>3. QED
            BY <3>1, <5>2, Moves
      <4>3. QED
          BY <4>1, <4>2
    <3>6. QED
        BY <2>1, <3>1, <3>3, <3>4, <3>5 DEF OnceFor
  <2>4. QED
      BY <2>2, <2>3
<1>8. ASSUME NEW s \in Sweeps, Deliver(s) PROVE OnceFor(u)'
  <2>1. ~At(s, "mark", u) /\ UNCHANGED <<sentKey, markKey, loose>> /\ (InHand(s, u) => At(s, "send", u) /\ Hand(s) = u)
      BY <1>8 DEF Deliver, AtPc, At, InHand, Hand
  <2>2. CASE Hand(s) \in unreachable
      BY <1>8, <2>1, <2>2, OnceMoves DEF Deliver
  <2>3. CASE Hand(s) \notin unreachable /\ InHand(s, u)
    <3> SUFFICES ASSUME u \notin loose PROVE OnceFor(u)'
        BY <2>1 DEF OnceFor
    <3>1. /\ reminders[u] = 0 /\ Proceed(s, "mark") /\ reminders'[u] = 1
          /\ \A t \in Sweeps \ {s} : ~At(t, "send", u)
        BY <1>8, <2>1, <2>3 DEF Deliver, OnceFor, RemindersTypeOK
    <3>2. At(s, "mark", u)' /\ Marking(u)'
        BY <2>3, <3>1, Moves DEF Marking
    <3>3. \A t \in Sweeps : ~At(t, "send", u)'
        BY <3>1, Moves
    <3>4. QED
        BY <3>1, <3>2, <3>3 DEF OnceFor
  <2>4. CASE Hand(s) \notin unreachable /\ ~InHand(s, u)
    <3>1. /\ Proceed(s, "mark") /\ reminders'[u] = reminders[u]
        BY <1>8, <2>4, HandIsUser DEF Deliver, AtPc, RemindersTypeOK, Hand, InHand
    <3>2. \A t \in Sweeps, at \in SweepPcs : At(t, at, u)' <=> At(t, at, u)
        BY <2>4, <3>1, Moves DEF At
    <3>3. {"look", "notify", "send", "mark"} \subseteq SweepPcs
        BY DEF SweepPcs
    <3>4. Marking(u)' <=> Marking(u)
        BY <3>2, <3>3 DEF Marking
    <3>5. QED
        BY <2>1, <3>1, <3>2, <3>3, <3>4 DEF OnceFor
  <2>5. QED
      BY <2>2, <2>3, <2>4
<1>9. ASSUME NEW s \in Sweeps, MarkSent(s) PROVE OnceFor(u)'
  <2>1. Proceed(s, "setex") /\ markKey' = markKey \cup {Hand(s)} /\ UNCHANGED <<sentKey, reminders, loose>>
      BY <1>9 DEF MarkSent
  <2>2. InHand(s, u) => u \in markKey'
      BY <2>1 DEF InHand, Hand
  <2>3. Marking(u) => Marking(u)' \/ u \in markKey'
      BY <2>1, <2>2, Moves DEF Marking, At
  <2>4. \A t \in Sweeps, at \in SweepPcs \ {"setex"} : At(t, at, u)' => At(t, at, u)
      BY <2>1, Moves
  <2>5. {"look", "notify", "send", "mark"} \subseteq SweepPcs \ {"setex"}
      BY DEF SweepPcs
  <2>6. QED
      BY <2>1, <2>3, <2>4, <2>5 DEF OnceFor
<1>10. ASSUME NEW s \in Sweeps, Remember(s) PROVE OnceFor(u)'
  <2>1. ~At(s, "mark", u)
      BY <1>10 DEF Remember, AtPc, At
  <2>2. QED
      BY <1>10, <2>1, OnceReleases DEF Remember
<1>11. ASSUME NEW s \in Sweeps, SweepFault(s) PROVE OnceFor(u)'
  <2>1. At(s, "mark", u) => u \in loose'
      BY <1>11 DEF SweepFault, AtPc, At, InHand, Hand
  <2>2. QED
      BY <1>11, <2>1, OnceReleases DEF SweepFault
<1>12. QED
    BY <1>1, <1>2, <1>3, <1>4, <1>5, <1>6, <1>7, <1>8, <1>9, <1>10, <1>11
       DEF RemindersNext, SweepStep, reminderVars, Schedule, TwoHoursPass, World

\* A user is reminded at most once, but for the two gaps that `loose` names.
THEOREM RemindsOnce == RemindersSpec => []RemindedOnce
<1> DEFINE I == RemindersTypeOK /\ \A u \in Users : OnceFor(u)
<1>1. RemindersInit => I
    BY TypeInit, OnceInit
<1>2. I /\ [RemindersNext]_reminderVars => I'
    BY TypeStep, OnceStep
<1>3. I => RemindedOnce
    BY DEF RemindedOnce, OnceFor, RemindersTypeOK
<1>4. QED
    BY <1>1, <1>2, <1>3, PTL DEF RemindersSpec

----------------------------------------------------------------------------
(***************************************************************************)
(* Sums of weights.  The provers have no induction over data: it is stated *)
(* with sets, from the minimal elements of a well-founded order.           *)
(***************************************************************************)

\* Induction over the subsets of a finite set: what holds of a set whenever it
\* holds of all its proper subsets holds of them all.
LEMMA SubsetInduction ==
  ASSUME NEW U, IsFiniteSet(U), NEW T \in SUBSET SUBSET U,
         \A s \in SUBSET U : (\A t \in SUBSET s : t # s => t \in T) => s \in T
  PROVE  T = SUBSET U
<1> SUFFICES ASSUME (SUBSET U) \ T # {} PROVE FALSE
  OBVIOUS
<1>1. IsWellFoundedOn(StrictSubsetOrdering(U), FiniteSubsetsOf(U))
  BY FS_StrictSubsetOrderingWellFounded
<1>2. FiniteSubsetsOf(U) = SUBSET U
  BY FS_FiniteSubsetsOfFinite
<1>3. \E s \in (SUBSET U) \ T : \A t \in (SUBSET U) \ T : ~ (<<t, s>> \in StrictSubsetOrdering(U))
  <2> DEFINE R == StrictSubsetOrdering(U)  W == SUBSET U  X == (SUBSET U) \ T
  <2>1. IsWellFoundedOn(R, W) /\ X \subseteq W /\ X # {}
    BY <1>1, <1>2
  <2> HIDE DEF R, W, X
  <2>2. \E s \in X : \A t \in X : ~ (<<t, s>> \in R)
    BY <2>1, WFMin
  <2> QED BY <2>2 DEF R, X
<1>4. PICK s \in (SUBSET U) \ T : \A t \in (SUBSET U) \ T : ~ (<<t, s>> \in StrictSubsetOrdering(U))
  BY <1>3
<1>5. \A t \in SUBSET s : t # s => t \in T
  BY <1>4 DEF StrictSubsetOrdering
<1> QED BY <1>4, <1>5

\* Induction over the numbers, for a set of them.
LEMMA NatSet ==
  ASSUME NEW T \in SUBSET Nat, 0 \in T, \A n \in T : n + 1 \in T
  PROVE  T = Nat
<1> SUFFICES ASSUME Nat \ T # {} PROVE FALSE
  OBVIOUS
<1> DEFINE R == OpToRel(<, Nat)
<1>1. IsWellFoundedOn(R, Nat)
  BY NatLessThanWellFounded
<1> HIDE DEF R
<1>2. PICK x \in Nat \ T : \A y \in Nat \ T : <<y, x>> \notin R
  BY <1>1, WFMin
<1>3. \A a, b \in Nat : a < b => <<a, b>> \in R
  BY DEF R, OpToRel
<1>4. x \in Nat /\ x # 0 /\ x - 1 \in Nat /\ x - 1 < x
  OBVIOUS
<1>5. x - 1 \in Nat \ T
  <2>1. (x - 1) + 1 = x
    BY <1>4
  <2> QED BY <1>4, <2>1
<1> QED BY <1>2, <1>3, <1>4, <1>5

\* The element a sum takes next, and what one step of it computes.
Pick1(s) == CHOOSE p \in s : TRUE
Adds(d, f, s) == IF s = {} THEN 0 ELSE d[Pick1(s)] + f[s \ {Pick1(s)}]
Sums(d, f, S) == f = [s \in SUBSET S |-> Adds(d, f, s)]
Fold(d, S) == CHOOSE f : Sums(d, f, S)
SumOf(d, S) == Fold(d, S)[S]

\* A finite set has the sums of all its subsets.
LEMMA SumsExist ==
  ASSUME NEW d, NEW S, IsFiniteSet(S)
  PROVE  \E f : Sums(d, f, S)
<1> DEFINE Upto(n) == {s \in SUBSET S : Cardinality(s) <= n}
           Some(n) == \E f : f = [s \in Upto(n) |-> Adds(d, f, s)]
           T == {n \in Nat : Some(n)}
<1>c. \A s \in SUBSET S : IsFiniteSet(s) /\ Cardinality(s) \in Nat /\ Cardinality(s) <= Cardinality(S)
  BY FS_Subset, FS_CardinalityType
<1>0. Some(0)
  <2>1. \A s \in Upto(0) : s = {}
    BY <1>c, FS_EmptySet
  <2> DEFINE f == [s \in Upto(0) |-> 0]
  <2>2. f = [s \in Upto(0) |-> Adds(d, f, s)]
    BY <2>1 DEF Adds
  <2> QED BY <2>2
<1>1. ASSUME NEW n \in Nat, Some(n) PROVE Some(n + 1)
  <2>1. PICK f : f = [s \in Upto(n) |-> Adds(d, f, s)]
    BY <1>1
  <2> DEFINE g == [s \in Upto(n + 1) |-> Adds(d, f, s)]
  <2>2. \A s \in Upto(n + 1) : s # {} => s \ {Pick1(s)} \in Upto(n)
    <3> SUFFICES ASSUME NEW s \in Upto(n + 1), s # {} PROVE s \ {Pick1(s)} \in Upto(n)
      OBVIOUS
    <3>1. Pick1(s) \in s
      BY DEF Pick1
    <3>2. Cardinality(s \ {Pick1(s)}) = Cardinality(s) - 1
      BY <1>c, <3>1, FS_RemoveElement
    <3> QED BY <1>c, <3>2
  <2>3. \A s \in Upto(n) : s \in Upto(n + 1) /\ g[s] = f[s]
    <3>1. Upto(n) \subseteq Upto(n + 1)
      BY <1>c
    <3> HIDE DEF Upto
    <3>2. \A s \in Upto(n) : g[s] = Adds(d, f, s)
      BY <3>1
    <3>3. \A s \in Upto(n) : f[s] = Adds(d, f, s)
      BY <2>1
    <3> QED BY <3>1, <3>2, <3>3
  <2>4. g = [s \in Upto(n + 1) |-> Adds(d, g, s)]
    <3> HIDE DEF Upto
    <3>1. \A s \in Upto(n + 1) : Adds(d, g, s) = Adds(d, f, s)
      <4> HIDE DEF g
      <4> QED BY <2>2, <2>3 DEF Adds
    <3> QED BY <3>1
  <2> HIDE DEF g
  <2> QED BY <2>4
<1>2. T = Nat
  <2> HIDE DEF Some
  <2>1. T \in SUBSET Nat /\ 0 \in T /\ \A n \in T : n + 1 \in T
    BY <1>0, <1>1
  <2> HIDE DEF T
  <2> QED BY <2>1, NatSet
<1>3. Upto(Cardinality(S)) = SUBSET S
  BY <1>c
<1>4. Some(Cardinality(S))
  <2> HIDE DEF Some
  <2>1. Cardinality(S) \in Nat
    BY FS_CardinalityType
  <2> QED BY <1>2, <2>1
<1> QED BY <1>3, <1>4 DEF Sums

\* The sums of a set and those of a larger one are the same.
LEMMA SumsAgree ==
  ASSUME NEW d, NEW U, IsFiniteSet(U), NEW S \in SUBSET U, NEW f, NEW g, Sums(d, f, S), Sums(d, g, U)
  PROVE  f[S] = g[S]
<1> DEFINE T == {s \in SUBSET S : f[s] = g[s]}
<1>1. ASSUME NEW s \in SUBSET S, \A t \in SUBSET s : t # s => t \in T PROVE s \in T
  <2>1. f[s] = Adds(d, f, s) /\ g[s] = Adds(d, g, s)
    BY DEF Sums
  <2>2. s # {} => s \ {Pick1(s)} \in SUBSET s /\ s \ {Pick1(s)} # s
    BY DEF Pick1
  <2>3. Adds(d, f, s) = Adds(d, g, s)
    BY <1>1, <2>2 DEF Adds
  <2> QED BY <2>1, <2>3
<1>2. IsFiniteSet(S)
  BY FS_Subset
<1>3. T = SUBSET S
  <2> HIDE DEF T
  <2>1. T \in SUBSET SUBSET S
    BY DEF T
  <2> QED BY <1>1, <1>2, <2>1, SubsetInduction
<1> QED BY <1>3

\* The recursion of the sum.
LEMMA SumStep ==
  ASSUME NEW d, NEW S, IsFiniteSet(S)
  PROVE  /\ SumOf(d, {}) = 0
         /\ S # {} => /\ Pick1(S) \in S
                      /\ SumOf(d, S) = d[Pick1(S)] + SumOf(d, S \ {Pick1(S)})
<1>1. \A U : IsFiniteSet(U) => Sums(d, Fold(d, U), U)
  BY SumsExist DEF Fold
<1>2. \A U : IsFiniteSet(U) => SumOf(d, U) = Adds(d, Fold(d, U), U)
  <2> SUFFICES ASSUME NEW U, IsFiniteSet(U) PROVE SumOf(d, U) = Adds(d, Fold(d, U), U)
    OBVIOUS
  <2>1. Fold(d, U)[U] = Adds(d, Fold(d, U), U)
    BY <1>1 DEF Sums
  <2> QED BY <2>1 DEF SumOf
<1>3. SumOf(d, {}) = 0
  BY <1>2, FS_EmptySet DEF Adds
<1>4. ASSUME S # {}
      PROVE  Pick1(S) \in S /\ SumOf(d, S) = d[Pick1(S)] + SumOf(d, S \ {Pick1(S)})
  <2> DEFINE R == S \ {Pick1(S)}
  <2>1. Pick1(S) \in S /\ R \in SUBSET S
    BY <1>4 DEF Pick1
  <2>2. IsFiniteSet(R)
    BY <2>1, FS_Subset
  <2>3. Fold(d, R)[R] = Fold(d, S)[R]
    <3> HIDE DEF R
    <3> QED BY <1>1, <2>1, <2>2, SumsAgree
  <2>4. SumOf(d, R) = Fold(d, R)[R]
    BY DEF SumOf
  <2>5. SumOf(d, S) = d[Pick1(S)] + Fold(d, S)[R]
    BY <1>2, <1>4 DEF Adds
  <2> QED BY <2>1, <2>3, <2>4, <2>5
<1> QED BY <1>3, <1>4

\* A sum of numbers is a number.
LEMMA SumType ==
  ASSUME NEW U, NEW d \in [U -> Nat], NEW S \in SUBSET U, IsFiniteSet(S)
  PROVE  SumOf(d, S) \in Nat
<1> DEFINE T == {s \in SUBSET S : SumOf(d, s) \in Nat}
<1>1. ASSUME NEW s \in SUBSET S, \A t \in SUBSET s : t # s => t \in T PROVE s \in T
  <2>0. IsFiniteSet(s)
    BY FS_Subset
  <2>1. CASE s = {}
    <3>1. SumOf(d, s) = 0
      BY <2>0, <2>1, SumStep
    <3> QED BY <3>1
  <2>2. CASE s # {}
    <3>1. Pick1(s) \in s /\ SumOf(d, s) = d[Pick1(s)] + SumOf(d, s \ {Pick1(s)})
      BY <2>0, <2>2, SumStep
    <3>2. s \ {Pick1(s)} \in T
      BY <1>1, <3>1
    <3>3. d[Pick1(s)] \in Nat
      BY <3>1
    <3> QED BY <3>1, <3>2, <3>3
  <2> QED BY <2>1, <2>2
<1>2. T = SUBSET S
  <2>1. T \in SUBSET SUBSET S
    OBVIOUS
  <2> HIDE DEF T
  <2> QED BY <1>1, <2>1, SubsetInduction
<1> QED BY <1>2

\* A number more adds itself, in whatever order the sum is taken.
LEMMA SumAdd ==
  ASSUME NEW U, NEW d \in [U -> Nat], NEW S \in SUBSET U, IsFiniteSet(S), NEW q \in U, q \notin S
  PROVE  SumOf(d, S \union {q}) = SumOf(d, S) + d[q]
<1> DEFINE Adding(s) == \A p \in U \ s : SumOf(d, s \union {p}) = SumOf(d, s) + d[p]
           T == {s \in SUBSET S : Adding(s)}
<1>1. ASSUME NEW s \in SUBSET S, \A t \in SUBSET s : t # s => t \in T PROVE s \in T
  <2> SUFFICES ASSUME NEW p \in U \ s PROVE SumOf(d, s \union {p}) = SumOf(d, s) + d[p]
    OBVIOUS
  <2> DEFINE a == s \union {p}
             c == Pick1(a)
             r == s \ {c}
  <2>0. IsFiniteSet(s) /\ IsFiniteSet(a) /\ d[p] \in Nat
    BY FS_Subset, FS_AddElement
  <2>1. c \in a /\ SumOf(d, a) = d[c] + SumOf(d, a \ {c})
    <3> HIDE DEF a
    <3>1. a # {}
      BY DEF a
    <3> QED BY <2>0, <3>1, SumStep
  <2>2. CASE c = p
    <3>1. a \ {c} = s
      BY <2>2
    <3>2. SumOf(d, s) \in Nat
      BY <2>0, SumType
    <3>3. SumOf(d, a) = d[p] + SumOf(d, s)
      BY <2>1, <2>2, <3>1
    <3> HIDE DEF c
    <3> QED BY <2>0, <3>2, <3>3
  <2>3. CASE c # p
    <3>1. c \in s /\ c \in U
      BY <2>1, <2>3
    <3>2. Adding(r)
      <4>1. r \in SUBSET s /\ r # s
        BY <3>1
      <4> HIDE DEF r, Adding
      <4> QED BY <1>1, <4>1
    <3>3. a \ {c} = r \union {p} /\ s = r \union {c} /\ p \notin r /\ c \notin r
      BY <2>3, <3>1
    <3>4. SumOf(d, r) \in Nat /\ d[c] \in Nat
      BY <2>0, <3>1, FS_Subset, SumType
    <3> HIDE DEF r, c, a
    <3>5. SumOf(d, r \union {p}) = SumOf(d, r) + d[p] /\ SumOf(d, r \union {c}) = SumOf(d, r) + d[c]
      BY <3>1, <3>2, <3>3
    <3>6. SumOf(d, a) = d[c] + (SumOf(d, r) + d[p]) /\ SumOf(d, s) = SumOf(d, r) + d[c]
      BY <2>1, <3>3, <3>5
    <3> QED BY <2>0, <3>4, <3>6 DEF a
  <2> QED BY <2>2, <2>3
<1>2. T = SUBSET S
  <2>1. T \in SUBSET SUBSET S
    OBVIOUS
  <2> HIDE DEF T
  <2> QED BY <1>1, <2>1, SubsetInduction
<1> QED BY <1>2

\* The total of a sequence is the sum over its positions.
LEMMA TotalSum ==
  ASSUME NEW s
  PROVE  Total(s) = SumOf(s, DOMAIN s)
<1>1. Total(s) = (CHOOSE f : f = [t \in SUBSET (DOMAIN s) |->
                    IF t = {} THEN 0
                    ELSE s[CHOOSE p \in t : TRUE] + f[t \ {CHOOSE p \in t : TRUE}]])[DOMAIN s]
  BY DEF Total, FoldSeq, FoldFunction, FoldFunctionOnSet, MapThenFoldSet
<1> QED BY <1>1 DEF SumOf, Fold, Sums, Adds, Pick1

\* A sum depends on what it adds only.
LEMMA SumsAlike ==
  ASSUME NEW d, NEW g, NEW S, \A x \in S : d[x] = g[x]
  PROVE  SumOf(d, S) = SumOf(g, S)
<1>1. ASSUME NEW f PROVE Sums(d, f, S) <=> Sums(g, f, S)
  <2>1. \A s \in SUBSET S : Adds(d, f, s) = Adds(g, f, s)
    BY DEF Adds, Pick1
  <2> QED BY <2>1 DEF Sums
<1>2. Fold(d, S) = Fold(g, S)
  BY <1>1 DEF Fold
<1> QED BY <1>2 DEF SumOf

\* The total of a sequence up to a position adds the element there.
LEMMA TotalPrefix ==
  ASSUME NEW w \in Seq(Nat), NEW k \in 0..Len(w)
  PROVE  /\ Total(SubSeq(w, 1, k)) \in Nat
         /\ k < Len(w) => Total(SubSeq(w, 1, k + 1)) = Total(SubSeq(w, 1, k)) + w[k + 1]
<1>0. Len(w) \in Nat /\ w \in [1..Len(w) -> Nat]
  OBVIOUS
<1>1. ASSUME NEW j \in 0..Len(w)
      PROVE  /\ Total(SubSeq(w, 1, j)) = SumOf(w, 1..j)
             /\ 1..j \in SUBSET (1..Len(w)) /\ IsFiniteSet(1..j)
  <2>1. DOMAIN SubSeq(w, 1, j) = 1..j /\ \A x \in 1..j : SubSeq(w, 1, j)[x] = w[x]
    BY <1>0
  <2>2. Total(SubSeq(w, 1, j)) = SumOf(SubSeq(w, 1, j), 1..j)
    BY <2>1, TotalSum
  <2>3. SumOf(SubSeq(w, 1, j), 1..j) = SumOf(w, 1..j)
    BY <2>1, SumsAlike
  <2>4. IsFiniteSet(1..j)
    BY FS_Interval
  <2> QED BY <1>0, <2>2, <2>3, <2>4
<1>2. Total(SubSeq(w, 1, k)) \in Nat
  BY <1>0, <1>1, SumType
<1>3. ASSUME k < Len(w) PROVE Total(SubSeq(w, 1, k + 1)) = Total(SubSeq(w, 1, k)) + w[k + 1]
  <2>1. k + 1 \in 0..Len(w) /\ k + 1 \in 1..Len(w) /\ k + 1 \notin 1..k /\ 1..(k + 1) = (1..k) \union {k + 1}
    BY <1>0, <1>3
  <2>2. SumOf(w, (1..k) \union {k + 1}) = SumOf(w, 1..k) + w[k + 1]
    <3> DEFINE A == 1..k
               N == 1..Len(w)
    <3>1. w \in [N -> Nat] /\ A \in SUBSET N /\ IsFiniteSet(A) /\ k + 1 \in N /\ k + 1 \notin A
      BY <1>0, <1>1, <2>1
    <3> HIDE DEF A, N
    <3>2. SumOf(w, A \union {k + 1}) = SumOf(w, A) + w[k + 1]
      BY <3>1, SumAdd
    <3> QED BY <3>2 DEF A
  <2>3. Total(SubSeq(w, 1, k + 1)) = SumOf(w, 1..(k + 1))
    BY <1>1, <2>1
  <2>4. Total(SubSeq(w, 1, k)) = SumOf(w, 1..k)
    BY <1>1
  <2>5. SumOf(w, 1..(k + 1)) = SumOf(w, (1..k) \union {k + 1})
    BY <2>1
  <2> QED BY <2>2, <2>3, <2>4, <2>5
<1> QED BY <1>2, <1>3

\* So the parts of the weights lie one behind the other.
LEMMA TotalsRise ==
  ASSUME NEW w \in Seq(Nat), NEW j \in 1..Len(w), NEW i \in 1..Len(w), j < i
  PROVE  Total(SubSeq(w, 1, j - 1)) + w[j] <= Total(SubSeq(w, 1, i - 1))
<1> DEFINE S(k) == Total(SubSeq(w, 1, k))
           T == {n \in Nat : j + n <= Len(w) => S(j) <= S(j + n)}
<1>0. Len(w) \in Nat /\ \A k \in 1..Len(w) : w[k] \in Nat
  OBVIOUS
<1>1. \A k \in 0..Len(w) : S(k) \in Nat
  BY TotalPrefix
<1>2. \A k \in 0..Len(w) : k < Len(w) => S(k + 1) = S(k) + w[k + 1]
  BY TotalPrefix
<1> HIDE DEF S
<1>3. 0 \in T
  <2>1. j + 0 = j /\ S(j) \in Nat
    BY <1>0, <1>1
  <2> QED BY <2>1
<1>4. ASSUME NEW n \in T PROVE n + 1 \in T
  <2> SUFFICES ASSUME j + (n + 1) <= Len(w) PROVE S(j) <= S(j + (n + 1))
    OBVIOUS
  <2>1. j + n \in 0..Len(w) /\ j + n < Len(w) /\ (j + n) + 1 = j + (n + 1)
    BY <1>0
  <2>2. S((j + n) + 1) = S(j + n) + w[(j + n) + 1]
    BY <1>2, <2>1
  <2>3. S(j) <= S(j + n) /\ S(j) \in Nat /\ S(j + n) \in Nat /\ w[(j + n) + 1] \in Nat
    BY <1>0, <1>1, <2>1
  <2> QED BY <2>1, <2>2, <2>3
<1>5. T = Nat
  <2>1. T \in SUBSET Nat /\ 0 \in T /\ \A n \in T : n + 1 \in T
    BY <1>3, <1>4
  <2> HIDE DEF T
  <2> QED BY <2>1, NatSet
<1>6. S(j) <= S(i - 1)
  <2>1. (i - 1) - j \in Nat /\ j + ((i - 1) - j) = i - 1 /\ i - 1 <= Len(w)
    BY <1>0
  <2>2. (i - 1) - j \in T
    <3> HIDE DEF T
    <3> QED BY <1>5, <2>1
  <2> QED BY <2>1, <2>2
<1>7. S(j) = S(j - 1) + w[j]
  <2>1. j - 1 \in 0..Len(w) /\ j - 1 < Len(w) /\ (j - 1) + 1 = j
    BY <1>0
  <2>2. S((j - 1) + 1) = S(j - 1) + w[(j - 1) + 1]
    BY <1>2, <2>1
  <2> QED BY <2>1, <2>2
<1> QED BY <1>6, <1>7 DEF S

\* The least number of a set of numbers.
LEMMA Least ==
  ASSUME NEW I \in SUBSET Nat, I # {}
  PROVE  Min(I) \in I /\ \A i \in I : Min(I) <= i
<1> DEFINE R == OpToRel(<, Nat)
<1>1. IsWellFoundedOn(R, Nat)
  BY NatLessThanWellFounded
<1>2. \A a, b \in Nat : a < b => <<a, b>> \in R
  BY DEF OpToRel
<1> HIDE DEF R
<1>3. PICK x \in I : \A y \in I : <<y, x>> \notin R
  BY <1>1, WFMin
<1>4. \A y \in I : x <= y
  <2> SUFFICES ASSUME NEW y \in I, ~ (x <= y) PROVE FALSE
    OBVIOUS
  <2>1. x \in Nat /\ y \in Nat /\ y < x
    OBVIOUS
  <2> QED BY <1>2, <1>3, <2>1
<1> QED BY <1>4 DEF Min

----------------------------------------------------------------------------
(***************************************************************************)
(* Estimand under a wider coverage: a variation's range begins where it    *)
(* began and only grows, up to where the next begins, so a unit inside     *)
(* some range stays inside this one and no other.                          *)
(***************************************************************************)

\* The keys of a rule that name variations are a sequence.
LEMMA KnownLength ==
    ASSUME NEW feature, NEW keys, IsSequence(keys)
    PROVE  Len(Known(feature, keys)) \in Nat /\ DOMAIN Known(feature, keys) = 1..Len(Known(feature, keys))
<1> DEFINE kept == {i \in DOMAIN keys : keys[i] \in ToSet(feature.variations)}
           nth(n) == CHOOSE i \in kept : Cardinality({j \in kept : j <= i}) = n
<1>1. IsFiniteSet(kept)
    <2>1. DOMAIN keys = 1..Len(keys) /\ Len(keys) \in Nat
        BY DEF IsSequence
    <2>2. IsFiniteSet(1..Len(keys))
        BY <2>1, FS_Interval
    <2>3. QED
        BY <2>1, <2>2, FS_Subset
<1>2. Cardinality(kept) \in Nat
    BY <1>1, FS_CardinalityType
<1>3. Known(feature, keys) = [n \in 1..Cardinality(kept) |-> keys[nth(n)]]
    BY DEF Known
<1> HIDE DEF kept, nth
<1>4. QED
    BY <1>2, <1>3

\* The weights ranges are made of are numbers, one for each variation.
LEMMA NormalizedWeights ==
    ASSUME NEW n \in Nat \ {0}, NEW weights \in Seq(Nat)
    PROVE  Normalized(n, weights) \in Seq(Nat) /\ Len(Normalized(n, weights)) = n
<1>1. Scale \in Nat
    BY ScaleAssumption
<1>2. Scale \div n \in Nat
    BY <1>1
<1>3. Equal(n) \in Seq(Nat) /\ Len(Equal(n)) = n
    <2>1. Equal(n) \in [1..n -> Nat]
        BY <1>2 DEF Equal
    <2>2. QED
        BY <2>1
<1> DEFINE given == IF weights = <<>> \/ Len(weights) # n THEN Equal(n) ELSE weights
           total == Total(given)
           percent == total > (101 * Scale) \div 100 /\ total <= 100 * Scale /\ \A i \in 1..n : given[i] >= 0
           scaled == IF percent THEN [i \in 1..n |-> given[i] \div 100] ELSE given
<1>4. given \in Seq(Nat) /\ Len(given) = n
    BY <1>3
<1>5. Normalized(n, weights) = IF NearOne(Total(scaled)) THEN scaled ELSE Equal(n)
    BY DEF Normalized
<1> HIDE DEF given, percent
<1>6. scaled \in Seq(Nat) /\ Len(scaled) = n
    <2>1. \A i \in 1..n : given[i] \div 100 \in Nat
        <3> SUFFICES ASSUME NEW i \in 1..n PROVE given[i] \div 100 \in Nat
            OBVIOUS
        <3>1. given[i] \in Nat
            BY <1>4
        <3>2. QED
            BY <3>1
    <2>2. [i \in 1..n |-> given[i] \div 100] \in [1..n -> Nat]
        BY <2>1
    <2>3. QED
        BY <1>4, <2>2
<1> HIDE DEF scaled
<1>7. QED
    BY <1>3, <1>5, <1>6

\* A coverage is clamped without changing the order of coverages.
LEMMA ClampedRises ==
    ASSUME NEW a \in Int, NEW b \in Int, a <= b
    PROVE  /\ Clamped(a) \in 0..100 /\ Clamped(b) \in 0..100 /\ Clamped(a) <= Clamped(b)
BY DEF Clamped

\* A part of a weight grows with the coverage, and is never more than the weight.
LEMMA PartRises ==
    ASSUME NEW a \in 0..100, NEW b \in 0..100, a <= b, NEW w \in Nat
    PROVE  /\ (a * w) \div 100 \in Nat /\ (b * w) \div 100 \in Nat
           /\ (a * w) \div 100 <= (b * w) \div 100 /\ (b * w) \div 100 <= w
<1>1. a * w \in Nat /\ b * w \in Nat /\ a * w <= b * w /\ b * w <= 100 * w
    BY SMTT(30)
<1>2. \A x, y \in Nat : x <= y => x \div 100 <= y \div 100
    OBVIOUS
<1>3. (100 * w) \div 100 = w
    OBVIOUS
<1>4. QED
    BY <1>1, <1>2, <1>3

\* A bucket that is in a range under some coverage is in the same range, and in no earlier
\* one, under a wider coverage.
LEMMA ChoiceStays ==
    ASSUME NEW n \in Nat \ {0}, NEW a \in Int, NEW b \in Int, a <= b, NEW weights \in Seq(Nat),
           NEW bucket \in Int, ChooseVariation(bucket, Ranges(n, a, weights)) # 0
    PROVE  ChooseVariation(bucket, Ranges(n, b, weights)) = ChooseVariation(bucket, Ranges(n, a, weights))
<1> DEFINE w == Normalized(n, weights)
           start(i) == Total(SubSeq(w, 1, i - 1))
           In(c) == {i \in 1..n : bucket >= start(i) /\ bucket < start(i) + (Clamped(c) * w[i]) \div 100}
<1>1. w \in Seq(Nat) /\ Len(w) = n
    BY NormalizedWeights
<1>2. ASSUME NEW c \in {a, b}
      PROVE  ChooseVariation(bucket, Ranges(n, c, weights)) = IF In(c) # {} THEN Min(In(c)) ELSE 0
    <2> DEFINE ranges == Ranges(n, c, weights)
    <2>1. ranges = [i \in 1..n |-> <<start(i), start(i) + (Clamped(c) * w[i]) \div 100>>]
        BY DEF Ranges
    <2> HIDE DEF start, w, ranges
    <2>2. Len(ranges) = n /\ \A i \in 1..n : ranges[i][1] = start(i) /\ ranges[i][2] = start(i) + (Clamped(c) * w[i]) \div 100
        BY <2>1
    <2>3. {i \in 1..Len(ranges) : bucket >= ranges[i][1] /\ bucket < ranges[i][2]} = In(c)
        BY <2>2
    <2> HIDE DEF In
    <2>4. QED
        BY <2>3 DEF ChooseVariation, SelectInSeq, ranges
<1>3. \A i \in 1..n : start(i) \in Nat /\ w[i] \in Nat
    <2> SUFFICES ASSUME NEW i \in 1..n PROVE start(i) \in Nat /\ w[i] \in Nat
        OBVIOUS
    <2>1. i - 1 \in 0..Len(w)
        BY <1>1
    <2> HIDE DEF w
    <2>2. QED
        BY <1>1, <2>1, TotalPrefix
<1>4. \A i, j \in 1..n : j < i => start(j) + w[j] <= start(i)
    <2> HIDE DEF w
    <2>1. QED
        BY <1>1, TotalsRise
<1> HIDE DEF w, start
<1>5. \A i \in 1..n : /\ (Clamped(a) * w[i]) \div 100 \in Nat /\ (Clamped(b) * w[i]) \div 100 \in Nat
                      /\ (Clamped(a) * w[i]) \div 100 <= (Clamped(b) * w[i]) \div 100
                      /\ (Clamped(b) * w[i]) \div 100 <= w[i]
    BY <1>3, ClampedRises, PartRises
<1>6. In(a) \subseteq In(b)
    BY <1>3, <1>5
<1>7. ASSUME NEW i \in In(a), NEW j \in In(b) PROVE i <= j
    <2>1. /\ i \in 1..n /\ j \in 1..n /\ bucket >= start(i) /\ bucket < start(j) + (Clamped(b) * w[j]) \div 100
        OBVIOUS
    <2> SUFFICES ASSUME j < i PROVE FALSE
        BY <2>1
    <2>2. /\ start(j) + w[j] <= start(i) /\ (Clamped(b) * w[j]) \div 100 <= w[j]
          /\ (Clamped(b) * w[j]) \div 100 \in Nat /\ start(i) \in Nat /\ start(j) \in Nat /\ w[j] \in Nat
        BY <1>3, <1>4, <1>5, <2>1
    <2>3. QED
        BY <2>1, <2>2
<1>8. In(a) \in SUBSET Nat /\ In(b) \in SUBSET Nat
    OBVIOUS
<1> HIDE DEF In
<1>9. In(a) # {}
    BY <1>2
<1>10. Min(In(a)) \in In(a) /\ Min(In(b)) \in In(b) /\ Min(In(b)) <= Min(In(a))
    <2>1. In(b) # {}
        BY <1>6, <1>9
    <2>2. Min(In(a)) \in In(a)
        BY <1>8, <1>9, Least
    <2>3. Min(In(b)) \in In(b) /\ \A i \in In(b) : Min(In(b)) <= i
        BY <1>8, <2>1, Least
    <2>4. QED
        BY <1>6, <2>2, <2>3
<1>11. Min(In(a)) <= Min(In(b)) /\ Min(In(a)) \in Nat /\ Min(In(b)) \in Nat
    BY <1>7, <1>8, <1>10
<1>12. Min(In(a)) = Min(In(b))
    BY <1>10, <1>11
<1>13. QED
    BY <1>2, <1>6, <1>9, <1>12

\* One rule is another of a wider coverage, and otherwise the same.
WiderRule(old, new) ==
    /\ IsRule(old) /\ IsRule(new) /\ old.coverage <= new.coverage
    /\ \A field \in DOMAIN old \ {"coverage"} : new[field] = old[field]

\* A wider rule serves what the rule served, and raises where it raised.
LEMMA WiderServes ==
    ASSUME NEW feature, NEW wider, wider.variations = feature.variations, wider.seed = feature.seed,
           NEW old, NEW new, WiderRule(old, new), NEW unit,
           old.version \in {1, 2} => Hash(SeedOf(feature, old), unit, old.version) \in Int
    PROVE  /\ Raises(wider, new) <=> Raises(feature, old)
           /\ ~Raises(feature, old) /\ EvaluateRule(feature, old, unit) # Absent =>
                 EvaluateRule(wider, new, unit) = EvaluateRule(feature, old, unit)
<1>1. /\ new.force = old.force /\ new.keys = old.keys /\ new.weights = old.weights
      /\ new.ranges = old.ranges /\ new.seed = old.seed /\ new.version = old.version
    BY DEF WiderRule, IsRule
<1>2. Known(wider, new.keys) = Known(feature, old.keys)
    BY <1>1 DEF Known
<1>3. Raises(wider, new) <=> Raises(feature, old)
    BY <1>1, <1>2 DEF Raises
<1>4. ASSUME ~Raises(feature, old), EvaluateRule(feature, old, unit) # Absent
      PROVE  EvaluateRule(wider, new, unit) = EvaluateRule(feature, old, unit)
    <2> DEFINE keys == Known(feature, old.keys)
               bucket == Hash(SeedOf(feature, old), unit, old.version)
               ranges(rule) == IF rule.ranges # <<>> THEN rule.ranges
                               ELSE Ranges(Len(keys), rule.coverage, rule.weights)
               forced == old.force \in ToSet(feature.variations)
               chosen(rule) == ChooseVariation(bucket, ranges(rule))
               result(i) == IF forced THEN old.force
                            ELSE IF keys = <<>> \/ i \notin 1..Len(keys) THEN Absent ELSE keys[i]
    <2>1. EvaluateRule(feature, old, unit) = result(chosen(old))
        BY DEF EvaluateRule
    <2>2. SeedOf(wider, new) = SeedOf(feature, old)
        BY <1>1 DEF SeedOf
    <2>3. EvaluateRule(wider, new, unit) = result(chosen(new))
        BY <1>1, <1>2, <2>2 DEF EvaluateRule
    <2>4. CASE forced \/ old.ranges # <<>>
        BY <1>1, <2>1, <2>3, <2>4
    <2>5. CASE ~forced /\ old.ranges = <<>>
        <3>1. keys # <<>> /\ chosen(old) \in 1..Len(keys)
            BY <1>4, <2>1, <2>5
        <3>2. Len(keys) \in Nat
            BY KnownLength DEF WiderRule, IsRule
        <3>3. old.version \in {1, 2}
            BY <1>4, <2>5, <3>1 DEF Raises
        <3>4. bucket \in Int
            BY <3>3
        <3>5. ranges(old) = Ranges(Len(keys), old.coverage, old.weights)
              /\ ranges(new) = Ranges(Len(keys), new.coverage, old.weights)
            BY <1>1, <2>5
        <3>6. old.coverage \in Int /\ new.coverage \in Int /\ old.coverage <= new.coverage /\ old.weights \in Seq(Nat)
            BY DEF WiderRule, IsRule
        <3>7. Len(keys) \in Nat \ {0} /\ chosen(old) # 0
            BY <3>1, <3>2
        <3> HIDE DEF bucket, keys
        <3>8. ChooseVariation(bucket, Ranges(Len(keys), new.coverage, old.weights))
                = ChooseVariation(bucket, Ranges(Len(keys), old.coverage, old.weights))
            BY <3>4, <3>5, <3>6, <3>7, ChoiceStays
        <3>9. chosen(new) = chosen(old)
            BY <3>5, <3>8
        <3> HIDE DEF chosen
        <3>10. QED
            BY <2>1, <2>3, <3>9
    <2>6. QED
        BY <2>4, <2>5
<1>5. QED
    BY <1>3, <1>4

\* One feature is another with wider rules, and otherwise the same.
WiderFeature(old, new) ==
    /\ IsFeature(old) /\ IsFeature(new) /\ Len(old.rules) = Len(new.rules)
    /\ \A i \in DOMAIN old.rules : WiderRule(old.rules[i], new.rules[i])
    /\ \A field \in DOMAIN old \ {"rules"} : new[field] = old[field]

\* The rule that is selected is the same one, wider.
LEMMA SameRule ==
    ASSUME NEW old, NEW new, WiderFeature(old, new)
    PROVE  \/ SelectRule(old.rules) = Absent /\ SelectRule(new.rules) = Absent
           \/ \E i \in DOMAIN old.rules : SelectRule(old.rules) = old.rules[i] /\ SelectRule(new.rules) = new.rules[i]
<1> DEFINE Own(rules) == {i \in 1..Len(rules) : ~rules[i].default /\ RuleMatches(rules[i])}
           Default(rules) == {i \in 1..Len(rules) : rules[i].default /\ RuleMatches(rules[i])}
           First(I) == IF I # {} THEN Min(I) ELSE 0
           Chosen(rules) == IF First(Own(rules)) > 0 THEN rules[First(Own(rules))]
                            ELSE IF First(Default(rules)) > 0 THEN rules[First(Default(rules))] ELSE Absent
<1>1. \A rules : SelectRule(rules) = Chosen(rules)
    BY DEF SelectRule, SelectInSeq
<1>2. DOMAIN old.rules = 1..Len(old.rules) /\ Len(old.rules) \in Nat /\ Len(new.rules) = Len(old.rules)
    BY DEF WiderFeature, IsFeature, IsSequence
<1>3. \A i \in 1..Len(old.rules) : new.rules[i].default = old.rules[i].default
                                  /\ new.rules[i].condition = old.rules[i].condition
    BY <1>2 DEF WiderFeature, WiderRule, IsRule
<1>4. Own(new.rules) = Own(old.rules) /\ Default(new.rules) = Default(old.rules)
    <2>1. \A i \in 1..Len(old.rules) : RuleMatches(new.rules[i]) <=> RuleMatches(old.rules[i])
        BY <1>3 DEF RuleMatches
    <2>2. QED
        BY <1>2, <1>3, <2>1
<1>5. \A I \in SUBSET (1..Len(old.rules)) : First(I) > 0 => First(I) \in 1..Len(old.rules)
    <2> SUFFICES ASSUME NEW I \in SUBSET (1..Len(old.rules)), I # {} PROVE Min(I) \in 1..Len(old.rules)
        OBVIOUS
    <2>1. I \in SUBSET Nat
        OBVIOUS
    <2>2. QED
        BY <2>1, Least
<1>6. Own(old.rules) \in SUBSET (1..Len(old.rules)) /\ Default(old.rules) \in SUBSET (1..Len(old.rules))
    OBVIOUS
<1> HIDE DEF Own, Default, First
<1>7. QED
    BY <1>1, <1>2, <1>4, <1>5, <1>6

\* A wider feature serves a user what the feature served, and raises where it raised.
LEMMA WiderEvaluates ==
    ASSUME NEW old, NEW new, WiderFeature(old, new), NEW unit,
           \A rule \in ToSet(old.rules), v \in {1, 2} : rule # Absent /\ Hash(SeedOf(old, rule), unit, v) \in Int,
           \A rule \in ToSet(new.rules) : rule # Absent
    PROVE  /\ EvaluationRaises(new, unit) <=> EvaluationRaises(old, unit)
           /\ ~EvaluationRaises(old, unit) /\ EvaluateFeature(old, unit) # Absent =>
                 EvaluateFeature(new, unit) = EvaluateFeature(old, unit)
<1>1. /\ new.enabled = old.enabled /\ new.published = old.published /\ new.variations = old.variations
      /\ new.forced = old.forced /\ new.seed = old.seed
    BY DEF WiderFeature, IsFeature
<1> DEFINE forced == unit \in DOMAIN old.forced /\ old.forced[unit] \in ToSet(old.variations)
           rule == SelectRule(old.rules)
           wide == SelectRule(new.rules)
<1>2. rule # Absent =>
        /\ wide # Absent /\ (Raises(new, wide) <=> Raises(old, rule))
        /\ ~Raises(old, rule) /\ EvaluateRule(old, rule, unit) # Absent =>
              EvaluateRule(new, wide, unit) = EvaluateRule(old, rule, unit)
    <2> SUFFICES ASSUME rule # Absent
                 PROVE  /\ wide # Absent /\ (Raises(new, wide) <=> Raises(old, rule))
                        /\ ~Raises(old, rule) /\ EvaluateRule(old, rule, unit) # Absent =>
                              EvaluateRule(new, wide, unit) = EvaluateRule(old, rule, unit)
        OBVIOUS
    <2>1. PICK i \in DOMAIN old.rules : rule = old.rules[i] /\ wide = new.rules[i]
        BY SameRule
    <2>2. i \in DOMAIN new.rules
        BY DEF WiderFeature, IsFeature, IsSequence
    <2>3. rule \in ToSet(old.rules) /\ wide \in ToSet(new.rules)
        BY <2>1, <2>2 DEF ToSet
    <2>4. WiderRule(rule, wide)
        BY <2>1 DEF WiderFeature
    <2> HIDE DEF rule, wide
    <2>5. rule.version \in {1, 2} => Hash(SeedOf(old, rule), unit, rule.version) \in Int
        BY <2>3
    <2>6. QED
        BY <1>1, <2>3, <2>4, <2>5, WiderServes
<1>3. rule = Absent => wide = Absent
    <2>1. ASSUME rule = Absent, wide # Absent PROVE FALSE
        <3>1. PICK i \in DOMAIN old.rules : rule = old.rules[i]
            BY <2>1, SameRule
        <3>2. rule \in ToSet(old.rules)
            BY <3>1 DEF ToSet
        <3>3. QED
            BY <2>1, <3>2
    <2>2. QED
        BY <2>1
<1> HIDE DEF rule, wide
<1>4. /\ EvaluationRaises(old, unit) <=>
            old.enabled /\ old.published /\ ~forced /\ rule # Absent /\ Raises(old, rule)
      /\ EvaluationRaises(new, unit) <=>
            old.enabled /\ old.published /\ ~forced /\ wide # Absent /\ Raises(new, wide)
    BY <1>1 DEF EvaluationRaises, Selected, rule, wide
<1>5. /\ EvaluateFeature(old, unit) =
            IF ~old.enabled \/ ~old.published THEN Absent ELSE IF forced THEN old.forced[unit]
            ELSE IF rule = Absent THEN Absent ELSE EvaluateRule(old, rule, unit)
      /\ EvaluateFeature(new, unit) =
            IF ~old.enabled \/ ~old.published THEN Absent ELSE IF forced THEN old.forced[unit]
            ELSE IF wide = Absent THEN Absent ELSE EvaluateRule(new, wide, unit)
    BY <1>1 DEF EvaluateFeature, rule, wide
<1>6. QED
    BY <1>2, <1>3, <1>4, <1>5

\* What a configuration serves, its widening serves.
LEMMA WidenedServes ==
    ASSUME NEW c \in Configs, NEW d \in Configs, NEW f \in DOMAIN FeatureSpec, <<c, d, f>> \in Widened,
           NEW u \in Units, Publication(c).serves[f][u].variant # Absent
    PROVE  Publication(d).serves[f][u].variant = Publication(c).serves[f][u].variant
<1> DEFINE old == c.features[f]
           new == d.features[f]
<1>1. /\ f \in DOMAIN c.features /\ f \in DOMAIN d.features /\ Len(old.rules) = Len(new.rules)
      /\ \A i \in DOMAIN old.rules : /\ old.rules[i].coverage <= new.rules[i].coverage
                                     /\ [old.rules[i] EXCEPT !.coverage = new.rules[i].coverage] = new.rules[i]
      /\ [old EXCEPT !.rules = new.rules] = new
    BY DEF Widened
<1>2. /\ IsFeature(old) /\ IsFeature(new)
      /\ \A rule \in ToSet(old.rules), v \in {1, 2} : rule # Absent /\ Hash(SeedOf(old, rule), u, v) \in 0..(Scale - 1)
      /\ \A rule \in ToSet(new.rules) : rule # Absent
    BY <1>1, FeaturesAssumption
<1> HIDE DEF old, new
<1>3. WiderFeature(old, new)
    <2>1. \A field \in DOMAIN old \ {"rules"} : new[field] = old[field]
        BY <1>1
    <2>2. ASSUME NEW i \in DOMAIN old.rules PROVE WiderRule(old.rules[i], new.rules[i])
        <3>1. i \in DOMAIN new.rules
            BY <1>1, <1>2 DEF IsFeature, IsSequence
        <3>2. IsRule(old.rules[i]) /\ IsRule(new.rules[i])
            BY <1>2, <3>1 DEF IsFeature
        <3> DEFINE r == old.rules[i]
                   s == new.rules[i]
        <3>3. [r EXCEPT !.coverage = s.coverage] = s /\ r.coverage <= s.coverage
            BY <1>1
        <3> HIDE DEF r, s
        <3>4. \A field \in DOMAIN r \ {"coverage"} : s[field] = r[field]
            BY <3>3
        <3>5. QED
            BY <3>2, <3>3, <3>4 DEF WiderRule, r, s
    <2>3. QED
        BY <1>1, <1>2, <2>1, <2>2 DEF WiderFeature
<1>4. \A rule \in ToSet(old.rules), v \in {1, 2} : Hash(SeedOf(old, rule), u, v) \in Int
    BY <1>2, ScaleAssumption
<1>5. /\ EvaluationRaises(new, u) <=> EvaluationRaises(old, u)
      /\ ~EvaluationRaises(old, u) /\ EvaluateFeature(old, u) # Absent =>
            EvaluateFeature(new, u) = EvaluateFeature(old, u)
    BY <1>2, <1>3, <1>4, WiderEvaluates
<1>6. /\ Publication(c).serves[f][u].variant = IF EvaluationRaises(old, u) THEN Absent ELSE EvaluateFeature(old, u)
      /\ Publication(d).serves[f][u].variant = IF EvaluationRaises(new, u) THEN Absent ELSE EvaluateFeature(new, u)
    BY <1>1 DEF Publication, Breaks, Evaluated, old, new
<1>7. QED
    BY <1>5, <1>6

----------------------------------------------------------------------------
(***************************************************************************)
(* What an evaluation can be, and what is counted of it.                   *)
(***************************************************************************)

Features == DOMAIN FeatureSpec

\* what the configuration p serves user u
Remotely(p, f, u) ==
    [feature |-> f, variant |-> p.serves[f][u].variant, payload |-> Payload(f, p.serves[f][u].variant),
     revision |-> p.revision, track |-> TRUE]

\* the configurations that serve the user something
Serving(f, u) == {p \in Publications : p.serves[f][u].variant # Absent}

EvaluationsOf(f, u) ==
    IF u \notin Enrolled[f] THEN {Local(f, FeatureSpec[f].variants[1], FALSE)}
    ELSE {LocalFallback(f, u, ~FeatureSpec[f].remote)}
         \cup (IF FeatureSpec[f].remote THEN {Remotely(p, f, u) : p \in Serving(f, u)} ELSE {})
Evaluations(u) == UNION {EvaluationsOf(f, u) : f \in Features}
Tracked(u) == {e \in Evaluations(u) : e.track}
Stored(e, u) == [unit |-> u, feature |-> e.feature, variant |-> e.variant]
Attributions(u) == {Stored(e, u) : e \in Tracked(u)}

Services == [config : Publications \cup {Absent}, at : Nat, safe : BOOLEAN, retry : Nat]
SafeService(q) == q \in Services /\ (q.config = Absent => ~q.safe)

\* A local experiment has a feature's name, a revision that no configuration has and
\* is tracked or not.
LEMMA LocalRecord ==
    ASSUME NEW f, NEW v, NEW t
    PROVE  /\ Local(f, v, t).feature = f /\ Local(f, v, t).variant = v
           /\ Local(f, v, t).revision = FeatureSpec[f].salt /\ Local(f, v, t).track = t
           /\ Local(f, v, t).payload = Absent
BY DEF Local

\* The revisions of the configurations are not those of the local experiments.
LEMMA Revisions ==
    /\ \A p \in Publications : p.revision # Absent
    /\ \A f \in Features : FeatureSpec[f].salt # Absent /\ \A p \in Publications : p.revision # FeatureSpec[f].salt
<1>1. \A p \in Publications : \E c \in Configs : p.revision = c.revision
    BY DEF Publications, Publication
<1>2. QED
    BY <1>1, RevisionsAssumption DEF Features

\* A tracked evaluation was served by a configuration, unless the feature is local; and
\* two evaluations that count alike are tracked alike.
LEMMA EvaluationFacts ==
    ASSUME NEW u, NEW e \in Evaluations(u)
    PROVE  /\ e.feature \in Features
           /\ e.revision # Absent
           /\ e.track \in BOOLEAN
           /\ e.track /\ FeatureSpec[e.feature].remote =>
                 \E p \in Serving(e.feature, u) : p.revision = e.revision /\ p.serves[e.feature][u].variant = e.variant
           /\ ~FeatureSpec[e.feature].remote => e.revision = FeatureSpec[e.feature].salt
           /\ e \in EvaluationsOf(e.feature, u)
<1>1. PICK f \in Features : e \in EvaluationsOf(f, u)
    BY DEF Evaluations
<1>2. CASE \E v, t : e = Local(f, v, t) /\ t \in BOOLEAN /\ (t => ~FeatureSpec[f].remote)
    BY <1>1, <1>2, LocalRecord, Revisions
<1>3. CASE FeatureSpec[f].remote /\ \E p \in Serving(f, u) : e = Remotely(p, f, u)
    BY <1>1, <1>3, Revisions DEF Remotely, Serving
<1>4. \/ \E v, t : e = Local(f, v, t) /\ t \in BOOLEAN /\ (t => ~FeatureSpec[f].remote)
      \/ FeatureSpec[f].remote /\ \E p \in Serving(f, u) : e = Remotely(p, f, u)
    <2>1. CASE e = Local(f, FeatureSpec[f].variants[1], FALSE)
        BY <2>1
    <2>2. CASE e = LocalFallback(f, u, ~FeatureSpec[f].remote)
        <3>1. e = Local(f, AssignVariant(FeatureSpec[f], u), ~FeatureSpec[f].remote)
            BY <2>2 DEF LocalFallback
        <3>2. QED
            BY <3>1
    <2>3. QED
        BY <1>1, <2>1, <2>2 DEF EvaluationsOf
<1>5. QED
    BY <1>2, <1>3, <1>4

\* Two evaluations that count as one are both tracked or neither is.
LEMMA CountedAlike ==
    ASSUME NEW u, NEW f \in Features, NEW e \in EvaluationsOf(f, u), NEW g \in Evaluations(u),
           Counted(e, u) = Counted(g, u)
    PROVE  e.track = g.track
<1>1. e.feature = g.feature /\ e.revision = g.revision /\ e \in Evaluations(u)
    BY DEF Counted, Evaluations
<1> DEFINE h == g.feature
<1>2. h \in Features /\ e \in EvaluationsOf(h, u) /\ g \in EvaluationsOf(h, u)
    BY <1>1, EvaluationFacts
<1> DEFINE r == FeatureSpec[h].remote
           fallback == LocalFallback(h, u, ~r)
<1>3. fallback.revision = FeatureSpec[h].salt /\ \A p \in Publications : Remotely(p, h, u).revision = p.revision
    BY LocalRecord DEF LocalFallback, Remotely
<1>4. \A p \in Publications : Remotely(p, h, u).revision # fallback.revision
    BY <1>2, <1>3, Revisions
<1>5. \A p, q \in Publications : Remotely(p, h, u).track = Remotely(q, h, u).track
    BY DEF Remotely
<1>6. QED
    BY <1>1, <1>2, <1>4, <1>5 DEF EvaluationsOf, Serving

\* An evaluation leaves a service of its type, and is one of those above.
LEMMA Evaluates ==
    ASSUME clock \in Nat, NEW q, SafeService(q), NEW answer \in Publications \cup {Absent},
           NEW f \in Features, NEW u
    PROVE  /\ SafeService(Evaluate(q, f, u, answer).q)
           /\ Evaluate(q, f, u, answer).e \in EvaluationsOf(f, u)
           /\ Evaluate(q, f, u, answer).e \in Evaluations(u)
           /\ Evaluate(q, f, u, answer).e.payload # Absent => Evaluate(q, f, u, answer).e.track
<1> DEFINE fetched == FetchConfig(q, answer)
           got == Evaluate(q, f, u, answer)
<1>1. SafeService(fetched.q) /\ fetched.config \in Publications \cup {Absent}
    <2>1. SafeService(OpenCircuit(q)) /\ Reusable(q) \in Publications \cup {Absent}
        BY DEF OpenCircuit, Reusable, SafeService, Services
    <2>2. answer # Absent => SafeService([config |-> answer, at |-> clock, safe |-> TRUE, retry |-> 0])
        BY DEF SafeService, Services
    <2>3. q.config \in Publications \cup {Absent}
        BY DEF SafeService, Services
    <2>4. QED
        BY <2>1, <2>2, <2>3 DEF FetchConfig
<1> HIDE DEF fetched
<1>2. SafeService(OpenCircuit([fetched.q EXCEPT !.safe = FALSE]))
    <2> DEFINE unsafe == [fetched.q EXCEPT !.safe = FALSE]
    <2>1. unsafe \in Services /\ unsafe.safe = FALSE
        BY <1>1 DEF SafeService, Services
    <2> HIDE DEF unsafe
    <2>2. OpenCircuit(unsafe) \in Services /\ OpenCircuit(unsafe).safe = unsafe.safe
        BY <2>1 DEF OpenCircuit, Services
    <2>3. SafeService(OpenCircuit(unsafe))
        BY <2>1, <2>2 DEF SafeService
    <2>4. QED
        BY <2>3 DEF unsafe
<1> DEFINE plain == Local(f, FeatureSpec[f].variants[1], FALSE)
           kept == LocalFallback(f, u, TRUE)
           fell == LocalFallback(f, u, FALSE)
           broken == OpenCircuit([fetched.q EXCEPT !.safe = FALSE])
           served == Remotely(fetched.config, f, u)
<1>3. \/ u \notin Enrolled[f] /\ got = [q |-> q, e |-> plain]
      \/ u \in Enrolled[f] /\ ~FeatureSpec[f].remote /\ got = [q |-> q, e |-> kept]
      \/ /\ u \in Enrolled[f] /\ FeatureSpec[f].remote
         /\ \/ got = [q |-> fetched.q, e |-> fell]
            \/ got = [q |-> broken, e |-> fell]
            \/ /\ fetched.config # Absent /\ fetched.config.serves[f][u].variant # Absent
               /\ got = [q |-> fetched.q, e |-> served]
    BY DEF Evaluate, Remotely, Valid, fetched
<1>4. plain.payload = Absent /\ kept.payload = Absent /\ fell.payload = Absent /\ served.track
    <2>1. plain.payload = Absent
        BY DEF Local
    <2>2. kept.payload = Absent /\ fell.payload = Absent
        BY DEF LocalFallback, Local
    <2>3. served.track
        BY DEF Remotely
    <2>4. QED
        BY <2>1, <2>2, <2>3
<1>5. /\ u \notin Enrolled[f] => plain \in EvaluationsOf(f, u)
      /\ u \in Enrolled[f] /\ ~FeatureSpec[f].remote => kept \in EvaluationsOf(f, u)
      /\ u \in Enrolled[f] /\ FeatureSpec[f].remote => fell \in EvaluationsOf(f, u)
    <2>1. CASE u \notin Enrolled[f]
        BY <2>1 DEF EvaluationsOf
    <2>2. CASE u \in Enrolled[f] /\ ~FeatureSpec[f].remote
        <3>1. kept = LocalFallback(f, u, ~FeatureSpec[f].remote)
            BY <2>2
        <3> HIDE DEF kept
        <3>2. QED
            BY <2>2, <3>1 DEF EvaluationsOf
    <2>3. CASE u \in Enrolled[f] /\ FeatureSpec[f].remote
        <3>1. fell = LocalFallback(f, u, ~FeatureSpec[f].remote)
            BY <2>3
        <3> HIDE DEF fell
        <3>2. QED
            BY <2>3, <3>1 DEF EvaluationsOf
    <2>4. QED
        BY <2>1, <2>2, <2>3
<1>6. u \in Enrolled[f] /\ FeatureSpec[f].remote /\ fetched.config # Absent
        /\ fetched.config.serves[f][u].variant # Absent => served \in EvaluationsOf(f, u)
    <2>1. ASSUME fetched.config # Absent, fetched.config.serves[f][u].variant # Absent
          PROVE  served \in {Remotely(p, f, u) : p \in Serving(f, u)}
        BY <1>1, <2>1 DEF Serving
    <2> HIDE DEF served
    <2>2. QED
        BY <2>1 DEF EvaluationsOf
<1> HIDE DEF got, plain, kept, fell, broken, served
<1>7. SafeService(got.q)
    BY <1>1, <1>2, <1>3 DEF broken
<1>8. got.e \in EvaluationsOf(f, u)
    BY <1>3, <1>5, <1>6
<1>9. got.e.payload # Absent => got.e.track
    BY <1>3, <1>4
<1>10. QED
    BY <1>7, <1>8, <1>9 DEF Evaluations, got

----------------------------------------------------------------------------
(***************************************************************************)
(* The steps of a request.  Everything a request counts or pays for it has *)
(* recorded the exposure of, or is about to (Backed).                      *)
(***************************************************************************)

Steps(u) ==
    {do("offered")}
    \cup {asking(op, f) : op \in {"expose", "convert"}, f \in Features}
    \cup {[op |-> "context", eligible |-> s] : s \in SUBSET {"intro_price", "start_tier_price"}}
    \cup {doing(op, e) : op \in {"set", "count", "pay"}, e \in Tracked(u)}
    \cup {doing("outcome", a) : a \in Attributions(u)}

\* of evaluation e to user u, where X are counted exposures and U are users for whom one failed
Recorded(e, u, X, U) == Counted(e, u) \in X \/ u \in U
Attributed(a, X, U) ==
    a.unit \in U \/ \E x \in X : x.unit = a.unit /\ x.feature = a.feature /\ x.variant = a.variant

SetBefore(s, i, e) == \E j \in 1..(i - 1) : s[j] = doing("set", e)
Backed(s, u, X, U) ==
    \A i \in 1..Len(s) :
        /\ s[i].op \in {"count", "pay"} => Recorded(s[i].e, u, X, U) \/ SetBefore(s, i, s[i].e)
        /\ s[i].op = "outcome" => Attributed(s[i].e, X, U)

\* What a step holds.
LEMMA StepHolds ==
    ASSUME NEW u, NEW s \in Steps(u)
    PROVE  /\ s.op \in {"set", "count", "pay"} => s.e \in Tracked(u) /\ s = doing(s.op, s.e)
           /\ s.op \in {"expose", "convert"} => s.f \in Features
           /\ s.op = "outcome" => s.e \in Attributions(u)
           /\ s.op = "context" => s.eligible \subseteq {"intro_price", "start_tier_price"}
BY DEF Steps, do, doing, asking

\* The steps an evaluation leads to, and a list of one step.
LEMMA StepIs ==
    ASSUME NEW u, NEW e \in Tracked(u), NEW op \in {"set", "count", "pay"}
    PROVE  doing(op, e) \in Steps(u) /\ doing(op, e).op = op /\ doing(op, e).e = e
BY DEF Steps, doing

\* A list of one step.
LEMMA OneStep ==
    ASSUME NEW S, NEW s \in S
    PROVE  <<s>> \in Seq(S) /\ Len(<<s>>) = 1 /\ <<s>>[1] = s /\ <<s>> # <<>> /\ Head(<<s>>) = s
OBVIOUS

\* One list after another, and what is left of one.
LEMMA BackedConcat ==
    ASSUME NEW u, NEW X, NEW U, NEW s \in Seq(Steps(u)), NEW t \in Seq(Steps(u)),
           Backed(s, u, X, U), Backed(t, u, X, U)
    PROVE  s \o t \in Seq(Steps(u)) /\ Backed(s \o t, u, X, U)
<1> DEFINE st == s \o t
<1>1. /\ st \in Seq(Steps(u)) /\ Len(st) = Len(s) + Len(t)
      /\ \A i \in 1..Len(st) : st[i] = IF i <= Len(s) THEN s[i] ELSE t[i - Len(s)]
    BY ConcatProperties
<1>2. Len(s) \in Nat /\ Len(t) \in Nat
    OBVIOUS
<1> HIDE DEF st
<1>3. ASSUME NEW i \in 1..Len(st)
      PROVE  /\ st[i].op \in {"count", "pay"} => Recorded(st[i].e, u, X, U) \/ SetBefore(st, i, st[i].e)
             /\ st[i].op = "outcome" => Attributed(st[i].e, X, U)
    <2>1. CASE i <= Len(s)
        <3>1. i \in 1..Len(s) /\ st[i] = s[i] /\ \A j \in 1..(i - 1) : st[j] = s[j]
            BY <1>1, <1>2, <2>1
        <3>2. QED
            BY <3>1 DEF Backed, SetBefore
    <2>2. CASE i > Len(s)
        <3> DEFINE k == i - Len(s)
        <3>1. k \in 1..Len(t) /\ st[i] = t[k]
            BY <1>1, <1>2, <2>2
        <3>2. ASSUME NEW j \in 1..(k - 1) PROVE (j + Len(s)) \in 1..(i - 1) /\ st[j + Len(s)] = t[j]
            <4>1. j + Len(s) > Len(s) /\ j + Len(s) \in 1..Len(st) /\ (j + Len(s)) - Len(s) = j
                BY <1>1, <1>2, <2>2
            <4>2. QED
                BY <1>1, <1>2, <2>2, <4>1
        <3> HIDE DEF k
        <3>3. \A e : SetBefore(t, k, e) => SetBefore(st, i, e)
            BY <3>2 DEF SetBefore
        <3>4. QED
            BY <3>1, <3>3 DEF Backed
    <2>3. QED
        BY <1>2, <2>1, <2>2
<1>4. QED
    BY <1>1, <1>3 DEF Backed, st

\* When the first step is done, and was recorded if it was to be, the rest is backed.
LEMMA BackedTail ==
    ASSUME NEW u, NEW X, NEW U, NEW Y, NEW V, X \subseteq Y, U \subseteq V,
           NEW s \in Seq(Steps(u)), s # <<>>, Backed(s, u, X, U),
           Head(s).op = "set" => Recorded(Head(s).e, u, Y, V)
    PROVE  Tail(s) \in Seq(Steps(u)) /\ Backed(Tail(s), u, Y, V)
<1> DEFINE t == Tail(s)
<1>1. /\ t \in Seq(Steps(u)) /\ Len(t) = Len(s) - 1 /\ Head(s) = s[1]
      /\ \A i \in 1..Len(t) : t[i] = s[i + 1]
    BY HeadTailProperties
<1>2. Len(s) \in Nat /\ Len(s) > 0
    BY EmptySeq
<1> HIDE DEF t
<1>3. ASSUME NEW i \in 1..Len(t)
      PROVE  /\ t[i].op \in {"count", "pay"} => Recorded(t[i].e, u, Y, V) \/ SetBefore(t, i, t[i].e)
             /\ t[i].op = "outcome" => Attributed(t[i].e, Y, V)
    <2>1. (i + 1) \in 1..Len(s) /\ t[i] = s[i + 1]
        BY <1>1, <1>2
    <2>2. ASSUME t[i].op \in {"count", "pay"}
          PROVE  Recorded(t[i].e, u, Y, V) \/ SetBefore(t, i, t[i].e)
        <3>1. CASE Recorded(t[i].e, u, X, U)
            BY <3>1 DEF Recorded
        <3>2. CASE SetBefore(s, i + 1, t[i].e)
            <4>1. PICK j \in 1..((i + 1) - 1) : s[j] = doing("set", t[i].e)
                BY <3>2 DEF SetBefore
            <4>2. CASE j = 1
                BY <1>1, <4>1, <4>2 DEF doing
            <4>3. CASE j # 1
                <5>1. (j - 1) \in 1..(i - 1) /\ (j - 1) \in 1..Len(t) /\ t[j - 1] = s[j]
                    BY <1>1, <1>2, <4>3
                <5>2. QED
                    BY <4>1, <5>1 DEF SetBefore
            <4>4. QED
                BY <4>2, <4>3
        <3>3. QED
            BY <2>1, <2>2, <3>1, <3>2 DEF Backed
    <2>3. ASSUME t[i].op = "outcome" PROVE Attributed(t[i].e, Y, V)
        <3>1. Attributed(t[i].e, X, U)
            BY <2>1, <2>3 DEF Backed
        <3>2. QED
            BY <3>1 DEF Attributed
    <2>4. QED
        BY <2>2, <2>3
<1>4. QED
    BY <1>1, <1>3 DEF Backed, t

\* More exposures and more failures back what was backed.
LEMMA BackedMore ==
    ASSUME NEW u, NEW X, NEW U, NEW Y, NEW V, X \subseteq Y, U \subseteq V, NEW s, Backed(s, u, X, U)
    PROVE  Backed(s, u, Y, V)
<1>1. \A e : Recorded(e, u, X, U) => Recorded(e, u, Y, V)
    BY DEF Recorded
<1>2. \A a : Attributed(a, X, U) => Attributed(a, Y, V)
    BY DEF Attributed
<1>3. QED
    BY <1>1, <1>2 DEF Backed

\* A list that only asks is backed.
LEMMA BackedAsks ==
    ASSUME NEW u, NEW X, NEW U, NEW s, \A i \in 1..Len(s) : s[i].op \notin {"count", "pay", "outcome"}
    PROVE  Backed(s, u, X, U)
BY DEF Backed

----------------------------------------------------------------------------
(***************************************************************************)
(* The invariant.                                                          *)
(***************************************************************************)

ActiveRequests(u) ==
    [unit : {u}, service : Services, shown : Evaluations(u) \cup {Absent}, todo : Seq(Steps(u))]

\* What a request has shown as tracked it has recorded, or does so next.
ShownRecorded(q, X, U) ==
    q.shown # Absent /\ q.shown.track =>
        Recorded(q.shown, q.unit, X, U) \/ (q.todo # <<>> /\ Head(q.todo) = doing("set", q.shown))

RequestOK(q, X, U) ==
    \/ q = NoRequest
    \/ /\ \E u \in Units : q \in ActiveRequests(u)
       /\ SafeService(q.service)
       /\ Backed(q.todo, q.unit, X, U) /\ ShownRecorded(q, X, U)

CountedBy(x, u) == \E e \in Tracked(u) : x = Counted(e, u)
ShownOr(c) == c.of.revision # Absent /\ c.of \notin c.shown

CountsInv ==
    /\ exposures \subseteq exposedKeys
    /\ \A x \in exposedKeys : \E u \in Units : CountedBy(x, u) /\ (x \in exposures \/ u \in unrecorded)
    /\ \A c \in conversions :
          \/ \E u \in Units : CountedBy(c.of, u) /\ (c.of \in exposures \/ u \in unrecorded \/ ShownOr(c))
          \/ c.of.revision = Absent /\ Attributed(c.of, exposures, unrecorded)
    /\ \A a \in attribution : (\E u \in Units : a \in Attributions(u)) /\ Attributed(a, exposures, unrecorded)

ServingInv ==
    /\ published \in Publications /\ clock \in Nat /\ failures \in Nat
    /\ request \in [Requests -> (UNION {ActiveRequests(u) : u \in Units}) \cup {NoRequest}]
    /\ \A r \in Requests : RequestOK(request[r], exposures, unrecorded)

ExperimentsInv == ServingInv /\ CountsInv

\* Initially nothing is counted and no request is under way.
LEMMA ExperimentsInvInit == ExperimentsInit => ExperimentsInv
<1> SUFFICES ASSUME ExperimentsInit PROVE ExperimentsInv
    OBVIOUS
<1>1. ServingInv
    <2>1. request = [r \in Requests |-> NoRequest] /\ published \in Publications /\ clock = 0 /\ failures = 0
        BY DEF ExperimentsInit
    <2>2. \A r \in Requests : RequestOK(request[r], exposures, unrecorded)
        BY <2>1 DEF RequestOK
    <2>3. QED
        BY <2>1, <2>2 DEF ServingInv
<1>2. CountsInv
    BY DEF ExperimentsInit, CountsInv
<1>3. QED
    BY <1>1, <1>2 DEF ExperimentsInv

\* A request that is in order stays so when more is recorded.
LEMMA RequestMore ==
    ASSUME NEW q, NEW X, NEW U, NEW Y, NEW V, X \subseteq Y, U \subseteq V, RequestOK(q, X, U)
    PROVE  RequestOK(q, Y, V)
<1>1. Backed(q.todo, q.unit, X, U) => Backed(q.todo, q.unit, Y, V)
    BY BackedMore
<1>2. ShownRecorded(q, X, U) => ShownRecorded(q, Y, V)
    BY DEF ShownRecorded, Recorded
<1>3. QED
    BY <1>1, <1>2 DEF RequestOK

\* When one request is replaced by one in order, the others stay in order.
LEMMA OneReplaced ==
    ASSUME ServingInv, NEW r \in Requests, NEW q, request' = [request EXCEPT ![r] = q],
           q = NoRequest \/ \E u \in Units : q \in ActiveRequests(u),
           exposures \subseteq exposures', unrecorded \subseteq unrecorded',
           RequestOK(q, exposures', unrecorded'),
           published' \in Publications, clock' \in Nat, failures' \in Nat
    PROVE  ServingInv'
<1>1. request' \in [Requests -> (UNION {ActiveRequests(u) : u \in Units}) \cup {NoRequest}]
    BY DEF ServingInv
<1>2. ASSUME NEW t \in Requests PROVE RequestOK(request'[t], exposures', unrecorded')
    <2>1. CASE t = r
        BY <2>1 DEF ServingInv
    <2>2. CASE t # r
        <3>1. request'[t] = request[t] /\ RequestOK(request[t], exposures, unrecorded)
            BY <2>2 DEF ServingInv
        <3>2. QED
            BY <3>1, RequestMore
    <2>3. QED
        BY <2>1, <2>2
<1>3. QED
    BY <1>1, <1>2 DEF ServingInv

\* What is known of a request with a step to do.
LEMMA HasStep ==
    ASSUME ServingInv, NEW r \in Requests, NEW op, Does(r, op)
    PROVE  /\ request[r].unit \in Units
           /\ request[r] \in ActiveRequests(request[r].unit)
           /\ SafeService(request[r].service)
           /\ Backed(request[r].todo, request[r].unit, exposures, unrecorded)
           /\ ShownRecorded(request[r], exposures, unrecorded)
           /\ request[r].todo \in Seq(Steps(request[r].unit)) /\ request[r].todo # <<>>
           /\ Step(r) \in Steps(request[r].unit) /\ Step(r).op = op
           /\ op \in {"count", "pay"} => Recorded(Step(r).e, request[r].unit, exposures, unrecorded)
           /\ op = "outcome" => Attributed(Step(r).e, exposures, unrecorded)
<1> DEFINE q == request[r]
<1>1. q.todo # <<>> /\ Step(r).op = op
    BY DEF Does, Step
<1>2. q # NoRequest
    BY <1>1 DEF NoRequest
<1>3. RequestOK(q, exposures, unrecorded)
    BY DEF ServingInv
<1>4. PICK u \in Units : q \in ActiveRequests(u)
    BY <1>2, <1>3 DEF RequestOK
<1>5. q.unit = u /\ q.todo \in Seq(Steps(u))
    BY <1>4 DEF ActiveRequests
<1> HIDE DEF q
<1>6. Head(q.todo) = q.todo[1] /\ Head(q.todo) \in Steps(u) /\ Len(q.todo) \in Nat /\ 1 \in 1..Len(q.todo)
    BY <1>1, <1>5, HeadTailProperties, EmptySeq
<1>7. SafeService(q.service) /\ Backed(q.todo, u, exposures, unrecorded) /\ ShownRecorded(q, exposures, unrecorded)
    BY <1>2, <1>3, <1>5 DEF RequestOK
<1>8. /\ op \in {"count", "pay"} => Recorded(Head(q.todo).e, u, exposures, unrecorded)
      /\ op = "outcome" => Attributed(Head(q.todo).e, exposures, unrecorded)
    <2>1. \A e : ~SetBefore(q.todo, 1, e)
        BY DEF SetBefore
    <2>2. q.todo[1].op = op
        BY <1>1, <1>6 DEF Step, q
    <2>3. QED
        BY <1>6, <1>7, <2>1, <2>2 DEF Backed
<1>9. QED
    BY <1>1, <1>4, <1>5, <1>6, <1>7, <1>8 DEF Step, q

\* A request goes on with backed steps, then with what it had still to do.
LEMMA FollowOK ==
    ASSUME ServingInv, NEW r \in Requests, NEW op, Does(r, op),
           NEW service, SafeService(service),
           NEW shown \in Evaluations(request[r].unit) \cup {Absent},
           NEW steps \in Seq(Steps(request[r].unit)),
           Follow(r, service, shown, steps),
           exposures \subseteq exposures', unrecorded \subseteq unrecorded',
           published' \in Publications, clock' \in Nat, failures' \in Nat,
           Backed(steps, request[r].unit, exposures', unrecorded'),
           op = "set" => Recorded(Step(r).e, request[r].unit, exposures', unrecorded'),
           shown # Absent /\ shown.track =>
               \/ Recorded(shown, request[r].unit, exposures', unrecorded')
               \/ steps # <<>> /\ Head(steps) = doing("set", shown)
    PROVE  ServingInv'
<1> DEFINE q == request[r]
           u == q.unit
           todo == steps \o Tail(q.todo)
           next == [unit |-> u, service |-> service, shown |-> shown, todo |-> todo]
<1>0. u \in Units /\ q \in ActiveRequests(u) /\ q.todo \in Seq(Steps(u)) /\ q.todo # <<>>
    BY HasStep
<1>1. request' = [request EXCEPT ![r] = Ends(next)]
    BY DEF Follow, ServingInv
<1>2. Tail(q.todo) \in Seq(Steps(u)) /\ Backed(Tail(q.todo), u, exposures', unrecorded')
    <2>1. Head(q.todo).op = "set" => Recorded(Head(q.todo).e, u, exposures', unrecorded')
        BY HasStep DEF Step
    <2>2. QED
        BY <1>0, <2>1, BackedTail, HasStep
<1>3. todo \in Seq(Steps(u)) /\ Backed(todo, u, exposures', unrecorded')
    BY <1>2, BackedConcat
<1>4. steps # <<>> => todo # <<>> /\ Head(todo) = Head(steps)
    <2>1. /\ Len(todo) = Len(steps) + Len(Tail(q.todo))
          /\ \A i \in 1..Len(todo) : todo[i] = IF i <= Len(steps) THEN steps[i] ELSE Tail(q.todo)[i - Len(steps)]
        BY <1>2, ConcatProperties
    <2>2. steps # <<>> => Len(steps) > 0 /\ Len(steps) \in Nat /\ Head(steps) = steps[1]
        BY HeadTailProperties, EmptySeq
    <2>3. Len(Tail(q.todo)) \in Nat
        BY <1>2
    <2> HIDE DEF todo
    <2>4. Len(todo) > 0 => todo # <<>> /\ Head(todo) = todo[1]
        BY <1>3, EmptySeq
    <2>5. QED
        BY <2>1, <2>2, <2>3, <2>4
<1> HIDE DEF todo, q
<1>5. next \in ActiveRequests(u)
    BY <1>3 DEF ActiveRequests, SafeService, q
<1>6. RequestOK(next, exposures', unrecorded')
    <2>1. next.todo = todo /\ next.unit = u /\ next.shown = shown /\ next.service = service
        OBVIOUS
    <2> HIDE DEF next
    <2>2. ShownRecorded(next, exposures', unrecorded')
        BY <1>4, <2>1 DEF ShownRecorded, q
    <2>3. QED
        BY <1>0, <1>3, <1>5, <2>1, <2>2 DEF RequestOK
<1>7. Ends(next) = NoRequest \/ Ends(next) = next
    BY DEF Ends
<1> HIDE DEF next
<1>8. RequestOK(Ends(next), exposures', unrecorded')
    BY <1>6, <1>7 DEF RequestOK
<1>9. QED
    BY <1>0, <1>1, <1>5, <1>7, <1>8, OneReplaced

\* Nothing follows: only what was still to do is left.
LEMMA AdvanceOK ==
    ASSUME ServingInv, NEW r \in Requests, NEW op, Does(r, op), op # "set", Advance(r),
           exposures \subseteq exposures', unrecorded \subseteq unrecorded',
           published' \in Publications, clock' \in Nat, failures' \in Nat
    PROVE  ServingInv'
<1>1. <<>> \in Seq(Steps(request[r].unit)) /\ Backed(<<>>, request[r].unit, exposures', unrecorded')
    BY BackedAsks, EmptySeq
<1>2. request[r].shown \in Evaluations(request[r].unit) \cup {Absent}
    BY HasStep DEF ActiveRequests
<1>3. request[r].shown # Absent /\ request[r].shown.track =>
         Recorded(request[r].shown, request[r].unit, exposures', unrecorded')
    <2>1. Head(request[r].todo) # doing("set", request[r].shown)
        BY DEF Does, doing
    <2>2. QED
        BY <2>1, HasStep DEF ShownRecorded, Recorded
<1>4. SafeService(request[r].service)
    BY HasStep
<1>5. QED
    <2>1. Follow(r, request[r].service, request[r].shown, <<>>)
        BY DEF Advance
    <2>2. op = "set" => Recorded(Step(r).e, request[r].unit, exposures', unrecorded')
        OBVIOUS
    <2>3. request[r].shown # Absent /\ request[r].shown.track =>
             \/ Recorded(request[r].shown, request[r].unit, exposures', unrecorded')
             \/ <<>> # <<>> /\ Head(<<>>) = doing("set", request[r].shown)
        BY <1>3
    <2>4. QED
        BY <1>1, <1>2, <1>4, <2>1, <2>2, <2>3, FollowOK

----------------------------------------------------------------------------
(***************************************************************************)
(* The steps.                                                              *)
(***************************************************************************)

Counters == <<exposedKeys, attribution, exposures, conversions, unrecorded>>

\* Steps that count nothing, and more users for whom an exposure failed.
LEMMA CountsStay == ASSUME CountsInv, UNCHANGED Counters PROVE CountsInv'
BY DEF CountsInv, Counters, ShownOr

\* A conversion is counted of an exposure that was, or that the request did not show.
LEMMA CountsConversion ==
    ASSUME CountsInv, NEW e, NEW u \in Units, NEW shown, RecordConversion(e, u, shown),
           UNCHANGED <<exposedKeys, attribution, exposures, unrecorded>>,
           e.track =>
               /\ e \in Tracked(u)
               /\ Recorded(e, u, exposures, unrecorded) \/ shown = Absent \/ Counted(shown, u) # Counted(e, u)
    PROVE  CountsInv'
<1>1. CASE ~e.track
    <2>1. UNCHANGED Counters
        BY <1>1 DEF RecordConversion, Counters
    <2>2. QED
        BY <2>1, CountsStay
<1>2. CASE e.track
    <2> DEFINE c == [of |-> Counted(e, u), shown |-> {Counted(s, u) : s \in {shown} \ {Absent}}]
    <2>1. conversions' = conversions \cup {c}
        BY <1>2 DEF RecordConversion
    <2>2. c.of = Counted(e, u) /\ c.shown = {Counted(s, u) : s \in {shown} \ {Absent}}
        OBVIOUS
    <2>3. CountedBy(c.of, u)
        BY <1>2, <2>2 DEF CountedBy
    <2>4. c.of.revision # Absent
        BY <1>2, <2>2, EvaluationFacts DEF Counted, Tracked
    <2>5. c.of \in exposures \/ u \in unrecorded \/ c.of \notin c.shown
        BY <1>2, <2>2 DEF Recorded
    <2> HIDE DEF c
    <2>6. c.of \in exposures \/ u \in unrecorded \/ ShownOr(c)
        BY <2>4, <2>5 DEF ShownOr
    <2>7. \A d \in conversions' :
             \/ \E v \in Units : CountedBy(d.of, v) /\ (d.of \in exposures \/ v \in unrecorded \/ ShownOr(d))
             \/ d.of.revision = Absent /\ Attributed(d.of, exposures, unrecorded)
        BY <2>1, <2>3, <2>6 DEF CountsInv
    <2>8. QED
        BY <2>7 DEF CountsInv, ShownOr
<1>3. QED
    BY <1>1, <1>2

\* What a request asks: a list of known steps.
LEMMA ProgramsOK ==
    ASSUME NEW u, NEW program \in Programs
    PROVE  /\ program \in Seq(Steps(u))
           /\ \A i \in 1..Len(program) : program[i].op \in {"expose", "convert", "offered", "context"}
<1>1. {"trial_offer", "checkout_flow", "payment_rescue"} \subseteq Features
    BY DEF Features, FeatureSpec
<1>2. /\ \A f \in Features : asking("expose", f) \in Steps(u) /\ asking("convert", f) \in Steps(u)
      /\ do("offered") \in Steps(u)
      /\ \A s \in SUBSET {"intro_price", "start_tier_price"} : [op |-> "context", eligible |-> s] \in Steps(u)
    BY DEF Steps
<1>3. CASE program = <<asking("expose", "trial_offer")>>
    <2>1. asking("expose", "trial_offer") \in Steps(u) /\ asking("expose", "trial_offer").op = "expose"
        BY <1>1, <1>2 DEF asking
    <2>2. QED
        BY <1>3, <2>1, OneStep
<1>4. CASE program = <<asking("expose", "trial_offer"), do("offered"), asking("convert", "trial_offer")>>
    BY <1>1, <1>2, <1>4 DEF asking, do
<1>5. CASE program = <<asking("expose", "checkout_flow"), asking("convert", "checkout_flow")>>
    BY <1>1, <1>2, <1>5 DEF asking
<1>6. CASE program = <<asking("convert", "payment_rescue")>>
    <2>1. asking("convert", "payment_rescue") \in Steps(u) /\ asking("convert", "payment_rescue").op = "convert"
        BY <1>1, <1>2 DEF asking
    <2>2. QED
        BY <1>6, <2>1, OneStep
<1>7. ASSUME NEW s \in SUBSET {"intro_price", "start_tier_price"}, program = <<[op |-> "context", eligible |-> s]>>
      PROVE  /\ program \in Seq(Steps(u))
             /\ \A i \in 1..Len(program) : program[i].op \in {"expose", "convert", "offered", "context"}
    BY <1>2, <1>7
<1>8. QED
    BY <1>3, <1>4, <1>5, <1>6, <1>7 DEF Programs

\* A request begins with such a list, or with the outcome of a payment it stored.
LEMMA BeginOK ==
    ASSUME ServingInv, CountsInv, NEW r \in Requests, NEW u \in Units, BeginRequest(r, u)
    PROVE  ServingInv' /\ CountsInv'
<1>1. CountsInv'
    <2>1. UNCHANGED Counters
        BY DEF BeginRequest, Counters
    <2>2. QED
        BY <2>1, CountsStay
<1>2. PICK program \in Programs \cup {<<doing("outcome", a)>> : a \in {x \in attribution : x.unit = u}} :
         request' = [request EXCEPT ![r] = [NoRequest EXCEPT !.unit = u, !.todo = program]]
    BY DEF BeginRequest
<1>3. program \in Seq(Steps(u)) /\ Backed(program, u, exposures, unrecorded)
    <2>1. CASE program \in Programs
        <3>1. \A i \in 1..Len(program) : program[i].op \notin {"count", "pay", "outcome"}
            BY <2>1, ProgramsOK
        <3>2. QED
            BY <2>1, <3>1, ProgramsOK, BackedAsks
    <2>2. ASSUME NEW a \in attribution, a.unit = u, program = <<doing("outcome", a)>>
          PROVE  program \in Seq(Steps(u)) /\ Backed(program, u, exposures, unrecorded)
        <3>1. a \in Attributions(u) /\ Attributed(a, exposures, unrecorded)
            BY <2>2 DEF CountsInv, Attributions, Stored
        <3>2. doing("outcome", a) \in Steps(u) /\ doing("outcome", a).op = "outcome" /\ doing("outcome", a).e = a
            BY <3>1 DEF Steps, doing
        <3>3. program \in Seq(Steps(u)) /\ Len(program) = 1 /\ program[1] = doing("outcome", a)
            BY <2>2, <3>2
        <3>4. QED
            BY <3>1, <3>2, <3>3 DEF Backed
    <2>3. QED
        BY <2>1, <2>2
<1> DEFINE q == [NoRequest EXCEPT !.unit = u, !.todo = program]
<1>4. /\ NoRequest \in [unit : {Absent}, service : {NewService}, shown : {Absent}, todo : {<<>>}]
      /\ NoRequest.service = NewService /\ NoRequest.shown = Absent
    BY DEF NoRequest
<1>5. SafeService(NewService)
    BY DEF SafeService, Services, NewService
<1>6. q \in ActiveRequests(u) /\ q.unit = u /\ q.shown = Absent /\ q.todo = program /\ q.service = NewService
    BY <1>3, <1>4, <1>5 DEF ActiveRequests, SafeService
<1> HIDE DEF q
<1>7. RequestOK(q, exposures, unrecorded)
    BY <1>3, <1>5, <1>6 DEF RequestOK, ShownRecorded
<1>8. request' = [request EXCEPT ![r] = q]
    BY <1>2 DEF q
<1>9. UNCHANGED <<exposures, unrecorded, published, clock, failures>>
    BY DEF BeginRequest
<1>10. ServingInv'
    BY <1>6, <1>7, <1>8, <1>9, OneReplaced DEF ServingInv
<1>11. QED
    BY <1>1, <1>10

\* A fetched configuration is a published one, and failures are counted.
LEMMA FetchesOK ==
    ASSUME ServingInv, NEW answer \in Fetches
    PROVE  answer \in Publications \cup {Absent} /\ (Answered(answer) => failures' \in Nat)
BY DEF ServingInv, Fetches, Answered

\* A handler that exposes a feature has evaluated it with the request's configuration.
LEMMA ExposeOK ==
    ASSUME ServingInv, CountsInv, NEW r \in Requests, Expose(r)
    PROVE  ServingInv' /\ CountsInv'
<1> DEFINE u == request[r].unit
<1>1. CountsInv'
    <2>1. UNCHANGED Counters
        BY DEF Expose, Counters
    <2>2. QED
        BY <2>1, CountsStay
<1>2. Does(r, "expose") /\ UNCHANGED <<exposures, unrecorded, published, clock>>
    BY DEF Expose
<1>3. u \in Units /\ SafeService(request[r].service) /\ Step(r).f \in Features
    BY <1>2, HasStep, StepHolds
<1>4. PICK answer \in Fetches :
         LET got == Evaluate(request[r].service, Step(r).f, u, answer) IN
         /\ Follow(r, got.q, got.e, IF got.e.track THEN <<doing("set", got.e)>> ELSE <<>>)
         /\ Answered(answer)
    BY DEF Expose
<1> DEFINE got == Evaluate(request[r].service, Step(r).f, u, answer)
           steps == IF got.e.track THEN <<doing("set", got.e)>> ELSE <<>>
<1>5. SafeService(got.q) /\ got.e \in Evaluations(u)
    BY <1>3, FetchesOK, Evaluates DEF ServingInv
<1>6. Follow(r, got.q, got.e, steps) /\ failures' \in Nat
    BY <1>4, FetchesOK
<1> HIDE DEF got
<1>7. /\ steps \in Seq(Steps(u)) /\ Backed(steps, u, exposures', unrecorded')
      /\ got.e.track => steps # <<>> /\ Head(steps) = doing("set", got.e)
    <2>1. CASE got.e.track
        <3>1. doing("set", got.e) \in Steps(u) /\ doing("set", got.e).op = "set"
            BY <1>5, <2>1, StepIs DEF Tracked
        <3>2. steps = <<doing("set", got.e)>>
            BY <2>1
        <3> HIDE DEF steps
        <3>3. steps \in Seq(Steps(u)) /\ steps # <<>> /\ Head(steps) = doing("set", got.e)
              /\ \A i \in 1..Len(steps) : steps[i].op = "set"
            BY <3>1, <3>2
        <3>4. QED
            BY <3>3, BackedAsks
    <2>2. CASE ~got.e.track
        BY <2>2, BackedAsks, EmptySeq
    <2>3. QED
        BY <2>1, <2>2
<1> HIDE DEF steps
<1>8. ServingInv'
    BY <1>2, <1>5, <1>6, <1>7, FollowOK DEF ServingInv
<1>9. QED
    BY <1>1, <1>8

\* The marker makes the exposure count once, and from then on it is recorded.
LEMMA SetExposedOK ==
    ASSUME ServingInv, CountsInv, NEW r \in Requests, SetExposed(r)
    PROVE  ServingInv' /\ CountsInv'
<1> DEFINE q == request[r]
           u == q.unit
           e == Step(r).e
           x == Counted(e, u)
<1>1. Does(r, "set") /\ Advance(r) /\ UNCHANGED <<published, clock, failures, attribution, conversions, unrecorded>>
    BY DEF SetExposed
<1>2. u \in Units /\ e \in Tracked(u) /\ Step(r) = doing("set", e) /\ SafeService(q.service)
    BY <1>1, HasStep, StepHolds
<1>3. /\ exposures' = IF x \in exposedKeys THEN exposures ELSE exposures \cup {x}
      /\ exposedKeys' = exposedKeys \cup {x}
    BY DEF SetExposed, ExposureKey, Counted
<1>4. CountedBy(x, u)
    BY <1>2 DEF CountedBy
<1>5. x \in exposures' \/ u \in unrecorded
    <2>1. CASE x \in exposedKeys
        <3>1. PICK v \in Units : CountedBy(x, v) /\ (x \in exposures \/ v \in unrecorded)
            BY <2>1 DEF CountsInv
        <3>2. v = u
            BY <3>1 DEF CountedBy, Counted
        <3>3. QED
            BY <1>3, <2>1, <3>1, <3>2
    <2>2. QED
        BY <1>3, <2>1
<1> HIDE DEF x
<1>6. exposures \subseteq exposures'
    BY <1>3
<1>7. CountsInv'
    <2>1. exposures' \subseteq exposedKeys'
        BY <1>3 DEF CountsInv
    <2>2. \A y \in exposedKeys' : \E v \in Units : CountedBy(y, v) /\ (y \in exposures' \/ v \in unrecorded)
        BY <1>2, <1>3, <1>4, <1>5, <1>6 DEF CountsInv
    <2>3. \A a : Attributed(a, exposures, unrecorded) => Attributed(a, exposures', unrecorded)
        BY <1>6 DEF Attributed
    <2>4. QED
        BY <1>1, <1>6, <2>1, <2>2, <2>3 DEF CountsInv, ShownOr
<1>8. Recorded(e, u, exposures', unrecorded')
    BY <1>1, <1>5 DEF Recorded, x
<1>9. q.shown # Absent /\ q.shown.track => Recorded(q.shown, u, exposures', unrecorded')
    <2>1. ShownRecorded(q, exposures, unrecorded)
        BY <1>1, HasStep
    <2>2. ASSUME Head(q.todo) = doing("set", q.shown) PROVE q.shown = e
        BY <1>2, <2>2 DEF Step, doing
    <2>3. QED
        BY <1>1, <1>6, <1>8, <2>1, <2>2 DEF ShownRecorded, Recorded
<1>10. Follow(r, q.service, q.shown, <<>>)
    BY <1>1 DEF Advance
<1>11. <<>> \in Seq(Steps(u)) /\ Backed(<<>>, u, exposures', unrecorded')
    BY BackedAsks, EmptySeq
<1>12. q.shown \in Evaluations(u) \cup {Absent}
    BY <1>1, HasStep DEF ActiveRequests
<1>13. ServingInv'
    <2>1. q.shown # Absent /\ q.shown.track =>
             \/ Recorded(q.shown, u, exposures', unrecorded')
             \/ <<>> # <<>> /\ Head(<<>>) = doing("set", q.shown)
        BY <1>9
    <2>2. "set" = "set" => Recorded(Step(r).e, u, exposures', unrecorded')
        BY <1>8
    <2>3. published' \in Publications /\ clock' \in Nat /\ failures' \in Nat /\ unrecorded \subseteq unrecorded'
        BY <1>1 DEF ServingInv
    <2>4. QED
        BY <1>1, <1>2, <1>6, <1>10, <1>11, <1>12, <2>1, <2>2, <2>3, FollowOK
<1>14. QED
    BY <1>7, <1>13

\* Redis fails: the user is one of those for whom it did, and the request goes on.
LEMMA SetFailsOK ==
    ASSUME ServingInv, CountsInv, NEW r \in Requests, SetFails(r)
    PROVE  ServingInv' /\ CountsInv'
<1> DEFINE q == request[r]
           u == q.unit
           e == Step(r).e
           x == Counted(e, u)
<1>1. /\ Does(r, "set") /\ Advance(r) /\ UNCHANGED <<published, clock, attribution, exposures, conversions>>
      /\ unrecorded' = unrecorded \cup {u} /\ failures' = failures + 1
      /\ exposedKeys \subseteq exposedKeys' /\ exposedKeys' \subseteq exposedKeys \cup {x}
    BY DEF SetFails, ExposureKey, Counted
<1>2. u \in Units /\ e \in Tracked(u) /\ SafeService(q.service)
    BY <1>1, HasStep, StepHolds
<1>3. CountedBy(x, u)
    BY <1>2 DEF CountedBy
<1> HIDE DEF x
<1>4. CountsInv'
    <2>1. \A y \in exposedKeys' : \E v \in Units : CountedBy(y, v) /\ (y \in exposures \/ v \in unrecorded')
        BY <1>1, <1>2, <1>3 DEF CountsInv
    <2>2. \A a : Attributed(a, exposures, unrecorded) => Attributed(a, exposures, unrecorded')
        BY <1>1 DEF Attributed
    <2>3. QED
        BY <1>1, <2>1, <2>2 DEF CountsInv, ShownOr
<1>5. \A s : Recorded(s, u, exposures', unrecorded')
    BY <1>1 DEF Recorded
<1>6. Follow(r, q.service, q.shown, <<>>)
    BY <1>1 DEF Advance
<1>7. <<>> \in Seq(Steps(u)) /\ Backed(<<>>, u, exposures', unrecorded')
    BY BackedAsks, EmptySeq
<1>8. q.shown \in Evaluations(u) \cup {Absent}
    BY <1>1, HasStep DEF ActiveRequests
<1>9. ServingInv'
    <2>1. q.shown # Absent /\ q.shown.track =>
             \/ Recorded(q.shown, u, exposures', unrecorded')
             \/ <<>> # <<>> /\ Head(<<>>) = doing("set", q.shown)
        BY <1>5
    <2>2. "set" = "set" => Recorded(Step(r).e, u, exposures', unrecorded')
        BY <1>5
    <2>3. published' \in Publications /\ clock' \in Nat /\ failures' \in Nat
          /\ unrecorded \subseteq unrecorded' /\ exposures \subseteq exposures'
        BY <1>1 DEF ServingInv
    <2>4. QED
        BY <1>1, <1>2, <1>6, <1>7, <1>8, <2>1, <2>2, <2>3, FollowOK
<1>10. QED
    BY <1>4, <1>9

\* A request that ends counts nothing more.
LEMMA StopOK ==
    ASSUME ServingInv, NEW r \in Requests, request' = [request EXCEPT ![r] = NoRequest],
           UNCHANGED <<published, clock, exposures, unrecorded>>, failures' \in Nat
    PROVE  ServingInv'
<1>1. RequestOK(NoRequest, exposures', unrecorded')
    BY DEF RequestOK
<1>2. QED
    BY <1>1, OneReplaced DEF ServingInv

\* So has one that asks whether the trial is offered.
LEMMA OfferedOK ==
    ASSUME ServingInv, CountsInv, NEW r \in Requests, Offered(r)
    PROVE  ServingInv' /\ CountsInv'
<1>1. CountsInv'
    <2>1. UNCHANGED Counters
        BY DEF Offered, Counters
    <2>2. QED
        BY <2>1, CountsStay
<1>2. UNCHANGED <<published, clock, exposures, unrecorded, failures>> /\ Does(r, "offered") /\ "offered" # "set"
    BY DEF Offered
<1>3. CASE Advance(r)
    BY <1>1, <1>2, <1>3, AdvanceOK DEF ServingInv
<1>4. CASE request' = [request EXCEPT ![r] = NoRequest]
    BY <1>1, <1>2, <1>4, StopOK DEF ServingInv
<1>5. QED
    BY <1>1, <1>3, <1>4 DEF Offered

\* A conversion is evaluated once more: the exposure of what was shown is recorded.
LEMMA ConvertOK ==
    ASSUME ServingInv, CountsInv, NEW r \in Requests, Convert(r)
    PROVE  ServingInv' /\ CountsInv'
<1> DEFINE q == request[r]
           u == q.unit
           f == Step(r).f
<1>1. Does(r, "convert") /\ UNCHANGED <<published, clock, exposedKeys, attribution, exposures, unrecorded>>
    BY DEF Convert
<1>2. u \in Units /\ SafeService(q.service) /\ f \in Features
    BY <1>1, HasStep, StepHolds
<1>3. PICK answer \in Fetches :
         LET got == Evaluate(q.service, f, u, answer) IN
         /\ RecordConversion(got.e, u, q.shown)
         /\ Follow(r, got.q, q.shown, <<>>)
         /\ Answered(answer)
    BY DEF Convert
<1> DEFINE got == Evaluate(q.service, f, u, answer)
<1>4. SafeService(got.q) /\ got.e \in Evaluations(u) /\ got.e \in EvaluationsOf(f, u)
    BY <1>2, FetchesOK, Evaluates DEF ServingInv
<1>5. RecordConversion(got.e, u, q.shown) /\ Follow(r, got.q, q.shown, <<>>) /\ failures' \in Nat
    BY <1>3, FetchesOK
<1> HIDE DEF got
<1>6. q.shown \in Evaluations(u) \cup {Absent}
    BY <1>1, HasStep DEF ActiveRequests
<1>7. q.shown # Absent /\ q.shown.track => Recorded(q.shown, u, exposures, unrecorded)
    <2>1. Head(q.todo) # doing("set", q.shown)
        BY <1>1 DEF Does, doing
    <2>2. QED
        BY <1>1, <2>1, HasStep DEF ShownRecorded
<1>8. got.e.track =>
         /\ got.e \in Tracked(u)
         /\ Recorded(got.e, u, exposures, unrecorded) \/ q.shown = Absent \/ Counted(q.shown, u) # Counted(got.e, u)
    <2> SUFFICES ASSUME got.e.track, q.shown # Absent, Counted(q.shown, u) = Counted(got.e, u)
                 PROVE  Recorded(got.e, u, exposures, unrecorded)
        BY <1>4 DEF Tracked
    <2>1. q.shown.track
        BY <1>2, <1>4, <1>6, CountedAlike
    <2>2. QED
        BY <1>7, <2>1 DEF Recorded
<1>9. CountsInv'
    BY <1>1, <1>2, <1>5, <1>8, CountsConversion
<1>10. ServingInv'
    <2>1. <<>> \in Seq(Steps(u)) /\ Backed(<<>>, u, exposures', unrecorded')
        BY BackedAsks, EmptySeq
    <2>2. q.shown # Absent /\ q.shown.track =>
             \/ Recorded(q.shown, u, exposures', unrecorded')
             \/ <<>> # <<>> /\ Head(<<>>) = doing("set", q.shown)
        BY <1>1, <1>7
    <2>3. "convert" = "set" => Recorded(Step(r).e, u, exposures', unrecorded')
        OBVIOUS
    <2>4. published' \in Publications /\ clock' \in Nat /\ unrecorded \subseteq unrecorded' /\ exposures \subseteq exposures'
        BY <1>1 DEF ServingInv
    <2>5. QED
        BY <1>1, <1>2, <1>4, <1>5, <1>6, <2>1, <2>2, <2>3, <2>4, FollowOK
<1>11. QED
    BY <1>9, <1>10

\* The steps of the checkout: each exposure is marked before it is counted or paid for.
LEMMA TrackBacked ==
    ASSUME NEW u, NEW X, NEW U, NEW e \in Evaluations(u)
    PROVE  LET track == IF e.track THEN <<doing("set", e), doing("count", e)>> ELSE <<>> IN
           track \in Seq(Steps(u)) /\ Backed(track, u, X, U)
<1>1. CASE ~e.track
    BY <1>1, BackedAsks, EmptySeq
<1>2. CASE e.track
    <2> DEFINE a == doing("set", e)
               b == doing("count", e)
    <2>1. e \in Tracked(u)
        BY <1>2 DEF Tracked
    <2>2. a \in Steps(u) /\ a.op = "set" /\ b \in Steps(u) /\ b.op = "count" /\ b.e = e /\ a = doing("set", e)
        BY <2>1, StepIs
    <2> HIDE DEF a, b
    <2>3. <<a, b>> \in Seq(Steps(u)) /\ Len(<<a, b>>) = 2 /\ <<a, b>>[1] = a /\ <<a, b>>[2] = b
        BY <2>2
    <2>4. SetBefore(<<a, b>>, 2, e)
        BY <2>2, <2>3 DEF SetBefore
    <2>5. ASSUME NEW i \in 1..Len(<<a, b>>)
          PROVE  /\ <<a, b>>[i].op \in {"count", "pay"} =>
                       Recorded(<<a, b>>[i].e, u, X, U) \/ SetBefore(<<a, b>>, i, <<a, b>>[i].e)
                 /\ <<a, b>>[i].op = "outcome" => Attributed(<<a, b>>[i].e, X, U)
        <3>1. i = 1 \/ i = 2
            BY <2>3
        <3>2. QED
            BY <2>2, <2>3, <2>4, <3>1
    <2>6. Backed(<<a, b>>, u, X, U)
        BY <2>5 DEF Backed
    <2>7. QED
        BY <1>2, <2>3, <2>6 DEF a, b
<1>3. QED
    BY <1>1, <1>2

\* A payment that follows the marking of its experiment is backed.
LEMMA PayBacked ==
    ASSUME NEW u, NEW X, NEW U, NEW e \in Tracked(u), NEW s \in Seq(Steps(u)), Backed(s, u, X, U)
    PROVE  LET t == s \o <<doing("set", e), doing("count", e)>>
           IN t \o <<doing("pay", e)>> \in Seq(Steps(u)) /\ Backed(t \o <<doing("pay", e)>>, u, X, U)
<1> DEFINE a == doing("set", e)
           b == doing("count", e)
           p == doing("pay", e)
           t == s \o <<a, b>>
           w == t \o <<p>>
<1>1. e \in Evaluations(u) /\ e.track
    BY DEF Tracked
<1>2. <<a, b>> \in Seq(Steps(u)) /\ Backed(<<a, b>>, u, X, U)
    BY <1>1, TrackBacked
<1>3. t \in Seq(Steps(u)) /\ Backed(t, u, X, U)
    BY <1>2, BackedConcat
<1>4. p \in Steps(u) /\ p.op = "pay" /\ p.e = e
    BY StepIs
<1>5. Len(<<a, b>>) = 2 /\ <<a, b>>[1] = a
    OBVIOUS
<1>6. Len(t) = Len(s) + 2 /\ t[Len(s) + 1] = a
    <2>1. /\ Len(t) = Len(s) + Len(<<a, b>>)
          /\ \A i \in 1..(Len(s) + Len(<<a, b>>)) : t[i] = IF i <= Len(s) THEN s[i] ELSE <<a, b>>[i - Len(s)]
        BY <1>2, ConcatProperties
    <2>2. Len(s) \in Nat
        OBVIOUS
    <2> HIDE DEF t
    <2>3. (Len(s) + 1) \in 1..(Len(s) + Len(<<a, b>>)) /\ ~(Len(s) + 1 <= Len(s)) /\ (Len(s) + 1) - Len(s) = 1
        BY <1>5, <2>2
    <2>4. QED
        BY <1>5, <2>1, <2>3
<1> HIDE DEF t, p, a, b
<1>7. <<p>> \in Seq(Steps(u)) /\ Len(<<p>>) = 1 /\ <<p>>[1] = p
    BY <1>4, OneStep
<1>8. /\ w \in Seq(Steps(u)) /\ Len(w) = Len(t) + 1
      /\ \A i \in 1..Len(w) : w[i] = IF i <= Len(t) THEN t[i] ELSE <<p>>[i - Len(t)]
    BY <1>3, <1>7, ConcatProperties
<1> HIDE DEF w
<1>9. Len(s) \in Nat /\ Len(t) \in Nat
    BY <1>6
<1>10. ASSUME NEW i \in 1..Len(w)
      PROVE  /\ w[i].op \in {"count", "pay"} => Recorded(w[i].e, u, X, U) \/ SetBefore(w, i, w[i].e)
             /\ w[i].op = "outcome" => Attributed(w[i].e, X, U)
    <2>1. CASE i <= Len(t)
        <3>1. i \in 1..Len(t) /\ w[i] = t[i] /\ \A j \in 1..(i - 1) : w[j] = t[j]
            BY <1>8, <1>9, <2>1
        <3>2. QED
            BY <1>3, <3>1 DEF Backed, SetBefore
    <2>2. CASE i > Len(t)
        <3>1. i = Len(t) + 1 /\ w[i] = p
            BY <1>7, <1>8, <1>9, <2>2
        <3>2. (Len(s) + 1) \in 1..(i - 1) /\ w[Len(s) + 1] = a
            BY <1>6, <1>8, <1>9, <3>1
        <3>3. SetBefore(w, i, e)
            BY <3>2 DEF SetBefore, a
        <3>4. QED
            BY <1>4, <3>1, <3>3
    <2>3. QED
        BY <1>9, <2>1, <2>2
<1>11. Backed(w, u, X, U)
    BY <1>10 DEF Backed
<1>12. QED
    BY <1>8, <1>11 DEF w, t, p, a, b

\* So has the context of a checkout, for each feature it holds.
LEMMA ContextOK ==
    ASSUME ServingInv, CountsInv, NEW r \in Requests, Context(r)
    PROVE  ServingInv' /\ CountsInv'
<1> DEFINE u == request[r].unit
<1>1. CountsInv'
    <2>1. UNCHANGED Counters
        BY DEF Context, Counters
    <2>2. QED
        BY <2>1, CountsStay
<1>2. Does(r, "context") /\ UNCHANGED <<exposures, unrecorded, published, clock>>
    BY DEF Context
<1>3. u \in Units /\ SafeService(request[r].service)
    BY <1>2, HasStep
<1> DEFINE flow(answer) == Evaluate(request[r].service, "checkout_flow", u, answer)
           intro(answer) == Evaluate(flow(answer).q, "intro_price", u, answer)
           start(answer) == Evaluate(intro(answer).q, "start_tier_price", u, answer)
           eligible(e) == e.payload # Absent /\ e.feature \in Step(r).eligible
           track(e) == IF e.track THEN <<doing("set", e), doing("count", e)>> ELSE <<>>
           event(f, p) == track(f) \o (IF eligible(p) THEN track(p) ELSE <<>>)
           pay(p) == IF eligible(p) THEN <<doing("pay", p)>> ELSE <<>>
<1>4. PICK answer \in Fetches :
         /\ LET p == IF eligible(intro(answer).e) THEN intro(answer).e ELSE start(answer).e IN
            Follow(r, IF eligible(intro(answer).e) THEN intro(answer).q ELSE start(answer).q, Absent,
                   event(flow(answer).e, p) \o pay(p) \o event(flow(answer).e, p))
         /\ Answered(answer)
    BY DEF Context
<1>5. answer \in Publications \cup {Absent} /\ failures' \in Nat /\ clock \in Nat
    BY <1>4, FetchesOK DEF ServingInv
<1>6. {"checkout_flow", "intro_price", "start_tier_price"} \subseteq Features
    BY DEF Features, FeatureSpec
<1> HIDE DEF u
<1>7. SafeService(flow(answer).q) /\ flow(answer).e \in Evaluations(u)
    BY <1>3, <1>5, <1>6, Evaluates
<1> DEFINE a == intro(answer)
           b == start(answer)
<1>8. SafeService(a.q) /\ a.e \in Evaluations(u) /\ (a.e.payload # Absent => a.e.track)
    <2> HIDE DEF flow
    <2>1. QED
        BY <1>5, <1>6, <1>7, Evaluates
<1>9. SafeService(b.q) /\ b.e \in Evaluations(u) /\ (b.e.payload # Absent => b.e.track)
    <2> HIDE DEF intro
    <2>1. QED
        BY <1>5, <1>6, <1>8, Evaluates
<1> DEFINE f == flow(answer).e
           p == IF eligible(a.e) THEN a.e ELSE b.e
           q == IF eligible(a.e) THEN a.q ELSE b.q
<1>10. Follow(r, q, Absent, event(f, p) \o pay(p) \o event(f, p))
    BY <1>4
<1> HIDE DEF flow, intro, start, a, b
<1>11. SafeService(q) /\ p \in Evaluations(u) /\ (p.payload # Absent => p.track) /\ f \in Evaluations(u)
    BY <1>7, <1>8, <1>9
<1> HIDE DEF p, q, f
<1> DEFINE X == exposures
           U == unrecorded
<1>12. /\ track(f) \in Seq(Steps(u)) /\ Backed(track(f), u, X, U)
       /\ track(p) \in Seq(Steps(u)) /\ Backed(track(p), u, X, U)
    BY <1>11, TrackBacked
<1>13. <<>> \in Seq(Steps(u)) /\ Backed(<<>>, u, X, U)
    BY BackedAsks, EmptySeq
<1> HIDE DEF X, U
<1> DEFINE steps == event(f, p) \o pay(p) \o event(f, p)
<1>14. steps \in Seq(Steps(u)) /\ Backed(steps, u, X, U)
    <2>1. CASE eligible(p)
        <3>0. p \in Tracked(u)
            BY <1>11, <2>1 DEF Tracked
        <3>1. event(f, p) = track(f) \o <<doing("set", p), doing("count", p)>> /\ pay(p) = <<doing("pay", p)>>
            BY <2>1, <3>0 DEF Tracked
        <3> DEFINE t == track(f)
        <3>2. t \in Seq(Steps(u)) /\ Backed(t, u, X, U)
            BY <1>12
        <3>3. event(f, p) = t \o track(p)
            BY <2>1
        <3> HIDE DEF t, eligible
        <3>4. event(f, p) \o pay(p) \in Seq(Steps(u)) /\ Backed(event(f, p) \o pay(p), u, X, U)
            <4>1. event(f, p) = t \o <<doing("set", p), doing("count", p)>> /\ pay(p) = <<doing("pay", p)>>
                BY <3>1 DEF t
            <4> HIDE DEF event, pay
            <4>2. QED
                BY <3>0, <3>2, <4>1, PayBacked
        <3>5. event(f, p) \in Seq(Steps(u)) /\ Backed(event(f, p), u, X, U)
            <4> HIDE DEF event, track
            <4>1. QED
                BY <1>12, <3>2, <3>3, BackedConcat
        <3> HIDE DEF event, pay
        <3>6. QED
            BY <3>4, <3>5, BackedConcat
    <2>2. CASE ~eligible(p)
        <3>1. event(f, p) = track(f) \o <<>> /\ pay(p) = <<>>
            BY <2>2
        <3> DEFINE t == event(f, p)
        <3>2. t \in Seq(Steps(u)) /\ Backed(t, u, X, U)
            <4> HIDE DEF track
            <4>1. QED
                BY <1>12, <1>13, <3>1, BackedConcat
        <3>3. steps = t \o <<>> \o t
            BY <3>1
        <3> HIDE DEF t, steps
        <3>4. t \o <<>> \in Seq(Steps(u)) /\ Backed(t \o <<>>, u, X, U)
            BY <1>13, <3>2, BackedConcat
        <3>5. QED
            BY <3>2, <3>3, <3>4, BackedConcat
    <2>3. QED
        BY <2>1, <2>2
<1>15. Follow(r, q, Absent, steps)
    BY <1>10
<1> HIDE DEF steps
<1>16. ServingInv'
    <2>1. Absent \in Evaluations(u) \cup {Absent}
        OBVIOUS
    <2>2. Absent # Absent /\ Absent.track =>
             \/ Recorded(Absent, u, exposures', unrecorded')
             \/ steps # <<>> /\ Head(steps) = doing("set", Absent)
        OBVIOUS
    <2>3. "context" = "set" => Recorded(Step(r).e, u, exposures', unrecorded')
        OBVIOUS
    <2>4. /\ published' \in Publications /\ clock' \in Nat
          /\ unrecorded \subseteq unrecorded' /\ exposures \subseteq exposures'
          /\ Backed(steps, u, exposures', unrecorded')
        BY <1>2, <1>14 DEF ServingInv, X, U
    <2>5. QED
        BY <1>2, <1>5, <1>11, <1>14, <1>15, <2>1, <2>2, <2>3, <2>4, FollowOK DEF u
<1>17. QED
    BY <1>1, <1>16

\* The steps that follow: what they count and store is recorded by now.
LEMMA CountOK ==
    ASSUME ServingInv, CountsInv, NEW r \in Requests, CountEvent(r)
    PROVE  ServingInv' /\ CountsInv'
<1>1. /\ Does(r, "count") /\ Advance(r)
      /\ UNCHANGED <<published, clock, failures, exposedKeys, attribution, exposures, unrecorded>>
      /\ RecordConversion(Step(r).e, request[r].unit, Step(r).e)
    BY DEF CountEvent
<1>2. /\ request[r].unit \in Units /\ Step(r).e \in Tracked(request[r].unit)
      /\ Recorded(Step(r).e, request[r].unit, exposures, unrecorded)
    BY <1>1, HasStep, StepHolds
<1>3. CountsInv'
    BY <1>1, <1>2, CountsConversion
<1>4. ServingInv'
    BY <1>1, AdvanceOK DEF ServingInv
<1>5. QED
    BY <1>3, <1>4

\* What a payment is stored with was evaluated by the request that pays.
LEMMA PayOK ==
    ASSUME ServingInv, CountsInv, NEW r \in Requests, Pay(r)
    PROVE  ServingInv' /\ CountsInv'
<1> DEFINE u == request[r].unit
           e == Step(r).e
           a == Stored(e, u)
<1>1. /\ Does(r, "pay") /\ Advance(r)
      /\ UNCHANGED <<published, clock, failures, exposedKeys, exposures, conversions, unrecorded>>
      /\ attribution' = attribution \cup {a}
    BY DEF Pay, Stored
<1>2. u \in Units /\ e \in Tracked(u) /\ Recorded(e, u, exposures, unrecorded)
    BY <1>1, HasStep, StepHolds
<1>3. a \in Attributions(u) /\ Attributed(a, exposures, unrecorded)
    BY <1>2 DEF Attributions, Attributed, Recorded, Counted, Stored
<1> HIDE DEF a
<1>4. CountsInv'
    BY <1>1, <1>2, <1>3 DEF CountsInv, ShownOr
<1>5. ServingInv'
    BY <1>1, AdvanceOK DEF ServingInv
<1>6. QED
    BY <1>4, <1>5

\* A payment's outcome counts what was stored with it.
LEMMA AttributeOK ==
    ASSUME ServingInv, CountsInv, NEW r \in Requests, Attribute(r)
    PROVE  ServingInv' /\ CountsInv'
<1> DEFINE u == request[r].unit
           a == Step(r).e
           e == [feature |-> a.feature, variant |-> a.variant, payload |-> Absent, revision |-> Absent, track |-> TRUE]
           c == [of |-> Counted(e, u), shown |-> {Counted(s, u) : s \in {Absent} \ {Absent}}]
<1>1. /\ Does(r, "outcome") /\ Advance(r)
      /\ UNCHANGED <<published, clock, failures, exposedKeys, attribution, exposures, unrecorded>>
      /\ conversions' = conversions \cup {c}
    BY DEF Attribute, RecordConversion
<1>2. a \in Attributions(u) /\ Attributed(a, exposures, unrecorded)
    BY <1>1, HasStep, StepHolds
<1>3. a.unit = u
    BY <1>2 DEF Attributions, Stored
<1>4. c.of.revision = Absent /\ c.of.unit = a.unit /\ c.of.feature = a.feature /\ c.of.variant = a.variant
    BY <1>3 DEF Counted
<1> HIDE DEF c
<1>5. Attributed(c.of, exposures, unrecorded)
    BY <1>2, <1>4 DEF Attributed
<1>6. CountsInv'
    BY <1>1, <1>4, <1>5 DEF CountsInv, ShownOr
<1>7. ServingInv'
    BY <1>1, AdvanceOK DEF ServingInv
<1>8. QED
    BY <1>6, <1>7

\* Every step keeps the invariant.
LEMMA ExperimentsStep == ExperimentsInv /\ [ExperimentsNext]_experimentVars => ExperimentsInv'
<1> SUFFICES ASSUME ServingInv, CountsInv, [ExperimentsNext]_experimentVars
             PROVE  ServingInv' /\ CountsInv'
    BY DEF ExperimentsInv
<1>1. ASSUME NEW r \in Requests, RequestStep(r) PROVE ServingInv' /\ CountsInv'
    BY <1>1, ExposeOK, SetExposedOK, SetFailsOK, OfferedOK, ConvertOK, ContextOK, CountOK, PayOK, AttributeOK
       DEF RequestStep
<1>2. ASSUME NEW r \in Requests, RequestFault(r) PROVE ServingInv' /\ CountsInv'
    <2>1. UNCHANGED Counters /\ failures' \in Nat
        BY <1>2 DEF RequestFault, Counters, ServingInv
    <2>2. ServingInv'
        BY <1>2, <2>1, StopOK DEF RequestFault, Counters
    <2>3. QED
        BY <2>1, <2>2, CountsStay
<1>3. ASSUME Passes \/ Publish \/ UNCHANGED experimentVars PROVE ServingInv' /\ CountsInv'
    <2>1. UNCHANGED Counters /\ request' = request /\ failures' = failures
        BY <1>3 DEF Passes, Publish, experimentVars, Counters
    <2>2. published' \in Publications /\ clock' \in Nat
        BY <1>3 DEF Passes, Publish, experimentVars, ServingInv
    <2>3. ServingInv'
        BY <2>1, <2>2 DEF ServingInv, Counters
    <2>4. QED
        BY <2>1, <2>3, CountsStay
<1>4. QED
    BY <1>1, <1>2, <1>3, BeginOK DEF ExperimentsNext

\* Every behaviour keeps all of it.
LEMMA ExperimentsHold == ExperimentsSpec => []ExperimentsInv
<1>1. QED
    BY ExperimentsInvInit, ExperimentsStep, PTL DEF ExperimentsSpec

\* What a request fetches and holds, and what is counted, has its type.
THEOREM ExperimentsTyped == ExperimentsSpec => []ExperimentsTypeOK
<1>1. ExperimentsInv => ExperimentsTypeOK
    <2> SUFFICES ASSUME ServingInv, CountsInv PROVE ExperimentsTypeOK
        BY DEF ExperimentsInv
    <2>1. ASSUME NEW x \in exposures PROVE x.unit \in Units /\ x.feature \in DOMAIN FeatureSpec
        <3>1. PICK u \in Units : CountedBy(x, u)
            BY DEF CountsInv
        <3>2. PICK e \in Tracked(u) : x = Counted(e, u)
            BY <3>1 DEF CountedBy
        <3>3. e.feature \in Features
            BY <3>2, EvaluationFacts DEF Tracked
        <3>4. QED
            BY <3>2, <3>3 DEF Counted, Features
    <2>2. ASSUME NEW r \in Requests
          PROVE  /\ request[r].unit \in Units \cup {Absent}
                 /\ request[r].service.config \in Publications \cup {Absent}
                 /\ request[r].service.config = Absent => ~request[r].service.safe
        <3>1. RequestOK(request[r], exposures, unrecorded)
            BY DEF ServingInv
        <3>2. CASE request[r] = NoRequest
            BY <3>2 DEF NoRequest, NewService
        <3>3. CASE (\E u \in Units : request[r] \in ActiveRequests(u)) /\ SafeService(request[r].service)
            BY <3>3 DEF ActiveRequests, SafeService, Services
        <3>4. QED
            BY <3>1, <3>2, <3>3 DEF RequestOK
    <2>3. QED
        BY <2>1, <2>2 DEF ExperimentsTypeOK, ServingInv, CountsInv
<1>2. QED
    BY <1>1, ExperimentsHold, PTL

\* Whatever is counted of a feature Estimand decides about was served by a configuration
\* it published: no fallback is ever counted, for any requests, failures and circuits.
THEOREM CountsServed == ExperimentsSpec => []CountedAsServed
<1>1. ExperimentsInv => CountedAsServed
    <2> SUFFICES ASSUME CountsInv, NEW x \in exposures \cup {c.of : c \in {d \in conversions : d.of.revision # Absent}},
                        FeatureSpec[x.feature].remote
                 PROVE  \E p \in Publications : p.revision = x.revision /\ p.serves[x.feature][x.unit].variant = x.variant
        BY DEF ExperimentsInv, CountedAsServed
    <2>1. PICK u \in Units : CountedBy(x, u)
        BY DEF CountsInv
    <2>2. PICK e \in Tracked(u) : x = Counted(e, u)
        BY <2>1 DEF CountedBy
    <2>3. x.feature = e.feature /\ x.revision = e.revision /\ x.variant = e.variant /\ x.unit = u
        BY <2>2 DEF Counted
    <2>4. QED
        BY <2>3, EvaluationFacts DEF Tracked, Serving
<1>2. QED
    BY <1>1, ExperimentsHold, PTL

\* Whatever the order of requests and failures of Redis and Estimand, a conversion is counted
\* of a variant whose exposure was counted, or for one of the three reasons named.
THEOREM ConvertsExposed == ExperimentsSpec => []ConversionsExposed
<1>1. ExperimentsInv => ConversionsExposed
    <2> SUFFICES ASSUME CountsInv, NEW c \in conversions
                 PROVE  \/ c.of \in exposures \/ c.of.unit \in unrecorded
                        \/ c.of.revision = Absent /\ \E x \in exposures :
                              x.unit = c.of.unit /\ x.feature = c.of.feature /\ x.variant = c.of.variant
                        \/ c.of.revision # Absent /\ c.of \notin c.shown
        BY DEF ExperimentsInv, ConversionsExposed
    <2>1. CASE \E u \in Units : CountedBy(c.of, u) /\ (c.of \in exposures \/ u \in unrecorded \/ ShownOr(c))
        <3>1. PICK u \in Units : CountedBy(c.of, u) /\ (c.of \in exposures \/ u \in unrecorded \/ ShownOr(c))
            BY <2>1
        <3>2. c.of.unit = u
            BY <3>1 DEF CountedBy, Counted
        <3>3. QED
            BY <3>1, <3>2 DEF ShownOr
    <2>2. CASE c.of.revision = Absent /\ Attributed(c.of, exposures, unrecorded)
        BY <2>2 DEF Attributed
    <2>3. QED
        BY <2>1, <2>2 DEF CountsInv
<1>2. QED
    BY <1>1, ExperimentsHold, PTL

\* Widening the coverage of a feature moves nobody whose exposure was counted: for any weights,
\* hash, rules and users, and whatever was published in between.
THEOREM CoverageSticks == ExperimentsSpec => []CoverageSticky
<1>1. ExperimentsInv => CoverageSticky
    <2> SUFFICES ASSUME ServingInv, CountsInv, NEW x \in exposures,
                        [from |-> x.revision, to |-> published.revision, feature |-> x.feature] \in Widenings
                 PROVE  published.serves[x.feature][x.unit].variant = x.variant
        BY DEF ExperimentsInv, CoverageSticky
    <2>1. PICK u \in Units : CountedBy(x, u)
        BY DEF CountsInv
    <2>2. PICK e \in Tracked(u) : x = Counted(e, u)
        BY <2>1 DEF CountedBy
    <2>3. x.feature = e.feature /\ x.revision = e.revision /\ x.variant = e.variant /\ x.unit = u
        BY <2>2 DEF Counted
    <2>4. PICK y \in Widened : [from |-> x.revision, to |-> published.revision, feature |-> x.feature] =
                                [from |-> y[1].revision, to |-> y[2].revision, feature |-> y[3]]
        BY DEF Widenings
    <2> DEFINE f == e.feature
    <2>5. PICK c \in Configs, d \in Configs :
             <<c, d, f>> \in Widened /\ c.revision = e.revision /\ d.revision = published.revision
        <3>1. y \in Configs \X Configs \X DOMAIN FeatureSpec
            BY DEF Widened
        <3>2. PICK c \in Configs, d \in Configs, g \in DOMAIN FeatureSpec : y = <<c, d, g>>
            BY <3>1
        <3>3. y[1] = c /\ y[2] = d /\ y[3] = g
            BY <3>2
        <3>4. [from |-> x.revision, to |-> published.revision, feature |-> x.feature] =
              [from |-> c.revision, to |-> d.revision, feature |-> g]
            BY <2>4, <3>3
        <3>5. x.revision = c.revision /\ published.revision = d.revision /\ x.feature = g
            BY <3>4
        <3>6. QED
            BY <2>3, <2>4, <3>2, <3>5
    <2>6. f \in Features /\ e.track /\ e \in Evaluations(u)
        BY <2>2, EvaluationFacts DEF Tracked
    <2>7. FeatureSpec[f].remote
        BY <2>5, <2>6, EvaluationFacts, RevisionsAssumption DEF Features
    <2>8. PICK p \in Serving(f, u) : p.revision = e.revision /\ p.serves[f][u].variant = e.variant
        BY <2>6, <2>7, EvaluationFacts
    <2>9. p = Publication(c) /\ published = Publication(d)
        <3>1. PICK pc \in Configs, pd \in Configs : p = Publication(pc) /\ published = Publication(pd)
            BY DEF ServingInv, Serving, Publications
        <3>2. pc.revision = c.revision /\ pd.revision = d.revision
            BY <2>5, <2>8, <3>1 DEF Publication
        <3>3. QED
            BY <3>1, <3>2, ConfigsAssumption
    <2>10. Publication(c).serves[f][u].variant # Absent
        BY <2>9 DEF Serving
    <2>11. Publication(d).serves[f][u].variant = Publication(c).serves[f][u].variant
        BY <2>5, <2>6, <2>10, WidenedServes DEF Features
    <2>12. QED
        BY <2>3, <2>8, <2>9, <2>11
<1>2. QED
    BY <1>1, ExperimentsHold, PTL

----------------------------------------------------------------------------
(***************************************************************************)
(* The three side by side: a behaviour of Newcomers is one of each, so     *)
(* what is proved of each holds in Newcomers.                              *)
(***************************************************************************)

\* A behaviour of the composition is a behaviour of every component.
THEOREM ComponentsRun == Spec => OnboardingSpec /\ RemindersSpec /\ ExperimentsSpec
<1>1. Init => OnboardingInit /\ RemindersInit /\ ExperimentsInit
    BY DEF Init
<1>2. [Next]_newcomerVars => [OnboardingNext]_onboardingVars
    BY DEF Next, newcomerVars
<1>3. [Next]_newcomerVars => [RemindersNext]_reminderVars
    BY DEF Next, newcomerVars
<1>4. [Next]_newcomerVars => [ExperimentsNext]_experimentVars
    BY DEF Next, newcomerVars
<1>5. QED
    BY <1>1, <1>2, <1>3, <1>4, PTL DEF Spec, OnboardingSpec, RemindersSpec, ExperimentsSpec

\* Every variable of the composition has its type.
THEOREM NewcomersTyped == Spec => []TypeOK
<1>1. OnboardingTypeOK /\ RemindersTypeOK /\ ExperimentsTypeOK => TypeOK
    BY DEF TypeOK
<1>2. QED
    BY <1>1, ComponentsRun, OnboardingTyped, RemindersTyped, ExperimentsTyped, PTL

\* And so do the safety properties of the three.
THEOREM NewcomersSafe ==
    Spec => [](/\ AdmittedOnly /\ InviteKept /\ BetaToldIsBeta
               /\ RemindedOnce /\ RemindersKept
               /\ CountedAsServed /\ ConversionsExposed /\ CoverageSticky)
<1>1. QED
    BY ComponentsRun, OnlyAdmitted, InvitesAreKept, BetaIsBeta, RemindsOnce, RemindersAreKept,
       CountsServed, ConvertsExposed, CoverageSticks, PTL
=============================================================================
