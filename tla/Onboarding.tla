----------------------------- MODULE Onboarding -----------------------------
(***************************************************************************)
(* An update of Telegram on its way to a handler: the middlewares Access,  *)
(* User, Rules, Channel and Throttling, then the menu's handler.  Several  *)
(* updates are on the way at once, of one person too.  What they read and  *)
(* write: the user at billing, and two copies in Redis that live five      *)
(* minutes, of the user - "there is none" is kept as well - and of the     *)
(* membership of the channel.                                              *)
(*                                                                         *)
(* One action is one await with the code up to the next.  The settings     *)
(* stay as they are during a behaviour.                                    *)
(***************************************************************************)
EXTENDS Naturals

CONSTANTS
    People,
    Slots,                  \* updates on the way at once
    Nobody, NoCopy,         \* no such user, nothing in Redis
    Houses                  \* settings and bounds of the behaviours: see IsHouse

Kinds == {"start", "ref", "accept", "buy", "trial", "beta"}
User == [accepted : BOOLEAN, blocked : BOOLEAN, discount : BOOLEAN, privileged : BOOLEAN]
Account == [user : User \cup {Nobody}, referred : BOOLEAN, squad : BOOLEAN,
            subscription : {"none", "trial", "paid"}]
\* the settings; and, as bounds, the kinds of update, what billing may know at first, and
\* how many updates, turns of the world and faults there are; whom billing does not know
\* nobody referred
IsHouse(h) ==
    /\ h.mode \in {"PUBLIC", "INVITED", "RESTRICTED"}
    /\ {h.purchases, h.registration, h.rules, h.channel, h.invitee} \subseteq BOOLEAN
    /\ h.kinds \subseteq Kinds /\ h.knows \subseteq {a \in Account : a.user = Nobody => ~a.referred}
    /\ {h.updates, h.turns, h.faults} \subseteq Nat

ASSUME HousesAssumption == \A h \in Houses : IsHouse(h)
ASSUME NobodyAssumption == Nobody \notin User /\ NoCopy \notin User \cup {Nobody}

VARIABLES
    house,
    billing,        \* per person: the user, referred by someone, the subscription, Beta Testers among its squads
    copy,           \* Redis: get_user
    panelSquad,     \* the panel: people in the squad Beta Testers
    joined, joinedCopy,  \* members of the channel, and channel_member in Redis
    throttled,      \* the process: people served less than half a second ago
    waitlist,       \* Redis
    blocking,       \* people whose block is written at billing, the copy not yet cleared
    update,         \* per slot
    told,           \* history: people told that they are beta testers
    stale,          \* history: people of whom an update left a copy when billing knew better
    members,        \* history: people who were ever members of the channel
    unchecked,      \* history: people whose membership could not be asked for
    invited,        \* history: people an update with a referral code registered
    dropped,        \* history: people an update of whom an exception or a crash ended
    count           \* updates, turns of the world and faults so far

onboardingVars == <<house, billing, copy, panelSquad, joined, joinedCopy, throttled, waitlist, blocking,
                    update, told, stale, members, unchecked, invited, dropped, count>>
world == <<house, joined, blocking, members>>
gates == <<joinedCopy, throttled, waitlist, unchecked>>
beta == <<panelSquad, told>>

NoUpdate == [kind |-> "none", who |-> Nobody, pc |-> "idle", next |-> "idle", seen |-> Nobody, answer |-> Nobody,
             barred |-> FALSE, unknown |-> FALSE]

OnboardingInit ==
    /\ house \in Houses
    /\ billing \in [People -> house.knows]
    /\ copy = [p \in People |-> NoCopy]
    /\ panelSquad = {p \in People : billing[p].squad}
    /\ joined \in SUBSET People /\ joinedCopy = [p \in People |-> "none"] /\ members = joined
    /\ throttled = {} /\ waitlist = {} /\ blocking = {}
    /\ update = [s \in Slots |-> NoUpdate]
    /\ told = {} /\ stale = {} /\ unchecked = {} /\ invited = {} /\ dropped = {}
    /\ count = [updates |-> 0, turns |-> 0, faults |-> 0]

----------------------------------------------------------------------------
AtUpdate(s, pc) == update[s].pc = pc
Who(s) == update[s].who
Seen(s) == update[s].seen
GoesTo(s, pc) == update' = [update EXCEPT ![s].pc = pc]
Ended(s) == update' = [update EXCEPT ![s] = NoUpdate]

\* the user is blocked, and whoever blocked is through with it
Barred(p) == billing[p].user # Nobody /\ billing[p].user.blocked /\ p \notin blocking

\* the person is not registered, or is about to be and the copy still says no
Unknown(p) == billing[p].user = Nobody \/ \E s \in Slots : Who(s) = p /\ AtUpdate(s, "clear")

Arrive(s) ==
    /\ AtUpdate(s, "idle") /\ count.updates < house.updates
    /\ \E p \in People, kind \in house.kinds :
          update' = [update EXCEPT ![s] = [NoUpdate EXCEPT !.kind = kind, !.who = p, !.pc = "get", !.next = "access",
                                                           !.barred = Barred(p), !.unknown = Unknown(p)]]
    /\ count' = [count EXCEPT !.updates = @ + 1]
    /\ UNCHANGED <<world, billing, copy, beta, gates, stale, invited, dropped>>

(***************************************************************************)
(* UserService.get, of AccessMiddleware and of UserMiddleware, and what    *)
(* update leaves in Redis.                                                 *)
(***************************************************************************)

GetCopy(s) ==
    /\ AtUpdate(s, "get")
    /\ update' = [update EXCEPT ![s] = IF copy[Who(s)] = NoCopy THEN [@ EXCEPT !.pc = "fetch"]
                                       ELSE [@ EXCEPT !.seen = copy[Who(s)], !.pc = update[s].next]]
    /\ UNCHANGED <<world, billing, copy, beta, gates, stale, invited, dropped, count>>

FetchUser(s) ==
    /\ AtUpdate(s, "fetch")
    /\ update' = [update EXCEPT ![s] = [@ EXCEPT !.seen = billing[Who(s)].user, !.answer = billing[Who(s)].user, !.pc = "store"]]
    /\ UNCHANGED <<world, billing, copy, beta, gates, stale, invited, dropped, count>>

Store(s) ==
    /\ AtUpdate(s, "store")
    /\ copy' = [copy EXCEPT ![Who(s)] = update[s].answer]
    /\ stale' = IF update[s].answer # billing[Who(s)].user THEN stale \cup {Who(s)} ELSE stale
    /\ update' = [update EXCEPT ![s] = [@ EXCEPT !.answer = Nobody, !.pc = update[s].next]]
    /\ UNCHANGED <<world, billing, beta, gates, invited, dropped, count>>

\* UserService.update: the changed field, as billing has the others; what it answers goes to Redis
WriteUser(s, user, seen, next) ==
    /\ billing' = [billing EXCEPT ![Who(s)].user = user]
    /\ update' = [update EXCEPT ![s] = [@ EXCEPT !.seen = seen, !.answer = user, !.pc = "store", !.next = next]]

----------------------------------------------------------------------------
(***************************************************************************)
(* AccessMiddleware.                                                       *)
(***************************************************************************)

PurchaseDenied(s) == update[s].kind = "buy" /\ ~house.purchases
NewcomerAllowed(s) ==
    \/ house.mode = "INVITED" /\ update[s].kind = "ref"
    \/ house.mode = "PUBLIC" /\ house.registration
UserAllowed(s) ==
    /\ ~Seen(s).blocked
    /\ Seen(s).privileged \/ (~PurchaseDenied(s) /\ house.mode # "RESTRICTED")
Allowed(s) == IF Seen(s) = Nobody THEN NewcomerAllowed(s) ELSE UserAllowed(s)

Admit(s) ==
    /\ AtUpdate(s, "access") /\ Allowed(s)
    /\ update' = [update EXCEPT ![s] = [@ EXCEPT !.seen = Nobody, !.pc = "get", !.next = "user"]]
    /\ UNCHANGED <<world, billing, copy, beta, gates, stale, invited, dropped, count>>

Refuse(s) ==
    /\ AtUpdate(s, "access") /\ ~Allowed(s)
    /\ waitlist' = IF Seen(s) # Nobody /\ ~Seen(s).blocked /\ PurchaseDenied(s)
                   THEN waitlist \cup {Who(s)} ELSE waitlist
    /\ Ended(s)
    /\ UNCHANGED <<world, billing, copy, beta, joinedCopy, throttled, unchecked, stale, invited, dropped, count>>

----------------------------------------------------------------------------
(***************************************************************************)
(* UserMiddleware.  A username or a name that has changed is written; the  *)
(* object in hand stays what it was.                                       *)
(***************************************************************************)

CompareAndUpdate(s) ==
    /\ AtUpdate(s, "user") /\ Seen(s) # Nobody
    /\ \/ GoesTo(s, "rules") /\ UNCHANGED billing
       \/ WriteUser(s, billing[Who(s)].user, Seen(s), "rules")
    /\ UNCHANGED <<world, copy, beta, gates, stale, invited, dropped, count>>

\* billing keeps a user it knows
NewUser == [accepted |-> FALSE, blocked |-> FALSE, discount |-> FALSE, privileged |-> FALSE]
Create(s) ==
    /\ AtUpdate(s, "user") /\ Seen(s) = Nobody
    /\ LET new == billing[Who(s)].user = Nobody
           user == IF new THEN NewUser ELSE billing[Who(s)].user IN
       /\ billing' = [billing EXCEPT ![Who(s)].user = user]
       /\ invited' = IF new /\ update[s].kind = "ref" THEN invited \cup {Who(s)} ELSE invited
       /\ update' = [update EXCEPT ![s] = [@ EXCEPT !.seen = user, !.pc = "clear"]]
    /\ UNCHANGED <<world, copy, beta, gates, stale, dropped, count>>

\* clear_user_cache; the middleware's own second create_user is swallowed if it fails
ClearCopy(s) ==
    /\ AtUpdate(s, "clear")
    /\ copy' = [copy EXCEPT ![Who(s)] = NoCopy]
    /\ GoesTo(s, IF update[s].kind = "ref" THEN "chain" ELSE "rules")
    /\ UNCHANGED <<world, billing, beta, gates, stale, invited, dropped, count>>

\* handle_referral: unless referred already, the referral, then the invitee's discount
Chain(s) ==
    /\ AtUpdate(s, "chain")
    /\ GoesTo(s, IF billing[Who(s)].referred THEN "rules" ELSE "link")
    /\ UNCHANGED <<world, billing, copy, beta, gates, stale, invited, dropped, count>>

\* a second referral of the same person is one, or an exception (a fault)
CreateReferral(s) ==
    /\ AtUpdate(s, "link")
    /\ billing' = [billing EXCEPT ![Who(s)].referred = TRUE]
    /\ GoesTo(s, "reward")
    /\ UNCHANGED <<world, copy, beta, gates, stale, invited, dropped, count>>

ApplyInviteeReward(s) ==
    /\ AtUpdate(s, "reward")
    /\ IF house.invitee /\ billing[Who(s)].subscription # "paid" /\ ~Seen(s).discount
       THEN WriteUser(s, [billing[Who(s)].user EXCEPT !.discount = TRUE], [Seen(s) EXCEPT !.discount = TRUE], "rules")
       ELSE GoesTo(s, "rules") /\ UNCHANGED billing
    /\ UNCHANGED <<world, copy, beta, gates, stale, invited, dropped, count>>

----------------------------------------------------------------------------
(***************************************************************************)
(* RulesMiddleware, ChannelMiddleware, ThrottlingMiddleware.               *)
(***************************************************************************)

\* mutant: the whole object in hand is written
AcceptRulesWhole(s) ==
    /\ AtUpdate(s, "rules") /\ house.rules /\ update[s].kind = "accept"
    /\ LET user == [Seen(s) EXCEPT !.accepted = TRUE] IN WriteUser(s, user, user, "channel")
    /\ UNCHANGED <<world, copy, beta, gates, stale, invited, dropped, count>>

AcceptRules(s) ==
    /\ AtUpdate(s, "rules") /\ house.rules /\ update[s].kind = "accept"
    /\ IF Seen(s).accepted
       THEN GoesTo(s, "channel") /\ UNCHANGED billing
       ELSE WriteUser(s, [billing[Who(s)].user EXCEPT !.accepted = TRUE], [Seen(s) EXCEPT !.accepted = TRUE], "channel")
    /\ UNCHANGED <<world, copy, beta, gates, stale, invited, dropped, count>>

CheckRules(s) ==
    /\ AtUpdate(s, "rules") /\ (house.rules => update[s].kind # "accept")
    /\ IF ~house.rules \/ Seen(s).accepted THEN GoesTo(s, "channel") ELSE Ended(s)
    /\ UNCHANGED <<world, billing, copy, beta, gates, stale, invited, dropped, count>>

\* the status kept in Redis or, without one, asked for and kept
CheckChannel(s) ==
    /\ AtUpdate(s, "channel")
    /\ IF ~house.channel \/ Seen(s).privileged
       THEN GoesTo(s, "throttle") /\ UNCHANGED joinedCopy
       ELSE LET status == IF joinedCopy[Who(s)] # "none" THEN joinedCopy[Who(s)]
                          ELSE IF Who(s) \in joined THEN "in" ELSE "out" IN
            /\ joinedCopy' = [joinedCopy EXCEPT ![Who(s)] = status]
            /\ IF status = "in" THEN GoesTo(s, "throttle") ELSE Ended(s)
    /\ UNCHANGED <<world, billing, copy, beta, throttled, waitlist, unchecked, stale, invited, dropped, count>>

\* Telegram or Redis raises: the check is skipped
SkipChannel(s) ==
    /\ AtUpdate(s, "channel") /\ house.channel /\ ~Seen(s).privileged
    /\ count.faults < house.faults
    /\ count' = [count EXCEPT !.faults = @ + 1]
    /\ unchecked' = unchecked \cup {Who(s)}
    /\ GoesTo(s, "throttle")
    /\ UNCHANGED <<world, billing, copy, beta, joinedCopy, throttled, waitlist, stale, invited, dropped>>

Throttle(s) ==
    /\ AtUpdate(s, "throttle")
    /\ IF Who(s) \in throttled THEN Ended(s) ELSE GoesTo(s, "handle")
    /\ throttled' = throttled \cup {Who(s)}
    /\ UNCHANGED <<world, billing, copy, beta, joinedCopy, waitlist, unchecked, stale, invited, dropped, count>>

----------------------------------------------------------------------------
(***************************************************************************)
(* The handlers.                                                           *)
(***************************************************************************)

HandleMenu(s) ==
    /\ AtUpdate(s, "handle") /\ update[s].kind \notin {"trial", "beta"}
    /\ Ended(s)
    /\ UNCHANGED <<world, billing, copy, beta, gates, stale, invited, dropped, count>>

\* on_get_trial: billing gives one trial, or answers 409
GetTrial(s) ==
    /\ AtUpdate(s, "handle") /\ update[s].kind = "trial"
    /\ \/ billing[Who(s)].subscription = "none" /\ billing' = [billing EXCEPT ![Who(s)].subscription = "trial"]
       \/ UNCHANGED billing
    /\ Ended(s)
    /\ UNCHANGED <<world, copy, beta, gates, stale, invited, dropped, count>>

\* mutant: who is enrolled at billing is told so at once
EnrollFirstOnly(s) ==
    /\ AtUpdate(s, "handle") /\ update[s].kind = "beta"
    /\ \/ /\ billing[Who(s)].subscription = "paid" /\ ~billing[Who(s)].squad
          /\ billing' = [billing EXCEPT ![Who(s)].squad = TRUE] /\ GoesTo(s, "push") /\ UNCHANGED told
       \/ billing[Who(s)].subscription # "paid" /\ Ended(s) /\ UNCHANGED <<billing, told>>
       \/ billing[Who(s)].squad /\ Ended(s) /\ told' = told \cup {Who(s)} /\ UNCHANGED billing
    /\ UNCHANGED <<world, copy, panelSquad, gates, stale, invited, dropped, count>>
\* enroll_beta_tester: a paid subscription; the squad at billing unless it is there, the
\* whole subscription to the panel in either case, the nodes, and the answer
EnrollAtBilling(s) ==
    /\ AtUpdate(s, "handle") /\ update[s].kind = "beta"
    /\ IF billing[Who(s)].subscription = "paid"
       THEN billing' = [billing EXCEPT ![Who(s)].squad = TRUE] /\ GoesTo(s, "push")
       ELSE Ended(s) /\ UNCHANGED billing
    /\ UNCHANGED <<world, copy, beta, gates, stale, invited, dropped, count>>
EnrollAtPanel(s) ==
    /\ AtUpdate(s, "push")
    /\ panelSquad' = panelSquad \cup {Who(s)}
    /\ GoesTo(s, "restart")
    /\ UNCHANGED <<world, billing, copy, told, gates, stale, invited, dropped, count>>
RestartNodes(s) ==
    /\ AtUpdate(s, "restart")
    /\ told' = told \cup {Who(s)}
    /\ Ended(s)
    /\ UNCHANGED <<world, billing, copy, panelSquad, gates, stale, invited, dropped, count>>

\* an exception, which ErrorMiddleware answers, or a crash
UpdateFault(s) ==
    /\ ~AtUpdate(s, "idle") /\ count.faults < house.faults
    /\ count' = [count EXCEPT !.faults = @ + 1]
    /\ dropped' = dropped \cup {Who(s)}
    /\ stale' = IF AtUpdate(s, "clear") THEN stale \cup {Who(s)} ELSE stale
    /\ Ended(s)
    /\ UNCHANGED <<world, billing, copy, beta, gates, invited>>

UpdateStep(s) ==
    \/ GetCopy(s) \/ FetchUser(s) \/ Store(s) \/ Admit(s) \/ Refuse(s)
    \/ CompareAndUpdate(s) \/ Create(s) \/ ClearCopy(s) \/ Chain(s) \/ CreateReferral(s) \/ ApplyInviteeReward(s)
    \/ AcceptRules(s) \/ CheckRules(s) \/ CheckChannel(s) \/ SkipChannel(s) \/ Throttle(s)
    \/ HandleMenu(s) \/ GetTrial(s) \/ EnrollAtBilling(s) \/ EnrollAtPanel(s) \/ RestartNodes(s)

----------------------------------------------------------------------------
(***************************************************************************)
(* Around the updates: an administrator blocks, the person joins, leaves   *)
(* or buys, copies and throttling end.                                     *)
(***************************************************************************)

Turn == count.turns < house.turns /\ count' = [count EXCEPT !.turns = @ + 1]

SetBlock(p) ==
    /\ Turn /\ billing[p].user # Nobody /\ ~billing[p].user.blocked
    /\ billing' = [billing EXCEPT ![p].user.blocked = TRUE]
    /\ blocking' = blocking \cup {p}
    /\ UNCHANGED <<house, joined, members, update, copy, beta, gates, stale, invited, dropped>>
\* mutant: the copy stays
ClearBlockedNot(p) ==
    /\ p \in blocking
    /\ blocking' = blocking \ {p}
    /\ UNCHANGED <<copy, house, joined, members, update, billing, beta, gates, stale, invited, dropped, count>>
ClearBlocked(p) ==
    /\ p \in blocking
    /\ copy' = [copy EXCEPT ![p] = NoCopy] /\ blocking' = blocking \ {p}
    /\ UNCHANGED <<house, joined, members, update, billing, beta, gates, stale, invited, dropped, count>>

JoinOrLeave(p) ==
    /\ Turn
    /\ joined' = IF p \in joined THEN joined \ {p} ELSE joined \cup {p}
    /\ members' = members \cup joined'
    /\ UNCHANGED <<house, blocking, update, billing, copy, beta, gates, stale, invited, dropped>>
Buys(p) ==
    /\ Turn /\ billing[p].user # Nobody /\ billing[p].subscription # "paid"
    /\ billing' = [billing EXCEPT ![p].subscription = "paid"]
    /\ UNCHANGED <<world, update, copy, beta, gates, stale, invited, dropped>>

TimePasses(p) ==
    /\ \/ copy[p] # NoCopy /\ copy' = [copy EXCEPT ![p] = NoCopy] /\ UNCHANGED <<joinedCopy, throttled>>
       \/ joinedCopy[p] # "none" /\ joinedCopy' = [joinedCopy EXCEPT ![p] = "none"] /\ UNCHANGED <<copy, throttled>>
       \/ p \in throttled /\ throttled' = throttled \ {p} /\ UNCHANGED <<copy, joinedCopy>>
    /\ UNCHANGED <<world, update, billing, beta, waitlist, unchecked, stale, invited, dropped, count>>

OnboardingNext ==
    \/ \E s \in Slots : Arrive(s) \/ UpdateStep(s) \/ UpdateFault(s)
    \/ \E p \in People : SetBlock(p) \/ ClearBlocked(p) \/ JoinOrLeave(p) \/ Buys(p) \/ TimePasses(p)

OnboardingSpec == OnboardingInit /\ [][OnboardingNext]_onboardingVars

----------------------------------------------------------------------------
OnboardingTypeOK ==
    /\ house \in Houses /\ billing \in [People -> Account]
    /\ copy \in [People -> User \cup {Nobody, NoCopy}]
    /\ UNION {panelSquad, told, joined, throttled, waitlist, blocking, stale, members, unchecked, invited, dropped}
          \subseteq People
    /\ joinedCopy \in [People -> {"none", "in", "out"}]
    /\ \A s \in Slots : /\ update[s].who \in People \cup {Nobody} /\ update[s].seen \in User \cup {Nobody}
                        /\ update[s].pc = "idle" <=> update[s] = NoUpdate
    /\ joined \subseteq members

\* Who reaches a handler was let in: the rules are accepted at billing, where they are
\* required; the channel was joined once, unless the membership could not be asked for;
\* who was blocked when the update arrived is kept out, and so is a purchase while they are
\* closed, but of somebody new - unless a slower update left in Redis what billing no
\* longer said (access.py:49-117, rules.py:25-55, channel.py:36-125, user.py:102-109,
\* 202-206).
Reached == {s \in Slots : update[s].pc \in {"throttle", "handle", "push", "restart"}}
AdmittedOnly ==
    \A s \in Reached :
        LET p == Who(s)
            privileged == Seen(s).privileged
        IN /\ house.rules => billing[p].user.accepted
           /\ house.channel => privileged \/ p \in members \cup unchecked
           /\ update[s].barred => p \in stale
           /\ house.mode = "RESTRICTED" => privileged
           /\ update[s].kind = "buy" /\ ~house.purchases => privileged \/ p \in stale \/ update[s].unknown

\* Who was registered through a referral link is referred and has the invitee's discount,
\* and no later update takes it away - unless an update of theirs was cut short
\* (user.py:84-92, referral.py:290-327, 424-456).
Referring(p) == \E s \in Slots : Who(s) = p /\ update[s].kind = "ref" /\ update[s].pc \in {"clear", "chain", "link", "reward"}
InviteKept ==
    \A p \in invited :
        \/ p \in dropped \/ Referring(p)
        \/ /\ billing[p].referred
           /\ house.invitee => billing[p].user.discount \/ billing[p].subscription = "paid"

\* Who is told to be a beta tester is one at billing and at the panel, also when an
\* earlier enrolment stopped between the two (remnawave.py:171-197).
BetaToldIsBeta == \A p \in told : billing[p].squad /\ p \in panelSquad
=============================================================================
