------------------------------ MODULE Reminders ------------------------------
(***************************************************************************)
(* Two hours after a purchase or a trial the bot reminds a user who has    *)
(* connected no device.  The reminder is a member "user:url" of a sorted   *)
(* set in Redis (one user may have several, the url changes); a task the   *)
(* scheduler starts every five minutes takes the due members off it one by *)
(* one, and sends through NotificationService.notify_user.  Two markers    *)
(* keep it from repeating itself: notify_user's own, for 24 hours, and the *)
(* task's, for 90 days.                                                    *)
(*                                                                         *)
(* Runs of the task overlap when one outlasts five minutes.  One action is *)
(* one await with the code up to the next; reads that nothing is decided   *)
(* between are one action.  Behaviours are shorter than 90 days.           *)
(***************************************************************************)
EXTENDS Naturals, FiniteSets

CONSTANTS
    Users, Members, UserOf,   \* UserOf[m] is the user in front of the colon
    Sweeps,                   \* runs of the task that may overlap
    NoMember,
    MaxSweepFaults, MaxChanges  \* bounds: exceptions and crashes, and changes of the world

ASSUME MembersAssumption == UserOf \in [Members -> Users]
ASSUME NoMemberAssumption == NoMember \notin Members
ASSUME SweepFaultsAssumption == MaxSweepFaults \in Nat

VARIABLES
    waiting, ripe,      \* the sorted set, and its members whose score has passed
    sentKey, markKey,   \* users with the 90-day marker and with notify_user's
    connected, lapsed, unreachable,  \* users with a device, without an active subscription, who blocked the bot
    switchedOff,        \* the administrator has switched NOT_CONNECTED off
    sweep,              \* per run: where it is, the members it has still to take, the one in hand
    reminders,          \* history: reminders delivered
    scheduled,          \* history: members ever put on the set
    loose,              \* history: users for whom a second reminder is not ruled out
    failed,             \* history: members in hand when a run ended early
    sweepFaults

env == <<connected, lapsed, unreachable, switchedOff>>
reminderVars == <<waiting, ripe, sentKey, markKey, env, sweep, reminders, scheduled, loose, failed, sweepFaults>>

Resting == [pc |-> "idle", todo |-> {}, member |-> NoMember]

RemindersInit ==
    /\ waiting = {} /\ ripe = {} /\ sentKey = {} /\ markKey = {}
    /\ connected = {} /\ lapsed = {} /\ unreachable = {} /\ switchedOff = FALSE
    /\ sweep = [s \in Sweeps |-> Resting]
    /\ reminders = [u \in Users |-> 0]
    /\ scheduled = {} /\ loose = {} /\ failed = {} /\ sweepFaults = 0

----------------------------------------------------------------------------
\* zadd with nx: a member that waits keeps its time
Schedule(m) ==
    /\ m \notin waiting
    /\ waiting' = waiting \cup {m} /\ scheduled' = scheduled \cup {m}
    /\ UNCHANGED <<ripe, sentKey, markKey, env, sweep, reminders, loose, failed, sweepFaults>>

TwoHoursPass(m) ==
    /\ m \in waiting \ ripe
    /\ ripe' = ripe \cup {m}
    /\ UNCHANGED <<waiting, sentKey, markKey, env, sweep, reminders, scheduled, loose, failed, sweepFaults>>

\* the user connects, loses the subscription or blocks the bot; the type is switched off
Changes == Cardinality(connected) + Cardinality(lapsed) + Cardinality(unreachable) + IF switchedOff THEN 1 ELSE 0
World ==
    /\ Changes < MaxChanges
    /\ \/ \E u \in Users \ connected : connected' = connected \cup {u} /\ UNCHANGED <<lapsed, unreachable, switchedOff>>
       \/ \E u \in Users \ lapsed : lapsed' = lapsed \cup {u} /\ UNCHANGED <<connected, unreachable, switchedOff>>
       \/ \E u \in Users \ unreachable : unreachable' = unreachable \cup {u} /\ UNCHANGED <<connected, lapsed, switchedOff>>
       \/ ~switchedOff /\ switchedOff' = TRUE /\ UNCHANGED <<connected, lapsed, unreachable>>
    /\ UNCHANGED <<waiting, ripe, sentKey, markKey, sweep, reminders, scheduled, loose, failed, sweepFaults>>

InHand(s, u) == sweep[s].member # NoMember /\ UserOf[sweep[s].member] = u

\* The marker of notify_user ends after 24 hours; a run takes less.  Without the other
\* marker, a run was stopped between the two.
DayPasses(u) ==
    /\ u \in markKey /\ \A s \in Sweeps : ~InHand(s, u)
    /\ markKey' = markKey \ {u}
    /\ loose' = IF u \in sentKey THEN loose ELSE loose \cup {u}
    /\ UNCHANGED <<waiting, ripe, sentKey, env, sweep, reminders, scheduled, failed, sweepFaults>>

----------------------------------------------------------------------------
(***************************************************************************)
(* process_pending_not_connected_reminders_task.                           *)
(***************************************************************************)

AtPc(s, pc) == sweep[s].pc = pc
Hand(s) == UserOf[sweep[s].member]
Proceed(s, pc) == sweep' = [sweep EXCEPT ![s].pc = pc]
NextMember(s) ==
    sweep' = [sweep EXCEPT ![s] =
                  IF @.todo = {} THEN Resting ELSE [pc |-> "remove", todo |-> @.todo, member |-> NoMember]]

\* mutant: all that is due is taken off at once
ListAndClear(s) ==
    /\ AtPc(s, "idle") /\ ripe # {}
    /\ sweep' = [sweep EXCEPT ![s] = [pc |-> "remove", todo |-> ripe, member |-> NoMember]]
    /\ waiting' = waiting \ ripe /\ ripe' = {}
    /\ UNCHANGED <<sentKey, markKey, env, reminders, scheduled, loose, failed, sweepFaults>>

List(s) ==
    /\ AtPc(s, "idle") /\ ripe # {}
    /\ sweep' = [sweep EXCEPT ![s] = [pc |-> "remove", todo |-> ripe, member |-> NoMember]]
    /\ UNCHANGED <<waiting, ripe, sentKey, markKey, env, reminders, scheduled, loose, failed, sweepFaults>>

\* whether zrem found the member is not looked at
Take(s) ==
    /\ AtPc(s, "remove")
    /\ \E m \in sweep[s].todo :
          /\ waiting' = waiting \ {m} /\ ripe' = ripe \ {m}
          /\ sweep' = [sweep EXCEPT ![s] = [pc |-> "exists", todo |-> @.todo \ {m}, member |-> m]]
    /\ UNCHANGED <<sentKey, markKey, env, reminders, scheduled, loose, failed, sweepFaults>>

\* mutant: the 90-day marker is not looked at
CheckSentNot(s) ==
    /\ AtPc(s, "exists")
    /\ Proceed(s, "look")
    /\ UNCHANGED <<waiting, ripe, sentKey, markKey, env, reminders, scheduled, loose, failed, sweepFaults>>

CheckSent(s) ==
    /\ AtPc(s, "exists")
    /\ IF Hand(s) \in sentKey THEN NextMember(s) ELSE Proceed(s, "look")
    /\ UNCHANGED <<waiting, ripe, sentKey, markKey, env, reminders, scheduled, loose, failed, sweepFaults>>

\* user, current subscription, devices at the panel
LookAt(s) ==
    /\ AtPc(s, "look")
    /\ IF Hand(s) \in lapsed \cup connected THEN NextMember(s) ELSE Proceed(s, "notify")
    /\ UNCHANGED <<waiting, ripe, sentKey, markKey, env, reminders, scheduled, loose, failed, sweepFaults>>

\* notify_user: the type is enabled, and there is no marker of the last 24 hours
Sending(s) == sweep[s].pc \in {"send", "mark"}
Notify(s) ==
    /\ AtPc(s, "notify")
    /\ IF switchedOff \/ Hand(s) \in markKey
       THEN Proceed(s, "setex") /\ UNCHANGED loose
       ELSE /\ Proceed(s, "send")
            /\ loose' = IF \E t \in Sweeps \ {s} : Sending(t) /\ Hand(t) = Hand(s)
                        THEN loose \cup {Hand(s)} ELSE loose
    /\ UNCHANGED <<waiting, ripe, sentKey, markKey, env, reminders, scheduled, failed, sweepFaults>>

\* TelegramForbiddenError is answered with None
Deliver(s) ==
    /\ AtPc(s, "send")
    /\ IF Hand(s) \in unreachable
       THEN Proceed(s, "setex") /\ UNCHANGED reminders
       ELSE Proceed(s, "mark") /\ reminders' = [reminders EXCEPT ![Hand(s)] = @ + 1]
    /\ UNCHANGED <<waiting, ripe, sentKey, markKey, env, scheduled, loose, failed, sweepFaults>>

MarkSent(s) ==
    /\ AtPc(s, "mark")
    /\ markKey' = markKey \cup {Hand(s)}
    /\ Proceed(s, "setex")
    /\ UNCHANGED <<waiting, ripe, sentKey, env, reminders, scheduled, loose, failed, sweepFaults>>

\* whatever notify_user answered
Remember(s) ==
    /\ AtPc(s, "setex")
    /\ sentKey' = sentKey \cup {Hand(s)}
    /\ NextMember(s)
    /\ UNCHANGED <<waiting, ripe, markKey, env, reminders, scheduled, loose, failed, sweepFaults>>

\* An exception (Telegram, billing, the panel) or a crash ends the run, and nothing
\* retries it; what it has not yet taken stays on the set.
SweepFault(s) ==
    /\ ~AtPc(s, "idle") /\ sweepFaults < MaxSweepFaults
    /\ sweepFaults' = sweepFaults + 1
    /\ sweep' = [sweep EXCEPT ![s] = Resting]
    /\ failed' = IF sweep[s].member = NoMember THEN failed ELSE failed \cup {sweep[s].member}
    /\ loose' = IF AtPc(s, "mark") THEN loose \cup {Hand(s)} ELSE loose
    /\ UNCHANGED <<waiting, ripe, sentKey, markKey, env, reminders, scheduled>>

SweepStep(s) ==
    \/ Take(s) \/ CheckSent(s) \/ LookAt(s) \/ Notify(s) \/ Deliver(s) \/ MarkSent(s) \/ Remember(s)

RemindersNext ==
    \/ \E m \in Members : Schedule(m) \/ TwoHoursPass(m)
    \/ World
    \/ \E u \in Users : DayPasses(u)
    \/ \E s \in Sweeps : List(s) \/ SweepStep(s) \/ SweepFault(s)

RemindersSpec == RemindersInit /\ [][RemindersNext]_reminderVars

----------------------------------------------------------------------------
SweepPcs == {"idle", "remove", "exists", "look", "notify", "send", "mark", "setex"}
RemindersTypeOK ==
    /\ ripe \subseteq waiting /\ waiting \subseteq scheduled /\ scheduled \subseteq Members
    /\ failed \subseteq Members
    /\ UNION {sentKey, markKey, connected, lapsed, unreachable, loose} \subseteq Users
    /\ switchedOff \in BOOLEAN /\ sweepFaults \in Nat /\ reminders \in [Users -> Nat]
    /\ sweep \in [Sweeps -> [pc : SweepPcs, todo : SUBSET scheduled, member : scheduled \cup {NoMember}]]
    /\ \A s \in Sweeps : sweep[s].member = NoMember <=> sweep[s].pc \in {"idle", "remove"}

\* A user is reminded once, however many members, runs and days there are - unless two
\* runs were past notify_user's check at once, or a run was stopped between sending and
\* the marker, or between the two markers for longer than a day (notifications.py:197-245,
\* notification.py:82-95).
RemindedOnce == \A u \in Users \ loose : reminders[u] <= 1

\* No reminder is lost without a reason: a member that was ever scheduled waits, or a run
\* has it in hand, or its user was reminded, connected, lost the subscription, blocked the
\* bot, the type was switched off, or a run failed with it in hand
\* (notifications.py:187-189).
Excused(u) == reminders[u] > 0 \/ u \in connected \cup lapsed \cup unreachable \/ switchedOff
RemindersKept ==
    \A m \in scheduled :
        m \in waiting \cup failed \/ Excused(UserOf[m]) \/ \E s \in Sweeps : sweep[s].member = m
=============================================================================
