---------------------------- MODULE CancelSurvey ----------------------------
(***************************************************************************)
(* Why was it not paid?  Every payment the checkout creates is put on a    *)
(* sorted set of Redis; a task the scheduler starts every five minutes     *)
(* takes the members that are due off it, reminds the user once of a       *)
(* payment still PENDING, asks for a reason once it is CANCELED, and gives *)
(* up after two days.  The bot records the answer: a button, or, for       *)
(* Other, the text the user sends next.                                    *)
(*                                                                         *)
(* A run of the task and a handler of the bot are sequences of awaits, and *)
(* several of each may be under way: workers are several processes, a run  *)
(* may outlast five minutes, and every update is handled in a task of its  *)
(* own.  One action is one await with the code up to the next.             *)
(*                                                                         *)
(* Time is a clock whose unit is not fixed: only the order of the delays   *)
(* matters.  The markers that live 90 days (survey sent, answer) outlive   *)
(* the clock; the reminder's marker and the awaited text expire.           *)
(***************************************************************************)
EXTENDS Naturals

CONSTANTS
    Payments, Users, UserOf,  \* UserOf[p] is the user a payment was created for
    Runs,                     \* runs of the scheduled task that may overlap
    Handlers,                 \* updates of the bot that may be handled at once
    Reasons, Other,           \* the buttons of the survey; Other asks for a text
    Nothing,
    PingDelay, MaxAge,        \* _PING_DELAY_SECONDS, _MAX_PENDING_AGE
    PingTtl, TextTtl,         \* _PENDING_PING_TTL, _AWAITING_TEXT_TTL
    RunTime,                  \* longest a run takes
    LastCreation, MaxNow,     \* bounds: last time a payment is created, end of the clock
    MaxFaults                 \* bound: exceptions and crashes

ASSUME UsersAssumption == UserOf \in [Payments -> Users]
ASSUME ReasonsAssumption == Other \in Reasons
ASSUME NothingAssumption == Nothing \notin Payments \cup Reasons
ASSUME TimesAssumption ==
    /\ {PingDelay, MaxAge, PingTtl, TextTtl, RunTime, LastCreation, MaxNow} \subseteq Nat
    /\ MaxFaults \in Nat
    /\ LastCreation + MaxAge <= MaxNow
    /\ MaxAge + RunTime <= PingDelay + PingTtl

VARIABLES
    now,
    status,     \* of the transaction at billing; NONE before it is created
    created,    \* when the payment was created (part of the queue member)
    active,     \* users whose current subscription is ACTIVE and no trial
    reachable,  \* users that exist and have not blocked the bot
    queued, dueAt,      \* the sorted set: its members and their scores
    pingUntil,  \* end of the reminder's marker, 0 without one
    sent,       \* payments with a "survey sent" marker
    answer, texts,      \* the answer hash: its reason, and whether it has a text
    awaiting,   \* per user, the payment the next text is about, and until when
    keyboard,   \* surveys whose buttons the user still sees
    run, handler,
    pings, surveys,     \* history: messages delivered per payment
    excused,    \* history: payments a run dropped, failed on or could not deliver
    prompted,   \* history: surveys whose Other button was answered with a prompt
    writes, contended,  \* history: answers written, and two handlers past the check at once
    faults

billing == <<status, created, active, reachable>>
queue == <<queued, dueAt>>
markers == <<pingUntil, sent>>
survey == <<answer, texts, awaiting, keyboard, prompted, writes, contended>>
messages == <<pings, surveys, excused>>
vars == <<now, billing, queue, markers, survey, run, handler, messages, faults>>

Statuses == {"NONE", "PENDING", "COMPLETED", "CANCELED"}
IdleRun == [pc |-> "idle", todo |-> {}, payment |-> Nothing, at |-> 0]
IdleHandler == [pc |-> "idle", payment |-> Nothing, reason |-> Nothing]
NoText == [payment |-> Nothing, until |-> 0]

Init ==
    /\ now = 0
    /\ status = [p \in Payments |-> "NONE"]
    /\ created = [p \in Payments |-> 0]
    /\ active \in SUBSET Users
    /\ reachable \in SUBSET Users
    /\ queued = {} /\ dueAt = [p \in Payments |-> 0]
    /\ pingUntil = [p \in Payments |-> 0] /\ sent = {}
    /\ answer = [p \in Payments |-> Nothing] /\ texts = {}
    /\ awaiting = [u \in Users |-> NoText]
    /\ keyboard = {} /\ prompted = {}
    /\ run = [r \in Runs |-> IdleRun]
    /\ handler = [h \in Handlers |-> IdleHandler]
    /\ pings = [p \in Payments |-> 0] /\ surveys = [p \in Payments |-> 0]
    /\ writes = [p \in Payments |-> 0]
    /\ excused = {} /\ contended = {} /\ faults = 0

----------------------------------------------------------------------------
(***************************************************************************)
(* Time, billing and the checkout.                                         *)
(***************************************************************************)

Tick ==
    /\ now < MaxNow
    /\ \A r \in Runs : run[r].pc # "idle" => now < run[r].at + RunTime
    /\ now' = now + 1
    /\ UNCHANGED <<billing, queue, markers, survey, run, handler, messages, faults>>

\* zadd with nx: a member already there keeps its score
ZAdd(p, score) ==
    /\ queued' = queued \cup {p}
    /\ dueAt' = IF p \in queued THEN dueAt ELSE [dueAt EXCEPT ![p] = score]

Schedule(p) ==
    /\ status[p] = "NONE" /\ now <= LastCreation
    /\ status' = [status EXCEPT ![p] = "PENDING"]
    /\ created' = [created EXCEPT ![p] = now]
    /\ ZAdd(p, now + PingDelay)
    /\ UNCHANGED <<now, active, reachable, markers, survey, run, handler, messages, faults>>

Settle(p, s) ==
    /\ status[p] = "PENDING"
    /\ status' = [status EXCEPT ![p] = s]
    /\ active' = IF s = "COMPLETED" THEN active \cup {UserOf[p]} ELSE active
    /\ UNCHANGED <<now, created, reachable, queue, markers, survey, run, handler, messages, faults>>

Lapse(u) ==
    /\ u \in active
    /\ active' = active \ {u}
    /\ UNCHANGED <<now, status, created, reachable, queue, markers, survey, run, handler, messages, faults>>

----------------------------------------------------------------------------
(***************************************************************************)
(* A run of process_pending_cancel_survey_checks_task.                     *)
(***************************************************************************)

RunAt(r, pc) == run[r].pc = pc
RunGoto(r, pc) == run' = [run EXCEPT ![r].pc = pc]

\* the next member of the list read at the start, or the end of the run
RunNext(r) ==
    run' = [run EXCEPT ![r] = IF @.todo = {} THEN IdleRun
                              ELSE [@ EXCEPT !.pc = "remove", !.payment = Nothing]]

Due == {p \in queued : dueAt[p] <= now}

Start(r) ==
    /\ RunAt(r, "idle") /\ Due # {}
    /\ run' = [run EXCEPT ![r] = [pc |-> "remove", todo |-> Due, payment |-> Nothing, at |-> now]]
    /\ UNCHANGED <<now, billing, queue, markers, survey, handler, messages, faults>>

Remove(r, p) ==
    /\ RunAt(r, "remove") /\ p \in run[r].todo
    /\ queued' = queued \ {p}
    /\ run' = [run EXCEPT ![r].pc = "read", ![r].payment = p, ![r].todo = @ \ {p}]
    /\ UNCHANGED <<now, billing, dueAt, markers, survey, handler, messages, faults>>

TooOldForScore(r, p) == run[r].at - dueAt[p] > run[r].at
TooOld(r, p) == run[r].at - created[p] >= MaxAge

Pending(r, p) ==
    /\ status[p] = "PENDING" /\ ~TooOld(r, p)
    /\ RunGoto(r, "ping")
    /\ UNCHANGED excused

CanceledReturns(r, p) ==
    /\ status[p] = "CANCELED"
    /\ RunNext(r)
    /\ UNCHANGED excused

Canceled(r, p) ==
    /\ status[p] = "CANCELED"
    /\ RunGoto(r, "paid")
    /\ UNCHANGED excused

Dropped(r, p) ==
    /\ status[p] = "COMPLETED" \/ (status[p] = "PENDING" /\ TooOld(r, p))
    /\ excused' = excused \cup {p}
    /\ RunNext(r)

ReadStatus(r) ==
    /\ RunAt(r, "read")
    /\ LET p == run[r].payment IN Pending(r, p) \/ Canceled(r, p) \/ Dropped(r, p)
    /\ UNCHANGED <<now, billing, queue, markers, survey, handler, pings, surveys, faults>>

\* set nx ex: is the marker there, or has it expired?
UnpingedAnyway(p) == p \in Payments
Unpinged(p) == pingUntil[p] <= now

MarkPingThenReturn(r) ==
    /\ RunAt(r, "ping")
    /\ LET p == run[r].payment IN
       IF Unpinged(p)
       THEN /\ pingUntil' = [pingUntil EXCEPT ![p] = now + PingTtl]
            /\ RunGoto(r, "remind")
       ELSE RunNext(r) /\ UNCHANGED pingUntil
    /\ UNCHANGED <<now, billing, queue, sent, survey, handler, messages, faults>>

MarkPing(r) ==
    /\ RunAt(r, "ping")
    /\ LET p == run[r].payment IN
       IF Unpinged(p)
       THEN /\ pingUntil' = [pingUntil EXCEPT ![p] = now + PingTtl]
            /\ RunGoto(r, "remind")
       ELSE RunGoto(r, "requeue") /\ UNCHANGED pingUntil
    /\ UNCHANGED <<now, billing, queue, sent, survey, handler, messages, faults>>

Remind(r) ==
    /\ RunAt(r, "remind")
    /\ LET p == run[r].payment IN
       pings' = IF UserOf[p] \in reachable THEN [pings EXCEPT ![p] = @ + 1] ELSE pings
    /\ RunGoto(r, "requeue")
    /\ UNCHANGED <<now, billing, queue, markers, survey, handler, surveys, excused, faults>>

Requeue(r) ==
    /\ RunAt(r, "requeue")
    /\ ZAdd(run[r].payment, created[run[r].payment])
    /\ RunNext(r)
    /\ UNCHANGED <<now, billing, markers, survey, handler, messages, faults>>

PaidSince(p) == UserOf[p] \in active

CheckPaid(r) ==
    /\ RunAt(r, "paid")
    /\ LET p == run[r].payment IN
       IF PaidSince(p) THEN excused' = excused \cup {p} /\ RunNext(r)
                       ELSE RunGoto(r, "mark") /\ UNCHANGED excused
    /\ UNCHANGED <<now, billing, queue, markers, survey, handler, pings, surveys, faults>>

MarkSentAnyway(r) ==
    /\ RunAt(r, "mark")
    /\ RunGoto(r, "send")
    /\ sent' = sent \cup {run[r].payment}
    /\ UNCHANGED <<now, billing, queue, pingUntil, survey, handler, messages, faults>>

MarkSent(r) ==
    /\ RunAt(r, "mark")
    /\ LET p == run[r].payment IN
       IF p \in sent THEN RunNext(r) ELSE RunGoto(r, "send")
    /\ sent' = sent \cup {run[r].payment}
    /\ UNCHANGED <<now, billing, queue, pingUntil, survey, handler, messages, faults>>

Send(r) ==
    /\ RunAt(r, "send")
    /\ LET p == run[r].payment IN
       IF UserOf[p] \in reachable
       THEN /\ surveys' = [surveys EXCEPT ![p] = @ + 1]
            /\ keyboard' = keyboard \cup {p}
            /\ UNCHANGED excused
       ELSE excused' = excused \cup {p} /\ UNCHANGED <<surveys, keyboard>>
    /\ RunNext(r)
    /\ UNCHANGED <<now, billing, queue, markers, answer, texts, awaiting, prompted, writes,
                   contended, handler, pings, faults>>

\* an exception ends the run (retry_on_error=False), a crash does too: the
\* member in hand is off the queue, the members not yet taken are still on it
RunFault(r) ==
    /\ ~RunAt(r, "idle") /\ faults < MaxFaults
    /\ faults' = faults + 1
    /\ excused' = IF RunAt(r, "remove") THEN excused ELSE excused \cup {run[r].payment}
    /\ run' = [run EXCEPT ![r] = IdleRun]
    /\ UNCHANGED <<now, billing, queue, markers, survey, handler, pings, surveys>>

----------------------------------------------------------------------------
(***************************************************************************)
(* on_cancel_survey_answer and on_cancel_survey_other_text.                *)
(***************************************************************************)

HandlerAt(h, pc) == handler[h].pc = pc
HandlerGoto(h, pc) == handler' = [handler EXCEPT ![h].pc = pc]
HandlerEndUncleared(h) == handler' = [handler EXCEPT ![h].pc = "idle"]
HandlerEnd(h) == handler' = [handler EXCEPT ![h] = IdleHandler]

\* the await `exists`: does the payment have an answer?
Answered(p) == answer[p] # Nothing

PastCheck(h, p) == handler[h].payment = p /\ handler[h].pc \in {"record", "write"}

\* history: another handler is between its check of the same payment and its write
Contend(p) ==
    contended' = IF \E h \in Handlers : PastCheck(h, p) THEN contended \cup {p} ELSE contended

Click(h, p, reason) ==
    /\ HandlerAt(h, "idle") /\ p \in keyboard
    /\ ~Answered(p)
    /\ handler' = [handler EXCEPT ![h] = [pc |-> IF reason = Other THEN "prompt" ELSE "record",
                                          payment |-> p, reason |-> reason]]
    /\ IF reason = Other THEN UNCHANGED contended ELSE Contend(p)
    /\ UNCHANGED <<now, billing, queue, markers, answer, texts, awaiting, keyboard, prompted, writes,
                   run, messages, faults>>

Prompt(h) ==
    /\ HandlerAt(h, "prompt")
    /\ LET p == handler[h].payment IN
       /\ awaiting' = [awaiting EXCEPT ![UserOf[p]] = [payment |-> p, until |-> now + TextTtl]]
       /\ prompted' = prompted \cup {p}
    /\ HandlerGoto(h, "edit")
    /\ UNCHANGED <<now, billing, queue, markers, answer, texts, keyboard, writes, contended, run, messages, faults>>

\* hset writes the fields it names and keeps the others
Write(p, reason, withText) ==
    /\ answer' = [answer EXCEPT ![p] = reason]
    /\ texts' = IF withText THEN texts \cup {p} ELSE texts
    /\ writes' = [writes EXCEPT ![p] = @ + 1]

Record(h) ==
    /\ HandlerAt(h, "record")
    /\ Write(handler[h].payment, handler[h].reason, FALSE)
    /\ HandlerGoto(h, "edit")
    /\ UNCHANGED <<now, billing, queue, markers, awaiting, keyboard, prompted, contended, run, messages, faults>>

EditMessage(h) ==
    /\ HandlerAt(h, "edit")
    /\ keyboard' = keyboard \ {handler[h].payment}
    /\ HandlerEnd(h)
    /\ UNCHANGED <<now, billing, queue, markers, answer, texts, awaiting, prompted, writes, contended,
                   run, messages, faults>>

\* the filter AwaitingCancelSurveyText reads the payment the text is about
Text(h, u) ==
    /\ HandlerAt(h, "idle")
    /\ awaiting[u].payment # Nothing /\ now < awaiting[u].until
    /\ handler' = [handler EXCEPT ![h] = [pc |-> "text", payment |-> awaiting[u].payment, reason |-> Other]]
    /\ UNCHANGED <<now, billing, queue, markers, survey, run, messages, faults>>

CheckTextNot(h) ==
    /\ HandlerAt(h, "text")
    /\ HandlerGoto(h, "write")
    /\ Contend(handler[h].payment)
    /\ UNCHANGED <<now, billing, queue, markers, answer, texts, awaiting, keyboard, prompted, writes,
                   run, messages, faults>>

CheckText(h) ==
    /\ HandlerAt(h, "text")
    /\ LET p == handler[h].payment IN
       IF Answered(p) THEN HandlerGoto(h, "forget") /\ UNCHANGED contended
                      ELSE HandlerGoto(h, "write") /\ Contend(p)
    /\ UNCHANGED <<now, billing, queue, markers, answer, texts, awaiting, keyboard, prompted, writes,
                   run, messages, faults>>

WriteText(h) ==
    /\ HandlerAt(h, "write")
    /\ Write(handler[h].payment, Other, TRUE)
    /\ HandlerGoto(h, "forget")
    /\ UNCHANGED <<now, billing, queue, markers, awaiting, keyboard, prompted, contended, run, messages, faults>>

\* the key is the user's: it may by now be about another payment
Forget(h) ==
    /\ HandlerAt(h, "forget")
    /\ awaiting' = [awaiting EXCEPT ![UserOf[handler[h].payment]] = NoText]
    /\ HandlerEnd(h)
    /\ UNCHANGED <<now, billing, queue, markers, answer, texts, keyboard, prompted, writes, contended,
                   run, messages, faults>>

\* a call that raises, a bot that is restarted, a text that is empty
HandlerFault(h) ==
    /\ ~HandlerAt(h, "idle") /\ faults < MaxFaults
    /\ faults' = faults + 1
    /\ HandlerEnd(h)
    /\ UNCHANGED <<now, billing, queue, markers, survey, run, messages>>

----------------------------------------------------------------------------
RunStep(r) ==
    \/ \E p \in Payments : Remove(r, p)
    \/ ReadStatus(r) \/ MarkPing(r) \/ Remind(r) \/ Requeue(r)
    \/ CheckPaid(r) \/ MarkSent(r) \/ Send(r)

HandlerStep(h) ==
    \/ Prompt(h) \/ Record(h) \/ EditMessage(h)
    \/ CheckText(h) \/ WriteText(h) \/ Forget(h)

World ==
    \/ Tick
    \/ \E p \in Payments : Schedule(p) \/ \E s \in {"COMPLETED", "CANCELED"} : Settle(p, s)
    \/ \E u \in Users : Lapse(u)

Next ==
    \/ World
    \/ \E r \in Runs : Start(r) \/ RunStep(r) \/ RunFault(r)
    \/ \E h \in Handlers :
          \/ \E p \in Payments, reason \in Reasons : Click(h, p, reason)
          \/ \E u \in Users : Text(h, u)
          \/ HandlerStep(h) \/ HandlerFault(h)

Spec == Init /\ [][Next]_vars

(***************************************************************************)
(* The scheduler starts the task again and again, a worker goes on with a  *)
(* run, the bot with a handler, and time passes.  Nobody has to settle a   *)
(* payment, press a button or send a text.                                 *)
(***************************************************************************)
FairSpec ==
    /\ Spec
    /\ WF_vars(Tick)
    /\ \A r \in Runs : WF_vars(Start(r) \/ RunStep(r))
    /\ \A h \in Handlers : WF_vars(HandlerStep(h))

----------------------------------------------------------------------------
(***************************************************************************)
(* Properties.                                                             *)
(***************************************************************************)

RunPcs == {"idle", "remove", "read", "ping", "remind", "requeue", "paid", "mark", "send"}
HandlerPcs == {"idle", "prompt", "record", "edit", "text", "write", "forget"}
RunRecords == [pc : RunPcs, todo : SUBSET Payments, payment : Payments \cup {Nothing}, at : Nat]
HandlerRecords == [pc : HandlerPcs, payment : Payments \cup {Nothing}, reason : Reasons \cup {Nothing}]
TextRecords == [payment : Payments \cup {Nothing}, until : Nat]

InHand(r, p) == run[r].payment = p

\* Every variable has its type; a run past the removal and a handler hold a payment.
TypeOK ==
    /\ {now, faults} \subseteq Nat
    /\ status \in [Payments -> Statuses] /\ created \in [Payments -> Nat]
    /\ active \subseteq Users /\ reachable \subseteq Users
    /\ queued \subseteq Payments /\ dueAt \in [Payments -> Nat]
    /\ pingUntil \in [Payments -> Nat] /\ sent \subseteq Payments
    /\ answer \in [Payments -> Reasons \cup {Nothing}] /\ texts \subseteq Payments
    /\ awaiting \in [Users -> TextRecords]
    /\ keyboard \subseteq Payments /\ prompted \subseteq Payments
    /\ excused \subseteq Payments /\ contended \subseteq Payments
    /\ pings \in [Payments -> Nat] /\ surveys \in [Payments -> Nat] /\ writes \in [Payments -> Nat]
    /\ run \in [Runs -> RunRecords]
    /\ \A r \in Runs : (run[r].payment = Nothing) <=> (run[r].pc \in {"idle", "remove"})
    /\ handler \in [Handlers -> HandlerRecords]
    /\ \A h \in Handlers : (handler[h].payment = Nothing) <=> (handler[h].pc = "idle")

\* However many runs hold the same member, the survey of a payment is delivered once
\* (cancel_survey.py:140-143; CancelSurveySentKey "guards the cancel-reason survey
\* sweep against sending a second prompt for the same transaction").
SurveyedOnce == \A p \in Payments : surveys[p] <= 1

\* The reminder of an unpaid payment is delivered once, although the member goes back
\* on the queue every five minutes and the marker expires: the two days after which the
\* check is given up end before the marker does (cancel_survey.py:59-72).
PingedOnce == \A p \in Payments : pings[p] <= 1

\* No check is lost: a payment that was neither paid nor surveyed is on the queue or in
\* the hands of a run, unless a run failed with it in hand, gave it up for its age, saw
\* the user subscribed, or could not reach the user (cancel_survey.py:183-186, 82).
NothingForgotten ==
    \A p \in Payments :
        status[p] \in {"PENDING", "CANCELED"} =>
            \/ p \in queued \/ surveys[p] > 0 \/ p \in excused
            \/ \E r \in Runs : InHand(r, p)

\* An answer is written once and has a text exactly when it is Other, unless two handlers
\* were between the check for an answer and the write at the same time
\* (extra/cancel_survey.py:141-171, 214-233).
AnswersAgree ==
    \A p \in Payments \ contended :
        /\ writes[p] <= 1
        /\ p \in texts <=> answer[p] = Other

\* A canceled payment is asked about in the end, or a run had a reason not to.
CanceledIsSurveyed ==
    \A p \in Payments : status[p] = "CANCELED" ~> surveys[p] > 0 \/ p \in excused

\* Checks do not go round for ever: in the end the queue is empty (cancel_survey.py:59-64).
ChecksEnd == <>[](queued = {})
=============================================================================
