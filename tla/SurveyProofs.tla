---------------------------- MODULE SurveyProofs ----------------------------
(***************************************************************************)
(* Proofs about CancelSurvey for any number of payments, users, runs of    *)
(* the task and handlers of the bot, and for any delays.                   *)
(*                                                                         *)
(* SurveyedOnce and NothingForgotten lean on each other through the marker *)
(* of a sent survey: SendsOnce says that the marker admits one run to the  *)
(* delivery, SentIsSeen that a marked survey is delivered, about to be, or *)
(* excused, so that a run that finds the marker may drop its member.       *)
(* PingedOnce is a matter of ages: how long ago a run looked at its member *)
(* and what was left of the marker then.                                   *)
(***************************************************************************)
EXTENDS CancelSurvey, TLAPS

AtSend(r, p) == run[r].pc = "send" /\ run[r].payment = p

SendsOnce ==
    \A p \in Payments :
        /\ surveys[p] <= 1
        /\ p \notin sent => surveys[p] = 0
        /\ \A r \in Runs :
              AtSend(r, p) =>
                  /\ p \in sent /\ surveys[p] = 0
                  /\ \A s \in Runs : AtSend(s, p) => s = r

SentIsSeen ==
    \A p \in sent : surveys[p] > 0 \/ p \in excused \/ \E r \in Runs : AtSend(r, p)

SurveyInv == TypeOK /\ SendsOnce /\ SentIsSeen /\ NothingForgotten

USE DEF billing, queue, markers, survey, messages

----------------------------------------------------------------------------
(***************************************************************************)
(* Types.                                                                  *)
(***************************************************************************)

\* The constants that are times are numbers, and no payment or reason is Nothing.
LEMMA Constants ==
    /\ {PingDelay, MaxAge, PingTtl, TextTtl, RunTime, LastCreation, MaxNow, MaxFaults} \subseteq Nat
    /\ UserOf \in [Payments -> Users]
    /\ Other \in Reasons
    /\ Nothing \notin Payments /\ Nothing \notin Reasons
BY UsersAssumption, ReasonsAssumption, NothingAssumption, TimesAssumption

\* The initial state has the types.
LEMMA TypeInit == Init => TypeOK
BY Constants DEF Init, TypeOK, Statuses, IdleRun, IdleHandler, NoText, RunPcs, HandlerPcs,
                 RunRecords, HandlerRecords, TextRecords

\* Whatever a run does next, its record keeps its type.
LEMMA RunNextType ==
    ASSUME TypeOK, NEW r \in Runs, RunNext(r)
    PROVE  /\ run' \in [Runs -> RunRecords]
           /\ \A s \in Runs : (run'[s].payment = Nothing) <=> (run'[s].pc \in {"idle", "remove"})
<1>1. run[r] \in RunRecords
    BY DEF TypeOK
<1>2. IdleRun \in RunRecords /\ IdleRun.pc = "idle" /\ IdleRun.payment = Nothing
    BY DEF IdleRun, RunRecords, RunPcs
<1> DEFINE next == [run[r] EXCEPT !.pc = "remove", !.payment = Nothing]
<1>3. next \in RunRecords /\ next.pc = "remove" /\ next.payment = Nothing
    BY <1>1 DEF RunRecords, RunPcs
<1>4. \/ run' = [run EXCEPT ![r] = IdleRun]
      \/ run' = [run EXCEPT ![r] = next]
    BY DEF RunNext
<1>5. CASE run' = [run EXCEPT ![r] = IdleRun]
    BY <1>2, <1>5 DEF TypeOK
<1> HIDE DEF next
<1>6. CASE run' = [run EXCEPT ![r] = next]
    BY <1>3, <1>6 DEF TypeOK
<1>7. QED
    BY <1>4, <1>5, <1>6

\* The same for a run that moves on with the payment in hand.
LEMMA RunGotoType ==
    ASSUME TypeOK, NEW r \in Runs, run[r].pc \notin {"idle", "remove"},
           NEW pc \in RunPcs \ {"idle", "remove"}, RunGoto(r, pc)
    PROVE  /\ run' \in [Runs -> RunRecords]
           /\ \A s \in Runs : (run'[s].payment = Nothing) <=> (run'[s].pc \in {"idle", "remove"})
BY Constants DEF TypeOK, RunGoto, RunRecords, RunPcs

\* A run past the removal has a payment in hand.
LEMMA HoldsPayment ==
    ASSUME TypeOK, NEW r \in Runs, run[r].pc \notin {"idle", "remove"}
    PROVE  run[r].payment \in Payments
BY DEF TypeOK, RunRecords

\* A handler that is not idle has one, too.
LEMMA HandlerHolds ==
    ASSUME TypeOK, NEW h \in Handlers, handler[h].pc # "idle"
    PROVE  handler[h].payment \in Payments
BY DEF TypeOK, HandlerRecords

\* A handler that moves on with its payment keeps the type of its record.
LEMMA HandlerGotoType ==
    ASSUME TypeOK, NEW h \in Handlers, handler[h].pc # "idle",
           NEW pc \in HandlerPcs \ {"idle"}, HandlerGoto(h, pc)
    PROVE  /\ handler' \in [Handlers -> HandlerRecords]
           /\ \A g \in Handlers : (handler'[g].payment = Nothing) <=> (handler'[g].pc = "idle")
BY Constants DEF TypeOK, HandlerGoto, HandlerRecords, HandlerPcs

\* The end of a handler keeps the type of its record.
LEMMA HandlerEndType ==
    ASSUME TypeOK, NEW h \in Handlers, HandlerEnd(h)
    PROVE  /\ handler' \in [Handlers -> HandlerRecords]
           /\ \A g \in Handlers : (handler'[g].payment = Nothing) <=> (handler'[g].pc = "idle")
<1>1. IdleHandler \in HandlerRecords /\ IdleHandler.pc = "idle" /\ IdleHandler.payment = Nothing
    BY DEF IdleHandler, HandlerRecords, HandlerPcs
<1>2. QED
    BY <1>1 DEF HandlerEnd, TypeOK

\* The steps of time, of billing and of the checkout keep the types.
LEMMA TypeWorld == TypeOK /\ World => TypeOK'
<1> SUFFICES ASSUME TypeOK, World PROVE TypeOK'
    OBVIOUS
<1>1. CASE Tick
    BY <1>1, Constants DEF Tick, TypeOK
<1>2. ASSUME NEW p \in Payments, Schedule(p) PROVE TypeOK'
    BY <1>2, Constants DEF Schedule, ZAdd, TypeOK, Statuses
<1>3. ASSUME NEW p \in Payments, NEW s \in {"COMPLETED", "CANCELED"}, Settle(p, s) PROVE TypeOK'
    BY <1>3, Constants DEF Settle, TypeOK, Statuses
<1>4. ASSUME NEW u \in Users, Lapse(u) PROVE TypeOK'
    BY <1>4, Constants DEF Lapse, TypeOK
<1>5. QED
    BY <1>1, <1>2, <1>3, <1>4 DEF World

\* The steps of a run keep them.
LEMMA TypeRun ==
    ASSUME TypeOK, NEW r \in Runs, Start(r) \/ RunStep(r) \/ RunFault(r)
    PROVE  TypeOK'
<1>1. CASE Start(r)
    BY <1>1, Constants DEF Start, Due, RunAt, TypeOK, RunRecords, RunPcs
<1>2. ASSUME NEW p \in Payments, Remove(r, p) PROVE TypeOK'
    BY <1>2, Constants DEF Remove, RunAt, TypeOK, RunRecords, RunPcs
<1>3. CASE ReadStatus(r)
    <2> DEFINE p == run[r].payment
    <2>0. run[r].pc = "read" /\ p \in Payments
        BY <1>3, HoldsPayment DEF ReadStatus, RunAt
    <2>1. CASE Dropped(r, p)
        BY <2>0, <2>1, <1>3, RunNextType DEF ReadStatus, Dropped, TypeOK
    <2>2. CASE Pending(r, p)
        <3>1. "ping" \in RunPcs \ {"idle", "remove"}
            BY DEF RunPcs
        <3>2. QED
            BY <2>0, <2>2, <1>3, <3>1, RunGotoType DEF ReadStatus, Pending, TypeOK
    <2>3. CASE Canceled(r, p)
        <3>1. "paid" \in RunPcs \ {"idle", "remove"}
            BY DEF RunPcs
        <3>2. QED
            BY <2>0, <2>3, <1>3, <3>1, RunGotoType DEF ReadStatus, Canceled, TypeOK
    <2>4. QED
        BY <1>3, <2>1, <2>2, <2>3 DEF ReadStatus
<1>4. CASE MarkPing(r)
    <2>0. run[r].pc = "ping" /\ run[r].payment \in Payments
        BY <1>4, HoldsPayment DEF MarkPing, RunAt
    <2>1. {"remind", "requeue"} \subseteq RunPcs \ {"idle", "remove"}
        BY DEF RunPcs
    <2>2. RunGoto(r, "remind") \/ RunGoto(r, "requeue")
        BY <1>4 DEF MarkPing
    <2>3. /\ run' \in [Runs -> RunRecords]
          /\ \A s \in Runs : (run'[s].payment = Nothing) <=> (run'[s].pc \in {"idle", "remove"})
        BY <2>0, <2>1, <2>2, RunGotoType
    <2>4. pingUntil' \in [Payments -> Nat]
        BY <1>4, <2>0, Constants DEF MarkPing, TypeOK
    <2>5. QED
        BY <1>4, <2>3, <2>4 DEF MarkPing, TypeOK
<1>5. CASE Remind(r)
    <2>0. run[r].pc = "remind" /\ run[r].payment \in Payments
        BY <1>5, HoldsPayment DEF Remind, RunAt
    <2>1. "requeue" \in RunPcs \ {"idle", "remove"}
        BY DEF RunPcs
    <2>2. /\ run' \in [Runs -> RunRecords]
          /\ \A s \in Runs : (run'[s].payment = Nothing) <=> (run'[s].pc \in {"idle", "remove"})
        BY <1>5, <2>0, <2>1, RunGotoType DEF Remind
    <2>3. pings' \in [Payments -> Nat]
        BY <1>5, <2>0 DEF Remind, TypeOK
    <2>4. QED
        BY <1>5, <2>2, <2>3 DEF Remind, TypeOK
<1>6. CASE Requeue(r)
    <2>0. run[r].pc = "requeue" /\ run[r].payment \in Payments
        BY <1>6, HoldsPayment DEF Requeue, RunAt
    <2>1. queued' \subseteq Payments /\ dueAt' \in [Payments -> Nat]
        BY <1>6, <2>0 DEF Requeue, ZAdd, TypeOK
    <2>2. QED
        BY <1>6, <2>1, RunNextType DEF Requeue, TypeOK
<1>7. CASE CheckPaid(r)
    <2>0. run[r].pc = "paid" /\ run[r].payment \in Payments
        BY <1>7, HoldsPayment DEF CheckPaid, RunAt
    <2>1. "mark" \in RunPcs \ {"idle", "remove"}
        BY DEF RunPcs
    <2>2. CASE PaidSince(run[r].payment)
        BY <1>7, <2>0, <2>2, RunNextType DEF CheckPaid, TypeOK
    <2>3. CASE ~PaidSince(run[r].payment)
        BY <1>7, <2>0, <2>1, <2>3, RunGotoType DEF CheckPaid, TypeOK
    <2>4. QED
        BY <2>2, <2>3
<1>8. CASE MarkSent(r)
    <2>0. run[r].pc = "mark" /\ run[r].payment \in Payments
        BY <1>8, HoldsPayment DEF MarkSent, RunAt
    <2>1. "send" \in RunPcs \ {"idle", "remove"}
        BY DEF RunPcs
    <2>2. CASE run[r].payment \in sent
        BY <1>8, <2>0, <2>2, RunNextType DEF MarkSent, TypeOK
    <2>3. CASE run[r].payment \notin sent
        BY <1>8, <2>0, <2>1, <2>3, RunGotoType DEF MarkSent, TypeOK
    <2>4. QED
        BY <2>2, <2>3
<1>9. CASE Send(r)
    <2>0. run[r].pc = "send" /\ run[r].payment \in Payments
        BY <1>9, HoldsPayment DEF Send, RunAt
    <2>1. surveys' \in [Payments -> Nat] /\ keyboard' \subseteq Payments /\ excused' \subseteq Payments
        BY <1>9, <2>0 DEF Send, TypeOK
    <2>2. QED
        BY <1>9, <2>1, RunNextType DEF Send, TypeOK
<1>10. CASE RunFault(r)
    <2>1. excused' \subseteq Payments
        BY <1>10, HoldsPayment DEF RunFault, RunAt, TypeOK
    <2>2. /\ run' \in [Runs -> RunRecords]
          /\ \A s \in Runs : (run'[s].payment = Nothing) <=> (run'[s].pc \in {"idle", "remove"})
        BY <1>10 DEF RunFault, TypeOK, RunRecords, RunPcs, IdleRun
    <2>3. QED
        BY <1>10, <2>1, <2>2 DEF RunFault, TypeOK
<1>11. QED
    BY <1>1, <1>2, <1>3, <1>4, <1>5, <1>6, <1>7, <1>8, <1>9, <1>10 DEF RunStep

\* The steps of a handler keep them.
LEMMA TypeHandler ==
    ASSUME TypeOK, NEW h \in Handlers,
           \/ \E p \in Payments, reason \in Reasons : Click(h, p, reason)
           \/ \E u \in Users : Text(h, u)
           \/ HandlerStep(h) \/ HandlerFault(h)
    PROVE  TypeOK'
<1>1. ASSUME NEW p \in Payments, NEW reason \in Reasons, Click(h, p, reason) PROVE TypeOK'
    <2>1. contended' \subseteq Payments
        BY <1>1 DEF Click, Contend, TypeOK
    <2>2. /\ handler' \in [Handlers -> HandlerRecords]
          /\ \A g \in Handlers : (handler'[g].payment = Nothing) <=> (handler'[g].pc = "idle")
        BY <1>1, Constants DEF Click, TypeOK, HandlerRecords, HandlerPcs
    <2>3. QED
        BY <1>1, <2>1, <2>2 DEF Click, TypeOK
<1>2. ASSUME NEW u \in Users, Text(h, u) PROVE TypeOK'
    <2>1. awaiting[u].payment \in Payments
        BY <1>2 DEF Text, TypeOK, TextRecords
    <2>2. QED
        BY <1>2, <2>1, Constants DEF Text, TypeOK, HandlerRecords, HandlerPcs
<1>3. CASE Prompt(h)
    <2>1. handler[h].payment \in Payments
        BY <1>3, HandlerHolds DEF Prompt, HandlerAt
    <2>2. awaiting' \in [Users -> TextRecords] /\ prompted' \subseteq Payments
        BY <1>3, <2>1, Constants DEF Prompt, TypeOK, TextRecords
    <2>3. QED
        BY <1>3, <2>1, <2>2, Constants DEF Prompt, HandlerAt, HandlerGoto, TypeOK, HandlerRecords, HandlerPcs
<1>4. CASE Record(h)
    <2>1. handler[h].payment \in Payments
        BY <1>4, HandlerHolds DEF Record, HandlerAt
    <2>2. /\ answer' \in [Payments -> Reasons \cup {Nothing}] /\ texts' \subseteq Payments
          /\ writes' \in [Payments -> Nat]
        BY <1>4, <2>1 DEF Record, Write, TypeOK, HandlerRecords
    <2>3. QED
        BY <1>4, <2>1, <2>2, Constants DEF Record, HandlerAt, HandlerGoto, TypeOK, HandlerRecords, HandlerPcs
<1>5. CASE EditMessage(h)
    <2>1. /\ handler' \in [Handlers -> HandlerRecords]
          /\ \A g \in Handlers : (handler'[g].payment = Nothing) <=> (handler'[g].pc = "idle")
        BY <1>5, HandlerEndType DEF EditMessage
    <2>2. keyboard' \subseteq Payments
        BY <1>5 DEF EditMessage, TypeOK
    <2>3. QED
        BY <1>5, <2>1, <2>2 DEF EditMessage, TypeOK
<1>6. CASE CheckText(h)
    <2>1. handler[h].payment \in Payments
        BY <1>6, HandlerHolds DEF CheckText, HandlerAt
    <2>2. contended' \subseteq Payments
        BY <1>6, <2>1 DEF CheckText, Contend, TypeOK
    <2>3. HandlerGoto(h, "forget") \/ HandlerGoto(h, "write")
        BY <1>6 DEF CheckText
    <2>4. /\ handler' \in [Handlers -> HandlerRecords]
          /\ \A g \in Handlers : (handler'[g].payment = Nothing) <=> (handler'[g].pc = "idle")
        <3>1. handler[h].pc # "idle"
            BY <1>6 DEF CheckText, HandlerAt
        <3>2. {"forget", "write"} \subseteq HandlerPcs \ {"idle"}
            BY DEF HandlerPcs
        <3>3. QED
            BY <2>3, <3>1, <3>2, HandlerGotoType
    <2>5. QED
        BY <1>6, <2>2, <2>4 DEF CheckText, TypeOK
<1>7. CASE WriteText(h)
    <2>1. handler[h].payment \in Payments
        BY <1>7, HandlerHolds DEF WriteText, HandlerAt
    <2>2. /\ answer' \in [Payments -> Reasons \cup {Nothing}] /\ texts' \subseteq Payments
          /\ writes' \in [Payments -> Nat]
        BY <1>7, <2>1, Constants DEF WriteText, Write, TypeOK
    <2>3. QED
        BY <1>7, <2>1, <2>2, Constants DEF WriteText, HandlerAt, HandlerGoto, TypeOK, HandlerRecords, HandlerPcs
<1>8. CASE Forget(h)
    <2>1. awaiting' \in [Users -> TextRecords]
        BY <1>8 DEF Forget, NoText, TypeOK, TextRecords
    <2>2. QED
        BY <1>8, <2>1, HandlerEndType DEF Forget, TypeOK
<1>9. CASE HandlerFault(h)
    BY <1>9, HandlerEndType DEF HandlerFault, TypeOK
<1>10. QED
    BY <1>1, <1>2, <1>3, <1>4, <1>5, <1>6, <1>7, <1>8, <1>9 DEF HandlerStep

\* Every step keeps the types.
LEMMA TypeNext == TypeOK /\ [Next]_vars => TypeOK'
<1> SUFFICES ASSUME TypeOK, [Next]_vars PROVE TypeOK'
    OBVIOUS
<1>1. CASE UNCHANGED vars
    BY <1>1 DEF vars, TypeOK
<1>2. CASE World
    BY <1>2, TypeWorld
<1>3. CASE \E r \in Runs : Start(r) \/ RunStep(r) \/ RunFault(r)
    BY <1>3, TypeRun
<1>4. CASE \E h \in Handlers :
              \/ \E p \in Payments, reason \in Reasons : Click(h, p, reason)
              \/ \E u \in Users : Text(h, u)
              \/ HandlerStep(h) \/ HandlerFault(h)
    BY <1>4, TypeHandler
<1>5. QED
    BY <1>1, <1>2, <1>3, <1>4 DEF Next

\* Every variable keeps its type, for any number of payments, runs and handlers.
THEOREM TypeCorrect == Spec => []TypeOK
<1>1. QED
    BY TypeInit, TypeNext, PTL DEF Spec

----------------------------------------------------------------------------
(***************************************************************************)
(* Messages are delivered once and no check is forgotten.                  *)
(***************************************************************************)

\* The part of the state the invariant speaks of, but for the clock and the transactions.
Checks == <<queued, sent, surveys, excused, run>>

\* The initial state satisfies the invariant.
LEMMA InvInit == Init => SurveyInv
<1> SUFFICES ASSUME Init PROVE SurveyInv
    OBVIOUS
<1>1. TypeOK
    BY TypeInit
<1>2. \A r \in Runs, p \in Payments : ~AtSend(r, p)
    BY DEF Init, AtSend, IdleRun
<1>3. SendsOnce /\ SentIsSeen
    BY <1>2 DEF Init, SendsOnce, SentIsSeen
<1>4. NothingForgotten
    BY DEF Init, NothingForgotten
<1>5. QED
    BY <1>1, <1>3, <1>4 DEF SurveyInv

\* A step that leaves the queue, the runs and their messages alone keeps the invariant
\* when it creates no payment: it can only settle one.
LEMMA InvElsewhere ==
    ASSUME SurveyInv, TypeOK', UNCHANGED Checks,
           \A p \in Payments : status'[p] \in {"PENDING", "CANCELED"} => status[p] \in {"PENDING", "CANCELED"}
    PROVE  SurveyInv'
<1>1. SendsOnce'
    BY DEF SurveyInv, SendsOnce, AtSend, Checks
<1>2. SentIsSeen'
    BY DEF SurveyInv, SentIsSeen, AtSend, Checks
<1>3. NothingForgotten'
    BY DEF SurveyInv, NothingForgotten, InHand, Checks
<1>4. QED
    BY <1>1, <1>2, <1>3 DEF SurveyInv

\* What World does to the invariant: only a new payment touches the queue.
LEMMA InvWorld == ASSUME SurveyInv, TypeOK', World PROVE SurveyInv'
<1>1. CASE Tick
    BY <1>1, InvElsewhere DEF Tick, Checks
<1>2. ASSUME NEW p \in Payments, Schedule(p) PROVE SurveyInv'
    <2>1. SendsOnce'
        BY <1>2 DEF Schedule, SurveyInv, SendsOnce, AtSend
    <2>2. SentIsSeen'
        BY <1>2 DEF Schedule, SurveyInv, SentIsSeen, AtSend
    <2>3. NothingForgotten'
        BY <1>2 DEF Schedule, ZAdd, SurveyInv, NothingForgotten, InHand, TypeOK
    <2>4. QED
        BY <2>1, <2>2, <2>3 DEF SurveyInv
<1>3. ASSUME NEW p \in Payments, NEW s \in {"COMPLETED", "CANCELED"}, Settle(p, s) PROVE SurveyInv'
    <2>1. \A q \in Payments : status'[q] \in {"PENDING", "CANCELED"} => status[q] \in {"PENDING", "CANCELED"}
        BY <1>3 DEF Settle, SurveyInv, TypeOK
    <2>2. QED
        BY <1>3, <2>1, InvElsewhere DEF Settle, Checks
<1>4. ASSUME NEW u \in Users, Lapse(u) PROVE SurveyInv'
    BY <1>4, InvElsewhere DEF Lapse, Checks
<1>5. QED
    BY <1>1, <1>2, <1>3, <1>4 DEF World

\* A handler touches neither the queue nor the runs.
LEMMA InvHandler ==
    ASSUME SurveyInv, TypeOK', NEW h \in Handlers,
           \/ \E p \in Payments, reason \in Reasons : Click(h, p, reason)
           \/ \E u \in Users : Text(h, u)
           \/ HandlerStep(h) \/ HandlerFault(h)
    PROVE  SurveyInv'
<1>1. UNCHANGED Checks /\ status' = status
    BY DEF HandlerStep, Click, Text, Prompt, Record, EditMessage, CheckText, WriteText, Forget,
           HandlerFault, Checks
<1>2. QED
    BY <1>1, InvElsewhere

\* A run that turns to its next member has nothing in hand, and no other run moves.
LEMMA RunNextLetsGo ==
    ASSUME TypeOK, NEW r \in Runs, RunNext(r)
    PROVE  /\ run'[r].pc \in {"idle", "remove"} /\ run'[r].payment = Nothing
           /\ \A q \in Payments : run'[r].payment # q
           /\ \A s \in Runs \ {r} : run'[s] = run[s]
BY Constants DEF RunNext, TypeOK, RunRecords, IdleRun

\* A run may turn to its next member when the one in hand is queued again, excused,
\* or surveyed or held by another run.
LEMMA InvLetsGo ==
    ASSUME SurveyInv, TypeOK', NEW r \in Runs, RunNext(r), run[r].pc # "send",
           UNCHANGED <<status, sent, surveys>>,
           queued \subseteq queued', excused \subseteq excused',
           NEW p \in Payments, p = run[r].payment,
           \/ p \in queued' \/ p \in excused' \/ surveys[p] > 0
           \/ \E s \in Runs \ {r} : InHand(s, p)
    PROVE  SurveyInv'
<1>0. TypeOK /\ SendsOnce /\ SentIsSeen /\ NothingForgotten
    BY DEF SurveyInv
<1>1. \A s \in Runs, q \in Payments : AtSend(s, q)' <=> AtSend(s, q)
    BY <1>0, RunNextLetsGo DEF AtSend
<1>2. \A s \in Runs \ {r}, q \in Payments : InHand(s, q)' <=> InHand(s, q)
    BY <1>0, RunNextLetsGo DEF InHand
<1>3. SendsOnce'
    BY <1>0, <1>1 DEF SendsOnce
<1>4. SentIsSeen'
    BY <1>0, <1>1 DEF SentIsSeen, TypeOK
<1>5. NothingForgotten'
    <2> SUFFICES ASSUME NEW q \in Payments, status[q] \in {"PENDING", "CANCELED"}
                 PROVE  \/ q \in queued' \/ surveys[q] > 0 \/ q \in excused'
                        \/ \E s \in Runs : InHand(s, q)'
        BY DEF NothingForgotten
    <2>1. CASE q = p
        BY <1>2, <2>1
    <2>2. CASE q # p
        <3>1. ~InHand(r, q)
            BY <2>2 DEF InHand
        <3>2. QED
            BY <1>0, <1>2, <3>1 DEF NothingForgotten
    <2>3. QED
        BY <2>1, <2>2
<1>6. QED
    BY <1>3, <1>4, <1>5 DEF SurveyInv

\* A run that goes on with its member, short of the delivery, disturbs nothing.
LEMMA InvGoesOn ==
    ASSUME SurveyInv, TypeOK', NEW r \in Runs, NEW pc \in RunPcs \ {"send"}, run[r].pc # "send",
           RunGoto(r, pc), UNCHANGED <<status, queued, sent, surveys, excused>>
    PROVE  SurveyInv'
<1>0. TypeOK /\ SendsOnce /\ SentIsSeen /\ NothingForgotten
    BY DEF SurveyInv
<1>1. \A s \in Runs : run'[s].payment = run[s].payment /\ (run'[s].pc = "send" <=> run[s].pc = "send")
    BY <1>0 DEF RunGoto, TypeOK, RunRecords
<1>2. \A s \in Runs, q \in Payments : AtSend(s, q)' <=> AtSend(s, q)
    BY <1>1 DEF AtSend
<1>3. \A s \in Runs, q \in Payments : InHand(s, q)' <=> InHand(s, q)
    BY <1>1 DEF InHand
<1>4. SendsOnce' /\ SentIsSeen'
    BY <1>0, <1>2 DEF SendsOnce, SentIsSeen, TypeOK
<1>5. NothingForgotten'
    BY <1>0, <1>3 DEF NothingForgotten
<1>6. QED
    BY <1>4, <1>5 DEF SurveyInv

\* Every step of a run keeps the invariant.
LEMMA InvRun ==
    ASSUME SurveyInv, TypeOK', NEW r \in Runs, Start(r) \/ RunStep(r) \/ RunFault(r)
    PROVE  SurveyInv'
<1> DEFINE p == run[r].payment
<1>0. TypeOK /\ SendsOnce /\ SentIsSeen /\ NothingForgotten
    BY DEF SurveyInv
<1>1. CASE Start(r)
    <2>1. \A s \in Runs, q \in Payments : AtSend(s, q)' <=> AtSend(s, q)
        BY <1>0, <1>1 DEF Start, RunAt, AtSend, TypeOK
    <2>2. \A s \in Runs, q \in Payments : InHand(s, q) => InHand(s, q)'
        BY <1>0, <1>1, Constants DEF Start, RunAt, InHand, TypeOK
    <2>3. SendsOnce' /\ SentIsSeen'
        BY <1>0, <1>1, <2>1 DEF Start, SendsOnce, SentIsSeen, TypeOK
    <2>4. NothingForgotten'
        BY <1>0, <1>1, <2>2 DEF Start, NothingForgotten
    <2>5. QED
        BY <2>3, <2>4 DEF SurveyInv
<1>2. ASSUME NEW q \in Payments, Remove(r, q) PROVE SurveyInv'
    <2>1. \A s \in Runs, o \in Payments : AtSend(s, o)' <=> AtSend(s, o)
        BY <1>0, <1>2 DEF Remove, RunAt, AtSend, TypeOK
    <2>2. \A s \in Runs, o \in Payments : InHand(s, o) => InHand(s, o)'
        BY <1>0, <1>2, Constants DEF Remove, RunAt, InHand, TypeOK
    <2>3. InHand(r, q)'
        BY <1>0, <1>2 DEF Remove, InHand, TypeOK
    <2>4. SendsOnce' /\ SentIsSeen'
        BY <1>0, <1>2, <2>1 DEF Remove, SendsOnce, SentIsSeen, TypeOK
    <2>5. NothingForgotten'
        BY <1>0, <1>2, <2>2, <2>3 DEF Remove, NothingForgotten
    <2>6. QED
        BY <2>4, <2>5 DEF SurveyInv
<1>3. CASE ReadStatus(r)
    <2>0. p \in Payments /\ run[r].pc = "read"
        BY <1>0, <1>3, HoldsPayment DEF ReadStatus, RunAt
    <2>1. CASE Dropped(r, p)
        BY <1>0, <1>3, <2>0, <2>1, InvLetsGo DEF ReadStatus, Dropped
    <2>2. CASE Pending(r, p)
        <3>1. RunGoto(r, "ping") /\ UNCHANGED <<status, queued, sent, surveys, excused>>
            BY <1>3, <2>2 DEF ReadStatus, Pending
        <3>2. "ping" \in RunPcs \ {"send"}
            BY DEF RunPcs
        <3>3. QED
            BY <2>0, <3>1, <3>2, InvGoesOn
    <2>3. CASE Canceled(r, p)
        <3>1. RunGoto(r, "paid") /\ UNCHANGED <<status, queued, sent, surveys, excused>>
            BY <1>3, <2>3 DEF ReadStatus, Canceled
        <3>2. "paid" \in RunPcs \ {"send"}
            BY DEF RunPcs
        <3>3. QED
            BY <2>0, <3>1, <3>2, InvGoesOn
    <2>4. QED
        BY <1>3, <2>1, <2>2, <2>3 DEF ReadStatus
<1>4. CASE MarkPing(r)
    <2>0. run[r].pc = "ping"
        BY <1>4 DEF MarkPing, RunAt
    <2>1. /\ RunGoto(r, "remind") \/ RunGoto(r, "requeue")
          /\ UNCHANGED <<status, queued, sent, surveys, excused>>
        BY <1>4 DEF MarkPing
    <2>2. {"remind", "requeue"} \subseteq RunPcs \ {"send"}
        BY DEF RunPcs
    <2>3. QED
        BY <2>0, <2>1, <2>2, InvGoesOn
<1>5. CASE Remind(r)
    <2>0. run[r].pc = "remind"
        BY <1>5 DEF Remind, RunAt
    <2>1. RunGoto(r, "requeue") /\ UNCHANGED <<status, queued, sent, surveys, excused>>
        BY <1>5 DEF Remind
    <2>2. "requeue" \in RunPcs \ {"send"}
        BY DEF RunPcs
    <2>3. QED
        BY <2>0, <2>1, <2>2, InvGoesOn
<1>6. CASE Requeue(r)
    <2>0. p \in Payments /\ run[r].pc = "requeue"
        BY <1>0, <1>6, HoldsPayment DEF Requeue, RunAt
    <2>1. queued' = queued \cup {p}
        BY <1>6 DEF Requeue, ZAdd
    <2>2. QED
        BY <1>6, <2>0, <2>1, InvLetsGo DEF Requeue
<1>7. CASE CheckPaid(r)
    <2>0. p \in Payments /\ run[r].pc = "paid"
        BY <1>0, <1>7, HoldsPayment DEF CheckPaid, RunAt
    <2>1. CASE PaidSince(p)
        BY <1>7, <2>0, <2>1, InvLetsGo DEF CheckPaid
    <2>2. CASE ~PaidSince(p)
        <3>1. RunGoto(r, "mark") /\ UNCHANGED <<status, queued, sent, surveys, excused>>
            BY <1>7, <2>2 DEF CheckPaid
        <3>2. "mark" \in RunPcs \ {"send"}
            BY DEF RunPcs
        <3>3. QED
            BY <2>0, <3>1, <3>2, InvGoesOn
    <2>3. QED
        BY <2>1, <2>2
<1>8. CASE MarkSent(r)
    <2>0. p \in Payments /\ run[r].pc = "mark"
        BY <1>0, <1>8, HoldsPayment DEF MarkSent, RunAt
    <2>1. CASE p \in sent
        <3>1. sent' = sent
            BY <1>8, <2>1 DEF MarkSent
        <3>2. surveys[p] > 0 \/ p \in excused \/ \E s \in Runs \ {r} : InHand(s, p)
            BY <1>0, <2>0, <2>1 DEF SentIsSeen, AtSend, InHand
        <3>3. QED
            BY <1>8, <2>0, <2>1, <3>1, <3>2, InvLetsGo DEF MarkSent
    <2>2. CASE p \notin sent
        <3>0. run' = [run EXCEPT ![r].pc = "send"] /\ sent' = sent \cup {p}
            BY <1>8, <2>2 DEF MarkSent, RunGoto
        <3>1. /\ run'[r].pc = "send" /\ run'[r].payment = p
              /\ \A s \in Runs \ {r} : run'[s] = run[s]
            BY <1>0, <3>0 DEF TypeOK, RunRecords
        <3>2. \A s \in Runs, q \in Payments : AtSend(s, q)' <=> (AtSend(s, q) \/ (s = r /\ q = p))
            BY <2>0, <3>1 DEF AtSend
        <3>3. \A s \in Runs, q \in Payments : InHand(s, q)' <=> InHand(s, q)
            BY <3>1 DEF InHand
        <3>4. UNCHANGED <<status, queued, surveys, excused>>
            BY <1>8 DEF MarkSent
        <3>5. SendsOnce'
            BY <1>0, <2>2, <3>0, <3>2, <3>4 DEF SendsOnce
        <3>6. SentIsSeen'
            BY <1>0, <2>0, <3>0, <3>2, <3>4 DEF SentIsSeen, TypeOK
        <3>7. NothingForgotten'
            BY <1>0, <3>3, <3>4 DEF NothingForgotten
        <3>8. QED
            BY <3>5, <3>6, <3>7 DEF SurveyInv
    <2>3. QED
        BY <2>1, <2>2
<1>9. CASE Send(r)
    <2>0. p \in Payments /\ run[r].pc = "send" /\ AtSend(r, p)
        BY <1>0, <1>9, HoldsPayment DEF Send, RunAt, AtSend
    <2>1. \A s \in Runs, q \in Payments : AtSend(s, q)' <=> (AtSend(s, q) /\ s # r)
        BY <1>0, <1>9, RunNextLetsGo DEF Send, AtSend
    <2>2. \A s \in Runs, q \in Payments : InHand(s, q) /\ s # r => InHand(s, q)'
        BY <1>0, <1>9, RunNextLetsGo DEF Send, InHand
    <2>3. UNCHANGED <<status, queued, sent>>
        BY <1>9 DEF Send
    <2>4. /\ surveys' \in [Payments -> Nat]
          /\ \A q \in Payments \ {p} : surveys'[q] = surveys[q]
          /\ \/ surveys'[p] = surveys[p] + 1 /\ excused' = excused
             \/ surveys'[p] = surveys[p] /\ excused' = excused \cup {p}
        BY <1>0, <1>9, <2>0 DEF Send, TypeOK
    <2>5. SendsOnce'
        BY <1>0, <2>0, <2>1, <2>3, <2>4 DEF SendsOnce, TypeOK
    <2>6. surveys[p] = 0
        BY <1>0, <2>0 DEF SendsOnce
    <2>7. SentIsSeen'
        <3> SUFFICES ASSUME NEW q \in sent
                     PROVE  surveys'[q] > 0 \/ q \in excused' \/ \E s \in Runs : AtSend(s, q)'
            BY <2>3 DEF SentIsSeen
        <3>1. CASE q = p
            BY <2>4, <2>6, <3>1
        <3>2. CASE q # p
            <4>1. q \in Payments
                BY <1>0 DEF TypeOK
            <4>2. \A s \in Runs : AtSend(s, q) => s # r
                BY <2>0, <3>2 DEF AtSend
            <4>3. surveys[q] > 0 \/ q \in excused \/ \E s \in Runs : AtSend(s, q)
                BY <1>0 DEF SentIsSeen
            <4>4. QED
                BY <2>1, <2>4, <3>2, <4>1, <4>2, <4>3
        <3>3. QED
            BY <3>1, <3>2
    <2>8. NothingForgotten'
        <3> SUFFICES ASSUME NEW q \in Payments, status[q] \in {"PENDING", "CANCELED"}
                     PROVE  \/ q \in queued \/ surveys'[q] > 0 \/ q \in excused'
                            \/ \E s \in Runs : InHand(s, q)'
            BY <2>3 DEF NothingForgotten
        <3>1. CASE q = p
            BY <2>4, <2>6, <3>1
        <3>2. CASE q # p
            <4>1. \A s \in Runs : InHand(s, q) => s # r
                BY <3>2 DEF InHand
            <4>2. QED
                BY <1>0, <2>2, <2>4, <3>2, <4>1 DEF NothingForgotten
        <3>3. QED
            BY <3>1, <3>2
    <2>9. QED
        BY <2>5, <2>7, <2>8 DEF SurveyInv
<1>10. CASE RunFault(r)
    <2>0. UNCHANGED <<status, queued, sent, surveys>> /\ run' = [run EXCEPT ![r] = IdleRun]
        BY <1>10 DEF RunFault
    <2>1. \A s \in Runs, q \in Payments : AtSend(s, q)' <=> (AtSend(s, q) /\ s # r)
        BY <1>0, <2>0, Constants DEF AtSend, TypeOK, IdleRun
    <2>2. \A s \in Runs, q \in Payments : InHand(s, q) /\ s # r => InHand(s, q)'
        BY <1>0, <2>0 DEF InHand, TypeOK
    <2>3. /\ excused \subseteq excused'
          /\ \A q \in Payments : InHand(r, q) => q \in excused'
        BY <1>0, <1>10, Constants DEF RunFault, RunAt, InHand, TypeOK
    <2>4. SendsOnce'
        BY <1>0, <2>0, <2>1 DEF SendsOnce
    <2>5. SentIsSeen'
        <3>1. \A q \in Payments : AtSend(r, q) => q \in excused'
            BY <2>3 DEF AtSend, InHand
        <3>2. QED
            BY <1>0, <2>0, <2>1, <2>3, <3>1 DEF SentIsSeen, TypeOK
    <2>6. NothingForgotten'
        BY <1>0, <2>0, <2>2, <2>3 DEF NothingForgotten
    <2>7. QED
        BY <2>4, <2>5, <2>6 DEF SurveyInv
<1>11. QED
    BY <1>1, <1>2, <1>3, <1>4, <1>5, <1>6, <1>7, <1>8, <1>9, <1>10 DEF RunStep

\* Every step keeps the invariant.
LEMMA InvNext == SurveyInv /\ [Next]_vars => SurveyInv'
<1> SUFFICES ASSUME SurveyInv, [Next]_vars PROVE SurveyInv'
    OBVIOUS
<1>0. TypeOK'
    BY TypeNext DEF SurveyInv
<1>1. CASE UNCHANGED vars
    <2>1. UNCHANGED Checks /\ status' = status
        BY <1>1 DEF vars, Checks
    <2>2. QED
        BY <1>0, <2>1, InvElsewhere
<1>2. CASE World
    BY <1>0, <1>2, InvWorld
<1>3. CASE \E r \in Runs : Start(r) \/ RunStep(r) \/ RunFault(r)
    BY <1>0, <1>3, InvRun
<1>4. CASE \E h \in Handlers :
              \/ \E p \in Payments, reason \in Reasons : Click(h, p, reason)
              \/ \E u \in Users : Text(h, u)
              \/ HandlerStep(h) \/ HandlerFault(h)
    BY <1>0, <1>4, InvHandler
<1>5. QED
    BY <1>1, <1>2, <1>3, <1>4 DEF Next

\* The invariant holds in every reachable state.
LEMMA InvHolds == Spec => []SurveyInv
<1>1. QED
    BY InvInit, InvNext, PTL DEF Spec

\* The survey of a payment is delivered at most once, however many runs overlap.
THEOREM SurveysOnce == Spec => []SurveyedOnce
<1>1. SurveyInv => SurveyedOnce
    BY DEF SurveyInv, SendsOnce, SurveyedOnce
<1>2. QED
    BY <1>1, InvHolds, PTL

\* No check is lost without a reason, however many runs overlap, fail or crash.
THEOREM ForgetsNothing == Spec => []NothingForgotten
<1>1. SurveyInv => NothingForgotten
    BY DEF SurveyInv
<1>2. QED
    BY <1>1, InvHolds, PTL
----------------------------------------------------------------------------
(***************************************************************************)
(* The reminder of a payment is delivered once, although its marker        *)
(* expires.  The first run that finds the payment due started PingDelay    *)
(* after its creation, so the marker it sets lasts until MaxAge + RunTime  *)
(* after the creation; a run that still wants to remind started before     *)
(* MaxAge and takes no longer than RunTime.                                *)
(***************************************************************************)

AtRemind(r, p) == run[r].pc = "remind" /\ run[r].payment = p
Holds(r, p) == p \in run[r].todo \/ run[r].payment = p

RunsInTime ==
    \A r \in Runs : run[r].pc # "idle" => run[r].at <= now /\ now <= run[r].at + RunTime

Unscheduled ==
    \A p \in Payments :
        status[p] = "NONE" =>
            p \notin queued /\ pingUntil[p] = 0 /\ \A r \in Runs : ~Holds(r, p)

DueInTime ==
    \A p \in Payments :
        /\ p \in queued => dueAt[p] >= created[p] + PingDelay \/ now >= created[p] + PingDelay
        /\ \A r \in Runs : Holds(r, p) => run[r].at >= created[p] + PingDelay
        /\ \A r \in Runs : run[r].pc = "ping" /\ InHand(r, p) => run[r].at < created[p] + MaxAge

MarkerLasts ==
    \A p \in Payments : pingUntil[p] # 0 => pingUntil[p] >= created[p] + MaxAge + RunTime

RemindsOnce ==
    \A p \in Payments :
        /\ pings[p] <= 1
        /\ pingUntil[p] = 0 => pings[p] = 0
        /\ \A r \in Runs :
              AtRemind(r, p) =>
                  /\ pingUntil[p] # 0 /\ pings[p] = 0
                  /\ \A s \in Runs : AtRemind(s, p) => s = r

RemindInv == TypeOK /\ RunsInTime /\ Unscheduled /\ DueInTime /\ MarkerLasts /\ RemindsOnce

\* The part of the state the invariant speaks of, but for the runs.
Reminding == <<now, status, created, queued, dueAt, pingUntil, pings>>

\* The initial state satisfies the invariant.
LEMMA RemindInit == Init => RemindInv
<1> SUFFICES ASSUME Init PROVE RemindInv
    OBVIOUS
<1>0. TypeOK
    BY TypeInit
<1>1. /\ \A r \in Runs : run[r].pc = "idle" /\ \A p \in Payments : ~Holds(r, p)
      /\ \A p \in Payments : p \notin queued /\ pingUntil[p] = 0 /\ pings[p] = 0
    BY Constants DEF Init, IdleRun, Holds
<1>2. RunsInTime /\ Unscheduled /\ MarkerLasts
    BY <1>1 DEF RunsInTime, Unscheduled, MarkerLasts
<1>3. DueInTime /\ RemindsOnce
    BY <1>1 DEF DueInTime, RemindsOnce, AtRemind
<1>4. QED
    BY <1>0, <1>2, <1>3 DEF RemindInv

\* A run that neither starts, removes nor reaches a reminder takes nothing new in hand.
Continues(r) ==
    /\ run' \in [Runs -> RunRecords]
    /\ \A s \in Runs \ {r} : run'[s] = run[s]
    /\ run'[r].pc # "idle" => run[r].pc # "idle" /\ run'[r].at = run[r].at
    /\ \A p \in Payments : Holds(r, p)' => Holds(r, p) /\ run'[r].at = run[r].at
    /\ run'[r].pc \notin {"ping", "remind"}

\* The next member and the end of the run are such a move.
LEMMA NextContinues ==
    ASSUME TypeOK, TypeOK', NEW r \in Runs, RunNext(r), run[r].pc # "idle"
    PROVE  Continues(r)
<1>1. run' \in [Runs -> RunRecords] /\ \A s \in Runs \ {r} : run'[s] = run[s]
    BY DEF RunNext, TypeOK
<1>2. CASE run[r].todo = {}
    <2>1. run'[r] = IdleRun
        BY <1>2 DEF RunNext, TypeOK
    <2>2. QED
        BY <1>1, <2>1, Constants DEF Continues, IdleRun, Holds
<1>3. CASE run[r].todo # {}
    <2>1. run'[r] = [run[r] EXCEPT !.pc = "remove", !.payment = Nothing]
        BY <1>3 DEF RunNext, TypeOK
    <2>2. run[r] \in RunRecords
        BY DEF TypeOK
    <2>3. run'[r].pc = "remove" /\ run'[r].payment = Nothing /\ run'[r].at = run[r].at /\ run'[r].todo = run[r].todo
        BY <2>1, <2>2 DEF RunRecords
    <2>4. QED
        BY <1>1, <2>3, Constants DEF Continues, Holds
<1>4. QED
    BY <1>2, <1>3

\* A step that keeps the member is one, too.
LEMMA GotoContinues ==
    ASSUME TypeOK, TypeOK', NEW r \in Runs, NEW pc \in RunPcs \ {"idle", "ping", "remind"},
           RunGoto(r, pc), run[r].pc # "idle"
    PROVE  Continues(r)
<1>1. run' \in [Runs -> RunRecords] /\ \A s \in Runs \ {r} : run'[s] = run[s]
    BY DEF RunGoto, TypeOK
<1>2. run[r] \in RunRecords /\ run'[r] = [run[r] EXCEPT !.pc = pc]
    BY DEF RunGoto, TypeOK
<1>3. run'[r].pc = pc /\ run'[r].payment = run[r].payment /\ run'[r].at = run[r].at /\ run'[r].todo = run[r].todo
    BY <1>2 DEF RunRecords
<1>4. QED
    BY <1>1, <1>3 DEF Continues, Holds

\* When nothing but the runs changes, and those only by such a move, the invariant stays.
LEMMA RemindContinues ==
    ASSUME RemindInv, TypeOK', NEW r \in Runs, Continues(r), UNCHANGED Reminding
    PROVE  RemindInv'
<1>0. TypeOK /\ RunsInTime /\ Unscheduled /\ DueInTime /\ MarkerLasts /\ RemindsOnce
    BY DEF RemindInv
<1>1. RunsInTime'
    BY <1>0 DEF RunsInTime, Continues, Reminding
<1>2. \A s \in Runs, p \in Payments : Holds(s, p)' => Holds(s, p) /\ run'[s].at = run[s].at
    BY DEF Continues, Holds
<1>3. Unscheduled'
    BY <1>0, <1>2 DEF Unscheduled, Reminding
<1>4. DueInTime'
    <2>1. \A s \in Runs, p \in Payments :
             run'[s].pc = "ping" /\ InHand(s, p)' => run[s].pc = "ping" /\ InHand(s, p) /\ run'[s].at = run[s].at
        BY DEF Continues, InHand
    <2>2. QED
        BY <1>0, <1>2, <2>1 DEF DueInTime, Reminding
<1>5. MarkerLasts'
    BY <1>0 DEF MarkerLasts, Reminding
<1>6. RemindsOnce'
    <2>1. \A s \in Runs, p \in Payments : AtRemind(s, p)' => AtRemind(s, p)
        BY DEF Continues, AtRemind
    <2>2. QED
        BY <1>0, <2>1 DEF RemindsOnce, Reminding
<1>7. QED
    BY <1>1, <1>3, <1>4, <1>5, <1>6 DEF RemindInv

\* Steps that touch neither the runs nor what they check.
LEMMA RemindElsewhere ==
    ASSUME RemindInv, TypeOK', UNCHANGED Reminding, run' = run
    PROVE  RemindInv'
<1>0. TypeOK /\ RunsInTime /\ Unscheduled /\ DueInTime /\ MarkerLasts /\ RemindsOnce
    BY DEF RemindInv
<1>1. RunsInTime' /\ Unscheduled' /\ MarkerLasts'
    BY <1>0 DEF RunsInTime, Unscheduled, MarkerLasts, Holds, Reminding
<1>2. DueInTime' /\ RemindsOnce'
    BY <1>0 DEF DueInTime, RemindsOnce, Holds, InHand, AtRemind, Reminding
<1>3. QED
    BY <1>1, <1>2 DEF RemindInv

\* What World does: the clock waits for the runs, and a new payment has a new score.
LEMMA RemindWorld == ASSUME RemindInv, TypeOK', World PROVE RemindInv'
<1>0. TypeOK /\ RunsInTime /\ Unscheduled /\ DueInTime /\ MarkerLasts /\ RemindsOnce
    BY DEF RemindInv
<1>1. CASE Tick
    <2>0. now \in Nat /\ now' = now + 1 /\ UNCHANGED <<status, created, queued, dueAt, pingUntil, pings, run>>
        BY <1>0, <1>1 DEF Tick, TypeOK
    <2>1. RunsInTime'
        <3> SUFFICES ASSUME NEW r \in Runs, run[r].pc # "idle"
                     PROVE  run[r].at <= now + 1 /\ now + 1 <= run[r].at + RunTime
            BY <2>0 DEF RunsInTime
        <3>1. run[r].at \in Nat /\ run[r].at <= now /\ now < run[r].at + RunTime
            BY <1>0, <1>1 DEF Tick, RunsInTime, TypeOK, RunRecords
        <3>2. QED
            BY <2>0, <3>1, Constants
    <2>2. Unscheduled' /\ MarkerLasts'
        BY <1>0, <2>0 DEF Unscheduled, MarkerLasts, Holds
    <2>3. DueInTime'
        <3>1. \A p \in Payments : created[p] \in Nat
            BY <1>0 DEF TypeOK
        <3>2. \A p \in Payments : p \in queued => dueAt[p] >= created[p] + PingDelay \/ now + 1 >= created[p] + PingDelay
            BY <1>0, <2>0, <3>1, Constants DEF DueInTime
        <3>3. QED
            BY <1>0, <2>0, <3>2 DEF DueInTime, Holds, InHand
    <2>4. RemindsOnce'
        BY <1>0, <2>0 DEF RemindsOnce, AtRemind
    <2>5. QED
        BY <2>1, <2>2, <2>3, <2>4 DEF RemindInv
<1>2. ASSUME NEW q \in Payments, Schedule(q) PROVE RemindInv'
    <2>0. /\ status[q] = "NONE" /\ status' = [status EXCEPT ![q] = "PENDING"]
          /\ created' = [created EXCEPT ![q] = now]
          /\ queued' = queued \cup {q} /\ dueAt' = [dueAt EXCEPT ![q] = now + PingDelay]
          /\ UNCHANGED <<now, pingUntil, pings, run>>
        BY <1>0, <1>2 DEF Schedule, ZAdd, Unscheduled
    <2>1. q \notin queued /\ pingUntil[q] = 0 /\ \A r \in Runs : ~Holds(r, q)
        BY <1>0, <2>0 DEF Unscheduled
    <2>2. /\ \A p \in Payments \ {q} : created'[p] = created[p] /\ dueAt'[p] = dueAt[p] /\ status'[p] = status[p]
          /\ status'[q] = "PENDING" /\ created'[q] = now /\ dueAt'[q] = now + PingDelay
        BY <1>0, <2>0 DEF TypeOK
    <2>3. RunsInTime'
        BY <1>0, <2>0 DEF RunsInTime
    <2>4. Unscheduled'
        BY <1>0, <2>0, <2>2 DEF Unscheduled, Holds
    <2>5. MarkerLasts'
        BY <1>0, <2>0, <2>1, <2>2 DEF MarkerLasts
    <2>6. RemindsOnce'
        BY <1>0, <2>0 DEF RemindsOnce, AtRemind
    <2>7. DueInTime'
        <3> SUFFICES ASSUME NEW p \in Payments
                     PROVE  /\ p \in queued' => \/ dueAt'[p] >= created'[p] + PingDelay
                                                \/ now >= created'[p] + PingDelay
                            /\ \A r \in Runs : Holds(r, p) => run[r].at >= created'[p] + PingDelay
                            /\ \A r \in Runs : run[r].pc = "ping" /\ InHand(r, p) => run[r].at < created'[p] + MaxAge
            BY <2>0 DEF DueInTime, Holds, InHand
        <3>1. CASE p = q
            <4>1. \A r \in Runs : ~InHand(r, q)
                BY <2>1 DEF Holds, InHand
            <4>2. dueAt'[q] >= created'[q] + PingDelay
                BY <1>0, <2>2, Constants DEF TypeOK
            <4>3. QED
                BY <2>1, <3>1, <4>1, <4>2
        <3>2. CASE p # q
            BY <1>0, <2>0, <2>2, <3>2 DEF DueInTime
        <3>3. QED
            BY <3>1, <3>2
    <2>8. QED
        BY <2>3, <2>4, <2>5, <2>6, <2>7 DEF RemindInv
<1>3. ASSUME NEW q \in Payments, NEW s \in {"COMPLETED", "CANCELED"}, Settle(q, s) PROVE RemindInv'
    <2>0. UNCHANGED <<now, created, queued, dueAt, pingUntil, pings, run>>
        BY <1>3 DEF Settle
    <2>1. \A p \in Payments : status'[p] = "NONE" => status[p] = "NONE"
        BY <1>0, <1>3 DEF Settle, TypeOK
    <2>2. Unscheduled'
        BY <1>0, <2>0, <2>1 DEF Unscheduled, Holds
    <2>3. RunsInTime' /\ DueInTime' /\ MarkerLasts' /\ RemindsOnce'
        BY <1>0, <2>0 DEF RunsInTime, DueInTime, MarkerLasts, RemindsOnce, Holds, InHand, AtRemind
    <2>4. QED
        BY <2>2, <2>3 DEF RemindInv
<1>4. ASSUME NEW u \in Users, Lapse(u) PROVE RemindInv'
    BY <1>4, RemindElsewhere DEF Lapse, Reminding
<1>5. QED
    BY <1>1, <1>2, <1>3, <1>4 DEF World

\* A handler does not touch what the runs check.
LEMMA RemindHandler ==
    ASSUME RemindInv, TypeOK', NEW h \in Handlers,
           \/ \E p \in Payments, reason \in Reasons : Click(h, p, reason)
           \/ \E u \in Users : Text(h, u)
           \/ HandlerStep(h) \/ HandlerFault(h)
    PROVE  RemindInv'
<1>1. UNCHANGED Reminding /\ run' = run
    BY DEF HandlerStep, Click, Text, Prompt, Record, EditMessage, CheckText, WriteText, Forget,
           HandlerFault, Reminding
<1>2. QED
    BY <1>1, RemindElsewhere

\* A run starts with the members that are due: PingDelay after their creation or later.
LEMMA RemindStart == ASSUME RemindInv, TypeOK', NEW r \in Runs, Start(r) PROVE RemindInv'
<1>0. TypeOK /\ RunsInTime /\ Unscheduled /\ DueInTime /\ MarkerLasts /\ RemindsOnce
    BY DEF RemindInv
<1>1. UNCHANGED Reminding
    BY DEF Start, Reminding
<1>2. /\ run'[r].pc = "remove" /\ run'[r].todo = Due /\ run'[r].payment = Nothing /\ run'[r].at = now
      /\ \A s \in Runs \ {r} : run'[s] = run[s]
    BY <1>0 DEF Start, TypeOK
<1>3. now \in Nat
    BY <1>0 DEF TypeOK
<1>4. \A p \in Payments : Holds(r, p)' => p \in queued /\ dueAt[p] <= now
    BY <1>2, Constants DEF Holds, Due
<1>5. RunsInTime'
    BY <1>0, <1>1, <1>2, <1>3, Constants DEF RunsInTime, Reminding
<1>6. \A s \in Runs \ {r}, p \in Payments :
         /\ Holds(s, p)' <=> Holds(s, p)
         /\ InHand(s, p)' <=> InHand(s, p)
         /\ AtRemind(s, p)' <=> AtRemind(s, p)
    BY <1>2 DEF Holds, InHand, AtRemind
<1>7. Unscheduled'
    BY <1>0, <1>1, <1>4, <1>6 DEF Unscheduled, Reminding
<1>8. DueInTime'
    <2>1. \A p \in Payments : Holds(r, p)' => now >= created[p] + PingDelay
        <3> SUFFICES ASSUME NEW p \in Payments, Holds(r, p)' PROVE now >= created[p] + PingDelay
            OBVIOUS
        <3>1. created[p] \in Nat /\ dueAt[p] \in Nat
            BY <1>0 DEF TypeOK
        <3>2. dueAt[p] <= now /\ (dueAt[p] >= created[p] + PingDelay \/ now >= created[p] + PingDelay)
            BY <1>0, <1>4 DEF DueInTime
        <3>3. QED
            BY <1>3, <3>1, <3>2, Constants
    <2>2. QED
        BY <1>0, <1>1, <1>2, <1>6, <2>1 DEF DueInTime, Reminding
<1>9. MarkerLasts'
    BY <1>0, <1>1 DEF MarkerLasts, Reminding
<1>10. RemindsOnce'
    <2>1. \A p \in Payments : ~AtRemind(r, p)'
        BY <1>2 DEF AtRemind
    <2>2. QED
        BY <1>0, <1>1, <1>6, <2>1 DEF RemindsOnce, Reminding
<1>11. QED
    BY <1>5, <1>7, <1>8, <1>9, <1>10 DEF RemindInv

\* The removal takes in hand what the run already had before it.
LEMMA RemindRemove ==
    ASSUME RemindInv, TypeOK', NEW r \in Runs, NEW q \in Payments, Remove(r, q) PROVE RemindInv'
<1>0. TypeOK /\ RunsInTime /\ Unscheduled /\ DueInTime /\ MarkerLasts /\ RemindsOnce
    BY DEF RemindInv
<1>1. queued' = queued \ {q} /\ UNCHANGED <<now, status, created, dueAt, pingUntil, pings>>
    BY DEF Remove
<1>2. /\ run[r].pc = "remove" /\ q \in run[r].todo /\ run[r] \in RunRecords
      /\ run' = [run EXCEPT ![r].pc = "read", ![r].payment = q, ![r].todo = @ \ {q}]
    BY <1>0 DEF Remove, RunAt, TypeOK
<1>3. /\ run'[r].pc = "read" /\ run'[r].payment = q /\ run'[r].todo = run[r].todo \ {q} /\ run'[r].at = run[r].at
      /\ \A s \in Runs \ {r} : run'[s] = run[s]
    BY <1>0, <1>2 DEF TypeOK, RunRecords
<1>4. \A s \in Runs, p \in Payments : Holds(s, p)' => Holds(s, p) /\ run'[s].at = run[s].at
    BY <1>2, <1>3 DEF Holds
<1>5. RunsInTime'
    BY <1>0, <1>1, <1>2, <1>3 DEF RunsInTime
<1>6. Unscheduled'
    BY <1>0, <1>1, <1>4 DEF Unscheduled
<1>7. DueInTime'
    <2>1. \A s \in Runs, p \in Payments :
             run'[s].pc = "ping" /\ InHand(s, p)' => run[s].pc = "ping" /\ InHand(s, p) /\ run'[s].at = run[s].at
        BY <1>3 DEF InHand
    <2>2. QED
        BY <1>0, <1>1, <1>4, <2>1 DEF DueInTime
<1>8. MarkerLasts'
    BY <1>0, <1>1 DEF MarkerLasts
<1>9. RemindsOnce'
    <2>1. \A s \in Runs, p \in Payments : AtRemind(s, p)' => AtRemind(s, p)
        BY <1>3 DEF AtRemind
    <2>2. QED
        BY <1>0, <1>1, <2>1 DEF RemindsOnce
<1>10. QED
    BY <1>5, <1>6, <1>7, <1>8, <1>9 DEF RemindInv

\* A run that goes for the reminder has seen the payment younger than MaxAge.
LEMMA RemindPending ==
    ASSUME RemindInv, TypeOK', NEW r \in Runs, ReadStatus(r), Pending(r, run[r].payment)
    PROVE  RemindInv'
<1> DEFINE q == run[r].payment
<1>0. TypeOK /\ RunsInTime /\ Unscheduled /\ DueInTime /\ MarkerLasts /\ RemindsOnce
    BY DEF RemindInv
<1>1. UNCHANGED Reminding /\ run[r].pc = "read" /\ q \in Payments /\ ~TooOld(r, q)
    BY <1>0, HoldsPayment DEF ReadStatus, Pending, Reminding, RunAt
<1>2. /\ run'[r].pc = "ping" /\ run'[r].payment = q /\ run'[r].todo = run[r].todo /\ run'[r].at = run[r].at
      /\ \A s \in Runs \ {r} : run'[s] = run[s]
    BY <1>0 DEF Pending, RunGoto, TypeOK, RunRecords
<1>3. \A s \in Runs, p \in Payments :
         (Holds(s, p)' <=> Holds(s, p)) /\ (InHand(s, p)' <=> InHand(s, p)) /\ run'[s].at = run[s].at
    BY <1>2 DEF Holds, InHand
<1>4. RunsInTime' /\ Unscheduled' /\ MarkerLasts'
    <2>1. \A s \in Runs : run'[s].pc # "idle" => run[s].pc # "idle"
        BY <1>1, <1>2
    <2>2. \A s \in Runs : run'[s].at = run[s].at
        BY <1>2
    <2>3. QED
        BY <1>0, <1>1, <1>3, <2>1, <2>2 DEF RunsInTime, Unscheduled, MarkerLasts, Reminding
<1>5. DueInTime'
    <2>1. run[r].at < created[q] + MaxAge
        <3>1. Holds(r, q)
            BY DEF Holds
        <3>2. run[r].at \in Nat /\ created[q] \in Nat
            BY <1>0, <1>1 DEF TypeOK, RunRecords
        <3>3. run[r].at >= created[q] + PingDelay
            BY <1>0, <1>1, <3>1 DEF DueInTime
        <3>4. QED
            BY <1>1, <3>2, <3>3, Constants DEF TooOld
    <2>2. \A s \in Runs, p \in Payments : run'[s].pc = "ping" /\ InHand(s, p) => run[s].at < created[p] + MaxAge
        BY <1>0, <1>2, <2>1 DEF DueInTime, InHand
    <2>3. QED
        BY <1>0, <1>1, <1>3, <2>2 DEF DueInTime, Reminding
<1>6. RemindsOnce'
    <2>1. \A s \in Runs, p \in Payments : AtRemind(s, p)' => AtRemind(s, p)
        BY <1>2 DEF AtRemind
    <2>2. QED
        BY <1>0, <1>1, <2>1 DEF RemindsOnce, Reminding
<1>7. QED
    BY <1>4, <1>5, <1>6 DEF RemindInv

\* The heart of the argument: while some run may still want to remind of a payment, a
\* marker that was ever set has not expired; the marker set now lasts long enough, too.
LEMMA MarkerOutlives ==
    ASSUME RemindInv, NEW r \in Runs, NEW p \in Payments, run[r].pc = "ping", InHand(r, p)
    PROVE  /\ Unpinged(p) => pingUntil[p] = 0
           /\ now + PingTtl >= created[p] + MaxAge + RunTime
           /\ now + PingTtl # 0
<1>1. run[r].at \in Nat /\ created[p] \in Nat /\ now \in Nat /\ pingUntil[p] \in Nat
    BY DEF RemindInv, TypeOK, RunRecords
<1>2. run[r].at <= now /\ now <= run[r].at + RunTime
    BY DEF RemindInv, RunsInTime
<1>3. run[r].at >= created[p] + PingDelay /\ run[r].at < created[p] + MaxAge
    BY DEF RemindInv, DueInTime, Holds, InHand
<1>4. pingUntil[p] # 0 => pingUntil[p] >= created[p] + MaxAge + RunTime
    BY DEF RemindInv, MarkerLasts
<1>5. MaxAge + RunTime <= PingDelay + PingTtl
    BY TimesAssumption
<1>6. QED
    BY <1>1, <1>2, <1>3, <1>4, <1>5, Constants DEF Unpinged

\* The run that sets the marker is the only one at the reminder.
LEMMA RemindMark == ASSUME RemindInv, TypeOK', NEW r \in Runs, MarkPing(r) PROVE RemindInv'
<1> DEFINE q == run[r].payment
<1>0. TypeOK /\ RunsInTime /\ Unscheduled /\ DueInTime /\ MarkerLasts /\ RemindsOnce
    BY DEF RemindInv
<1>1. run[r].pc = "ping" /\ q \in Payments /\ InHand(r, q)
    BY <1>0, HoldsPayment DEF MarkPing, RunAt, InHand
<1>2. CASE ~Unpinged(q)
    <2>1. RunGoto(r, "requeue") /\ UNCHANGED Reminding
        BY <1>2 DEF MarkPing, Reminding
    <2>2. "requeue" \in RunPcs \ {"idle", "ping", "remind"}
        BY DEF RunPcs
    <2>3. QED
        BY <1>0, <1>1, <2>1, <2>2, GotoContinues, RemindContinues
<1>3. CASE Unpinged(q)
    <2>0. UNCHANGED <<now, status, created, queued, dueAt, pings>>
        BY DEF MarkPing
    <2>1. /\ pingUntil'[q] = now + PingTtl
          /\ \A p \in Payments \ {q} : pingUntil'[p] = pingUntil[p]
        BY <1>0, <1>1, <1>3 DEF MarkPing, TypeOK
    <2>2. /\ run'[r].pc = "remind" /\ run'[r].payment = q /\ run'[r].todo = run[r].todo /\ run'[r].at = run[r].at
          /\ \A s \in Runs \ {r} : run'[s] = run[s]
        BY <1>0, <1>3 DEF MarkPing, RunGoto, TypeOK, RunRecords
    <2>3. /\ pingUntil[q] = 0
          /\ now + PingTtl >= created[q] + MaxAge + RunTime /\ now + PingTtl # 0
        BY <1>1, <1>3, MarkerOutlives
    <2>4. pings[q] = 0 /\ \A s \in Runs : ~AtRemind(s, q)
        BY <1>0, <1>1, <2>3 DEF RemindsOnce
    <2>5. \A s \in Runs, p \in Payments :
             (Holds(s, p)' <=> Holds(s, p)) /\ (InHand(s, p)' <=> InHand(s, p)) /\ run'[s].at = run[s].at
        BY <2>2 DEF Holds, InHand
    <2>6. \A s \in Runs, p \in Payments : AtRemind(s, p)' <=> (AtRemind(s, p) \/ (s = r /\ p = q))
        BY <1>1, <2>2 DEF AtRemind
    <2>7. RunsInTime'
        BY <1>0, <1>1, <2>0, <2>2 DEF RunsInTime
    <2>8. Unscheduled'
        BY <1>0, <2>0, <2>1, <2>5 DEF Unscheduled, Holds
    <2>9. DueInTime'
        <3>1. \A s \in Runs : run'[s].pc = "ping" => run[s].pc = "ping"
            BY <2>2
        <3>2. QED
            BY <1>0, <2>0, <2>5, <3>1 DEF DueInTime
    <2>10. MarkerLasts'
        BY <1>0, <2>0, <2>1, <2>3 DEF MarkerLasts
    <2>11. RemindsOnce'
        <3> SUFFICES ASSUME NEW p \in Payments
                     PROVE  /\ pings[p] <= 1
                            /\ pingUntil'[p] = 0 => pings[p] = 0
                            /\ \A s \in Runs :
                                  AtRemind(s, p)' =>
                                      /\ pingUntil'[p] # 0 /\ pings[p] = 0
                                      /\ \A o \in Runs : AtRemind(o, p)' => o = s
            BY <2>0 DEF RemindsOnce
        <3>1. CASE p = q
            BY <1>1, <2>1, <2>3, <2>4, <2>6, <3>1
        <3>2. CASE p # q
            BY <1>0, <2>1, <2>6, <3>2 DEF RemindsOnce
        <3>3. QED
            BY <3>1, <3>2
    <2>12. QED
        BY <2>7, <2>8, <2>9, <2>10, <2>11 DEF RemindInv
<1>4. QED
    BY <1>2, <1>3

\* It delivers the only reminder.
LEMMA RemindRemind == ASSUME RemindInv, TypeOK', NEW r \in Runs, Remind(r) PROVE RemindInv'
<1> DEFINE q == run[r].payment
<1>0. TypeOK /\ RunsInTime /\ Unscheduled /\ DueInTime /\ MarkerLasts /\ RemindsOnce
    BY DEF RemindInv
<1>1. run[r].pc = "remind" /\ q \in Payments /\ AtRemind(r, q) /\ RunGoto(r, "requeue")
    BY <1>0, HoldsPayment DEF Remind, RunAt, AtRemind
<1>2. UNCHANGED <<now, status, created, queued, dueAt, pingUntil>>
    BY DEF Remind
<1>3. "requeue" \in RunPcs \ {"idle", "ping", "remind"}
    BY DEF RunPcs
<1>4. Continues(r)
    BY <1>0, <1>1, <1>3, GotoContinues
<1>5. \A s \in Runs, p \in Payments : Holds(s, p)' => Holds(s, p) /\ run'[s].at = run[s].at
    BY <1>4 DEF Continues, Holds
<1>6. RunsInTime' /\ Unscheduled' /\ MarkerLasts'
    BY <1>0, <1>2, <1>4, <1>5 DEF RunsInTime, Unscheduled, MarkerLasts, Continues
<1>7. DueInTime'
    <2>1. \A s \in Runs, p \in Payments :
             run'[s].pc = "ping" /\ InHand(s, p)' => run[s].pc = "ping" /\ InHand(s, p) /\ run'[s].at = run[s].at
        BY <1>4 DEF Continues, InHand
    <2>2. QED
        BY <1>0, <1>2, <1>5, <2>1 DEF DueInTime
<1>8. RemindsOnce'
    <2>1. \A s \in Runs, p \in Payments : AtRemind(s, p)' => AtRemind(s, p) /\ s # r
        BY <1>4 DEF Continues, AtRemind
    <2>2. pings[q] = 0 /\ pingUntil[q] # 0 /\ \A s \in Runs : AtRemind(s, q) => s = r
        BY <1>0, <1>1 DEF RemindsOnce
    <2>3. pings'[q] \in {0, 1} /\ \A p \in Payments \ {q} : pings'[p] = pings[p]
        BY <1>0, <1>1, <2>2 DEF Remind, TypeOK
    <2> SUFFICES ASSUME NEW p \in Payments
                 PROVE  /\ pings'[p] <= 1
                        /\ pingUntil[p] = 0 => pings'[p] = 0
                        /\ \A s \in Runs :
                              AtRemind(s, p)' =>
                                  /\ pingUntil[p] # 0 /\ pings'[p] = 0
                                  /\ \A o \in Runs : AtRemind(o, p)' => o = s
        BY <1>2 DEF RemindsOnce
    <2>4. CASE p = q
        BY <2>1, <2>2, <2>3, <2>4
    <2>5. CASE p # q
        BY <1>0, <2>1, <2>3, <2>5 DEF RemindsOnce
    <2>6. QED
        BY <2>4, <2>5
<1>9. QED
    BY <1>6, <1>7, <1>8 DEF RemindInv

\* The member goes back at once due, but only PingDelay after its creation.
LEMMA RemindRequeue == ASSUME RemindInv, TypeOK', NEW r \in Runs, Requeue(r) PROVE RemindInv'
<1> DEFINE q == run[r].payment
<1>0. TypeOK /\ RunsInTime /\ Unscheduled /\ DueInTime /\ MarkerLasts /\ RemindsOnce
    BY DEF RemindInv
<1>1. run[r].pc = "requeue" /\ q \in Payments /\ Holds(r, q) /\ RunNext(r)
    BY <1>0, HoldsPayment DEF Requeue, RunAt, Holds
<1>2. UNCHANGED <<now, status, created, pingUntil, pings>>
    BY DEF Requeue
<1>3. /\ queued' = queued \cup {q}
      /\ \A p \in Payments : p \in queued => dueAt'[p] = dueAt[p]
    BY <1>0, <1>1 DEF Requeue, ZAdd, TypeOK
<1>4. Continues(r)
    BY <1>0, <1>1, NextContinues
<1>5. \A s \in Runs, p \in Payments : Holds(s, p)' => Holds(s, p) /\ run'[s].at = run[s].at
    BY <1>4 DEF Continues, Holds
<1>6. RunsInTime' /\ MarkerLasts'
    BY <1>0, <1>2, <1>4 DEF RunsInTime, MarkerLasts, Continues
<1>7. Unscheduled'
    BY <1>0, <1>1, <1>2, <1>3, <1>5 DEF Unscheduled
<1>8. DueInTime'
    <2>1. \A s \in Runs, p \in Payments :
             run'[s].pc = "ping" /\ InHand(s, p)' => run[s].pc = "ping" /\ InHand(s, p) /\ run'[s].at = run[s].at
        BY <1>4 DEF Continues, InHand
    <2>2. now >= created[q] + PingDelay
        <3>1. run[r].at >= created[q] + PingDelay /\ run[r].at <= now
            BY <1>0, <1>1 DEF DueInTime, RunsInTime
        <3>2. run[r].at \in Nat /\ created[q] \in Nat /\ now \in Nat
            BY <1>0, <1>1 DEF TypeOK, RunRecords
        <3>3. QED
            BY <3>1, <3>2, Constants
    <2>3. \A p \in Payments :
             p \in queued' => dueAt'[p] >= created[p] + PingDelay \/ now >= created[p] + PingDelay
        BY <1>0, <1>3, <2>2 DEF DueInTime
    <2>4. QED
        BY <1>0, <1>2, <1>5, <2>1, <2>3 DEF DueInTime
<1>9. RemindsOnce'
    <2>1. \A s \in Runs, p \in Payments : AtRemind(s, p)' => AtRemind(s, p)
        BY <1>4 DEF Continues, AtRemind
    <2>2. QED
        BY <1>0, <1>2, <2>1 DEF RemindsOnce
<1>10. QED
    BY <1>6, <1>7, <1>8, <1>9 DEF RemindInv

\* Every step of a run keeps the invariant.
LEMMA RemindRun ==
    ASSUME RemindInv, TypeOK', NEW r \in Runs, Start(r) \/ RunStep(r) \/ RunFault(r)
    PROVE  RemindInv'
<1>0. TypeOK
    BY DEF RemindInv
<1>1. {"paid", "send", "mark"} \subseteq RunPcs \ {"idle", "ping", "remind"}
    BY DEF RunPcs
<1>2. CASE ReadStatus(r)
    <2>1. run[r].pc # "idle" /\ UNCHANGED Reminding
        BY <1>2 DEF ReadStatus, RunAt, Reminding
    <2>2. \/ Pending(r, run[r].payment) \/ RunGoto(r, "paid") \/ RunNext(r)
        BY <1>2 DEF ReadStatus, Canceled, Dropped
    <2>3. QED
        BY <1>0, <1>1, <1>2, <2>1, <2>2, RemindPending, GotoContinues, NextContinues, RemindContinues
<1>3. CASE CheckPaid(r) \/ MarkSent(r) \/ Send(r)
    <2>1. run[r].pc # "idle" /\ UNCHANGED Reminding
        BY <1>3 DEF CheckPaid, MarkSent, Send, RunAt, Reminding
    <2>2. \/ RunGoto(r, "mark") \/ RunGoto(r, "send") \/ RunNext(r)
        BY <1>3 DEF CheckPaid, MarkSent, Send
    <2>3. QED
        BY <1>0, <1>1, <2>1, <2>2, GotoContinues, NextContinues, RemindContinues
<1>4. CASE RunFault(r)
    <2>1. UNCHANGED Reminding /\ run' = [run EXCEPT ![r] = IdleRun] /\ run[r].pc # "idle"
        BY <1>4 DEF RunFault, RunAt, Reminding
    <2>2. run'[r] = IdleRun /\ (\A s \in Runs \ {r} : run'[s] = run[s]) /\ run' \in [Runs -> RunRecords]
        BY <1>0, <2>1 DEF TypeOK
    <2>3. Continues(r)
        BY <2>2, Constants DEF Continues, IdleRun, Holds
    <2>4. QED
        BY <2>1, <2>3, RemindContinues
<1>5. QED
    BY <1>2, <1>3, <1>4, RemindStart, RemindRemove, RemindMark, RemindRemind, RemindRequeue DEF RunStep

\* Every step keeps the invariant.
LEMMA RemindNext == RemindInv /\ [Next]_vars => RemindInv'
<1> SUFFICES ASSUME RemindInv, [Next]_vars PROVE RemindInv'
    OBVIOUS
<1>0. TypeOK'
    BY TypeNext DEF RemindInv
<1>1. CASE UNCHANGED vars
    <2>1. UNCHANGED Reminding /\ run' = run
        BY <1>1 DEF vars, Reminding
    <2>2. QED
        BY <1>0, <2>1, RemindElsewhere
<1>2. CASE World
    BY <1>0, <1>2, RemindWorld
<1>3. CASE \E r \in Runs : Start(r) \/ RunStep(r) \/ RunFault(r)
    BY <1>0, <1>3, RemindRun
<1>4. CASE \E h \in Handlers :
              \/ \E p \in Payments, reason \in Reasons : Click(h, p, reason)
              \/ \E u \in Users : Text(h, u)
              \/ HandlerStep(h) \/ HandlerFault(h)
    BY <1>0, <1>4, RemindHandler
<1>5. QED
    BY <1>1, <1>2, <1>3, <1>4 DEF Next

\* The reminder of an unpaid payment is delivered at most once, whatever the delays are
\* as long as the marker outlives the last run that may want to remind (TimesAssumption).
THEOREM PingsOnce == Spec => []PingedOnce
<1>1. RemindInv => PingedOnce
    BY DEF RemindInv, RemindsOnce, PingedOnce
<1>2. QED
    BY <1>1, RemindInit, RemindNext, PTL DEF Spec

----------------------------------------------------------------------------
(***************************************************************************)
(* The answers.  A handler past the check of a payment is the only one     *)
(* there and finds no answer when it writes, or the payment is contended.  *)
(***************************************************************************)

Buttons == \A h \in Handlers : handler[h].pc = "record" => handler[h].reason \in Reasons \ {Other}

OneWriter ==
    \A p \in Payments \ contended :
        /\ \A h \in Handlers :
              PastCheck(h, p) =>
                  /\ answer[p] = Nothing
                  /\ \A g \in Handlers : PastCheck(g, p) => g = h
        /\ writes[p] <= 1
        /\ answer[p] = Nothing => writes[p] = 0
        /\ p \in texts <=> answer[p] = Other

AnswerInv == TypeOK /\ Buttons /\ OneWriter

\* What the answers depend on.
Answers == <<answer, texts, writes, contended>>

\* Initially there is neither an answer nor a handler.
LEMMA AnswerInit == Init => AnswerInv
<1> SUFFICES ASSUME Init PROVE AnswerInv
    OBVIOUS
<1>0. TypeOK
    BY TypeInit
<1>1. \A h \in Handlers : handler[h].pc = "idle"
    BY DEF Init, IdleHandler
<1>2. \A p \in Payments : answer[p] = Nothing /\ p \notin texts /\ writes[p] = 0
    BY DEF Init
<1>3. Buttons /\ OneWriter
    BY <1>1, <1>2, Constants DEF Buttons, OneWriter, PastCheck
<1>4. QED
    BY <1>0, <1>3 DEF AnswerInv

\* A step after which no handler is past a check that was not past it before.
LEMMA AnswerQuiet ==
    ASSUME AnswerInv, TypeOK', UNCHANGED Answers,
           \A h \in Handlers, p \in Payments : PastCheck(h, p)' => PastCheck(h, p),
           \A h \in Handlers : handler'[h].pc = "record" => handler'[h].reason \in Reasons \ {Other}
    PROVE  AnswerInv'
<1>1. Buttons'
    BY DEF Buttons
<1>2. OneWriter'
    BY DEF AnswerInv, OneWriter, Answers
<1>3. QED
    BY <1>1, <1>2 DEF AnswerInv

\* A handler that has seen no answer goes on to write one, and says if it is not alone.
LEMMA AnswerCheck ==
    ASSUME AnswerInv, TypeOK', NEW h \in Handlers, NEW q \in Payments, Contend(q), ~Answered(q),
           UNCHANGED <<answer, texts, writes>>,
           \A p \in Payments : ~PastCheck(h, p),
           \A g \in Handlers \ {h} : handler'[g] = handler[g],
           handler'[h].payment = q,
           handler'[h].pc = "record" => handler'[h].reason \in Reasons \ {Other}
    PROVE  AnswerInv'
<1>0. TypeOK /\ Buttons /\ OneWriter
    BY DEF AnswerInv
<1>1. Buttons'
    BY <1>0 DEF Buttons
<1>2. OneWriter'
    <2> SUFFICES ASSUME NEW p \in Payments, p \notin contended'
                 PROVE  /\ \A g \in Handlers :
                              PastCheck(g, p)' =>
                                  /\ answer[p] = Nothing
                                  /\ \A o \in Handlers : PastCheck(o, p)' => o = g
                        /\ writes[p] <= 1
                        /\ answer[p] = Nothing => writes[p] = 0
                        /\ p \in texts <=> answer[p] = Other
        BY DEF OneWriter
    <2>0. p \notin contended
        BY DEF Contend
    <2>1. CASE p = q
        <3>1. \A g \in Handlers : ~PastCheck(g, q)
            BY <2>1 DEF Contend
        <3>2. \A g \in Handlers : PastCheck(g, q)' => g = h
            BY <3>1 DEF PastCheck
        <3>3. QED
            BY <1>0, <2>0, <2>1, <3>2 DEF OneWriter, Answered
    <2>2. CASE p # q
        <3>1. \A g \in Handlers : PastCheck(g, p)' => PastCheck(g, p)
            BY <2>2 DEF PastCheck
        <3>2. QED
            BY <1>0, <2>0, <3>1 DEF OneWriter
    <2>3. QED
        BY <2>1, <2>2
<1>3. QED
    BY <1>1, <1>2 DEF AnswerInv

\* The write of the only handler past the check is the only write.
LEMMA AnswerWrite ==
    ASSUME AnswerInv, TypeOK', NEW h \in Handlers, NEW q \in Payments, PastCheck(h, q),
           NEW reason \in Reasons, NEW withText \in BOOLEAN, withText <=> reason = Other,
           Write(q, reason, withText), contended' = contended,
           \A g \in Handlers \ {h} : handler'[g] = handler[g],
           handler'[h].pc \notin {"record", "write"}
    PROVE  AnswerInv'
<1>0. TypeOK /\ Buttons /\ OneWriter
    BY DEF AnswerInv
<1>1. Buttons'
    BY <1>0 DEF Buttons
<1>2. /\ answer'[q] = reason /\ writes'[q] = writes[q] + 1
      /\ \A p \in Payments \ {q} : answer'[p] = answer[p] /\ writes'[p] = writes[p]
      /\ texts' = IF withText THEN texts \cup {q} ELSE texts
    BY <1>0 DEF Write, TypeOK
<1>3. \A g \in Handlers, p \in Payments : PastCheck(g, p)' => PastCheck(g, p) /\ g # h
    BY DEF PastCheck
<1>4. OneWriter'
    <2> SUFFICES ASSUME NEW p \in Payments, p \notin contended
                 PROVE  /\ \A g \in Handlers :
                              PastCheck(g, p)' =>
                                  /\ answer'[p] = Nothing
                                  /\ \A o \in Handlers : PastCheck(o, p)' => o = g
                        /\ writes'[p] <= 1
                        /\ answer'[p] = Nothing => writes'[p] = 0
                        /\ p \in texts' <=> answer'[p] = Other
        BY DEF OneWriter
    <2>1. CASE p = q
        <3>1. answer[q] = Nothing /\ \A g \in Handlers : PastCheck(g, q) => g = h
            BY <1>0, <2>1 DEF OneWriter
        <3>2. writes[q] = 0 /\ q \notin texts
            BY <1>0, <2>1, <3>1, Constants DEF OneWriter
        <3>3. \A g \in Handlers : ~PastCheck(g, q)'
            BY <1>3, <3>1
        <3>4. QED
            BY <1>2, <2>1, <3>2, <3>3, Constants
    <2>2. CASE p # q
        BY <1>0, <1>2, <1>3, <2>2 DEF OneWriter
    <2>3. QED
        BY <2>1, <2>2
<1>5. QED
    BY <1>1, <1>4 DEF AnswerInv

\* Every step of a handler keeps the invariant.
LEMMA AnswerHandler ==
    ASSUME AnswerInv, TypeOK', NEW h \in Handlers,
           \/ \E p \in Payments, reason \in Reasons : Click(h, p, reason)
           \/ \E u \in Users : Text(h, u)
           \/ HandlerStep(h) \/ HandlerFault(h)
    PROVE  AnswerInv'
<1>0. TypeOK /\ Buttons /\ OneWriter
    BY DEF AnswerInv
<1>1. ASSUME NEW p \in Payments, NEW reason \in Reasons, Click(h, p, reason) PROVE AnswerInv'
    <2>1. /\ handler[h].pc = "idle" /\ ~Answered(p) /\ UNCHANGED <<answer, texts, writes>>
          /\ handler'[h].pc = (IF reason = Other THEN "prompt" ELSE "record")
          /\ handler'[h].payment = p /\ handler'[h].reason = reason
          /\ \A g \in Handlers \ {h} : handler'[g] = handler[g]
        BY <1>0, <1>1 DEF Click, HandlerAt, TypeOK
    <2>2. CASE reason = Other
        <3>1. UNCHANGED Answers
            BY <1>1, <2>2 DEF Click, Answers
        <3>2. \A g \in Handlers, q \in Payments : PastCheck(g, q)' => PastCheck(g, q)
            BY <2>1, <2>2 DEF PastCheck
        <3>3. QED
            BY <1>0, <2>1, <2>2, <3>1, <3>2, AnswerQuiet DEF Buttons
    <2>3. CASE reason # Other
        <3>1. Contend(p)
            BY <1>1, <2>3 DEF Click
        <3>2. \A q \in Payments : ~PastCheck(h, q)
            BY <2>1 DEF PastCheck
        <3>3. QED
            BY <2>1, <2>3, <3>1, <3>2, AnswerCheck
    <2>4. QED
        BY <2>2, <2>3
<1>2. ASSUME NEW u \in Users, Text(h, u) PROVE AnswerInv'
    <2>1. UNCHANGED Answers
        BY <1>2 DEF Text, Answers
    <2>2. handler'[h].pc = "text" /\ \A g \in Handlers \ {h} : handler'[g] = handler[g]
        BY <1>0, <1>2 DEF Text, TypeOK
    <2>3. \A g \in Handlers, q \in Payments : PastCheck(g, q)' => PastCheck(g, q)
        BY <2>2 DEF PastCheck
    <2>4. QED
        BY <1>0, <2>1, <2>2, <2>3, AnswerQuiet DEF Buttons
<1>3. CASE Prompt(h) \/ EditMessage(h) \/ Forget(h) \/ HandlerFault(h)
    <2>1. UNCHANGED Answers
        BY <1>3 DEF Prompt, EditMessage, Forget, HandlerFault, Answers
    <2>2. handler'[h].pc \in {"edit", "idle"} /\ \A g \in Handlers \ {h} : handler'[g] = handler[g]
        BY <1>0, <1>3 DEF Prompt, EditMessage, Forget, HandlerFault, HandlerGoto, HandlerEnd, IdleHandler,
                          TypeOK, HandlerRecords
    <2>3. \A g \in Handlers, q \in Payments : PastCheck(g, q)' => PastCheck(g, q)
        BY <2>2 DEF PastCheck
    <2>4. QED
        BY <1>0, <2>1, <2>2, <2>3, AnswerQuiet DEF Buttons
<1>4. CASE CheckText(h)
    <2>0. handler[h].pc = "text" /\ handler[h].payment \in Payments /\ handler[h] \in HandlerRecords
        BY <1>0, <1>4, HandlerHolds DEF CheckText, HandlerAt, TypeOK
    <2>1. CASE Answered(handler[h].payment)
        <3>1. UNCHANGED Answers
            BY <1>4, <2>1 DEF CheckText, Answers
        <3>2. handler'[h].pc = "forget" /\ \A g \in Handlers \ {h} : handler'[g] = handler[g]
            BY <1>0, <1>4, <2>0, <2>1 DEF CheckText, HandlerGoto, TypeOK, HandlerRecords
        <3>3. \A g \in Handlers, q \in Payments : PastCheck(g, q)' => PastCheck(g, q)
            BY <3>2 DEF PastCheck
        <3>4. QED
            BY <1>0, <3>1, <3>2, <3>3, AnswerQuiet DEF Buttons
    <2>2. CASE ~Answered(handler[h].payment)
        <3>1. Contend(handler[h].payment) /\ UNCHANGED <<answer, texts, writes>>
            BY <1>4, <2>2 DEF CheckText
        <3>2. /\ handler'[h].pc = "write" /\ handler'[h].payment = handler[h].payment
              /\ \A g \in Handlers \ {h} : handler'[g] = handler[g]
            BY <1>0, <1>4, <2>0, <2>2 DEF CheckText, HandlerGoto, TypeOK, HandlerRecords
        <3>3. \A q \in Payments : ~PastCheck(h, q)
            BY <2>0 DEF PastCheck
        <3>4. QED
            BY <2>0, <2>2, <3>1, <3>2, <3>3, AnswerCheck
    <2>3. QED
        BY <2>1, <2>2
<1>5. CASE Record(h)
    <2>1. /\ handler[h].pc = "record" /\ handler[h].payment \in Payments /\ handler[h] \in HandlerRecords
          /\ handler[h].reason \in Reasons \ {Other}
        BY <1>0, <1>5, HandlerHolds DEF Record, HandlerAt, TypeOK, Buttons
    <2>2. handler'[h].pc = "edit" /\ \A g \in Handlers \ {h} : handler'[g] = handler[g]
        BY <1>0, <1>5, <2>1 DEF Record, HandlerGoto, TypeOK, HandlerRecords
    <2>3. Write(handler[h].payment, handler[h].reason, FALSE) /\ contended' = contended
        BY <1>5 DEF Record
    <2>4. PastCheck(h, handler[h].payment)
        BY <2>1 DEF PastCheck
    <2>5. QED
        BY <2>1, <2>2, <2>3, <2>4, AnswerWrite
<1>6. CASE WriteText(h)
    <2>1. handler[h].pc = "write" /\ handler[h].payment \in Payments /\ handler[h] \in HandlerRecords
        BY <1>0, <1>6, HandlerHolds DEF WriteText, HandlerAt, TypeOK
    <2>2. handler'[h].pc = "forget" /\ \A g \in Handlers \ {h} : handler'[g] = handler[g]
        BY <1>0, <1>6, <2>1 DEF WriteText, HandlerGoto, TypeOK, HandlerRecords
    <2>3. Write(handler[h].payment, Other, TRUE) /\ contended' = contended
        BY <1>6 DEF WriteText
    <2>4. PastCheck(h, handler[h].payment)
        BY <2>1 DEF PastCheck
    <2>5. QED
        BY <2>1, <2>2, <2>3, <2>4, AnswerWrite, Constants
<1>7. QED
    BY <1>1, <1>2, <1>3, <1>4, <1>5, <1>6 DEF HandlerStep

\* Nobody else touches the answers or the handlers.
LEMMA AnswerOthers ==
    ASSUME AnswerInv, TypeOK',
           UNCHANGED vars \/ World \/ \E r \in Runs : Start(r) \/ RunStep(r) \/ RunFault(r)
    PROVE  AnswerInv'
<1>1. UNCHANGED Answers /\ handler' = handler
    BY DEF vars, World, Tick, Schedule, Settle, Lapse, Start, RunStep, Remove, ReadStatus, MarkPing,
           Remind, Requeue, CheckPaid, MarkSent, Send, RunFault, Answers
<1>2. \A h \in Handlers, p \in Payments : PastCheck(h, p)' <=> PastCheck(h, p)
    BY <1>1 DEF PastCheck
<1>3. QED
    BY <1>1, <1>2, AnswerQuiet DEF AnswerInv, Buttons

\* Every step keeps the invariant.
LEMMA AnswerNext == AnswerInv /\ [Next]_vars => AnswerInv'
<1> SUFFICES ASSUME AnswerInv, [Next]_vars PROVE AnswerInv'
    OBVIOUS
<1>0. TypeOK'
    BY TypeNext DEF AnswerInv
<1>1. QED
    BY <1>0, AnswerOthers, AnswerHandler DEF Next

\* However many handlers race, an answer is written once and has a text exactly when it
\* is Other, unless two of them were between the check and the write at once.
THEOREM AnswersAreOne == Spec => []AnswersAgree
<1>1. AnswerInv => AnswersAgree
    BY DEF AnswerInv, OneWriter, AnswersAgree
<1>2. QED
    BY <1>1, AnswerInit, AnswerNext, PTL DEF Spec
=============================================================================
