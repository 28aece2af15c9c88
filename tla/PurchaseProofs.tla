--------------------------- MODULE PurchaseProofs ---------------------------
(***************************************************************************)
(* Theorems about PurchaseProvisioning, for every set of users, payments,  *)
(* webhook handlers and workers and every bound.                           *)
(***************************************************************************)
EXTENDS PurchaseProvisioning, SequenceTheorems, FiniteSetTheorems, WellFoundedInduction, TLAPS

-----------------------------------------------------------------------------
(* Type correctness                                                        *)

\* The default values of the model belong to their types.
LEMMA BlankTypes == BlankEntry \in Entry /\ NoSub \in Snapshot /\ Uncached \in Snapshot
BY NonEmpty DEF BlankEntry, NoSub, Uncached, Entry, Snapshot, SubStatuses

\* The later of two days is a day.
LEMMA LaterType == \A a, b \in Nat : Later(a, b) \in Nat
BY DEF Later

\* What billing answers, from Redis or not, is a snapshot.
LEMMA SnapshotTypes ==
  ASSUME TypeOK
  PROVE  /\ \A u \in Users : CurrentSub(u) \in Snapshot
         /\ \A u \in Users : CachedSub(u) \in Snapshot
<1>1. \A id \in Nat : SnapshotOf(id) \in Snapshot
  <2> SUFFICES ASSUME NEW id \in Nat PROVE SnapshotOf(id) \in Snapshot
    OBVIOUS
  <2>1. CASE id \in DOMAIN subs
    <3>1. subs[id] \in SubRecord
      BY <2>1 DEF TypeOK, BillingType, StoreType
    <3> QED BY <2>1, <3>1 DEF SnapshotOf, Snapshot, SubRecord
  <2>2. CASE id \notin DOMAIN subs
    BY <2>2, BlankTypes DEF SnapshotOf
  <2> QED BY <2>1, <2>2
<1>2. \A u \in Users : CurrentSub(u) \in Snapshot
  BY <1>1 DEF CurrentSub, TypeOK, BillingType
<1> QED BY <1>2 DEF CachedSub, TypeOK, StoreType

\* What a handler computes from its message keeps to the types.
LEMMA HandlerTypes ==
  ASSUME TypeOK, NEW e \in Entry
  PROVE  NewExpire(e) \in Nat /\ NewStatus(e) \in SubStatuses /\ Touched(e) \in Entry
<1>1. /\ e.sub.expire \in Nat /\ now \in Nat /\ Days[e.pay] \in Nat
      /\ e.sub \in Snapshot /\ e.sub.status \in SubStatuses
  BY PaymentTypes DEF Entry, Snapshot, TypeOK, StoreType
<1>2. NewExpire(e) \in Nat
  <2>1. Later(e.sub.expire, now) \in Nat
    BY <1>1, LaterType
  <2> QED BY <1>1, <2>1 DEF NewExpire
<1>3. NewStatus(e) \in SubStatuses
  BY <1>1 DEF NewStatus, SubStatuses
<1>4. [e EXCEPT !.sub.expire = NewExpire(e)] \in Entry
  BY <1>2 DEF Entry, Snapshot
<1> QED BY <1>2, <1>3, <1>4 DEF Touched

\* Every start of the program is well typed.
LEMMA InitType == Init => TypeOK
<1> SUFFICES ASSUME Init PROVE TypeOK
  OBVIOUS
<1> USE BlankTypes
<1>1. panel \in [Users -> Account]
  <2> SUFFICES ASSUME NEW u \in Users
               PROVE [expire |-> IF current[u] = 0 THEN 0 ELSE StartSubs[current[u]].expire,
                      status |-> "ACTIVE"] \in Account
    BY DEF Init
  <2>1. CASE current[u] = 0
    BY <2>1 DEF Account, SubStatuses
  <2>2. CASE current[u] # 0
    <3>1. current[u] \in 1..Len(StartSubs)
      BY <2>2, StartTypes DEF Init
    <3>2. StartSubs[current[u]] \in SubRecord
      BY <3>1, StartTypes
    <3> QED BY <2>2, <3>2 DEF Account, SubStatuses, SubRecord
  <2> QED BY <2>1, <2>2
<1>2. current \in [Users -> Nat]
  BY StartTypes DEF Init
<1>3. HookType
  BY NonEmpty DEF Init, IdleHook, HookPcs, HookType
<1>4. RunType
  BY DEF Init, IdleRun, RunPcs, RunType, RunRecord
<1>5. banked \in [Users -> Nat]
  BY BoundTypes DEF Init
<1>6. BillingType
  BY <1>2, <1>5, StartTypes DEF Init, BillingType, Statuses, Kinds
<1>7. StoreType
  BY <1>1 DEF Init, StoreType
<1>8. HistoryType
  BY DEF Init, HistoryType
<1> QED BY <1>3, <1>4, <1>6, <1>7, <1>8 DEF TypeOK

\* The updates every action is made of keep the types of what they update.
LEMMA HookUpdates ==
  ASSUME HookType, NEW h \in Hooks
  PROVE  /\ HookEnd(h) => HookType'
         /\ \A pc \in HookPcs : HookGoto(h, pc) => HookType'
<1>1. HookEnd(h) => HookType'
  BY BlankTypes, NonEmpty DEF HookEnd, IdleHook, HookPcs, HookType
<1>2. ASSUME NEW pc \in HookPcs, HookGoto(h, pc) PROVE HookType'
  BY <1>2 DEF HookGoto, HookType
<1> QED BY <1>1, <1>2

\* The same for the updates of a task run.
LEMMA RunUpdates ==
  ASSUME RunType, NEW w \in Workers
  PROVE  /\ run' = [run EXCEPT ![w] = IdleRun] => RunType'
         /\ \A pc \in RunPcs : RunGoto(w, pc) => RunType'
<1>1. run' = [run EXCEPT ![w] = IdleRun] => RunType'
  BY BlankTypes DEF IdleRun, RunPcs, RunType, RunRecord
<1>2. ASSUME NEW pc \in RunPcs, RunGoto(w, pc) PROVE RunType'
  BY <1>2 DEF RunGoto, RunType, RunRecord
<1> QED BY <1>1, <1>2

\* A task run holds a message and works for that message's payment.
LEMMA RunFields ==
  ASSUME RunType, NEW w \in Workers
  PROVE  /\ run[w].e \in Entry /\ run[w].pc \in RunPcs
         /\ run[w].expire \in Nat /\ run[w].id \in Nat
         /\ RunPay(w) \in Payments /\ RunUser(w) \in Users /\ RunSub(w) \in Snapshot
<1>1. run[w] \in RunRecord
  BY DEF RunType
<1>2. run[w].e \in Entry /\ run[w].pc \in RunPcs /\ run[w].expire \in Nat /\ run[w].id \in Nat
  BY <1>1 DEF RunRecord
<1> QED BY <1>2, PaymentTypes DEF RunPay, RunUser, RunSub, Entry

\* Writing outside a sequence leaves it as it is.
LEMMA ExceptOutside ==
  ASSUME NEW S, NEW s \in Seq(S), NEW i, i \notin 1..Len(s), NEW e
  PROVE  [s EXCEPT ![i] = e] \in Seq(S)
<1>1. s \in [1..Len(s) -> S]
  BY LenProperties
<1>2. [s EXCEPT ![i] = e] \in [1..Len(s) -> S]
  BY <1>1
<1>3. Len(s) \in Nat
  BY LenProperties
<1> QED BY <1>2, <1>3, IsASeq, SeqDef

\* Writing one field of one subscription, or adding one, keeps subs a
\* sequence of subscriptions.
LEMMA SubsUpdates ==
  ASSUME subs \in Seq(SubRecord)
  PROVE  /\ \A id \in Nat : [subs EXCEPT ![id].status = "DISABLED"] \in Seq(SubRecord)
         /\ \A id, n \in Nat : [subs EXCEPT ![id].expire = n] \in Seq(SubRecord)
<1>1. \A i \in 1..Len(subs) : subs[i] \in SubRecord
  OBVIOUS
<1>2. ASSUME NEW id \in Nat PROVE [subs EXCEPT ![id].status = "DISABLED"] \in Seq(SubRecord)
  <2>1. CASE id \in 1..Len(subs)
    <3>1. [subs[id] EXCEPT !.status = "DISABLED"] \in SubRecord
      BY <1>1, <2>1 DEF SubRecord, SubStatuses
    <3> QED BY <2>1, <3>1, ExceptSeq
  <2>2. CASE id \notin 1..Len(subs)
    BY <2>2, ExceptOutside
  <2> QED BY <2>1, <2>2
<1>3. ASSUME NEW id \in Nat, NEW n \in Nat
      PROVE [subs EXCEPT ![id].expire = n] \in Seq(SubRecord)
  <2>1. CASE id \in 1..Len(subs)
    <3>1. [subs[id] EXCEPT !.expire = n] \in SubRecord
      BY <1>1, <2>1 DEF SubRecord
    <3> QED BY <2>1, <3>1, ExceptSeq
  <2>2. CASE id \notin 1..Len(subs)
    BY <2>2, ExceptOutside
  <2> QED BY <2>1, <2>2
<1> QED BY <1>2, <1>3

\* What an action leaves alone keeps its type.
LEMMA Unchanged ==
  /\ BillingType /\ UNCHANGED billing => BillingType'
  /\ StoreType /\ UNCHANGED <<panel, marked, cache, queue, now, faults>> => StoreType'
  /\ HookType /\ UNCHANGED hook => HookType'
  /\ RunType /\ UNCHANGED run => RunType'
  /\ HistoryType /\ UNCHANGED history => HistoryType'
<1>1. BillingType /\ UNCHANGED billing => BillingType'
  BY DEF BillingType, billing
<1>2. StoreType /\ UNCHANGED <<panel, marked, cache, queue, now, faults>> => StoreType'
  BY DEF StoreType, queue
<1>3. HookType /\ UNCHANGED hook => HookType'
  BY DEF HookType
<1>4. RunType /\ UNCHANGED run => RunType'
  BY DEF RunType
<1>5. HistoryType /\ UNCHANGED history => HistoryType'
  BY DEF HistoryType, history
<1> QED BY <1>1, <1>2, <1>3, <1>4, <1>5

\* The webhook side keeps the types.
LEMMA HookTypes ==
  ASSUME TypeOK, NEW h \in Hooks
  PROVE  /\ \A p \in Payments : Deliver(h, p) => TypeOK'
         /\ HookStep(h) => TypeOK'
         /\ HookFault(h) => TypeOK'
<1> USE Unchanged, HookUpdates DEF TypeOK
<1>h. hook[h].pay \in Payments /\ hook[h].sub \in Snapshot /\ HookUser(h) \in Users
  BY PaymentTypes DEF HookType, HookUser
<1>1. ASSUME NEW p \in Payments, Deliver(h, p) PROVE TypeOK'
  <2>1. HookType'
    BY <1>1, BlankTypes DEF Deliver, HookPcs, HookType
  <2> QED BY <1>1, <2>1 DEF Deliver
<1>2. CASE HookTransition(h)
  <2>1. BillingType'
    BY <1>2 DEF HookTransition, BillingType, Statuses
  <2>2. HookType'
    BY <1>2 DEF HookTransition, HookPcs
  <2> QED BY <1>2, <2>1, <2>2 DEF HookTransition
<1>3. CASE HookRefetch(h)
  <2>1. BillingType'
    BY <1>3 DEF HookRefetch, BillingType
  <2>2. HookType'
    BY <1>3 DEF HookRefetch, HookPcs
  <2> QED BY <1>3, <2>1, <2>2 DEF HookRefetch
<1>4. CASE HookCurrent(h)
  <2>1. CachedSub(HookUser(h)) \in Snapshot
    BY <1>h, SnapshotTypes
  <2>2. HookType'
    BY <1>4, <2>1 DEF HookCurrent, HookPcs, HookType
  <2> QED BY <1>4, <2>2 DEF HookCurrent
<1>5. CASE HookFill(h)
  <2>1. StoreType'
    BY <1>5, <1>h DEF HookFill, StoreType, queue
  <2>2. HookType'
    BY <1>5 DEF HookFill, HookPcs
  <2> QED BY <1>5, <2>1, <2>2 DEF HookFill
<1>6. CASE HookEnqueue(h)
  <2>1. nextId \in Nat
    BY DEF StoreType
  <2>2. [id |-> nextId, pay |-> hook[h].pay, try |-> 0, sub |-> hook[h].sub] \in Entry
    BY <1>h, <2>1 DEF Entry
  <2>3. StoreType'
    BY <1>6, <2>1, <2>2 DEF HookEnqueue, StoreType
  <2>4. HookType'
    BY <1>6 DEF HookEnqueue, HookPcs
  <2>5. HistoryType'
    BY <1>6, <1>h DEF HookEnqueue, HistoryType
  <2> QED BY <1>6, <2>3, <2>4, <2>5 DEF HookEnqueue
<1>7. CASE HookRewards(h)
  <2>1. HistoryType'
    BY <1>7, <1>h DEF HookRewards, HistoryType
  <2> QED BY <1>7, <2>1 DEF HookRewards
<1>8. CASE HookFault(h)
  <2>1. HistoryType'
    BY <1>8, <1>h DEF HookFault, HistoryType
  <2>2. StoreType'
    BY <1>8 DEF HookFault, StoreType, queue
  <2> QED BY <1>8, <2>1, <2>2 DEF HookFault
<1> QED BY <1>1, <1>2, <1>3, <1>4, <1>5, <1>6, <1>7, <1>8 DEF HookStep

\* Flushed rewards keep the types of the stores they write.
LEMMA FlushTypes ==
  ASSUME TypeOK, NEW u \in Users
  PROVE  /\ FlushBilling(u) => subs' \in Seq(SubRecord) /\ cache' \in [Users -> Snapshot]
         /\ FlushPanel(u) => panel' \in [Users -> Account]
<1>1. CachedSub(u) \in Snapshot
  BY SnapshotTypes
<1>2. FlushExpire(u) \in Nat
  <2>1. CachedSub(u).expire \in Nat /\ now \in Nat
    BY <1>1 DEF Snapshot, TypeOK, StoreType
  <2>2. Later(CachedSub(u).expire, now) \in Nat
    BY <2>1, LaterType
  <2> QED BY <2>2, BoundTypes DEF FlushExpire
<1>3. CachedSub(u).id \in Nat /\ CachedSub(u).status \in SubStatuses
  BY <1>1 DEF Snapshot
<1>4. ASSUME FlushBilling(u) PROVE subs' \in Seq(SubRecord) /\ cache' \in [Users -> Snapshot]
  BY <1>2, <1>3, <1>4, SubsUpdates, BlankTypes DEF FlushBilling, TypeOK, BillingType, StoreType
<1>5. ASSUME FlushPanel(u) PROVE panel' \in [Users -> Account]
  BY <1>2, <1>3, <1>5 DEF FlushPanel, Account, TypeOK, StoreType
<1> QED BY <1>4, <1>5

\* The panel call keeps the panel and the call counter in their types.
LEMMA MutatePanelTypes ==
  ASSUME TypeOK, NEW w \in Workers, MutatePanel(w)
  PROVE  panel' \in [Users -> Account] /\ mutated' \in [Payments -> Nat]
<1>1. run[w].e \in Entry /\ RunUser(w) \in Users /\ run[w].e.pay \in Payments
  BY RunFields DEF TypeOK, Entry
<1>2. [expire |-> NewExpire(run[w].e), status |-> NewStatus(run[w].e)] \in Account
  BY <1>1, HandlerTypes DEF Account
<1> QED BY <1>1, <1>2 DEF MutatePanel, TypeOK, StoreType, HistoryType

\* The steps of a task run keep the types.
LEMMA RunTypes ==
  ASSUME TypeOK, NEW w \in Workers
  PROVE  Take(w) \/ RunStep(w) => TypeOK'
<1> USE Unchanged, RunUpdates, RunFields DEF TypeOK
<1>1. CASE Take(w)
  <2>1. RunType'
    BY <1>1 DEF Take, RunPcs, RunType, RunRecord, StoreType
  <2> QED BY <1>1, <2>1 DEF Take
<1>2. CASE Check(w)
  BY <1>2 DEF Check, RunPcs, AfterHandler
<1>3. CASE Disable(w)
  <2>1. RunSub(w).id \in Nat
    BY DEF Snapshot
  <2>2. BillingType'
    BY <1>3, <2>1, SubsUpdates DEF Disable, BillingType
  <2> QED BY <1>3, <2>2 DEF Disable, RunPcs
<1>4. CASE Evict(w)
  <2>1. StoreType'
    BY <1>4, BlankTypes DEF Evict, StoreType, queue
  <2> QED BY <1>4, <2>1 DEF Evict, RunPcs, AfterHandler
<1>6. CASE Mutate(w)
  <2>1. RunType'
    <3>1. /\ run[w] \in RunRecord /\ NewExpire(run[w].e) \in Nat
          /\ Touched(run[w].e) \in Entry
      BY HandlerTypes DEF RunType, RunRecord
    <3>2. [run[w] EXCEPT !.pc = "mark", !.e = Touched(run[w].e),
                         !.expire = NewExpire(run[w].e)] \in RunRecord
      BY <3>1 DEF RunRecord, RunPcs
    <3>3. run' = [run EXCEPT ![w] =
                    [run[w] EXCEPT !.pc = "mark", !.e = Touched(run[w].e),
                                   !.expire = NewExpire(run[w].e)]]
      BY <1>6 DEF Mutate, RunType
    <3> QED BY <3>2, <3>3 DEF RunType
  <2>2. StoreType'
    BY <1>6, MutatePanelTypes DEF Mutate, StoreType, queue
  <2>3. HistoryType'
    BY <1>6, MutatePanelTypes DEF Mutate, HistoryType
  <2> QED BY <1>6, <2>1, <2>2, <2>3 DEF Mutate
<1>7. CASE MarkApplied(w)
  <2>1. StoreType'
    BY <1>7 DEF MarkApplied, StoreType, queue
  <2> QED BY <1>7, <2>1 DEF MarkApplied, RunPcs
<1>8. CASE Record(w)
  <2>1. RunSub(w).id \in Nat /\ subs \in Seq(SubRecord)
    BY DEF Snapshot, BillingType
  <2>2. [expire |-> run[w].expire, trial |-> FALSE, status |-> "ACTIVE"] \in SubRecord
    BY DEF SubRecord, SubStatuses
  <2>3. Append(subs, [expire |-> run[w].expire, trial |-> FALSE, status |-> "ACTIVE"])
          \in Seq(SubRecord)
    BY <2>1, <2>2, AppendProperties
  <2>4. Len(subs) + 1 \in Nat
    BY <2>1, LenProperties
  <2>5. BillingType'
    BY <1>8, <2>1, <2>3, SubsUpdates DEF Record, BillingType
  <2>6. RunType'
    <3>1. CASE Path(run[w].e) = "RENEW"
      BY <1>8, <3>1 DEF Record, RunPcs
    <3>2. CASE Path(run[w].e) # "RENEW"
      <4>1. [run[w] EXCEPT !.pc = "setCurrent", !.id = Len(subs) + 1] \in RunRecord
        BY <2>4 DEF RunType, RunRecord, RunPcs
      <4>2. run' = [run EXCEPT ![w] = [run[w] EXCEPT !.pc = "setCurrent", !.id = Len(subs) + 1]]
        BY <1>8, <3>2 DEF Record
      <4> QED BY <4>1, <4>2 DEF RunType
    <3> QED BY <3>1, <3>2
  <2> QED BY <1>8, <2>5, <2>6 DEF Record
<1>9. CASE SetCurrent(w)
  <2>1. BillingType'
    BY <1>9 DEF SetCurrent, BillingType
  <2> QED BY <1>9, <2>1 DEF SetCurrent, RunPcs
<1>10. CASE WrapUp(w)
  <2>1. StoreType'
    BY <1>10, SnapshotTypes DEF WrapUp, StoreType, queue
  <2> QED BY <1>10, <2>1 DEF WrapUp, RunPcs
<1>11. CASE Flush(w)
  <2>1. BillingType'
    <3>1. CASE Flushable(RunUser(w))
      <4>1. FlushBilling(RunUser(w)) /\ banked' = [banked EXCEPT ![RunUser(w)] = 0]
        BY <1>11, <3>1 DEF Flush
      <4>2. subs' \in Seq(SubRecord)
        BY <4>1, FlushTypes
      <4> QED BY <1>11, <4>1, <4>2 DEF Flush, BillingType
    <3>2. CASE ~Flushable(RunUser(w))
      BY <1>11, <3>2 DEF Flush, BillingType
    <3> QED BY <3>1, <3>2
  <2>2. StoreType'
    <3>1. CASE Flushable(RunUser(w))
      BY <1>11, <3>1, FlushTypes DEF Flush, StoreType, queue
    <3>2. CASE ~Flushable(RunUser(w))
      BY <1>11, <3>2 DEF Flush, StoreType, queue
    <3> QED BY <3>1, <3>2
  <2> QED BY <1>11, <2>1, <2>2 DEF Flush, RunPcs
<1>12. CASE Redirect(w)
  BY <1>12 DEF Redirect, RunPcs
<1>13. CASE Fail(w)
  <2>1. BillingType'
    BY <1>13 DEF Fail, BillingType, Statuses
  <2> QED BY <1>13, <2>1 DEF Fail, RunPcs
<1>14. CASE Ack(w)
  <2>1. StoreType'
    BY <1>14 DEF Ack, StoreType
  <2> QED BY <1>14, <2>1 DEF Ack
<1>15. CASE Retry(w)
  <2>1. CASE RetryAllowed(run[w].e)
    <3>1. PICK s \in {run[w].e.sub} \union Received(run[w].e) :
            /\ stream' = stream \union {[id |-> nextId, pay |-> run[w].e.pay,
                                         try |-> run[w].e.try + 1, sub |-> s]}
            /\ extra' = IF s \in Received(run[w].e) THEN extra
                        ELSE [extra EXCEPT ![RunUser(w)] = @ + Days[run[w].e.pay]]
      BY <1>15, <2>1 DEF Retry
    <3>2. s \in Snapshot /\ run[w].e.pay \in Payments /\ run[w].e.try \in Nat
      BY DEF Received, Entry, StoreType
    <3>3. nextId \in Nat /\ nextId' = nextId + 1
      BY <1>15, <2>1 DEF Retry, StoreType
    <3>4. [id |-> nextId, pay |-> run[w].e.pay, try |-> run[w].e.try + 1, sub |-> s] \in Entry
      BY <3>2, <3>3 DEF Entry
    <3>5. StoreType'
      BY <1>15, <3>1, <3>3, <3>4 DEF Retry, StoreType
    <3>6. Days[run[w].e.pay] \in Nat
      BY <3>2, PaymentTypes
    <3>7. extra' \in [Users -> Nat]
      BY <3>1, <3>6 DEF HistoryType
    <3>8. HistoryType'
      BY <1>15, <3>7 DEF Retry, HistoryType
    <3> QED BY <1>15, <2>1, <3>5, <3>8 DEF Retry, RunPcs
  <2>2. CASE ~RetryAllowed(run[w].e)
    <3>1. UNCHANGED <<panel, marked, cache, queue, now, faults>> /\ UNCHANGED history
      BY <1>15, <2>2 DEF Retry, history
    <3> QED BY <1>15, <2>2, <3>1 DEF Retry, RunPcs
  <2> QED BY <2>1, <2>2
<1> QED BY <1>1, <1>2, <1>3, <1>4, <1>6, <1>7, <1>8, <1>9, <1>10, <1>11, <1>12, <1>13,
           <1>14, <1>15 DEF RunStep

\* A step that fails keeps the types.
LEMMA FaultTypes ==
  ASSUME TypeOK, NEW w \in Workers
  PROVE  Raises(w) \/ MutateRaises(w) \/ FlushRaises(w) \/ FailRaises(w) \/ Crash(w) => TypeOK'
<1> USE Unchanged, RunUpdates, RunFields DEF TypeOK
<1>1. ASSUME NEW pc \in RunPcs, Fault(w, pc)
      PROVE  faults' \in Nat /\ halted' \in [Payments -> SUBSET (RunPcs \union {"hook"})]
  BY <1>1 DEF Fault, StoreType, HistoryType
<1>2. CASE Raises(w)
  <2>1. StoreType' /\ HistoryType'
    BY <1>1, <1>2 DEF Raises, StoreType, HistoryType, queue
  <2> QED BY <1>2, <2>1 DEF Raises, RunPcs
<1>3. CASE MutateRaises(w)
  <2>1. /\ faults' \in Nat /\ halted' \in [Payments -> SUBSET (RunPcs \union {"hook"})]
        /\ panel' \in [Users -> Account] /\ mutated' \in [Payments -> Nat]
    <3>1. CASE Fault(w, "mark") /\ MutatePanel(w)
      BY <1>1, <3>1, MutatePanelTypes DEF RunPcs
    <3>2. CASE Fault(w, "mutate") /\ UNCHANGED <<panel, mutated>>
      BY <1>1, <3>2 DEF RunPcs, StoreType, HistoryType
    <3> QED BY <1>3, <3>1, <3>2 DEF MutateRaises
  <2>2. StoreType' /\ HistoryType'
    BY <1>3, <2>1 DEF MutateRaises, StoreType, HistoryType, queue
  <2>3. RunType'
    BY <1>3, HandlerTypes DEF MutateRaises, RunType, RunRecord, RunPcs
  <2> QED BY <1>3, <2>2, <2>3 DEF MutateRaises
<1>4. CASE FlushRaises(w)
  <2>1. faults' \in Nat /\ halted' \in [Payments -> SUBSET (RunPcs \union {"hook"})]
    BY <1>1, <1>4 DEF FlushRaises, RunPcs
  <2>2. /\ subs' \in Seq(SubRecord) /\ cache' \in [Users -> Snapshot]
        /\ panel' \in [Users -> Account] /\ extra' \in [Users -> Nat]
    <3>1. CASE FlushBilling(RunUser(w)) /\ extra' = [extra EXCEPT ![RunUser(w)] = @ + RewardDays]
      <4>1. panel' \in [Users -> Account]
        BY <1>4, <3>1, FlushTypes DEF FlushRaises, StoreType, FlushBilling
      <4>2. subs' \in Seq(SubRecord) /\ cache' \in [Users -> Snapshot]
        BY <3>1, FlushTypes
      <4>3. extra' \in [Users -> Nat]
        BY <3>1, BoundTypes DEF HistoryType
      <4> QED BY <4>1, <4>2, <4>3
    <3>2. CASE UNCHANGED <<subs, cache, panel, extra>>
      BY <3>2 DEF BillingType, StoreType, HistoryType
    <3> QED BY <1>4, <3>1, <3>2 DEF FlushRaises
  <2>3. BillingType' /\ StoreType' /\ HistoryType'
    BY <1>4, <2>1, <2>2 DEF FlushRaises, BillingType, StoreType, HistoryType, queue
  <2> QED BY <1>4, <2>3 DEF FlushRaises, RunPcs
<1>5. CASE FailRaises(w)
  <2>1. BillingType'
    BY <1>5 DEF FailRaises, BillingType, Statuses
  <2>2. faults' \in Nat /\ halted' \in [Payments -> SUBSET (RunPcs \union {"hook"})]
    BY <1>1, <1>5 DEF FailRaises, RunPcs
  <2>3. StoreType' /\ HistoryType'
    BY <1>5, <2>2 DEF FailRaises, StoreType, HistoryType, queue
  <2> QED BY <1>5, <2>1, <2>3 DEF FailRaises, RunPcs
<1>6. CASE Crash(w)
  <2>1. StoreType' /\ HistoryType'
    BY <1>1, <1>6 DEF Crash, StoreType, HistoryType, queue
  <2> QED BY <1>6, <2>1 DEF Crash
<1> QED BY <1>2, <1>3, <1>4, <1>5, <1>6

\* Every step keeps the types.
LEMMA NextType == TypeOK /\ [Next]_vars => TypeOK'
<1> SUFFICES ASSUME TypeOK, [Next]_vars PROVE TypeOK'
  OBVIOUS
<1>1. ASSUME NEW p \in Payments, NEW k \in Kinds, CreatePayment(p, k) PROVE TypeOK'
  <2>1. BillingType'
    BY <1>1 DEF CreatePayment, TypeOK, BillingType, Statuses
  <2> QED BY <1>1, <2>1, Unchanged DEF CreatePayment, TypeOK
<1>2. ASSUME NEW p \in Payments, HandlePaymentCanceled(p) PROVE TypeOK'
  <2>1. BillingType'
    BY <1>2 DEF HandlePaymentCanceled, TypeOK, BillingType, Statuses
  <2> QED BY <1>2, <2>1, Unchanged DEF HandlePaymentCanceled, TypeOK
<1>3. CASE Tick
  <2>1. StoreType'
    BY <1>3, BlankTypes DEF Tick, TypeOK, StoreType, queue
  <2> QED BY <1>3, <2>1, Unchanged DEF Tick, TypeOK
<1>4. ASSUME NEW u \in Users, CacheExpires(u) PROVE TypeOK'
  <2>1. StoreType'
    BY <1>4, BlankTypes DEF CacheExpires, TypeOK, StoreType, queue
  <2> QED BY <1>4, <2>1, Unchanged DEF CacheExpires, TypeOK
<1>5. CASE UNCHANGED vars
  BY <1>5, Unchanged DEF vars, TypeOK
<1> QED
  BY <1>1, <1>2, <1>3, <1>4, <1>5, HookTypes, RunTypes, FaultTypes DEF Next

\* Every variable of the pipeline keeps to its type.
THEOREM TypeCorrect == Spec => []TypeOK
BY InitType, NextType, PTL DEF Spec

-----------------------------------------------------------------------------
(* One handler settles a payment                                           *)

\* What no step of a worker does, whatever it is and however it fails: touch
\* the webhook handlers, the kind or the counters of a payment, or anything of
\* another payment or worker; the only status it writes is FAILED.
WorkerFrame(w) ==
  /\ UNCHANGED <<kind, hook, enqueued, rewarded>>
  /\ \/ txStatus' = txStatus
     \/ Active(w) /\ txStatus' = [txStatus EXCEPT ![RunPay(w)] = "FAILED"]
  /\ \A v \in Workers : v # w => run'[v] = run[v]
  /\ \/ run'[w].pc = "idle"
     \/ run'[w].e \in stream
     \/ Active(w) /\ run'[w].e.pay = RunPay(w)
  /\ \A e \in stream' : e \in stream \/ (Active(w) /\ e.pay = RunPay(w))
  /\ \/ mutated' = mutated
     \/ Active(w) /\ mutated' = [mutated EXCEPT ![RunPay(w)] = @ + 1] /\ UNCHANGED txStatus
  /\ \A p \in marked' : p \in marked \/ (Active(w) /\ p = RunPay(w))

\* A move of the program counter keeps a run's message.
LEMMA GotoFrame ==
  ASSUME RunType, NEW w \in Workers, NEW pc \in RunPcs, RunGoto(w, pc)
  PROVE  /\ \A v \in Workers : v # w => run'[v] = run[v]
         /\ run'[w].e = run[w].e /\ run'[w].pc = pc
BY DEF RunGoto, RunType, RunRecord

\* The message as a handler leaves it is of the same payment.
LEMMA TouchedPay ==
  ASSUME NEW e \in Entry PROVE Touched(e).pay = e.pay /\ Touched(e).id = e.id
BY DEF Touched, Entry

\* Every step of a worker is framed.
LEMMA WorkerSteps ==
  ASSUME TypeOK, NEW w \in Workers,
         Take(w) \/ RunStep(w) \/ Raises(w) \/ MutateRaises(w) \/ FlushRaises(w)
           \/ FailRaises(w) \/ Crash(w)
  PROVE  WorkerFrame(w)
<1>t. RunType /\ run[w].e \in Entry /\ txStatus \in [Payments -> Statuses]
      /\ mutated \in [Payments -> Nat]
  BY RunFields DEF TypeOK, BillingType, HistoryType
<1>1. CASE Take(w)
  <2>1. PICK e \in stream :
          run' = [run EXCEPT ![w] = [pc |-> "check", e |-> e, expire |-> 0, id |-> 0]]
    BY <1>1 DEF Take
  <2>2. run'[w].e \in stream /\ \A v \in Workers : v # w => run'[v] = run[v]
    BY <2>1, <1>t DEF RunType
  <2> QED BY <1>1, <2>2 DEF Take, WorkerFrame, billing, queue, history
<1>2. CASE Check(w)
  <2>1. PICK pc \in RunPcs : RunGoto(w, pc)
    BY <1>2 DEF Check, RunPcs, AfterHandler
  <2> QED BY <1>2, <1>t, <2>1, GotoFrame
        DEF Check, RunAt, Active, RunPay, WorkerFrame, billing, queue, history
<1>3. CASE Disable(w)
  <2>1. RunGoto(w, "disableEvict") /\ "disableEvict" \in RunPcs
    BY <1>3 DEF Disable, RunPcs
  <2> QED BY <1>3, <1>t, <2>1, GotoFrame
        DEF Disable, RunAt, Active, RunPay, WorkerFrame, queue, history
<1>4. CASE Evict(w)
  <2>1. PICK pc \in RunPcs : RunGoto(w, pc)
    BY <1>4 DEF Evict, RunPcs, AfterHandler
  <2> QED BY <1>4, <1>t, <2>1, GotoFrame
        DEF Evict, Active, RunPay, WorkerFrame, billing, queue, history
<1>5. CASE Mutate(w)
  <2>1. /\ run'[w].e = Touched(run[w].e)
        /\ \A v \in Workers : v # w => run'[v] = run[v]
    BY <1>5, <1>t DEF Mutate, RunType, RunRecord
  <2>2. Active(w) /\ run'[w].e.pay = RunPay(w)
    BY <1>5, <1>t, <2>1, TouchedPay DEF Mutate, RunAt, Active, RunPay
  <2>3. mutated' = [mutated EXCEPT ![RunPay(w)] = @ + 1]
    BY <1>5 DEF Mutate, MutatePanel, RunPay
  <2> QED BY <1>5, <2>1, <2>2, <2>3 DEF Mutate, WorkerFrame, billing, queue
<1>6. CASE MarkApplied(w)
  <2>1. RunGoto(w, "record") /\ "record" \in RunPcs
    BY <1>6 DEF MarkApplied, RunPcs
  <2> QED BY <1>6, <1>t, <2>1, GotoFrame
        DEF MarkApplied, RunAt, Active, RunPay, WorkerFrame, billing, queue, history
<1>7. CASE Record(w)
  <2>1. run'[w].e = run[w].e /\ \A v \in Workers : v # w => run'[v] = run[v]
    BY <1>7, <1>t DEF Record, RunGoto, RunType, RunRecord
  <2> QED BY <1>7, <2>1 DEF Record, RunAt, Active, RunPay, WorkerFrame, queue, history
<1>8. CASE SetCurrent(w)
  <2>1. RunGoto(w, "evict") /\ "evict" \in RunPcs
    BY <1>8 DEF SetCurrent, RunPcs
  <2> QED BY <1>8, <1>t, <2>1, GotoFrame
        DEF SetCurrent, RunAt, Active, RunPay, WorkerFrame, queue, history
<1>9. CASE WrapUp(w)
  <2>1. RunGoto(w, "flush") /\ "flush" \in RunPcs
    BY <1>9 DEF WrapUp, RunPcs
  <2> QED BY <1>9, <1>t, <2>1, GotoFrame
        DEF WrapUp, RunAt, Active, RunPay, WorkerFrame, billing, queue, history
<1>10. CASE Flush(w)
  <2>1. RunGoto(w, "redirect") /\ "redirect" \in RunPcs
    BY <1>10 DEF Flush, RunPcs
  <2> QED BY <1>10, <1>t, <2>1, GotoFrame
        DEF Flush, RunAt, Active, RunPay, WorkerFrame, queue, history
<1>11. CASE Redirect(w)
  <2>1. RunGoto(w, "ack") /\ "ack" \in RunPcs
    BY <1>11 DEF Redirect, RunPcs
  <2> QED BY <1>11, <1>t, <2>1, GotoFrame
        DEF Redirect, RunAt, Active, RunPay, WorkerFrame, billing, queue, history
<1>12. CASE Fail(w)
  <2>1. RunGoto(w, "ack") /\ "ack" \in RunPcs
    BY <1>12 DEF Fail, RunPcs
  <2> QED BY <1>12, <1>t, <2>1, GotoFrame
        DEF Fail, RunAt, Active, RunPay, WorkerFrame, queue, history
<1>13. CASE Ack(w)
  <2>1. run'[w].pc = "idle" /\ \A v \in Workers : v # w => run'[v] = run[v]
    BY <1>13, <1>t DEF Ack, RunType, IdleRun
  <2> QED BY <1>13, <2>1 DEF Ack, Active, WorkerFrame, billing, history
<1>14. CASE Retry(w)
  <2>1. PICK pc \in RunPcs : RunGoto(w, pc)
    BY <1>14 DEF Retry, RunPcs
  <2>2. Active(w)
    BY <1>14 DEF Retry, RunAt, Active
  <2>3. \A e \in stream' : e \in stream \/ e.pay = RunPay(w)
    BY <1>14 DEF Retry, RunPay, queue
  <2> QED BY <1>14, <1>t, <2>1, <2>2, <2>3, GotoFrame
        DEF Retry, RunPay, WorkerFrame, billing, queue
<1>15. CASE Raises(w)
  <2>1. RunGoto(w, "fail") /\ "fail" \in RunPcs
    BY <1>15 DEF Raises, RunPcs
  <2> QED BY <1>15, <1>t, <2>1, GotoFrame
        DEF Raises, Active, RunPay, WorkerFrame, billing, queue
<1>16. CASE MutateRaises(w)
  <2>1. /\ run'[w].e = Touched(run[w].e)
        /\ \A v \in Workers : v # w => run'[v] = run[v]
    BY <1>16, <1>t DEF MutateRaises, RunType, RunRecord
  <2>2. Active(w) /\ run'[w].e.pay = RunPay(w)
    BY <1>16, <1>t, <2>1, TouchedPay DEF MutateRaises, RunAt, Active, RunPay
  <2>3. mutated' = mutated \/ mutated' = [mutated EXCEPT ![RunPay(w)] = @ + 1]
    BY <1>16 DEF MutateRaises, MutatePanel, RunPay
  <2> QED BY <1>16, <2>1, <2>2, <2>3 DEF MutateRaises, WorkerFrame, billing, queue
<1>17. CASE FlushRaises(w)
  <2>1. RunGoto(w, "redirect") /\ "redirect" \in RunPcs
    BY <1>17 DEF FlushRaises, RunPcs
  <2> QED BY <1>17, <1>t, <2>1, GotoFrame
        DEF FlushRaises, RunAt, Active, RunPay, WorkerFrame, queue
<1>18. CASE FailRaises(w)
  <2>1. RunGoto(w, "retry") /\ "retry" \in RunPcs
    BY <1>18 DEF FailRaises, RunPcs
  <2> QED BY <1>18, <1>t, <2>1, GotoFrame
        DEF FailRaises, RunAt, Active, RunPay, WorkerFrame, queue
<1>19. CASE Crash(w)
  <2>1. run'[w].pc = "idle" /\ \A v \in Workers : v # w => run'[v] = run[v]
    BY <1>19, <1>t DEF Crash, RunType, IdleRun
  <2> QED BY <1>19, <2>1 DEF Crash, WorkerFrame, billing, queue
<1> QED
  BY <1>1, <1>2, <1>3, <1>4, <1>5, <1>6, <1>7, <1>8, <1>9, <1>10, <1>11, <1>12, <1>13,
     <1>14, <1>15, <1>16, <1>17, <1>18, <1>19 DEF RunStep

\* No payment is settled, queued or worked on at the start.
LEMMA InitSettle == Init => SettleInv
BY DEF Init, SettleInv, HookInv, QueueInv, SettledOnce, Settling, HookAt, Active,
       IdleHook, IdleRun

\* A framed step keeps the invariant: it may only fail a payment already paid,
\* and everything it adds is of the payment its message was queued for.
LEMMA FrameSettle ==
  ASSUME TypeOK, SettleInv, NEW w \in Workers, WorkerFrame(w)
  PROVE  SettleInv'
<1>t. /\ txStatus \in [Payments -> Statuses] /\ stream \subseteq Entry
      /\ \A v \in Workers : RunPay(v) \in Payments
      /\ \A h \in Hooks : hook[h].pay \in Payments
      /\ mutated \in [Payments -> Nat]
  BY RunFields DEF TypeOK, BillingType, StoreType, HookType, HistoryType
<1>1. \A p \in Payments : txStatus[p] \in Paid => txStatus'[p] \in Paid
  BY <1>t DEF WorkerFrame, Paid
<1>2. HookInv'
  BY <1>t, <1>1 DEF SettleInv, HookInv, WorkerFrame, Settling, HookAt
<1>3. QueueInv'
  <2>1. \A p \in Payments : enqueued'[p] > 0 => txStatus'[p] \in Paid /\ kind'[p] # "TEST"
    BY <1>1 DEF SettleInv, QueueInv, WorkerFrame
  <2>2. \A e \in stream' : enqueued'[e.pay] = 1
    BY DEF SettleInv, QueueInv, WorkerFrame
  <2>3. \A v \in Workers : Active(v)' => enqueued'[RunPay(v)'] = 1
    BY DEF SettleInv, QueueInv, WorkerFrame, Active, RunPay
  <2>4. \A p \in Payments : mutated'[p] > 0 \/ p \in marked' => enqueued'[p] = 1
    BY <1>t DEF SettleInv, QueueInv, WorkerFrame
  <2> QED BY <2>1, <2>2, <2>3, <2>4 DEF QueueInv
<1>4. SettledOnce'
  BY DEF SettleInv, SettledOnce, WorkerFrame
<1> QED BY <1>2, <1>3, <1>4 DEF SettleInv

\* The invariant reads none of what the remaining steps change.
LEMMA StutterSettle ==
  ASSUME SettleInv,
         UNCHANGED <<txStatus, kind, hook, enqueued, rewarded, stream, run, mutated, marked>>
  PROVE  SettleInv'
BY DEF SettleInv, HookInv, QueueInv, SettledOnce, Settling, HookAt, Active, RunPay

\* The transition lets one handler through, and no handler queues twice.
LEMMA HookSettle ==
  ASSUME TypeOK, SettleInv, NEW h \in Hooks
  PROVE  /\ \A p \in Payments : Deliver(h, p) => SettleInv'
         /\ HookStep(h) => SettleInv'
         /\ HookFault(h) => SettleInv'
<1> DEFINE pay == hook[h].pay
<1>t. /\ txStatus \in [Payments -> Statuses]
      /\ hook \in [Hooks -> [pc : HookPcs, pay : Payments, sub : Snapshot]]
      /\ \A i \in Hooks : hook[i].pay \in Payments
      /\ enqueued \in [Payments -> Nat] /\ rewarded \in [Payments -> Nat]
      /\ HookInv /\ QueueInv /\ SettledOnce
  BY DEF TypeOK, BillingType, HookType, HistoryType, SettleInv
<1> USE <1>t
<1>q. ASSUME UNCHANGED <<txStatus, kind, enqueued, stream, run, mutated, marked>>
      PROVE  QueueInv'
  BY <1>q DEF QueueInv, Active, RunPay
<1>s. ASSUME UNCHANGED <<enqueued, rewarded>> PROVE SettledOnce'
  BY <1>s DEF SettledOnce
<1>h. ASSUME UNCHANGED <<txStatus, kind, enqueued, rewarded>>,
             \A i \in Hooks : i # h => hook'[i] = hook[i],
             ~Settling(h)'
      PROVE  HookInv'
  BY <1>h DEF HookInv, Settling, HookAt
<1>1. ASSUME NEW p \in Payments, Deliver(h, p) PROVE SettleInv'
  <2>1. ~Settling(h)' /\ \A i \in Hooks : i # h => hook'[i] = hook[i]
    BY <1>1 DEF Deliver, Settling
  <2> QED BY <1>1, <1>q, <1>s, <1>h, <2>1 DEF Deliver, SettleInv, billing, queue, history
<1>2. CASE HookTransition(h)
  <2>1. CASE txStatus[pay] = "PENDING"
    <3>1. /\ txStatus' = [txStatus EXCEPT ![pay] = "COMPLETED"]
          /\ hook' = [hook EXCEPT ![h].pc = "refetch"]
          /\ UNCHANGED <<kind, enqueued, rewarded, stream, run, mutated, marked>>
      BY <1>2, <2>1 DEF HookTransition, HookGoto, CanTransition, queue, history
    <3>2. enqueued[pay] = 0 /\ rewarded[pay] = 0
      BY <2>1 DEF QueueInv, SettledOnce, Paid
    <3>3. \A i \in Hooks : Settling(i) => hook[i].pay # pay
      BY <2>1 DEF HookInv, Paid
    <3>4. \A p \in Payments : txStatus[p] \in Paid => txStatus'[p] \in Paid
      BY <3>1 DEF Paid
    <3>5. \A i \in Hooks : Settling(i)' => i = h \/ (Settling(i) /\ hook'[i] = hook[i])
      BY <3>1 DEF Settling
    <3>6. hook'[h].pay = pay /\ hook'[h].pc = "refetch" /\ txStatus'[pay] \in Paid
      BY <3>1 DEF Paid
    <3>7. \A i \in Hooks : i # h => hook'[i] = hook[i]
      BY <3>1
    <3>8. HookInv'
      BY <3>1, <3>2, <3>3, <3>4, <3>5, <3>6, <3>7 DEF HookInv, HookAt, Settling
    <3>9. QueueInv'
      BY <3>1, <3>4 DEF QueueInv, Active, RunPay
    <3> QED BY <3>1, <3>8, <3>9, <1>s DEF SettleInv
  <2>2. CASE txStatus[pay] # "PENDING"
    <3>1. /\ UNCHANGED <<txStatus, kind, enqueued, rewarded, stream, run, mutated, marked>>
          /\ hook' = [hook EXCEPT ![h] = IdleHook]
      BY <1>2, <2>2 DEF HookTransition, HookEnd, CanTransition, queue, history
    <3>2. ~Settling(h)' /\ \A i \in Hooks : i # h => hook'[i] = hook[i]
      BY <3>1 DEF Settling, IdleHook
    <3> QED BY <1>q, <1>s, <1>h, <3>1, <3>2 DEF SettleInv
  <2> QED BY <2>1, <2>2
<1>3. CASE HookRefetch(h)
  <2>1. UNCHANGED <<txStatus, kind, enqueued, rewarded, stream, run, mutated, marked>>
    BY <1>3 DEF HookRefetch, queue, history
  <2>2. CASE kind[pay] = "TEST"
    <3>1. ~Settling(h)' /\ \A i \in Hooks : i # h => hook'[i] = hook[i]
      BY <1>3, <2>2 DEF HookRefetch, HookEnd, Settling, IdleHook
    <3> QED BY <1>q, <1>s, <1>h, <2>1, <3>1 DEF SettleInv
  <2>3. CASE kind[pay] # "TEST"
    <3>1. hook' = [hook EXCEPT ![h].pc = "current"] /\ hook[h].pc = "refetch"
      BY <1>3, <2>3 DEF HookRefetch, HookGoto, HookAt
    <3>2. HookInv'
      BY <2>1, <2>3, <3>1 DEF HookInv, Settling, HookAt
    <3> QED BY <1>q, <1>s, <2>1, <3>2 DEF SettleInv
  <2> QED BY <2>2, <2>3
<1>4. CASE HookCurrent(h)
  <2>1. UNCHANGED <<txStatus, kind, enqueued, rewarded, stream, run, mutated, marked>>
    BY <1>4 DEF HookCurrent, billing, queue, history
  <2>2. PICK pc \in {"fill", "enqueue"} :
          hook' = [hook EXCEPT ![h].sub = CachedSub(HookUser(h)), ![h].pc = pc]
    BY <1>4 DEF HookCurrent
  <2>3. /\ hook'[h].pay = pay /\ hook'[h].pc \in {"fill", "enqueue"} /\ hook[h].pc = "current"
        /\ \A i \in Hooks : i # h => hook'[i] = hook[i]
    BY <1>4, <2>2 DEF HookCurrent, HookAt
  <2>4. HookInv'
    BY <2>1, <2>3 DEF HookInv, Settling, HookAt
  <2> QED BY <1>q, <1>s, <2>1, <2>4 DEF SettleInv
<1>5. CASE HookFill(h)
  <2>1. UNCHANGED <<txStatus, kind, enqueued, rewarded, stream, run, mutated, marked>>
    BY <1>5 DEF HookFill, billing, queue, history
  <2>2. hook' = [hook EXCEPT ![h].pc = "enqueue"] /\ hook[h].pc = "fill"
    BY <1>5 DEF HookFill, HookGoto, HookAt
  <2>3. HookInv'
    BY <2>1, <2>2 DEF HookInv, Settling, HookAt
  <2> QED BY <1>q, <1>s, <2>1, <2>3 DEF SettleInv
<1>6. CASE HookEnqueue(h)
  <2>1. /\ hook[h].pc = "enqueue"
        /\ enqueued' = [enqueued EXCEPT ![pay] = @ + 1]
        /\ UNCHANGED <<txStatus, kind, rewarded, run, mutated, marked>>
        /\ \A e \in stream' : e \in stream \/ e.pay = pay
    BY <1>6 DEF HookEnqueue, HookAt, billing
  <2>2. enqueued[pay] = 0 /\ txStatus[pay] \in Paid /\ kind[pay] # "TEST" /\ rewarded[pay] = 0
    BY <2>1 DEF HookInv, Settling, HookAt
  <2>3. enqueued'[pay] = 1 /\ \A p \in Payments : p # pay => enqueued'[p] = enqueued[p]
    BY <2>1, <2>2
  <2>4. /\ \A i \in Hooks : i # h => hook'[i] = hook[i]
        /\ Settling(h)' => hook'[h].pc = "rewards" /\ hook'[h].pay = pay
    BY <1>6 DEF HookEnqueue, HookEnd, HookGoto, IdleHook, Settling
  <2>5. \A i \in Hooks : i # h /\ Settling(i) => hook[i].pay # pay
    BY <2>1 DEF HookInv, Settling
  <2>6. HookInv'
    BY <2>1, <2>2, <2>3, <2>4, <2>5 DEF HookInv, Settling, HookAt
  <2>7. QueueInv'
    <3>1. \A e \in stream : e.pay # pay
      BY <2>2 DEF QueueInv
    <3>2. \A v \in Workers : Active(v) => RunPay(v) # pay /\ RunPay(v) \in Payments
      BY <2>2, RunFields DEF QueueInv, TypeOK
    <3>3. \A e \in stream : e.pay \in Payments
      BY DEF TypeOK, StoreType, Entry
    <3> QED BY <2>1, <2>2, <2>3, <3>1, <3>2, <3>3 DEF QueueInv, Active, RunPay
  <2>8. SettledOnce'
    BY <2>1, <2>2, <2>3 DEF SettledOnce
  <2> QED BY <2>6, <2>7, <2>8 DEF SettleInv
<1>7. CASE HookRewards(h)
  <2>1. /\ hook[h].pc = "rewards" /\ hook' = [hook EXCEPT ![h] = IdleHook]
        /\ rewarded' = [rewarded EXCEPT ![pay] = @ + 1]
        /\ UNCHANGED <<txStatus, kind, enqueued, stream, run, mutated, marked>>
    BY <1>7 DEF HookRewards, HookEnd, HookAt, billing, queue
  <2>2. enqueued[pay] = 1 /\ rewarded[pay] = 0
    BY <2>1 DEF HookInv, Settling, HookAt
  <2>3. \A i \in Hooks : i # h /\ Settling(i) => hook[i].pay # pay
    BY <2>1 DEF HookInv, Settling
  <2>4. HookInv'
    BY <2>1, <2>3 DEF HookInv, Settling, HookAt, IdleHook
  <2>5. SettledOnce'
    BY <2>1, <2>2 DEF SettledOnce
  <2> QED BY <1>q, <2>1, <2>4, <2>5 DEF SettleInv
<1>8. CASE HookFault(h)
  <2>1. /\ UNCHANGED <<txStatus, kind, enqueued, rewarded, stream, run, mutated, marked>>
        /\ hook' = [hook EXCEPT ![h] = IdleHook]
    BY <1>8 DEF HookFault, HookEnd, billing, queue
  <2>2. ~Settling(h)' /\ \A i \in Hooks : i # h => hook'[i] = hook[i]
    BY <2>1 DEF Settling, IdleHook
  <2> QED BY <1>q, <1>s, <1>h, <2>1, <2>2 DEF SettleInv
<1> QED BY <1>1, <1>2, <1>3, <1>4, <1>5, <1>6, <1>7, <1>8 DEF HookStep

\* Opening or canceling a payment changes nothing of a paid one.
LEMMA OpenSettle ==
  ASSUME TypeOK, SettleInv, NEW p \in Payments
  PROVE  /\ \A k \in Kinds : CreatePayment(p, k) => SettleInv'
         /\ HandlePaymentCanceled(p) => SettleInv'
<1>t. /\ txStatus \in [Payments -> Statuses] /\ kind \in [Payments -> Kinds]
      /\ \A i \in Hooks : hook[i].pay \in Payments
      /\ HookInv /\ QueueInv /\ SettledOnce
  BY DEF TypeOK, BillingType, HookType, SettleInv
<1>1. ASSUME txStatus[p] \notin Paid, NEW k \in Kinds, NEW s,
             txStatus' = [txStatus EXCEPT ![p] = s],
             kind' = [kind EXCEPT ![p] = k] \/ kind' = kind,
             UNCHANGED <<hook, enqueued, rewarded, stream, run, mutated, marked>>
      PROVE  SettleInv'
  <2>1. \A q \in Payments : txStatus[q] \in Paid => txStatus'[q] = txStatus[q] /\ kind'[q] = kind[q]
    BY <1>1, <1>t
  <2>2. \A i \in Hooks : Settling(i) => txStatus[hook[i].pay] \in Paid
    BY <1>t DEF HookInv
  <2>3. HookInv'
    <3>1. \A i \in Hooks : hook[i].pc \in {"current", "fill", "enqueue"} => Settling(i)
      BY DEF Settling
    <3> QED BY <1>1, <1>t, <2>1, <2>2, <3>1 DEF HookInv, Settling, HookAt
  <2>4. QueueInv'
    BY <1>1, <1>t, <2>1 DEF QueueInv, Active, RunPay
  <2>5. SettledOnce'
    BY <1>1, <1>t DEF SettledOnce
  <2> QED BY <2>3, <2>4, <2>5 DEF SettleInv
<1>2. ASSUME NEW k \in Kinds, CreatePayment(p, k) PROVE SettleInv'
  BY <1>1, <1>2 DEF CreatePayment, Paid, queue, history
<1>3. ASSUME HandlePaymentCanceled(p) PROVE SettleInv'
  BY <1>1, <1>3 DEF HandlePaymentCanceled, CanTransition, Paid, Kinds, queue, history
<1> QED BY <1>2, <1>3

\* Every step keeps the invariant.
LEMMA NextSettle == TypeOK /\ SettleInv /\ [Next]_vars => SettleInv'
<1> SUFFICES ASSUME TypeOK, SettleInv, [Next]_vars PROVE SettleInv'
  OBVIOUS
<1>1. CASE Tick
  BY <1>1, StutterSettle DEF Tick, billing, queue, history
<1>2. ASSUME NEW u \in Users, CacheExpires(u) PROVE SettleInv'
  BY <1>2, StutterSettle DEF CacheExpires, billing, queue, history
<1>3. CASE UNCHANGED vars
  BY <1>3, StutterSettle DEF vars, billing, queue, history
<1>4. ASSUME NEW w \in Workers,
             Take(w) \/ RunStep(w) \/ Raises(w) \/ MutateRaises(w) \/ FlushRaises(w)
               \/ FailRaises(w) \/ Crash(w)
      PROVE SettleInv'
  BY <1>4, WorkerSteps, FrameSettle
<1> QED BY <1>1, <1>2, <1>3, <1>4, OpenSettle, HookSettle DEF Next

\* The invariant says what the two safety properties say.
LEMMA SettleImplies == TypeOK /\ SettleInv => ProvisionedOnlyIfPaid /\ SettledOnce
BY DEF SettleInv, QueueInv, ProvisionedOnlyIfPaid, TypeOK, HistoryType

\* However often a payment is reported and whatever fails, one handler queues
\* its task and assigns its rewards, in that order.
THEOREM SettlesOnce == Spec => []SettledOnce
BY InitType, NextType, InitSettle, NextSettle, SettleImplies, PTL DEF Spec

\* The panel is changed and the marker set for settled payments only.
THEOREM ProvisionsPaid == Spec => []ProvisionedOnlyIfPaid
BY InitType, NextType, InitSettle, NextSettle, SettleImplies, PTL DEF Spec

-----------------------------------------------------------------------------
(* The pipeline implements the ledger                                      *)

\* The payments the abstract ledger sees as provisioned.
Provisioned == {p \in Payments : mutated[p] > 0}

\* Nothing is provisioned at the start.
LEMMA InitLedger == Init => Ledger!Init
BY DEF Init, Ledger!Init

\* A step of a worker fails a paid payment, provisions one, or does neither.
LEMMA FrameLedger ==
  ASSUME TypeOK, SettleInv, NEW w \in Workers, WorkerFrame(w)
  PROVE  [Ledger!Next]_<<txStatus, Provisioned>>
<1>t. /\ txStatus \in [Payments -> Statuses] /\ mutated \in [Payments -> Nat]
      /\ RunPay(w) \in Payments
  BY RunFields DEF TypeOK, BillingType, HistoryType
<1>1. Active(w) => txStatus[RunPay(w)] \in Paid
  BY <1>t DEF SettleInv, QueueInv
<1>2. CASE mutated' = mutated
  <2>1. UNCHANGED Provisioned
    BY <1>2 DEF Provisioned
  <2>2. CASE txStatus' = txStatus
    BY <2>1, <2>2
  <2>3. CASE Active(w) /\ txStatus' = [txStatus EXCEPT ![RunPay(w)] = "FAILED"]
    <3>1. CASE txStatus[RunPay(w)] = "FAILED"
      BY <1>t, <2>1, <2>3, <3>1
    <3>2. CASE txStatus[RunPay(w)] = "COMPLETED"
      BY <1>t, <2>1, <2>3, <3>2 DEF Ledger!Next, Ledger!Fail, Provisioned
    <3> QED BY <1>1, <2>3, <3>1, <3>2 DEF Paid
  <2> QED BY <2>2, <2>3 DEF WorkerFrame
<1>3. CASE Active(w) /\ mutated' = [mutated EXCEPT ![RunPay(w)] = @ + 1]
           /\ UNCHANGED txStatus
  <2>1. Provisioned' = Provisioned \union {RunPay(w)}
    BY <1>t, <1>3 DEF Provisioned
  <2> QED BY <1>t, <1>1, <1>3, <2>1 DEF Ledger!Next, Ledger!Provision, Provisioned, Paid
<1> QED BY <1>2, <1>3 DEF WorkerFrame

\* Every step is a step of the ledger or leaves it as it is.
LEMMA NextLedger ==
  TypeOK /\ SettleInv /\ [Next]_vars => [Ledger!Next]_<<txStatus, Provisioned>>
<1> SUFFICES ASSUME TypeOK, SettleInv, [Next]_vars
             PROVE  [Ledger!Next]_<<txStatus, Provisioned>>
  OBVIOUS
<1> USE DEF Provisioned, billing, queue, history
<1>1. ASSUME NEW p \in Payments, NEW k \in Kinds, CreatePayment(p, k)
      PROVE  [Ledger!Next]_<<txStatus, Provisioned>>
  BY <1>1 DEF CreatePayment, Ledger!Next, Ledger!Open
<1>2. ASSUME NEW p \in Payments, HandlePaymentCanceled(p)
      PROVE  [Ledger!Next]_<<txStatus, Provisioned>>
  BY <1>2 DEF HandlePaymentCanceled, CanTransition, Ledger!Next, Ledger!Close
<1>3. ASSUME NEW h \in Hooks, NEW p \in Payments, Deliver(h, p)
      PROVE  UNCHANGED <<txStatus, mutated>>
  BY <1>3 DEF Deliver
<1>4. ASSUME NEW h \in Hooks, HookStep(h)
      PROVE  [Ledger!Next]_<<txStatus, Provisioned>>
  <2>1. CASE HookTransition(h)
    <3>1. hook[h].pay \in Payments
      BY DEF TypeOK, HookType
    <3> QED BY <2>1, <3>1 DEF HookTransition, CanTransition, Ledger!Next, Ledger!Close
  <2>2. CASE ~HookTransition(h)
    <3>1. UNCHANGED <<txStatus, mutated>>
      BY <1>4, <2>2 DEF HookStep, HookRefetch, HookCurrent, HookFill, HookEnqueue, HookRewards
    <3> QED BY <3>1
  <2> QED BY <2>1, <2>2
<1>5. ASSUME NEW h \in Hooks, HookFault(h) PROVE UNCHANGED <<txStatus, mutated>>
  BY <1>5 DEF HookFault
<1>6. Tick \/ (\E u \in Users : CacheExpires(u)) \/ UNCHANGED vars
        => UNCHANGED <<txStatus, mutated>>
  BY DEF Tick, CacheExpires, vars
<1>7. UNCHANGED <<txStatus, mutated>> => [Ledger!Next]_<<txStatus, Provisioned>>
  OBVIOUS
<1>8. ASSUME NEW w \in Workers,
             Take(w) \/ RunStep(w) \/ Raises(w) \/ MutateRaises(w) \/ FlushRaises(w)
               \/ FailRaises(w) \/ Crash(w)
      PROVE  [Ledger!Next]_<<txStatus, Provisioned>>
  <2>1. WorkerFrame(w)
    BY <1>8, WorkerSteps
  <2> QED BY <2>1, FrameLedger
<1> QED BY <1>1, <1>2, <1>3, <1>4, <1>5, <1>6, <1>7, <1>8 DEF Next

\* The pipeline implements the ledger: a payment's status only moves forward,
\* and what is provisioned was paid and stays provisioned.
THEOREM ImplementsLedger == Spec => LedgerSpec
<1>1. Init => TypeOK /\ SettleInv
  BY InitType, InitSettle
<1>2. TypeOK /\ SettleInv /\ [Next]_vars => (TypeOK /\ SettleInv)'
  BY NextType, NextSettle
<1>3. Spec => [](TypeOK /\ SettleInv)
  BY <1>1, <1>2, PTL DEF Spec
<1>4. Spec => [][Ledger!Next]_<<txStatus, Provisioned>>
  BY <1>3, NextLedger, PTL DEF Spec
<1> QED BY <1>4, InitLedger, PTL DEF Spec, LedgerSpec, Ledger!Spec, Provisioned

-----------------------------------------------------------------------------
(* One panel call per payment, outside the two gaps                        *)

PreCall == {"disable", "disableEvict", "mutate"}

\* A step of a run that keeps its message and changes nothing of another
\* payment; what it does to its own matters only if the payment was not exposed.
QuietStep(w, p) ==
  /\ Active(w) /\ p = RunPay(w)
  /\ UNCHANGED <<stream, nextId>>
  /\ \A v \in Workers : v # w => run'[v] = run[v]
  /\ run'[w].pc = "idle" \/ (run'[w].e.id = run[w].e.id /\ run'[w].e.pay = p)
  /\ \A q \in Payments : Exposed(q) => Exposed(q)'
  /\ \A q \in Payments : q # p => mutated'[q] = mutated[q] /\ (q \in marked' <=> q \in marked)
  /\ \/ Exposed(p)'
     \/ /\ mutated'[p] = mutated[p] /\ (p \in marked' <=> p \in marked)
        /\ run[w].pc \notin {"mark", "drop"} /\ run'[w].pc \notin {"mark", "drop"}
        /\ run'[w].pc \in PreCall => run[w].pc \in PreCall

\* Two runs of one payment hold one message, so they are one run, while the
\* payment is not exposed and neither is about to drop its message.
LEMMA OneLiveRun ==
  ASSUME TypeOK, GuardInv, NEW v \in Workers, NEW w \in Workers,
         Active(v), Active(w), run[v].pc # "drop", run[w].pc # "drop",
         RunPay(v) = RunPay(w), ~Exposed(RunPay(w))
  PROVE  v = w
<1>1. PICK e \in stream : e.id = run[v].e.id /\ e.pay = RunPay(v)
  BY DEF GuardInv, StreamInv
<1>2. PICK f \in stream : f.id = run[w].e.id /\ f.pay = RunPay(w)
  BY DEF GuardInv, StreamInv
<1>3. ~Dropping(e)
  BY <1>1 DEF GuardInv, StreamInv, Dropping, RunAt, Active
<1>4. ~Dropping(f)
  BY <1>2 DEF GuardInv, StreamInv, Dropping, RunAt, Active
<1>5. e = f
  BY <1>1, <1>2, <1>3, <1>4 DEF GuardInv, OneLiveMessage
<1> QED BY <1>1, <1>2, <1>5 DEF GuardInv, StreamInv

\* A message a run holds is of the run's payment.
LEMMA HeldPay ==
  ASSUME TypeOK, GuardInv, NEW w \in Workers, Active(w), NEW e \in stream, run[w].e.id = e.id
  PROVE  e.pay = RunPay(w)
BY DEF GuardInv, StreamInv

\* Quiet steps keep the guard's invariant.
LEMMA QuietGuard ==
  ASSUME TypeOK, GuardInv, NEW w \in Workers, NEW p \in Payments, QuietStep(w, p)
  PROVE  GuardInv'
<1>t. /\ \A v \in Workers : RunPay(v) \in Payments /\ run[v].e \in Entry
      /\ stream \subseteq Entry
  BY RunFields DEF TypeOK, StoreType
<1>e. \A e \in stream : e.pay \in Payments
  BY <1>t DEF Entry
<1>1. StreamInv'
  <2>1. \A v \in Workers : Active(v)' =>
          Active(v) /\ run'[v].e.id = run[v].e.id /\ RunPay(v)' = RunPay(v)
    BY DEF QuietStep, Active, RunPay
  <2> QED BY <2>1 DEF GuardInv, StreamInv, QuietStep
<1>2. ASSUME NEW e \in stream, ~Exposed(e.pay)' PROVE Dropping(e)' <=> Dropping(e)
  <2>1. run[w].e.id = e.id => e.pay = RunPay(w)
    BY HeldPay DEF QuietStep
  <2>2. RunAt(w, "drop") /\ run[w].e.id = e.id => FALSE
    BY <1>2, <2>1 DEF QuietStep, RunAt
  <2>3. RunAt(w, "drop")' /\ run'[w].e.id = e.id => FALSE
    BY <1>2, <2>1 DEF QuietStep, RunAt
  <2> QED BY <2>2, <2>3 DEF QuietStep, Dropping, RunAt
<1>3. OneLiveMessage'
  BY <1>2, <1>e DEF GuardInv, OneLiveMessage, QuietStep
<1>4. OneMutation'
  <2>1. ASSUME NEW q \in Payments, ~Exposed(q)'
        PROVE  mutated'[q] = 0 \/ (mutated'[q] = 1 /\ (q \in marked' \/ Marking(q)'))
    <3>1. ~Exposed(q) /\ mutated'[q] = mutated[q] /\ (q \in marked' <=> q \in marked)
      BY <2>1 DEF QuietStep
    <3>2. Marking(q) => Marking(q)'
      BY <2>1 DEF QuietStep, Marking, RunAt, RunPay
    <3> QED BY <3>1, <3>2 DEF GuardInv, OneMutation
  <2>2. ASSUME NEW v \in Workers, run'[v].pc \in PreCall, ~Exposed(RunPay(v))'
        PROVE  mutated'[RunPay(v)'] = 0 /\ RunPay(v)' \notin marked'
    <3>0. PICK q \in Payments : q = RunPay(v)
      BY <1>t
    <3>1. RunPay(v)' = q
      BY <2>2, <3>0 DEF QuietStep, RunPay, PreCall
    <3>2. ~Exposed(q)'
      BY <2>2, <3>1 DEF Exposed
    <3>3. run[v].pc \in PreCall /\ ~Exposed(q)
      BY <2>2, <3>0, <3>2 DEF QuietStep
    <3>4. mutated[q] = 0 /\ q \notin marked
      BY <3>0, <3>3 DEF GuardInv, OneMutation, PreCall
    <3>5. mutated'[q] = mutated[q] /\ (q \in marked' <=> q \in marked)
      BY <3>2 DEF QuietStep
    <3> QED BY <3>1, <3>4, <3>5
  <2> QED BY <2>1, <2>2 DEF OneMutation, PreCall
<1> QED BY <1>1, <1>3, <1>4 DEF GuardInv

\* A run that is stopped in one of the two gaps exposes its payment.
LEMMA FaultExposes ==
  ASSUME TypeOK, NEW w \in Workers, NEW where, Fault(w, where)
  PROVE  /\ \A q \in Payments : Exposed(q) => Exposed(q)'
         /\ where \in {"mark", "drop"} => \A q \in Payments : q = RunPay(w) => Exposed(q)'
<1>1. /\ halted' = [halted EXCEPT ![RunPay(w)] = @ \union {where}]
      /\ DOMAIN halted = Payments /\ RunPay(w) \in Payments
  BY RunFields DEF Fault, TypeOK, HistoryType
<1> QED BY <1>1 DEF Exposed

\* A worker's steps other than taking, checking, mutating, marking, retrying
\* and acking are quiet.
LEMMA QuietSteps ==
  ASSUME TypeOK, NEW w \in Workers, NEW p \in Payments, p = RunPay(w),
         \/ Disable(w) \/ Evict(w) \/ Record(w) \/ SetCurrent(w) \/ WrapUp(w) \/ Flush(w)
         \/ Redirect(w) \/ Fail(w)
         \/ Raises(w) \/ MutateRaises(w) \/ FlushRaises(w) \/ FailRaises(w) \/ Crash(w)
  PROVE  QuietStep(w, p)
<1>t. RunType /\ run[w].e \in Entry /\ mutated \in [Payments -> Nat]
  BY RunFields DEF TypeOK, HistoryType
<1>g. ASSUME NEW pc \in RunPcs \ {"mark", "drop"}, RunGoto(w, pc), Active(w),
             pc \in PreCall => run[w].pc \in PreCall,
             UNCHANGED <<stream, nextId, mutated, marked>>,
             \A q \in Payments : Exposed(q) => Exposed(q)',
             run[w].pc \notin {"mark", "drop"} \/ Exposed(p)'
      PROVE  QuietStep(w, p)
  <2>1. /\ \A v \in Workers : v # w => run'[v] = run[v]
        /\ run'[w].e = run[w].e /\ run'[w].pc = pc
    BY <1>t, <1>g, GotoFrame
  <2> QED BY <1>g, <2>1 DEF QuietStep, RunPay
<1>h. UNCHANGED halted => \A q \in Payments : Exposed(q) => Exposed(q)'
  BY DEF Exposed
<1>1. CASE Disable(w)
  BY <1>1, <1>g, <1>h DEF Disable, RunAt, Active, RunPcs, PreCall, queue, history
<1>2. CASE Evict(w)
  <2>1. PICK pc \in {"wrapUp", "flush", "mutate"} :
          RunGoto(w, pc) /\ (pc = "mutate" => run[w].pc = "disableEvict")
    BY <1>2 DEF Evict, AfterHandler, RunAt
  <2> QED BY <1>2, <1>g, <1>h, <2>1 DEF Evict, Active, RunPcs, PreCall, queue, history
<1>3. CASE Record(w)
  <2>1. CASE Path(run[w].e) = "RENEW"
    BY <1>3, <1>g, <1>h, <2>1 DEF Record, RunAt, Active, RunPcs, PreCall, queue, history
  <2>2. CASE Path(run[w].e) # "RENEW"
    <3>1. /\ run' = [run EXCEPT ![w].pc = "setCurrent", ![w].id = Len(subs) + 1]
          /\ run[w].pc = "record"
          /\ UNCHANGED <<stream, nextId, mutated, marked, halted>>
      BY <1>3, <2>2 DEF Record, RunAt, queue, history
    <3>2. run'[w].pc = "setCurrent" /\ run'[w].e = run[w].e
          /\ \A v \in Workers : v # w => run'[v] = run[v]
      BY <1>t, <3>1 DEF RunType, RunRecord
    <3> QED BY <1>h, <3>1, <3>2 DEF QuietStep, Active, RunPay, PreCall
  <2> QED BY <2>1, <2>2
<1>4. CASE SetCurrent(w)
  BY <1>4, <1>g, <1>h DEF SetCurrent, RunAt, Active, RunPcs, PreCall, queue, history
<1>5. CASE WrapUp(w)
  BY <1>5, <1>g, <1>h DEF WrapUp, RunAt, Active, RunPcs, PreCall, queue, history
<1>6. CASE Flush(w)
  BY <1>6, <1>g, <1>h DEF Flush, RunAt, Active, RunPcs, PreCall, queue, history
<1>7. CASE Redirect(w)
  BY <1>7, <1>g, <1>h DEF Redirect, RunAt, Active, RunPcs, PreCall, queue, history
<1>8. CASE Fail(w)
  BY <1>8, <1>g, <1>h DEF Fail, RunAt, Active, RunPcs, PreCall, queue, history
<1>9. CASE Raises(w)
  <2>1. run[w].pc \notin {"mark", "drop"} \/ Exposed(p)'
    BY <1>9, FaultExposes DEF Raises
  <2>2. \A q \in Payments : Exposed(q) => Exposed(q)'
    BY <1>9, FaultExposes DEF Raises
  <2> QED BY <1>9, <1>g, <2>1, <2>2 DEF Raises, Active, RunPcs, PreCall, queue
<1>10. CASE MutateRaises(w)
  <2>1. /\ run'[w].e = Touched(run[w].e) /\ run'[w].pc = "fail"
        /\ \A v \in Workers : v # w => run'[v] = run[v]
        /\ run[w].pc = "mutate" /\ UNCHANGED <<stream, nextId, marked>>
    BY <1>10, <1>t DEF MutateRaises, RunType, RunRecord, RunAt, queue
  <2>2. run'[w].e.id = run[w].e.id /\ run'[w].e.pay = p
    BY <1>t, <2>1, TouchedPay DEF RunPay
  <2>3. CASE Fault(w, "mark") /\ MutatePanel(w)
    <3>1. Exposed(p)' /\ \A q \in Payments : Exposed(q) => Exposed(q)'
      BY <2>3, FaultExposes
    <3>2. \A q \in Payments : q # p => mutated'[q] = mutated[q]
      BY <1>t, <2>3 DEF MutatePanel, RunPay
    <3> QED BY <2>1, <2>2, <3>1, <3>2 DEF QuietStep, Active
  <2>4. CASE Fault(w, "mutate") /\ UNCHANGED <<panel, mutated>>
    <3>1. \A q \in Payments : Exposed(q) => Exposed(q)'
      BY <2>4, FaultExposes
    <3> QED BY <2>1, <2>2, <2>4, <3>1 DEF QuietStep, Active, PreCall
  <2> QED BY <1>10, <2>3, <2>4 DEF MutateRaises
<1>11. CASE FlushRaises(w)
  <2>1. \A q \in Payments : Exposed(q) => Exposed(q)'
    BY <1>11, FaultExposes DEF FlushRaises
  <2> QED BY <1>11, <1>g, <2>1 DEF FlushRaises, RunAt, Active, RunPcs, PreCall, queue
<1>12. CASE FailRaises(w)
  <2>1. \A q \in Payments : Exposed(q) => Exposed(q)'
    BY <1>12, FaultExposes DEF FailRaises
  <2> QED BY <1>12, <1>g, <2>1 DEF FailRaises, RunAt, Active, RunPcs, PreCall, queue
<1>13. CASE Crash(w)
  <2>1. run[w].pc \notin {"mark", "drop"} \/ Exposed(p)'
    BY <1>13, FaultExposes DEF Crash
  <2>2. \A q \in Payments : Exposed(q) => Exposed(q)'
    BY <1>13, FaultExposes DEF Crash
  <2>3. run'[w].pc = "idle" /\ \A v \in Workers : v # w => run'[v] = run[v]
    BY <1>13, <1>t DEF Crash, RunType, IdleRun
  <2> QED BY <1>13, <2>1, <2>2, <2>3 DEF Crash, RunAt, Active, QuietStep, PreCall, queue
<1> QED BY <1>1, <1>2, <1>3, <1>4, <1>5, <1>6, <1>7, <1>8, <1>9, <1>10, <1>11, <1>12, <1>13

\* The invariant reads the runs, the stream, the markers and what is exposed.
LEMMA StutterGuard ==
  ASSUME GuardInv, UNCHANGED <<stream, nextId, run, mutated, marked>>,
         \A q \in Payments : Exposed(q) => Exposed(q)',
         TypeOK
  PROVE  GuardInv'
<1>t. /\ \A e \in stream : e.pay \in Payments
      /\ \A w \in Workers : RunPay(w) \in Payments
  BY RunFields DEF TypeOK, StoreType, Entry
<1>1. StreamInv'
  BY DEF GuardInv, StreamInv, Active, RunPay
<1>2. OneLiveMessage'
  BY <1>t DEF GuardInv, OneLiveMessage, Dropping, RunAt
<1>3. OneMutation'
  <2>1. ASSUME NEW w \in Workers, NEW q \in Payments, q = RunPay(w), ~Exposed(RunPay(w))'
        PROVE  ~Exposed(q) /\ RunPay(w)' = q
    <3>1. RunPay(w)' = q
      BY <2>1 DEF RunPay
    <3>2. ~Exposed(q)'
      BY <2>1, <3>1 DEF Exposed
    <3> QED BY <3>1, <3>2
  <2>2. ASSUME NEW w \in Workers, run'[w].pc \in PreCall, ~Exposed(RunPay(w))'
        PROVE  mutated'[RunPay(w)'] = 0 /\ RunPay(w)' \notin marked'
    BY <1>t, <2>1, <2>2 DEF GuardInv, OneMutation, PreCall
  <2> QED BY <2>2 DEF GuardInv, OneMutation, Marking, RunAt, RunPay, PreCall
<1> QED BY <1>1, <1>2, <1>3 DEF GuardInv

\* Queueing a payment for the first time adds its only message.
LEMMA EnqueueGuard ==
  ASSUME TypeOK, SettleInv, GuardInv, NEW h \in Hooks, HookEnqueue(h)
  PROVE  GuardInv'
<1> DEFINE new == [id |-> nextId, pay |-> hook[h].pay, try |-> 0, sub |-> hook[h].sub]
<1>1. /\ stream' = stream \union {new} /\ nextId' = nextId + 1
      /\ UNCHANGED <<run, mutated, marked, halted>>
  BY DEF HookEnqueue
<1>2. /\ nextId \in Nat /\ \A e \in stream : e.id \in Nat /\ e.pay # hook[h].pay
  <2>1. enqueued[hook[h].pay] = 0
    BY DEF HookEnqueue, HookAt, Settling, SettleInv, HookInv
  <2> QED BY <2>1 DEF SettleInv, QueueInv, TypeOK, StoreType, Entry
<1>3. StreamInv'
  <2>1. /\ \A e \in stream' : e.id < nextId'
        /\ \A e, f \in stream' : e.id = f.id => e = f
    BY <1>1, <1>2 DEF GuardInv, StreamInv
  <2>2. \A w \in Workers : Active(w)' =>
          /\ \E e \in stream' : e.id = run'[w].e.id /\ e.pay = RunPay(w)'
          /\ \A v \in Workers : Active(v)' /\ run'[v].e.id = run'[w].e.id => v = w
    BY <1>1 DEF GuardInv, StreamInv, Active, RunPay
  <2> QED BY <2>1, <2>2 DEF StreamInv
<1>4. OneLiveMessage'
  BY <1>1, <1>2 DEF GuardInv, OneLiveMessage, Dropping, RunAt, Exposed
<1>5. OneMutation'
  BY <1>1 DEF GuardInv, OneMutation, Exposed, Marking, RunAt, RunPay
<1> QED BY <1>3, <1>4, <1>5 DEF GuardInv

\* Taking a message nobody holds makes it held by one run.
LEMMA TakeGuard ==
  ASSUME TypeOK, GuardInv, NEW w \in Workers, Take(w)
  PROVE  GuardInv'
<1>1. PICK e \in stream :
        /\ \A v \in Workers : RunAt(v, "idle") \/ run[v].e.id # e.id
        /\ run' = [run EXCEPT ![w] = [pc |-> "check", e |-> e, expire |-> 0, id |-> 0]]
        /\ run[w].pc = "idle"
        /\ UNCHANGED <<stream, nextId, mutated, marked, halted>>
  BY DEF Take, RunAt, queue, history
<1>2. /\ run'[w].pc = "check" /\ run'[w].e = e
      /\ \A v \in Workers : v # w => run'[v] = run[v]
  BY <1>1 DEF TypeOK, RunType
<1>3. StreamInv'
  BY <1>1, <1>2 DEF GuardInv, StreamInv, Active, RunAt, RunPay
<1>4. \A f \in stream : Dropping(f)' <=> Dropping(f)
  BY <1>1, <1>2 DEF Dropping, RunAt
<1>5. OneLiveMessage'
  BY <1>1, <1>4 DEF GuardInv, OneLiveMessage, Exposed
<1>6. OneMutation'
  BY <1>1, <1>2 DEF GuardInv, OneMutation, Exposed, Marking, RunAt, RunPay
<1> QED BY <1>3, <1>5, <1>6 DEF GuardInv

\* A run that keeps its message, and is not about to drop it before or after,
\* keeps what the invariant says of the messages.
LEMMA KeptMessage ==
  ASSUME TypeOK, GuardInv, NEW w \in Workers, NEW pc \in RunPcs \ {"drop"}, NEW f \in Entry,
         Active(w), run[w].pc # "drop", f.id = run[w].e.id, f.pay = RunPay(w),
         \A v \in Workers : v # w => run'[v] = run[v],
         run'[w].pc = pc, run'[w].e = f, UNCHANGED <<stream, nextId, halted>>
  PROVE  StreamInv' /\ OneLiveMessage'
<1>1. \A v \in Workers : Active(v)' =>
        Active(v) /\ run'[v].e.id = run[v].e.id /\ RunPay(v)' = RunPay(v)
  BY DEF Active, RunPay
<1>2. StreamInv'
  BY <1>1 DEF GuardInv, StreamInv
<1>3. \A e \in stream : Dropping(e)' <=> Dropping(e)
  BY DEF Dropping, RunAt
<1>4. OneLiveMessage'
  BY <1>3 DEF GuardInv, OneLiveMessage, Exposed
<1> QED BY <1>2, <1>4

\* The check lets a run pass only while nothing was done for its payment.
LEMMA CheckGuard ==
  ASSUME TypeOK, GuardInv, NEW w \in Workers, Check(w)
  PROVE  GuardInv'
<1>1. PICK pc \in RunPcs \ {"mark", "drop"} :
        RunGoto(w, pc) /\ (pc \in PreCall => RunPay(w) \notin marked)
  BY DEF Check, AfterHandler, RunPcs, PreCall
<1>2. /\ run[w].pc = "check" /\ UNCHANGED <<stream, nextId, mutated, marked, halted>>
      /\ RunType /\ run[w].e \in Entry /\ RunPay(w) \in Payments
  BY RunFields DEF Check, RunAt, queue, history, TypeOK
<1>3. /\ \A v \in Workers : v # w => run'[v] = run[v]
      /\ run'[w].e = run[w].e /\ run'[w].pc = pc
  BY <1>1, <1>2, GotoFrame
<1>4. StreamInv' /\ OneLiveMessage'
  BY <1>1, <1>2, <1>3, KeptMessage DEF Active, RunPay
<1>5. ASSUME pc \in PreCall, ~Exposed(RunPay(w)) PROVE mutated[RunPay(w)] = 0
  <2>1. ~Marking(RunPay(w))
    BY <1>2, <1>5, OneLiveRun DEF Marking, RunAt, Active
  <2> QED BY <1>1, <1>2, <1>5, <2>1 DEF GuardInv, OneMutation
<1>6. OneMutation'
  BY <1>1, <1>2, <1>3, <1>5 DEF GuardInv, OneMutation, Exposed, Marking, RunAt, RunPay, PreCall
<1> QED BY <1>4, <1>6 DEF GuardInv

\* The panel is called by the only run of the payment, once.
LEMMA MutateGuard ==
  ASSUME TypeOK, GuardInv, NEW w \in Workers, Mutate(w)
  PROVE  GuardInv'
<1>1. /\ run[w].pc = "mutate" /\ UNCHANGED <<stream, nextId, marked, halted>>
      /\ RunType /\ run[w].e \in Entry /\ RunPay(w) \in Payments /\ mutated \in [Payments -> Nat]
  BY RunFields DEF Mutate, RunAt, queue, TypeOK, HistoryType
<1>2. /\ \A v \in Workers : v # w => run'[v] = run[v]
      /\ run'[w].e = Touched(run[w].e) /\ run'[w].pc = "mark"
  BY <1>1 DEF Mutate, RunType, RunRecord
<1>3. /\ Touched(run[w].e) \in Entry /\ Touched(run[w].e).id = run[w].e.id
      /\ Touched(run[w].e).pay = RunPay(w)
  BY <1>1, HandlerTypes, TouchedPay DEF RunPay
<1>4. StreamInv' /\ OneLiveMessage'
  <2>1. "mark" \in RunPcs \ {"drop"} /\ Active(w)
    BY <1>1 DEF RunPcs, Active
  <2> QED BY <1>1, <1>2, <1>3, <2>1, KeptMessage
<1>5. mutated' = [mutated EXCEPT ![RunPay(w)] = @ + 1]
  BY DEF Mutate, MutatePanel, RunPay
<1>6. ASSUME ~Exposed(RunPay(w)), NEW v \in Workers, run[v].pc \in PreCall,
             RunPay(v) = RunPay(w)
      PROVE  v = w
  BY <1>1, <1>6, OneLiveRun DEF PreCall, Active
<1>7. OneMutation'
  <2>1. ASSUME NEW p \in Payments, ~Exposed(p)'
        PROVE  mutated'[p] = 0 \/ (mutated'[p] = 1 /\ (p \in marked' \/ Marking(p)'))
    <3>0. ~Exposed(p)
      BY <1>1, <2>1 DEF Exposed
    <3>1. CASE p = RunPay(w)
      <4>1. mutated[p] = 0
        BY <1>1, <3>0, <3>1 DEF GuardInv, OneMutation
      <4>2. Marking(p)'
        BY <1>2, <1>3, <3>1 DEF Marking, RunAt, RunPay
      <4> QED BY <1>1, <1>5, <3>1, <4>1, <4>2
    <3>2. CASE p # RunPay(w)
      <4>1. Marking(p) => Marking(p)'
        BY <1>1, <1>2 DEF Marking, RunAt, RunPay
      <4> QED BY <1>1, <1>5, <3>0, <3>2, <4>1 DEF GuardInv, OneMutation
    <3> QED BY <3>1, <3>2
  <2>2. ASSUME NEW v \in Workers, run'[v].pc \in PreCall, ~Exposed(RunPay(v))'
        PROVE  mutated'[RunPay(v)'] = 0 /\ RunPay(v)' \notin marked'
    <3>1. v # w /\ run'[v] = run[v]
      BY <1>2, <2>2 DEF PreCall
    <3>2. RunPay(v)' = RunPay(v) /\ ~Exposed(RunPay(v))
      BY <1>1, <2>2, <3>1 DEF RunPay, Exposed
    <3>3. RunPay(v) # RunPay(w)
      BY <1>6, <2>2, <3>1, <3>2
    <3>4. mutated[RunPay(v)] = 0 /\ RunPay(v) \notin marked
      BY <2>2, <3>1, <3>2 DEF GuardInv, OneMutation, PreCall
    <3>5. RunPay(v) \in Payments
      BY RunFields DEF TypeOK
    <3> QED BY <1>1, <1>5, <3>2, <3>3, <3>4, <3>5
  <2> QED BY <2>1, <2>2 DEF OneMutation, PreCall
<1> QED BY <1>4, <1>7 DEF GuardInv

\* The marker is set by the only run of the payment.
LEMMA MarkGuard ==
  ASSUME TypeOK, GuardInv, NEW w \in Workers, MarkApplied(w)
  PROVE  GuardInv'
<1>1. /\ run[w].pc = "mark" /\ UNCHANGED <<stream, nextId, mutated, halted>>
      /\ marked' = marked \union {RunPay(w)} /\ RunGoto(w, "record")
      /\ RunType /\ run[w].e \in Entry
      /\ \A v \in Workers : RunPay(v) \in Payments
  BY RunFields DEF MarkApplied, RunAt, queue, history, TypeOK
<1>2. /\ \A v \in Workers : v # w => run'[v] = run[v]
      /\ run'[w].e = run[w].e /\ run'[w].pc = "record"
  BY <1>1, GotoFrame DEF RunPcs
<1>3. StreamInv' /\ OneLiveMessage'
  <2>1. "record" \in RunPcs \ {"drop"} /\ Active(w)
    BY <1>1 DEF RunPcs, Active
  <2> QED BY <1>1, <1>2, <2>1, KeptMessage DEF RunPay
<1>4. ASSUME ~Exposed(RunPay(w)), NEW v \in Workers, run[v].pc \in PreCall
      PROVE  RunPay(v) # RunPay(w)
  BY <1>1, <1>4, OneLiveRun DEF PreCall, Active
<1>5. OneMutation'
  <2>1. ASSUME NEW p \in Payments, ~Exposed(p)'
        PROVE  mutated'[p] = 0 \/ (mutated'[p] = 1 /\ (p \in marked' \/ Marking(p)'))
    <3>1. Marking(p) => Marking(p)' \/ p \in marked'
      BY <1>1, <1>2 DEF Marking, RunAt, RunPay
    <3> QED BY <1>1, <2>1, <3>1 DEF GuardInv, OneMutation, Exposed
  <2>2. ASSUME NEW v \in Workers, run'[v].pc \in PreCall, ~Exposed(RunPay(v))'
        PROVE  mutated'[RunPay(v)'] = 0 /\ RunPay(v)' \notin marked'
    <3>1. v # w /\ run'[v] = run[v]
      BY <1>2, <2>2 DEF PreCall
    <3>2. RunPay(v)' = RunPay(v) /\ ~Exposed(RunPay(v))
      BY <1>1, <2>2, <3>1 DEF RunPay, Exposed
    <3>3. RunPay(v) # RunPay(w)
      BY <1>4, <2>2, <3>1, <3>2
    <3> QED BY <1>1, <2>2, <3>1, <3>2, <3>3 DEF GuardInv, OneMutation, PreCall
  <2> QED BY <2>1, <2>2 DEF OneMutation, PreCall
<1> QED BY <1>3, <1>5 DEF GuardInv

\* A retry adds a message and leaves the one it replaces about to be dropped.
LEMMA RetryGuard ==
  ASSUME TypeOK, GuardInv, NEW w \in Workers, Retry(w)
  PROVE  GuardInv'
<1>1. /\ run[w].pc = "retry" /\ UNCHANGED <<mutated, marked, halted>>
      /\ RunType /\ run[w].e \in Entry /\ RunPay(w) \in Payments /\ nextId \in Nat
      /\ stream \subseteq Entry
  BY RunFields DEF Retry, RunAt, TypeOK, StoreType
<1>2. CASE RetryAllowed(run[w].e)
  <2>1. PICK s \in {run[w].e.sub} \union Received(run[w].e) :
          stream' = stream \union {[id |-> nextId, pay |-> run[w].e.pay,
                                    try |-> run[w].e.try + 1, sub |-> s]}
    BY <1>2 DEF Retry
  <2> DEFINE new == [id |-> nextId, pay |-> run[w].e.pay, try |-> run[w].e.try + 1, sub |-> s]
  <2>2. /\ stream' = stream \union {new} /\ nextId' = nextId + 1 /\ RunGoto(w, "drop")
        /\ new.id = nextId /\ new.pay = RunPay(w)
    BY <1>2, <2>1 DEF Retry, RunPay
  <2> HIDE DEF new
  <2>3. /\ \A v \in Workers : v # w => run'[v] = run[v]
        /\ run'[w].e = run[w].e /\ run'[w].pc = "drop"
    BY <1>1, <2>2, GotoFrame DEF RunPcs
  <2>4. \A e \in stream : e.id < nextId /\ e.id # nextId /\ e.id \in Nat
    BY <1>1 DEF GuardInv, StreamInv, Entry
  <2>5. StreamInv'
    <3>1. /\ \A e \in stream' : e.id < nextId'
          /\ \A e, f \in stream' : e.id = f.id => e = f
      BY <1>1, <2>2, <2>4 DEF GuardInv, StreamInv
    <3>2. \A v \in Workers : Active(v)' =>
            Active(v) /\ run'[v].e.id = run[v].e.id /\ RunPay(v)' = RunPay(v)
      BY <1>1, <2>3 DEF Active, RunPay
    <3>3. \A v \in Workers : Active(v)' =>
            /\ \E e \in stream' : e.id = run'[v].e.id /\ e.pay = RunPay(v)'
            /\ \A u \in Workers : Active(u)' /\ run'[u].e.id = run'[v].e.id => u = v
      BY <2>2, <3>2 DEF GuardInv, StreamInv
    <3> QED BY <3>1, <3>3 DEF StreamInv
  <2>6. OneLiveMessage'
    <3>1. PICK m \in stream : m.id = run[w].e.id /\ m.pay = RunPay(w)
      BY <1>1 DEF GuardInv, StreamInv, Active
    <3>2. ~Dropping(m) /\ Dropping(m)'
      BY <1>1, <2>3, <3>1 DEF GuardInv, StreamInv, Dropping, RunAt, Active
    <3>3. \A e \in stream : Dropping(e) => Dropping(e)'
      BY <1>1, <2>3 DEF Dropping, RunAt
    <3>4. ASSUME NEW e \in stream, e.pay = RunPay(w), ~Exposed(e.pay), ~Dropping(e)'
          PROVE  FALSE
      <4>1. e = m
        BY <3>1, <3>2, <3>3, <3>4 DEF GuardInv, OneLiveMessage
      <4> QED BY <3>2, <3>4, <4>1
    <3>5. ASSUME NEW e \in stream', NEW f \in stream', e.pay = f.pay, ~Exposed(e.pay),
                 ~Dropping(e)', ~Dropping(f)'
          PROVE  e = f
      <4>1. CASE e \in stream /\ f \in stream
        BY <3>3, <3>5, <4>1 DEF GuardInv, OneLiveMessage
      <4>2. CASE e = new /\ f \in stream
        BY <2>2, <3>4, <3>5, <4>2
      <4>3. CASE e \in stream /\ f = new
        BY <2>2, <3>4, <3>5, <4>3
      <4>4. CASE e = new /\ f = new
        BY <4>4
      <4> QED BY <2>2, <4>1, <4>2, <4>3, <4>4
    <3> QED BY <1>1, <3>5 DEF OneLiveMessage, Exposed
  <2>7. OneMutation'
    BY <1>1, <2>3 DEF GuardInv, OneMutation, Exposed, Marking, RunAt, RunPay
  <2> QED BY <2>5, <2>6, <2>7 DEF GuardInv
<1>3. CASE ~RetryAllowed(run[w].e)
  <2>1. RunGoto(w, "ack") /\ UNCHANGED <<stream, nextId>> /\ "ack" \in RunPcs
    BY <1>3 DEF Retry, queue, RunPcs
  <2>2. PICK p \in Payments : p = RunPay(w)
    BY <1>1
  <2>3. QuietStep(w, p)
    BY <1>1, <2>1, <2>2, GotoFrame DEF QuietStep, Active, Exposed, RunPay, PreCall
  <2> QED BY <2>3, QuietGuard
<1> QED BY <1>2, <1>3

\* Acking removes the message of the run and ends the run.
LEMMA AckGuard ==
  ASSUME TypeOK, GuardInv, NEW w \in Workers, Ack(w)
  PROVE  GuardInv'
<1>1. /\ run[w].pc \in {"ack", "drop"} /\ UNCHANGED <<nextId, mutated, marked, halted>>
      /\ stream' = {e \in stream : e.id # run[w].e.id}
      /\ run' = [run EXCEPT ![w] = IdleRun] /\ RunType
  BY DEF Ack, history, TypeOK
<1>2. /\ run'[w].pc = "idle" /\ \A v \in Workers : v # w => run'[v] = run[v]
  BY <1>1 DEF RunType, IdleRun
<1>3. StreamInv'
  BY <1>1, <1>2 DEF GuardInv, StreamInv, Active, RunPay
<1>4. \A e \in stream' : Dropping(e) => Dropping(e)'
  BY <1>1, <1>2 DEF Dropping, RunAt
<1>5. OneLiveMessage'
  BY <1>1, <1>4 DEF GuardInv, OneLiveMessage, Exposed
<1>6. OneMutation'
  BY <1>1, <1>2 DEF GuardInv, OneMutation, Exposed, Marking, RunAt, RunPay
<1> QED BY <1>3, <1>5, <1>6 DEF GuardInv

\* The webhook side leaves the runs alone and exposes no payment.
LEMMA HookGuard ==
  ASSUME TypeOK, SettleInv, GuardInv, NEW h \in Hooks
  PROVE  /\ \A p \in Payments : Deliver(h, p) => GuardInv'
         /\ HookStep(h) => GuardInv'
         /\ HookFault(h) => GuardInv'
<1>h. UNCHANGED halted => \A q \in Payments : Exposed(q) => Exposed(q)'
  BY DEF Exposed
<1>1. ASSUME NEW p \in Payments, Deliver(h, p) PROVE GuardInv'
  BY <1>1, <1>h, StutterGuard DEF Deliver, queue, history
<1>2. ASSUME HookTransition(h) \/ HookRefetch(h) \/ HookCurrent(h) \/ HookFill(h)
               \/ HookRewards(h)
      PROVE  GuardInv'
  <2>1. UNCHANGED <<stream, nextId, run, mutated, marked, halted>>
    BY <1>2 DEF HookTransition, HookRefetch, HookCurrent, HookFill, HookRewards, queue, history
  <2> QED BY <1>h, <2>1, StutterGuard
<1>3. CASE HookFault(h)
  <2>1. \A q \in Payments : Exposed(q) => Exposed(q)'
    BY <1>3 DEF HookFault, Exposed, TypeOK, HistoryType
  <2> QED BY <1>3, <2>1, StutterGuard DEF HookFault, queue
<1> QED BY <1>1, <1>2, <1>3, EnqueueGuard DEF HookStep

\* Every step keeps the guard's invariant.
LEMMA NextGuard == TypeOK /\ SettleInv /\ GuardInv /\ [Next]_vars => GuardInv'
<1> SUFFICES ASSUME TypeOK, SettleInv, GuardInv, [Next]_vars PROVE GuardInv'
  OBVIOUS
<1>1. ASSUME \/ Tick \/ (\E u \in Users : CacheExpires(u)) \/ UNCHANGED vars
             \/ \E p \in Payments : \/ \E k \in Kinds : CreatePayment(p, k)
                                    \/ HandlePaymentCanceled(p)
      PROVE  GuardInv'
  <2>1. UNCHANGED <<stream, nextId, run, mutated, marked, halted>>
    BY <1>1 DEF Tick, CacheExpires, vars, CreatePayment, HandlePaymentCanceled, queue, history
  <2> QED BY <2>1, StutterGuard DEF Exposed
<1>2. ASSUME NEW w \in Workers,
             Take(w) \/ RunStep(w) \/ Raises(w) \/ MutateRaises(w) \/ FlushRaises(w)
               \/ FailRaises(w) \/ Crash(w)
      PROVE  GuardInv'
  <2>1. PICK p \in Payments : p = RunPay(w)
    BY RunFields DEF TypeOK
  <2>2. CASE \/ Disable(w) \/ Evict(w) \/ Record(w) \/ SetCurrent(w) \/ WrapUp(w) \/ Flush(w)
             \/ Redirect(w) \/ Fail(w)
             \/ Raises(w) \/ MutateRaises(w) \/ FlushRaises(w) \/ FailRaises(w) \/ Crash(w)
    BY <2>1, <2>2, QuietSteps, QuietGuard
  <2>3. CASE Take(w) \/ Check(w) \/ Mutate(w) \/ MarkApplied(w) \/ Retry(w) \/ Ack(w)
    BY <2>3, TakeGuard, CheckGuard, MutateGuard, MarkGuard, RetryGuard, AckGuard
  <2> QED BY <1>2, <2>2, <2>3 DEF RunStep
<1> QED BY <1>1, <1>2, HookGuard DEF Next

\* Nothing is queued or done at the start.
LEMMA InitGuard == Init => GuardInv
BY DEF Init, GuardInv, StreamInv, OneLiveMessage, OneMutation, IdleRun, Active

\* What the invariant says of one panel call is the property.
LEMMA GuardImplies == TypeOK /\ GuardInv => GuardHolds
BY DEF GuardInv, OneMutation, GuardHolds, Exposed, TypeOK, HistoryType

\* Redeliveries, retries and exceptions never make a payment change the panel
\* twice, unless one of its runs was stopped between the panel call and the
\* marker or between a retry and the ack of the message it replaces.
THEOREM GuardCorrect == Spec => []GuardHolds
<1>1. Init => TypeOK /\ SettleInv /\ GuardInv
  BY InitType, InitSettle, InitGuard
<1>2. TypeOK /\ SettleInv /\ GuardInv /\ [Next]_vars => (TypeOK /\ SettleInv /\ GuardInv)'
  BY NextType, NextSettle, NextGuard
<1> QED BY <1>1, <1>2, GuardImplies, PTL DEF Spec

-----------------------------------------------------------------------------
(* A settled purchase and the stores it leaves                             *)

\* Nothing irregular happened to a user: one payment was settled at most, and
\* no run of it was torn.
Regular(u) ==
  \A p \in Payments : OwnerOf[p] = u /\ txStatus[p] \in Paid => Alone(p) /\ ~Torn(p)

\* What no step takes back.
Onward ==
  /\ marked \subseteq marked'
  /\ \A p \in Payments :
       /\ halted[p] \subseteq halted'[p]
       /\ txStatus[p] \in Paid => txStatus'[p] \in Paid
       /\ txStatus[p] = "FAILED" => txStatus'[p] = "FAILED"
       /\ txStatus[p] # "ABSENT" => kind'[p] = kind[p]

\* A move of the program counter changes nothing else of a run, nor another run.
LEMMA Goes ==
  ASSUME RunType, NEW w \in Workers, NEW pc \in RunPcs, RunGoto(w, pc)
  PROVE  /\ \A v \in Workers : v # w => run'[v] = run[v]
         /\ run'[w].pc = pc /\ run'[w].e = run[w].e
         /\ run'[w].expire = run[w].expire /\ run'[w].id = run[w].id
BY DEF RunGoto, RunType, RunRecord

\* A worker's fault is noted, and nothing that was noted is forgotten.
LEMMA FaultNotes ==
  ASSUME TypeOK, NEW w \in Workers, NEW where, Fault(w, where)
  PROVE  /\ \A p \in Payments : halted[p] \subseteq halted'[p]
         /\ where \in halted'[RunPay(w)]
<1>1. /\ halted' = [halted EXCEPT ![RunPay(w)] = @ \union {where}]
      /\ DOMAIN halted = Payments /\ RunPay(w) \in Payments
  BY RunFields DEF Fault, TypeOK, HistoryType
<1> QED BY <1>1

\* Every step goes onward.
LEMMA StepsOnward == TypeOK /\ [Next]_vars => Onward
<1> SUFFICES ASSUME TypeOK, [Next]_vars PROVE Onward
  OBVIOUS
<1>t. /\ txStatus \in [Payments -> Statuses] /\ kind \in [Payments -> Kinds]
      /\ DOMAIN halted = Payments
  BY DEF TypeOK, BillingType, HistoryType
<1>1. ASSUME NEW p \in Payments, NEW k \in Kinds, CreatePayment(p, k) PROVE Onward
  BY <1>1, <1>t DEF CreatePayment, Onward, history, Paid
<1>2. ASSUME NEW p \in Payments, HandlePaymentCanceled(p) PROVE Onward
  BY <1>2, <1>t DEF HandlePaymentCanceled, CanTransition, Onward, history, Paid
<1>3. ASSUME NEW h \in Hooks, NEW p \in Payments, Deliver(h, p) PROVE Onward
  BY <1>3 DEF Deliver, Onward, billing, history
<1>4. ASSUME NEW h \in Hooks, HookStep(h) PROVE Onward
  <2>1. CASE HookTransition(h)
    BY <2>1, <1>t DEF HookTransition, CanTransition, Onward, history, Paid
  <2>2. CASE HookRefetch(h)
    BY <2>2 DEF HookRefetch, Onward, history
  <2>3. CASE HookCurrent(h) \/ HookFill(h)
    BY <2>3 DEF HookCurrent, HookFill, Onward, billing, history
  <2>4. CASE HookEnqueue(h) \/ HookRewards(h)
    BY <2>4 DEF HookEnqueue, HookRewards, Onward, billing
  <2> QED BY <1>4, <2>1, <2>2, <2>3, <2>4 DEF HookStep
<1>5. ASSUME NEW h \in Hooks, HookFault(h) PROVE Onward
  BY <1>5, <1>t DEF HookFault, Onward, billing
<1>6. ASSUME Tick \/ (\E u \in Users : CacheExpires(u)) \/ UNCHANGED vars PROVE Onward
  BY <1>6 DEF Tick, CacheExpires, vars, Onward, billing, history
<1>7. ASSUME NEW w \in Workers, Take(w) \/ RunStep(w) PROVE Onward
  <2>1. /\ UNCHANGED <<kind, halted>> /\ marked \subseteq marked'
        /\ txStatus' \in {txStatus, [txStatus EXCEPT ![RunPay(w)] = "FAILED"]}
    BY <1>7 DEF Take, RunStep, Check, Disable, Evict, Mutate, MarkApplied, Record, SetCurrent,
                WrapUp, Flush, Redirect, Fail, Ack, Retry, billing, history
  <2> QED BY <2>1, <1>t DEF Onward, Paid
<1>8. ASSUME NEW w \in Workers,
             Raises(w) \/ MutateRaises(w) \/ FlushRaises(w) \/ FailRaises(w) \/ Crash(w)
      PROVE  Onward
  <2>1. /\ UNCHANGED <<kind, marked>>
        /\ txStatus' \in {txStatus, [txStatus EXCEPT ![RunPay(w)] = "FAILED"]}
    BY <1>8 DEF Raises, MutateRaises, FlushRaises, FailRaises, Crash, billing
  <2>2. PICK where : Fault(w, where)
    BY <1>8 DEF Raises, MutateRaises, FlushRaises, FailRaises, Crash
  <2> QED BY <2>1, <2>2, <1>t, FaultNotes DEF Onward, Paid
<1> QED BY <1>1, <1>2, <1>3, <1>4, <1>5, <1>6, <1>7, <1>8 DEF Next

\* A user who is regular after a step was so before it.
LEMMA RegularBack ==
  ASSUME TypeOK, Onward, NEW u \in Users, Regular(u)'
  PROVE  Regular(u)
BY DEF Onward, Regular, Alone, Torn

\* All that was queued for a regular user is one payment.
LEMMA OnePayment ==
  ASSUME SettleInv, NEW u \in Users, Regular(u),
         NEW p \in Payments, NEW q \in Payments, OwnerOf[p] = u, OwnerOf[q] = u,
         txStatus[p] \in Paid, txStatus[q] \in Paid
  PROVE  p = q
BY DEF Regular, Alone

-----------------------------------------------------------------------------
(* How a run goes on                                                       *)

\* Past the marker the marker is set; a run that gives its message up has
\* failed; and no handler is entered without the subscription it needs.
Past == {"record", "setCurrent", "evict", "wrapUp", "flush", "redirect"}
Handling == {"disable", "disableEvict", "mutate", "mark", "record"}
Progress(w) ==
  /\ run[w].pc \in Past => RunPay(w) \in marked
  /\ run[w].pc \in {"retry", "drop"} => "fail" \in halted[RunPay(w)]
  /\ run[w].pc = "ack" =>
       RunPay(w) \in marked \/ txStatus[RunPay(w)] = "FAILED" \/ "fail" \in halted[RunPay(w)]
  /\ run[w].pc \in Handling => ~LacksSubscription(run[w].e)
  /\ run[w].pc = "disable" => Path(run[w].e) = "CHANGE"
ProgressInv == \A w \in Workers : Progress(w)

\* A payment none of whose messages is left was provisioned, or it failed.
Answered(p) == p \in marked \/ txStatus[p] = "FAILED" \/ "fail" \in halted[p]
OverInv == \A p \in Payments : enqueued[p] > 0 /\ ~Queued(p) => Answered(p)

\* A run is of a payment that was settled.
LEMMA ActivePaid ==
  ASSUME TypeOK, SettleInv, NEW w \in Workers, Active(w)
  PROVE  RunPay(w) \in Payments /\ enqueued[RunPay(w)] = 1 /\ txStatus[RunPay(w)] \in Paid
BY RunFields DEF TypeOK, SettleInv, QueueInv

\* A run that is left alone goes on as it did.
LEMMA ProgressKept ==
  ASSUME TypeOK, SettleInv, ProgressInv, Onward, NEW w \in Workers, run'[w] = run[w]
  PROVE  Progress(w)'
<1>1. CASE Active(w)
  BY <1>1, ActivePaid
     DEF ProgressInv, Progress, Onward, RunPay, LacksSubscription, Path, HasTrial, Paid
<1>2. CASE ~Active(w)
  BY <1>2 DEF Active, Progress, Past, Handling
<1> QED BY <1>1, <1>2

\* Every step of a run keeps to this order.
LEMMA ProgressOwn ==
  ASSUME TypeOK, SettleInv, ProgressInv, Onward, NEW w \in Workers,
         Take(w) \/ RunStep(w) \/ Raises(w) \/ MutateRaises(w) \/ FlushRaises(w)
           \/ FailRaises(w) \/ Crash(w)
  PROVE  Progress(w)'
<1> DEFINE r == run[w]
           r1 == run'[w]
<1>t. /\ RunType /\ r.e \in Entry /\ RunPay(w) \in Payments
      /\ txStatus \in [Payments -> Statuses]
  BY RunFields DEF TypeOK, BillingType
<1>l. ASSUME Active(w), r1.e = r.e
      PROVE  /\ LacksSubscription(r.e)' <=> LacksSubscription(r.e)
             /\ Path(r.e)' = Path(r.e)
  BY <1>l, ActivePaid DEF Onward, LacksSubscription, Path, HasTrial, RunPay, Paid
<1>g. ASSUME NEW pc \in RunPcs, RunGoto(w, pc), Active(w),
             pc \in Past => RunPay(w) \in marked',
             pc \in {"retry", "drop"} => "fail" \in halted'[RunPay(w)],
             pc = "ack" => Answered(RunPay(w))',
             pc \in Handling => ~LacksSubscription(r.e),
             pc = "disable" => Path(r.e) = "CHANGE"
      PROVE  Progress(w)'
  <2>1. r1.pc = pc /\ r1.e = r.e
    BY <1>t, <1>g, Goes
  <2>2. RunPay(w)' = RunPay(w)
    BY <2>1 DEF RunPay
  <2>3. pc = "ack" =>
          RunPay(w) \in marked' \/ txStatus'[RunPay(w)] = "FAILED" \/ "fail" \in halted'[RunPay(w)]
    BY <1>g, <2>2 DEF Answered
  <2>4. /\ pc \in Handling => ~LacksSubscription(r.e)'
        /\ pc = "disable" => Path(r.e)' = "CHANGE"
    BY <1>g, <1>l, <2>1
  <2> QED BY <1>g, <2>1, <2>2, <2>3, <2>4 DEF Progress
<1>i. ASSUME r1.pc \in {"idle", "check", "fail"} PROVE Progress(w)'
  BY <1>i DEF Progress, Past, Handling
<1>p. Progress(w)
  BY DEF ProgressInv
<1>1. CASE Take(w)
  BY <1>1, <1>t, <1>i DEF Take, RunType
<1>2. CASE Check(w)
  BY <1>2, <1>g DEF Check, RunAt, Active, RunPcs, AfterHandler, Past, Handling, billing
<1>3. CASE Disable(w) \/ Evict(w) \/ MarkApplied(w) \/ SetCurrent(w) \/ WrapUp(w)
  BY <1>3, <1>g, <1>p DEF Disable, Evict, MarkApplied, SetCurrent, WrapUp, Progress, Past,
     Handling, RunAt, Active, RunPcs, AfterHandler
<1>4. CASE Mutate(w)
  <2>1. r1.pc = "mark" /\ r1.e = Touched(r.e) /\ r.pc = "mutate" /\ UNCHANGED kind
    BY <1>4, <1>t DEF Mutate, RunType, RunRecord, RunAt, billing
  <2>2. /\ Touched(r.e).pay = r.e.pay /\ Touched(r.e).sub.id = r.e.sub.id
        /\ Touched(r.e).sub.trial = r.e.sub.trial
    BY <1>t DEF Touched, Entry, Snapshot
  <2>3. ~LacksSubscription(r.e)
    BY <1>p, <2>1 DEF Progress, Handling
  <2>4. ~LacksSubscription(r.e)'
    BY <2>1, <2>2, <2>3 DEF LacksSubscription, Path, HasTrial
  <2> QED BY <2>1, <2>4 DEF Progress, Past
<1>5. CASE Record(w)
  <2>1. r1.pc \in {"evict", "setCurrent"} /\ r1.e = r.e /\ r.pc = "record" /\ UNCHANGED marked
    BY <1>5, <1>t DEF Record, RunGoto, RunType, RunRecord, RunAt
  <2> QED BY <1>p, <2>1 DEF Progress, Past, Handling, RunPay
<1>6. CASE Flush(w) \/ Redirect(w)
  <2>1. CASE Flush(w)
    BY <1>g, <1>p, <2>1 DEF Flush, Progress, Past, Handling, RunAt, Active, RunPcs
  <2>2. CASE Redirect(w)
    <3>1. RunGoto(w, "ack") /\ r.pc = "redirect" /\ UNCHANGED marked
      BY <2>2 DEF Redirect, RunAt
    <3>2. RunPay(w)' = RunPay(w)
      BY <1>t, <3>1, Goes DEF RunPcs, RunPay
    <3>3. Answered(RunPay(w))'
      BY <1>p, <3>1, <3>2 DEF Progress, Past, Answered
    <3> QED BY <1>g, <3>1, <3>3 DEF Active, RunPcs, Past, Handling
  <2> QED BY <1>6, <2>1, <2>2
<1>7. CASE Fail(w)
  <2>1. txStatus'[RunPay(w)] = "FAILED"
    BY <1>7, <1>t DEF Fail
  <2>2. RunGoto(w, "ack") /\ Active(w)
    BY <1>7 DEF Fail, RunAt, Active
  <2>3. Answered(RunPay(w))'
    <3>1. RunPay(w)' = RunPay(w)
      BY <1>t, <2>2, Goes DEF RunPcs, RunPay
    <3> QED BY <2>1, <3>1 DEF Answered
  <2> QED BY <1>g, <2>2, <2>3 DEF RunPcs, Past, Handling
<1>8. CASE Ack(w)
  BY <1>8, <1>t, <1>i DEF Ack, IdleRun, RunType
<1>9. CASE Retry(w)
  <2>1. PICK pc \in {"drop", "ack"} : RunGoto(w, pc)
    BY <1>9 DEF Retry
  <2>2. r.pc = "retry" /\ UNCHANGED <<marked, halted, txStatus>>
    BY <1>9 DEF Retry, RunAt, billing
  <2>3. "fail" \in halted'[RunPay(w)]
    BY <1>p, <2>2 DEF Progress
  <2>4. Answered(RunPay(w))'
    <3>1. RunPay(w)' = RunPay(w)
      BY <1>t, <2>1, Goes DEF RunPcs, RunPay
    <3> QED BY <2>3, <3>1 DEF Answered
  <2> QED BY <1>g, <2>1, <2>2, <2>3, <2>4 DEF Active, RunPcs, Past, Handling
<1>10. CASE Raises(w)
  BY <1>10, <1>t, <1>i, Goes DEF Raises, RunPcs
<1>11. CASE MutateRaises(w)
  BY <1>11, <1>t, <1>i DEF MutateRaises, RunType, RunRecord
<1>12. CASE FlushRaises(w)
  BY <1>12, <1>g, <1>p DEF FlushRaises, Progress, Past, Handling, RunAt, Active, RunPcs
<1>13. CASE FailRaises(w)
  <2>1. RunGoto(w, "retry") /\ Active(w) /\ "fail" \in halted'[RunPay(w)]
    BY <1>13, FaultNotes DEF FailRaises, RunAt, Active
  <2> QED BY <1>g, <2>1 DEF RunPcs, Past, Handling
<1>14. CASE Crash(w)
  BY <1>14, <1>t, <1>i DEF Crash, IdleRun, RunType
<1> QED BY <1>1, <1>2, <1>3, <1>4, <1>5, <1>6, <1>7, <1>8, <1>9, <1>10, <1>11, <1>12, <1>13,
           <1>14 DEF RunStep

\* What is not a step of a worker leaves the runs alone.
LEMMA OthersLeaveRuns ==
  ASSUME [Next]_vars,
         ~ \E w \in Workers : Take(w) \/ RunStep(w) \/ Raises(w) \/ MutateRaises(w)
                                \/ FlushRaises(w) \/ FailRaises(w) \/ Crash(w)
  PROVE  UNCHANGED run
BY DEF Next, vars, CreatePayment, HandlePaymentCanceled, Deliver, HookStep, HookTransition,
       HookRefetch, HookCurrent, HookFill, HookEnqueue, HookRewards, HookFault, Tick,
       CacheExpires, billing, history

\* Every step keeps how far a purchase must be.
LEMMA NextProgress ==
  TypeOK /\ SettleInv /\ ProgressInv /\ [Next]_vars => ProgressInv'
<1> SUFFICES ASSUME TypeOK, SettleInv, ProgressInv, [Next]_vars PROVE ProgressInv'
  OBVIOUS
<1>1. Onward
  BY StepsOnward
<1>2. ASSUME NEW w \in Workers, Take(w) \/ RunStep(w) \/ Raises(w) \/ MutateRaises(w)
                                  \/ FlushRaises(w) \/ FailRaises(w) \/ Crash(w)
      PROVE  ProgressInv'
  <2>1. \A v \in Workers : v # w => run'[v] = run[v]
    BY <1>2, WorkerSteps DEF WorkerFrame
  <2> QED BY <1>1, <1>2, <2>1, ProgressKept, ProgressOwn DEF ProgressInv
<1>3. CASE UNCHANGED run
  BY <1>1, <1>3, ProgressKept DEF ProgressInv
<1> QED BY <1>2, <1>3, OthersLeaveRuns

\* The stream loses a payment's last message when its run is over.
LEMMA NextOver ==
  TypeOK /\ SettleInv /\ GuardInv /\ ProgressInv /\ OverInv /\ [Next]_vars => OverInv'
<1> SUFFICES ASSUME TypeOK, SettleInv, GuardInv, ProgressInv, OverInv, [Next]_vars,
                    NEW p \in Payments, enqueued'[p] > 0, ~Queued(p)'
             PROVE  Answered(p)'
  BY DEF OverInv
<1>1. Onward
  BY StepsOnward
<1>2. Answered(p) => Answered(p)'
  BY <1>1 DEF Onward, Answered
<1>3. CASE \E h \in Hooks : HookEnqueue(h)
  <2>1. PICK h \in Hooks : HookEnqueue(h)
    BY <1>3
  <2>2. CASE p = hook[h].pay
    <3>1. [id |-> nextId, pay |-> hook[h].pay, try |-> 0, sub |-> hook[h].sub] \in stream'
      BY <2>1 DEF HookEnqueue
    <3> QED BY <2>2, <3>1 DEF Queued
  <2>3. CASE p # hook[h].pay
    <3>1. enqueued'[p] = enqueued[p]
      BY <2>1, <2>3 DEF HookEnqueue, TypeOK, HistoryType
    <3>2. ~Queued(p)
      BY <2>1 DEF HookEnqueue, Queued
    <3> QED BY <1>2, <3>1, <3>2 DEF OverInv
  <2> QED BY <2>2, <2>3
<1>4. CASE \E w \in Workers : Ack(w)
  <2>1. PICK w \in Workers : Ack(w)
    BY <1>4
  <2>2. enqueued'[p] = enqueued[p]
    BY <2>1 DEF Ack, history
  <2>3. CASE Queued(p)
    <3>1. PICK e \in stream : e.pay = p
      BY <2>3 DEF Queued
    <3>2. e.id = run[w].e.id
      BY <2>1, <3>1 DEF Ack, Queued
    <3>3. p = RunPay(w)
      BY <2>1, <3>1, <3>2, HeldPay DEF Ack, Active
    <3>4. Answered(p)
      BY <2>1, <3>3 DEF Ack, ProgressInv, Progress, Answered
    <3> QED BY <1>2, <3>4
  <2> QED BY <1>2, <2>2, <2>3 DEF OverInv
<1>5. CASE UNCHANGED enqueued /\ stream \subseteq stream'
  BY <1>2, <1>5 DEF OverInv, Queued
<1>6. ASSUME NEW w \in Workers, Take(w) \/ RunStep(w) \/ Raises(w) \/ MutateRaises(w)
                                  \/ FlushRaises(w) \/ FailRaises(w) \/ Crash(w),
             ~Ack(w)
      PROVE  UNCHANGED enqueued /\ stream \subseteq stream'
  BY <1>6 DEF Take, RunStep, Check, Disable, Evict, Mutate, MarkApplied, Record, SetCurrent,
              WrapUp, Flush, Redirect, Fail, Retry, Raises, MutateRaises, FlushRaises,
              FailRaises, Crash, billing, queue, history
<1>7. ASSUME \/ \E q \in Payments : \/ \E k \in Kinds : CreatePayment(q, k)
                                    \/ HandlePaymentCanceled(q)
             \/ \E h \in Hooks : \/ \E q \in Payments : Deliver(h, q)
                                 \/ HookFault(h) \/ (HookStep(h) /\ ~HookEnqueue(h))
             \/ Tick \/ (\E u \in Users : CacheExpires(u)) \/ UNCHANGED vars
      PROVE  UNCHANGED enqueued /\ stream \subseteq stream'
  BY <1>7 DEF CreatePayment, HandlePaymentCanceled, Deliver, HookFault, HookStep,
              HookTransition, HookRefetch, HookCurrent, HookFill, HookRewards, Tick,
              CacheExpires, vars, billing, queue, history
<1> QED BY <1>3, <1>4, <1>5, <1>6, <1>7 DEF Next

-----------------------------------------------------------------------------
(* Whose subscription is whose                                             *)

\* The subscriptions that are held for a user, wherever.
Knows(u, i) ==
  \/ i = current[u]
  \/ i = cache[u].id
  \/ \E h \in Hooks : HookUser(h) = u /\ i = hook[h].sub.id
  \/ \E e \in stream : OwnerOf[e.pay] = u /\ i = e.sub.id
  \/ \E w \in Workers : RunUser(w) = u /\ i \in {RunSub(w).id, run[w].id}

\* No subscription is held for two users, and none that billing does not have.
Apart ==
  \A u \in Users, i \in Nat :
    Knows(u, i) /\ i # 0 => i <= Len(subs) /\ \A v \in Users : Knows(v, i) => u = v

\* What billing answers has the id that was asked for, or is no subscription.
LEMMA SnapshotId ==
  ASSUME TypeOK, NEW u \in Users
  PROVE  CurrentSub(u).id \in {0, current[u]} /\ CachedSub(u).id \in {0, current[u], cache[u].id}
BY DEF CurrentSub, CachedSub, SnapshotOf, NoSub


\* What a user learns through the places that hold subscriptions.
LEMMA LearnsFrom ==
  ASSUME TypeOK, NEW u \in Users,
         current'[u] = current[u] \/ Knows(u, current'[u]),
         cache'[u].id = cache[u].id \/ cache'[u].id = 0 \/ Knows(u, cache'[u].id),
         \A h \in Hooks : HookUser(h)' = u =>
           hook'[h] = hook[h] \/ hook'[h].sub.id = 0 \/ Knows(u, hook'[h].sub.id),
         \A e \in stream' : OwnerOf[e.pay] = u => e \in stream \/ Knows(u, e.sub.id),
         \A w \in Workers : RunUser(w)' = u =>
           /\ run'[w].e.sub.id = 0 \/ Knows(u, run'[w].e.sub.id)
           /\ run'[w].id = 0 \/ Knows(u, run'[w].id)
  PROVE  \A i \in Nat : Knows(u, i)' => i = 0 \/ Knows(u, i)
<1> SUFFICES ASSUME NEW i \in Nat, Knows(u, i)', i # 0 PROVE Knows(u, i)
  OBVIOUS
<1>1. CASE i = current'[u]
  BY <1>1 DEF Knows
<1>2. CASE i = cache'[u].id
  BY <1>2 DEF Knows
<1>3. ASSUME NEW h \in Hooks, HookUser(h)' = u, i = hook'[h].sub.id PROVE Knows(u, i)
  BY <1>3 DEF Knows, HookUser
<1>4. ASSUME NEW e \in stream', OwnerOf[e.pay] = u, i = e.sub.id PROVE Knows(u, i)
  BY <1>4 DEF Knows
<1>5. ASSUME NEW w \in Workers, RunUser(w)' = u, i \in {run'[w].e.sub.id, run'[w].id}
      PROVE  Knows(u, i)
  BY <1>5
<1> QED BY <1>1, <1>2, <1>3, <1>4, <1>5 DEF Knows, RunSub

\* A write to a subscription, in place, keeps how many there are.
LEMMA LenKept ==
  ASSUME subs \in Seq(SubRecord)
  PROVE  /\ \A id \in Nat : Len([subs EXCEPT ![id].status = "DISABLED"]) = Len(subs)
         /\ \A id, n \in Nat : Len([subs EXCEPT ![id].expire = n]) = Len(subs)
<1>1. ASSUME NEW s \in Seq(SubRecord), DOMAIN s = DOMAIN subs PROVE Len(s) = Len(subs)
  BY <1>1, LenProperties
<1>2. ASSUME NEW id \in Nat PROVE Len([subs EXCEPT ![id].status = "DISABLED"]) = Len(subs)
  BY <1>1, SubsUpdates
<1>3. ASSUME NEW id \in Nat, NEW n \in Nat PROVE Len([subs EXCEPT ![id].expire = n]) = Len(subs)
  BY <1>1, SubsUpdates
<1> QED BY <1>2, <1>3

\* Webhook handlers, users and time teach nobody anything.
LEMMA OthersLearn ==
  ASSUME TypeOK, [Next]_vars, UNCHANGED run, NEW u \in Users,
         ~ \E w \in Workers : Take(w) \/ RunStep(w) \/ Raises(w) \/ MutateRaises(w)
                                \/ FlushRaises(w) \/ FailRaises(w) \/ Crash(w)
  PROVE  /\ \A i \in Nat : Knows(u, i)' => i = 0 \/ Knows(u, i)
         /\ subs' = subs
<1>t. /\ HookType /\ cache \in [Users -> Snapshot]
      /\ \A h \in Hooks : hook[h].pay \in Payments /\ HookUser(h) \in Users
  BY PaymentTypes DEF TypeOK, StoreType, HookType, HookUser
<1>r. \A w \in Workers : RunUser(w)' = u =>
           /\ run'[w].e.sub.id = 0 \/ Knows(u, run'[w].e.sub.id)
           /\ run'[w].id = 0 \/ Knows(u, run'[w].id)
  BY DEF Knows, RunUser, RunPay, RunSub
<1>1. ASSUME UNCHANGED <<current, cache, hook, stream>>
      PROVE  \A i \in Nat : Knows(u, i)' => i = 0 \/ Knows(u, i)
  BY <1>1, <1>r, LearnsFrom
<1>2. ASSUME NEW p \in Payments, (\E k \in Kinds : CreatePayment(p, k)) \/ HandlePaymentCanceled(p)
      PROVE  (\A i \in Nat : Knows(u, i)' => i = 0 \/ Knows(u, i)) /\ subs' = subs
  BY <1>1, <1>2 DEF CreatePayment, HandlePaymentCanceled, queue
<1>3. ASSUME NEW h \in Hooks, NEW p \in Payments, Deliver(h, p)
      PROVE  (\A i \in Nat : Knows(u, i)' => i = 0 \/ Knows(u, i)) /\ subs' = subs
  <2>1. \A g \in Hooks : hook'[g] = hook[g] \/ hook'[g].sub.id = 0
    BY <1>3, <1>t DEF Deliver, HookType, NoSub
  <2> QED BY <1>3, <1>r, <2>1, LearnsFrom DEF Deliver, billing, queue
<1>4. ASSUME NEW h \in Hooks, HookStep(h) \/ HookFault(h)
      PROVE  (\A i \in Nat : Knows(u, i)' => i = 0 \/ Knows(u, i)) /\ subs' = subs
  <2>g. ASSUME NEW pc, HookGoto(h, pc) \/ HookEnd(h)
        PROVE  \A g \in Hooks : HookUser(g)' = u =>
                 hook'[g] = hook[g] \/ hook'[g].sub.id = 0 \/ Knows(u, hook'[g].sub.id)
    <3>1. CASE HookGoto(h, pc)
      <4>1. \A g \in Hooks : hook'[g].pay = hook[g].pay /\ hook'[g].sub = hook[g].sub
        BY <1>t, <3>1 DEF HookGoto, HookType
      <4> QED BY <4>1 DEF Knows, HookUser
    <3>2. CASE HookEnd(h)
      BY <1>t, <3>2 DEF HookEnd, HookType, IdleHook, NoSub
    <3> QED BY <2>g, <3>1, <3>2
  <2>1. CASE HookTransition(h) \/ HookRefetch(h) \/ HookRewards(h) \/ HookFault(h)
    <3>1. UNCHANGED <<current, cache, stream, subs>>
      BY <2>1 DEF HookTransition, HookRefetch, HookRewards, HookFault, billing, queue
    <3>2. \E pc : HookGoto(h, pc) \/ HookEnd(h)
      BY <2>1 DEF HookTransition, HookRefetch, HookRewards, HookFault
    <3> QED BY <1>r, <2>g, <3>1, <3>2, LearnsFrom
  <2>2. CASE HookCurrent(h)
    <3>1. UNCHANGED <<current, cache, stream, subs>>
      BY <2>2 DEF HookCurrent, billing, queue
    <3>2. \A g \in Hooks : hook'[g].pay = hook[g].pay
      BY <1>t, <2>2 DEF HookCurrent, HookType
    <3>3. \A g \in Hooks : hook'[g] = hook[g] \/ (g = h /\ hook'[g].sub = CachedSub(HookUser(h)))
      BY <1>t, <2>2 DEF HookCurrent, HookType
    <3>4. HookUser(h) = u => CachedSub(HookUser(h)).id = 0 \/ Knows(u, CachedSub(HookUser(h)).id)
      BY <1>t, SnapshotId DEF Knows
    <3>5. \A g \in Hooks : HookUser(g)' = u =>
            hook'[g] = hook[g] \/ hook'[g].sub.id = 0 \/ Knows(u, hook'[g].sub.id)
      BY <3>2, <3>3, <3>4 DEF HookUser
    <3> QED BY <1>r, <3>1, <3>5, LearnsFrom
  <2>3. CASE HookFill(h)
    <3>1. UNCHANGED <<current, stream, subs>>
      BY <2>3 DEF HookFill, billing, queue
    <3>2. cache'[u] = cache[u] \/ (u = HookUser(h) /\ cache'[u] = hook[h].sub)
      BY <1>t, <2>3 DEF HookFill
    <3>3. cache'[u].id = cache[u].id \/ Knows(u, cache'[u].id)
      BY <3>2 DEF Knows
    <3>4. \E pc : HookGoto(h, pc)
      BY <2>3 DEF HookFill
    <3> QED BY <1>r, <2>g, <3>1, <3>3, <3>4, LearnsFrom
  <2>4. CASE HookEnqueue(h)
    <3>1. UNCHANGED <<current, cache, subs>>
      BY <2>4 DEF HookEnqueue, billing
    <3>2. \A e \in stream' : e \in stream \/ (e.pay = hook[h].pay /\ e.sub = hook[h].sub)
      BY <2>4 DEF HookEnqueue
    <3>3. \A e \in stream' : OwnerOf[e.pay] = u => e \in stream \/ Knows(u, e.sub.id)
      BY <3>2 DEF Knows, HookUser
    <3>4. \E pc : HookGoto(h, pc) \/ HookEnd(h)
      BY <2>4 DEF HookEnqueue
    <3> QED BY <1>r, <2>g, <3>1, <3>3, <3>4, LearnsFrom
  <2> QED BY <1>4, <2>1, <2>2, <2>3, <2>4 DEF HookStep
<1>5. ASSUME Tick \/ (\E v \in Users : CacheExpires(v)) \/ UNCHANGED vars
      PROVE  (\A i \in Nat : Knows(u, i)' => i = 0 \/ Knows(u, i)) /\ subs' = subs
  <2>1. UNCHANGED <<current, hook, stream, subs>>
    BY <1>5 DEF Tick, CacheExpires, vars, billing, queue
  <2>2. cache'[u].id = cache[u].id \/ cache'[u].id = 0
    BY <1>5, <1>t DEF Tick, CacheExpires, vars, Uncached
  <2> QED BY <1>r, <2>1, <2>2, LearnsFrom
<1> QED BY <1>2, <1>3, <1>4, <1>5 DEF Next

\* A run learns what its message says, and what it created.
LEMMA WorkersLearn ==
  ASSUME TypeOK, GuardInv, NEW u \in Users, NEW w \in Workers,
         Take(w) \/ RunStep(w) \/ Raises(w) \/ MutateRaises(w)
           \/ FlushRaises(w) \/ FailRaises(w) \/ Crash(w),
         ~Record(w)
  PROVE  /\ \A i \in Nat : Knows(u, i)' => i = 0 \/ Knows(u, i)
         /\ Len(subs') = Len(subs)
<1>t. /\ RunType /\ run[w].e \in Entry /\ cache \in [Users -> Snapshot]
      /\ current \in [Users -> Nat] /\ subs \in Seq(SubRecord)
      /\ RunUser(w) \in Users /\ RunPay(w) \in Payments /\ RunSub(w) \in Snapshot
  BY RunFields DEF TypeOK, BillingType, StoreType
<1>h. \A h \in Hooks : hook'[h] = hook[h]
  BY WorkerSteps DEF WorkerFrame
<1>o. \A v \in Workers : v # w => run'[v] = run[v]
  BY WorkerSteps DEF WorkerFrame
<1> DEFINE Known(r) == OwnerOf[r.e.pay] = u =>
                         /\ r.e.sub.id = 0 \/ Knows(u, r.e.sub.id)
                         /\ r.id = 0 \/ Knows(u, r.id)
<1>k. \A v \in Workers : Known(run[v])
  BY DEF Knows, RunUser, RunPay, RunSub
<1>l. ASSUME Known(run'[w]),
             current'[u] = current[u] \/ Knows(u, current'[u]),
             cache'[u].id = cache[u].id \/ cache'[u].id = 0 \/ Knows(u, cache'[u].id),
             \A e \in stream' : OwnerOf[e.pay] = u => e \in stream \/ Knows(u, e.sub.id)
      PROVE  \A i \in Nat : Knows(u, i)' => i = 0 \/ Knows(u, i)
  <2>1. \A v \in Workers : RunUser(v)' = u =>
           /\ run'[v].e.sub.id = 0 \/ Knows(u, run'[v].e.sub.id)
           /\ run'[v].id = 0 \/ Knows(u, run'[v].id)
    BY <1>l, <1>o, <1>k DEF RunUser, RunPay
  <2> QED BY <1>h, <1>l, <2>1, LearnsFrom
<1> HIDE DEF Known
<1>g. ASSUME NEW pc \in RunPcs, RunGoto(w, pc) PROVE Known(run'[w])
  <2>1. run'[w].e = run[w].e /\ run'[w].id = run[w].id
    BY <1>g, <1>t, Goes
  <2> QED BY <2>1, <1>k DEF Known
<1>i. run' = [run EXCEPT ![w] = IdleRun] => Known(run'[w])
  BY <1>t DEF IdleRun, BlankEntry, NoSub, RunType, Known
<1>s. Len(subs) = Len(subs)
  OBVIOUS
<1>1. CASE Take(w)
  <2>1. PICK e \in stream :
          run' = [run EXCEPT ![w] = [pc |-> "check", e |-> e, expire |-> 0, id |-> 0]]
    BY <1>1 DEF Take
  <2>2. Known(run'[w])
    BY <1>t, <2>1 DEF Known, Knows, RunType
  <2> QED BY <1>1, <1>l, <2>2 DEF Take, billing, queue
<1>2. CASE Check(w) \/ Redirect(w) \/ Raises(w)
  <2>1. PICK pc \in RunPcs : RunGoto(w, pc)
    BY <1>2 DEF Check, Redirect, Raises, RunPcs, AfterHandler
  <2> QED BY <1>2, <1>g, <1>l, <2>1 DEF Check, Redirect, Raises, billing, queue
<1>3. CASE Fail(w) \/ FailRaises(w)
  <2>1. PICK pc \in RunPcs : RunGoto(w, pc)
    BY <1>3 DEF Fail, FailRaises, RunPcs
  <2> QED BY <1>3, <1>g, <1>l, <2>1 DEF Fail, FailRaises, queue
<1>4. CASE Disable(w)
  <2>1. RunGoto(w, "disableEvict") /\ UNCHANGED <<current, cache, stream>>
    BY <1>4 DEF Disable, queue
  <2>2. Len(subs') = Len(subs)
    BY <1>4, <1>t, LenKept DEF Disable, Snapshot
  <2> QED BY <1>g, <1>l, <2>1, <2>2 DEF RunPcs
<1>5. CASE Evict(w)
  <2>1. PICK pc \in RunPcs : RunGoto(w, pc)
    BY <1>5 DEF Evict, RunPcs, AfterHandler
  <2>2. cache'[u].id = cache[u].id \/ cache'[u].id = 0
    BY <1>5, <1>t DEF Evict, Uncached
  <2> QED BY <1>5, <1>g, <1>l, <2>1, <2>2 DEF Evict, billing, queue
<1>6. CASE Mutate(w) \/ MutateRaises(w)
  <2>1. run'[w].e = Touched(run[w].e) /\ run'[w].id = run[w].id
    BY <1>6, <1>t DEF Mutate, MutateRaises, RunType, RunRecord
  <2>2. Touched(run[w].e).pay = run[w].e.pay /\ Touched(run[w].e).sub.id = run[w].e.sub.id
    BY <1>t DEF Touched, Entry, Snapshot
  <2>3. Known(run'[w])
    BY <1>k, <2>1, <2>2 DEF Known
  <2> QED BY <1>6, <1>l, <2>3 DEF Mutate, MutateRaises, billing, queue
<1>7. CASE MarkApplied(w)
  BY <1>7, <1>g, <1>l DEF MarkApplied, RunPcs, billing, queue
<1>8. CASE SetCurrent(w)
  <2>1. RunGoto(w, "evict") /\ UNCHANGED <<subs, cache, stream>>
    BY <1>8 DEF SetCurrent, queue
  <2>2. current'[u] = current[u] \/ (RunUser(w) = u /\ current'[u] = run[w].id)
    BY <1>8, <1>t DEF SetCurrent
  <2>3. current'[u] = current[u] \/ Knows(u, current'[u])
    BY <2>2 DEF Knows
  <2> QED BY <1>g, <1>l, <2>1, <2>3 DEF RunPcs
<1>9. CASE WrapUp(w)
  <2>1. cache'[u] = cache[u] \/ cache'[u] = CachedSub(u)
    BY <1>9, <1>t DEF WrapUp
  <2>2. cache'[u].id = cache[u].id \/ cache'[u].id = 0 \/ Knows(u, cache'[u].id)
    BY <2>1, SnapshotId DEF Knows
  <2> QED BY <1>9, <1>g, <1>l, <2>2 DEF WrapUp, RunPcs, billing, queue
<1>10. CASE Flush(w) \/ FlushRaises(w)
  <2>1. RunGoto(w, "redirect") /\ UNCHANGED <<current, stream>>
    BY <1>10 DEF Flush, FlushRaises, queue
  <2>2. FlushBilling(RunUser(w)) \/ UNCHANGED <<subs, cache>>
    BY <1>10 DEF Flush, FlushRaises
  <2>3. cache'[u].id = cache[u].id \/ cache'[u].id = 0
    BY <1>t, <2>2 DEF FlushBilling, Uncached
  <2>4. Len(subs') = Len(subs)
    <3>1. CachedSub(RunUser(w)) \in Snapshot /\ now \in Nat
      BY <1>t, SnapshotTypes DEF TypeOK, StoreType
    <3>2. FlushExpire(RunUser(w)) \in Nat
      <4>1. Later(CachedSub(RunUser(w)).expire, now) \in Nat
        BY <3>1, LaterType DEF Snapshot
      <4> QED BY <4>1, BoundTypes DEF FlushExpire
    <3> QED BY <1>t, <2>2, <3>1, <3>2, LenKept DEF FlushBilling, Snapshot
  <2> QED BY <1>g, <1>l, <2>1, <2>3, <2>4 DEF RunPcs
<1>11. CASE Ack(w)
  <2>1. \A e \in stream' : e \in stream
    BY <1>11 DEF Ack
  <2> QED BY <1>11, <1>i, <1>l, <2>1 DEF Ack, billing
<1>12. CASE Crash(w)
  BY <1>12, <1>i, <1>l DEF Crash, billing, queue
<1>13. CASE Retry(w)
  <2>1. PICK pc \in RunPcs : RunGoto(w, pc)
    BY <1>13 DEF Retry, RunPcs
  <2>2. \A e \in stream' : e \in stream \/
          (e.pay = RunPay(w) /\ e.sub \in {RunSub(w)} \union Received(run[w].e))
    BY <1>13 DEF Retry, queue, RunPay, RunSub
  <2>3. ASSUME NEW s \in {RunSub(w)} \union Received(run[w].e), RunUser(w) = u
        PROVE  Knows(u, s.id)
    <3>1. CASE s = RunSub(w)
      BY <2>3, <3>1 DEF Knows
    <3>2. CASE s \in Received(run[w].e)
      <4>1. PICK o \in stream : o.id = run[w].e.id /\ s = o.sub
        BY <3>2 DEF Received
      <4>2. o.pay = RunPay(w)
        BY <1>13, <4>1, HeldPay DEF Retry, RunAt, Active
      <4> QED BY <2>3, <4>1, <4>2 DEF Knows, RunUser
    <3> QED BY <3>1, <3>2
  <2>4. \A e \in stream' : OwnerOf[e.pay] = u => e \in stream \/ Knows(u, e.sub.id)
    BY <2>2, <2>3 DEF RunUser
  <2> QED BY <1>13, <1>g, <1>l, <2>1, <2>4 DEF Retry, billing
<1> QED BY <1>1, <1>2, <1>3, <1>4, <1>5, <1>6, <1>7, <1>8, <1>9, <1>10, <1>11, <1>12, <1>13
        DEF RunStep

\* A subscription that a run creates is known to the user it is created for.
LEMMA RecordLearns ==
  ASSUME TypeOK, NEW w \in Workers, Record(w)
  PROVE  /\ Len(subs') >= Len(subs)
         /\ \A u \in Users, i \in Nat : Knows(u, i)' =>
              \/ i = 0 \/ Knows(u, i)
              \/ u = RunUser(w) /\ i = Len(subs) + 1 /\ Len(subs') = Len(subs) + 1
<1>t. /\ RunType /\ run[w] \in RunRecord /\ subs \in Seq(SubRecord) /\ RunSub(w) \in Snapshot
      /\ run[w].expire \in Nat
  BY RunFields DEF TypeOK, BillingType, RunType
<1>u. UNCHANGED <<current, cache, hook, stream>>
  BY DEF Record, queue
<1>1. CASE Path(run[w].e) = "RENEW"
  <2>1. RunGoto(w, "evict") /\ subs' = [subs EXCEPT ![RunSub(w).id].expire = run[w].expire]
    BY <1>1 DEF Record
  <2>2. Len(subs') = Len(subs)
    BY <1>t, <2>1, LenKept DEF Snapshot
  <2>3. \A v \in Workers : run'[v].e = run[v].e /\ run'[v].id = run[v].id
    BY <1>t, <2>1, Goes DEF RunPcs
  <2>4. \A u \in Users, i \in Nat : Knows(u, i)' => Knows(u, i)
    BY <1>u, <2>3 DEF Knows, RunUser, RunPay, RunSub, HookUser
  <2> QED BY <1>t, <2>2, <2>4, LenProperties
<1>2. CASE Path(run[w].e) # "RENEW"
  <2>1. /\ run' = [run EXCEPT ![w].pc = "setCurrent", ![w].id = Len(subs) + 1]
        /\ subs' = Append(subs, [expire |-> run[w].expire, trial |-> FALSE, status |-> "ACTIVE"])
    BY <1>2 DEF Record
  <2>2. [expire |-> run[w].expire, trial |-> FALSE, status |-> "ACTIVE"] \in SubRecord
    BY <1>t DEF SubRecord, SubStatuses
  <2>3. Len(subs') = Len(subs) + 1
    BY <1>t, <2>1, <2>2, AppendProperties
  <2>4. /\ run'[w].e = run[w].e /\ run'[w].id = Len(subs) + 1
        /\ \A v \in Workers : v # w => run'[v] = run[v]
    BY <1>t, <2>1 DEF RunType, RunRecord
  <2>5. ASSUME NEW u \in Users, NEW i \in Nat, Knows(u, i)'
        PROVE  Knows(u, i) \/ (u = RunUser(w) /\ i = Len(subs) + 1)
    BY <1>u, <2>4, <2>5 DEF Knows, RunUser, RunPay, RunSub, HookUser
  <2> QED BY <1>t, <2>3, <2>5, LenProperties
<1> QED BY <1>1, <1>2

\* Two users never come to share a subscription.
LEMMA NextApart == TypeOK /\ GuardInv /\ Apart /\ [Next]_vars => Apart'
<1> SUFFICES ASSUME TypeOK, GuardInv, Apart, [Next]_vars PROVE Apart'
  OBVIOUS
<1>t. Len(subs) \in Nat
  BY LenProperties DEF TypeOK, BillingType
<1>1. CASE \E w \in Workers : Record(w)
  <2>1. PICK w \in Workers : Record(w)
    BY <1>1
  <2>2. SUFFICES ASSUME NEW u \in Users, NEW i \in Nat, Knows(u, i)', i # 0
                 PROVE  i <= Len(subs') /\ \A v \in Users : Knows(v, i)' => u = v
    BY DEF Apart
  <2>3. \A v \in Users : Knows(v, i)' =>
          Knows(v, i) \/ (v = RunUser(w) /\ i = Len(subs) + 1 /\ Len(subs') = Len(subs) + 1)
    BY <2>1, <2>2, RecordLearns
  <2>4. Len(subs') >= Len(subs) /\ Len(subs') \in Nat
    BY <2>1, RecordLearns, NextType, LenProperties DEF TypeOK, BillingType
  <2>5. \A v \in Users : Knows(v, i) => i <= Len(subs)
    BY <2>2 DEF Apart
  <2> QED BY <1>t, <2>2, <2>3, <2>4, <2>5 DEF Apart
<1>2. ASSUME \A u \in Users, i \in Nat : Knows(u, i)' => i = 0 \/ Knows(u, i),
             Len(subs') = Len(subs)
      PROVE  Apart'
  BY <1>2 DEF Apart
<1>3. ASSUME NEW w \in Workers, ~Record(w),
             Take(w) \/ RunStep(w) \/ Raises(w) \/ MutateRaises(w)
               \/ FlushRaises(w) \/ FailRaises(w) \/ Crash(w)
      PROVE  Apart'
  <2>1. \A u \in Users, i \in Nat : Knows(u, i)' => i = 0 \/ Knows(u, i)
    BY <1>3, WorkersLearn
  <2>2. Len(subs') = Len(subs)
    BY <1>3, WorkersLearn, NonEmpty, PaymentTypes
  <2> QED BY <1>2, <2>1, <2>2
<1>4. CASE ~ \E w \in Workers : Take(w) \/ RunStep(w) \/ Raises(w) \/ MutateRaises(w)
                                  \/ FlushRaises(w) \/ FailRaises(w) \/ Crash(w)
  <2>1. \A u \in Users : (\A i \in Nat : Knows(u, i)' => i = 0 \/ Knows(u, i)) /\ subs' = subs
    BY <1>4, OthersLearn, OthersLeaveRuns
  <2> QED BY <1>2, <2>1, NonEmpty, PaymentTypes
<1> QED BY <1>1, <1>3, <1>4

\* Every user begins with a subscription of their own, or with none.
LEMMA InitStores == Init => ProgressInv /\ OverInv /\ Apart
<1> SUFFICES ASSUME Init PROVE ProgressInv /\ OverInv /\ Apart
  OBVIOUS
<1>1. ProgressInv
  BY DEF Init, ProgressInv, Progress, IdleRun, Past, Handling
<1>2. OverInv
  BY DEF Init, OverInv
<1>3. \A u \in Users, i \in Nat : Knows(u, i) => i = 0 \/ i = current[u]
  BY DEF Init, Knows, RunSub, IdleRun, BlankEntry, NoSub, Uncached, IdleHook
<1>4. \A u \in Users : current[u] <= Len(subs)
  BY StartTypes DEF Init
<1>5. Apart
  BY <1>3, <1>4 DEF Init, Apart
<1> QED BY <1>1, <1>2, <1>5

-----------------------------------------------------------------------------
(* What the stores of a regular user say                                   *)

Snap(s, i) == IF i \in DOMAIN s
              THEN [id |-> i, expire |-> s[i].expire, trial |-> s[i].trial,
                    status |-> s[i].status]
              ELSE NoSub

\* Billing's current subscription is the account of the panel.
Agree(u) ==
  /\ CurrentSub(u).id # 0
  /\ CurrentSub(u).expire = panel[u].expire
  /\ CurrentSub(u).status = "ACTIVE" /\ panel[u].status = "ACTIVE"
Fresh(u) == cache[u] \in {Uncached, CurrentSub(u)}
Registering(w) == run[w].pc \in {"record", "setCurrent", "evict"}
WorksFor(w, u) == Active(w) /\ RunUser(w) = u

\* Nothing was queued yet: no subscription was switched off, and what a handler
\* holds is the current one.
Before(u) ==
  (\A p \in Payments : OwnerOf[p] = u => enqueued[p] = 0) =>
    /\ CurrentSub(u).status = "ACTIVE" /\ Fresh(u)
    /\ \A h \in Hooks : hook[h].pc \in {"fill", "enqueue"} /\ HookUser(h) = u =>
         hook[h].sub = CurrentSub(u)

\* A message carries an active subscription, which is the current one until the
\* marker is set; a renewal's is not switched off meanwhile.
Sound(e) ==
  LET u == OwnerOf[e.pay] IN
  /\ e.sub.status = "ACTIVE"
  /\ e.pay \notin marked =>
       /\ e.sub.id = current[u] /\ e.sub.trial = CurrentSub(u).trial
       /\ Path(e) = "RENEW" => CurrentSub(u).status = "ACTIVE"
Messages(u) ==
  /\ \A e \in stream : OwnerOf[e.pay] = u => Sound(e)
  /\ \A w \in Workers : WorksFor(w, u) => Sound(run[w].e)

\* What a run has done so far.
Work(w) ==
  LET u == RunUser(w) IN
  /\ run[w].pc \in {"disable", "disableEvict", "mutate", "mark"} => RunPay(w) \notin marked
  /\ run[w].pc \in {"mark", "record", "setCurrent"} => panel[u].expire = run[w].expire
  /\ run[w].pc = "record" /\ Path(run[w].e) = "RENEW" =>
       RunSub(w).id = current[u] /\ CurrentSub(u).status = "ACTIVE"
  /\ run[w].pc = "setCurrent" =>
       /\ run[w].id # 0
       /\ Snap(subs, run[w].id) = [id |-> run[w].id, expire |-> run[w].expire,
                                   trial |-> FALSE, status |-> "ACTIVE"]
  /\ run[w].pc = "evict" => Agree(u)
Works(u) == \A w \in Workers : WorksFor(w, u) => Work(w)

\* Once marked, and not being registered, billing and panel agree.
Registered(u) ==
  (\E p \in Payments : OwnerOf[p] = u /\ p \in marked)
    /\ (\A w \in Workers : WorksFor(w, u) => ~Registering(w))
  => Agree(u) /\ Fresh(u)

\* One message of a user at most is not about to be dropped.
OneLetter(u) ==
  \A e, f \in stream :
    OwnerOf[e.pay] = u /\ OwnerOf[f.pay] = u /\ ~Dropping(e) /\ ~Dropping(f) => e = f

Stored(u) ==
  /\ Before(u) /\ Messages(u) /\ panel[u].status = "ACTIVE" /\ Works(u) /\ Registered(u)
  /\ OneLetter(u)
StoresInv == \A u \in Users : Regular(u) => Stored(u)

\* The current subscription as a function of the table and the pointer.
LEMMA SnapIs ==
  /\ \A u \in Users : CurrentSub(u) = Snap(subs, current[u])
  /\ \A u \in Users : CurrentSub(u)' = Snap(subs', current'[u])
BY DEF CurrentSub, SnapshotOf, Snap

\* The current subscription never looks like an empty cache.
LEMMA NeverUncached ==
  ASSUME TypeOK, NEW u \in Users
  PROVE  CurrentSub(u) # Uncached /\ (Fresh(u) => CachedSub(u) = CurrentSub(u))
<1>1. CurrentSub(u).id = 0 => CurrentSub(u) = NoSub
  <2>1. 0 \notin DOMAIN subs
    BY DEF TypeOK, BillingType
  <2> QED BY <2>1, SnapIs DEF Snap, NoSub
<1>2. CurrentSub(u) # Uncached
  BY <1>1 DEF NoSub, Uncached
<1> QED BY <1>2 DEF Fresh, CachedSub

\* A step that has nothing to do with a user.
Outside(u) ==
  /\ current'[u] = current[u] /\ panel'[u] = panel[u]
  /\ cache'[u] \in {cache[u], Uncached}
  /\ \A i \in Nat : Knows(u, i) => Snap(subs', i) = Snap(subs, i)
  /\ \A p \in Payments : OwnerOf[p] = u =>
       (p \in marked' <=> p \in marked) /\ enqueued'[p] = enqueued[p]
  /\ \A e \in Entry : OwnerOf[e.pay] = u => (e \in stream' <=> e \in stream)
  /\ \A w \in Workers : WorksFor(w, u)' \/ WorksFor(w, u) => run'[w] = run[w]
  /\ \A h \in Hooks : hook'[h].pc \in {"fill", "enqueue"} /\ HookUser(h)' = u =>
       hook'[h] = hook[h]

\* What is said of a user survives a step that has nothing to do with them.
LEMMA OutsideStored ==
  ASSUME TypeOK, TypeOK', SettleInv, GuardInv, Onward, NEW u \in Users, Outside(u), Stored(u)
  PROVE  Stored(u)'
<1>t. /\ current \in [Users -> Nat] /\ stream \subseteq Entry /\ stream' \subseteq Entry
      /\ \A w \in Workers : run[w].e \in Entry /\ run[w].id \in Nat /\ RunPay(w) \in Payments
      /\ \A e \in Entry : e.pay \in Payments
  BY RunFields DEF TypeOK, BillingType, StoreType, Entry
<1>s. CurrentSub(u)' = CurrentSub(u)
  <2>1. Knows(u, current[u]) /\ current[u] \in Nat
    BY <1>t DEF Knows
  <2> QED BY <2>1, SnapIs DEF Outside
<1>a. (Agree(u)' <=> Agree(u)) /\ (Fresh(u) => Fresh(u)')
  BY <1>s DEF Outside, Agree, Fresh
<1>w. ASSUME NEW w \in Workers, WorksFor(w, u)' \/ WorksFor(w, u)
      PROVE  /\ run'[w] = run[w] /\ WorksFor(w, u)' /\ WorksFor(w, u)
             /\ RunPay(w)' = RunPay(w) /\ RunUser(w) = u /\ RunUser(w)' = u
  BY <1>w DEF Outside, WorksFor, RunUser, RunPay, Active
<1>m. ASSUME NEW e \in Entry, OwnerOf[e.pay] = u, enqueued[e.pay] = 1, Sound(e)
      PROVE  Sound(e)'
  <2>1. kind'[e.pay] = kind[e.pay]
    BY <1>m, <1>t DEF SettleInv, QueueInv, Onward, Paid
  <2>2. (Path(e)' = Path(e)) /\ (e.pay \in marked' <=> e.pay \in marked)
    BY <1>m, <1>t, <2>1 DEF Path, Outside
  <2> QED BY <1>m, <1>s, <2>2 DEF Sound, Outside
<1>1. Before(u)'
  BY <1>s, <1>a DEF Stored, Before, Outside, HookUser
<1>2. Messages(u)'
  <2>1. ASSUME NEW e \in stream', OwnerOf[e.pay] = u PROVE Sound(e)'
    BY <1>t, <1>m, <2>1 DEF Outside, Stored, Messages, SettleInv, QueueInv
  <2>2. ASSUME NEW w \in Workers, WorksFor(w, u)' PROVE Sound(run[w].e)'
    <3>1. Sound(run[w].e) /\ enqueued[run[w].e.pay] = 1 /\ OwnerOf[run[w].e.pay] = u
      BY <1>w, <2>2 DEF Stored, Messages, SettleInv, QueueInv, WorksFor, RunPay, RunUser
    <3>2. PICK e \in Entry : e = run[w].e
      BY <1>t
    <3>3. Sound(e)'
      BY <1>m, <3>1, <3>2
    <3>4. run'[w].e = e
      BY <1>w, <2>2, <3>2
    <3> QED BY <3>3, <3>4 DEF Sound, Path, HasTrial
  <2> QED BY <2>1, <2>2 DEF Messages
<1>3. panel'[u].status = "ACTIVE"
  BY DEF Stored, Outside
<1>4. Works(u)'
  <2> SUFFICES ASSUME NEW w \in Workers, WorksFor(w, u)' PROVE Work(w)'
    BY DEF Works
  <2>1. Work(w)
    BY <1>w DEF Stored, Works
  <2>2. RunPay(w) \in marked' <=> RunPay(w) \in marked
    BY <1>t, <1>w DEF Outside, RunUser, RunPay
  <2>3. Path(run[w].e)' = Path(run[w].e)
    <3>1. kind'[RunPay(w)] = kind[RunPay(w)]
      BY <1>t, <1>w, ActivePaid DEF Onward, Paid, WorksFor
    <3> QED BY <1>w, <3>1 DEF Path, HasTrial, RunPay
  <2>4. Snap(subs', run[w].id) = Snap(subs, run[w].id)
    <3>1. Knows(u, run[w].id)
      BY <1>w DEF Knows
    <3> QED BY <1>t, <3>1 DEF Outside
  <2>5. RunSub(w)' = RunSub(w) /\ run'[w] = run[w] /\ RunPay(w)' = RunPay(w)
        /\ RunUser(w) = u /\ RunUser(w)' = u
    BY <1>w DEF RunSub
  <2> QED BY <1>s, <1>a, <2>1, <2>2, <2>3, <2>4, <2>5 DEF Work, Outside
<1>5. Registered(u)'
  BY <1>w, <1>a DEF Stored, Registered, Outside, Registering
<1>6. OneLetter(u)'
  <2>1. ASSUME NEW e \in stream, OwnerOf[e.pay] = u, Dropping(e) PROVE Dropping(e)'
    <3>1. PICK w \in Workers : RunAt(w, "drop") /\ run[w].e.id = e.id
      BY <2>1 DEF Dropping
    <3>2. WorksFor(w, u)
      BY <2>1, <3>1, HeldPay DEF WorksFor, RunUser, RunAt, Active
    <3> QED BY <1>w, <3>1, <3>2 DEF Dropping, RunAt
  <2> QED BY <1>t, <2>1 DEF Stored, OneLetter, Outside
<1> QED BY <1>1, <1>2, <1>3, <1>4, <1>5, <1>6 DEF Stored

\* Users, time and most of a webhook handler's steps are outside everybody's
\* stores; the others are outside the stores of other users.
LEMMA HooksOutside ==
  ASSUME TypeOK, NEW u \in Users
  PROVE  /\ \A p \in Payments : (\E k \in Kinds : CreatePayment(p, k)) \/ HandlePaymentCanceled(p)
                                  => Outside(u)
         /\ \A h \in Hooks, p \in Payments : Deliver(h, p) => Outside(u)
         /\ \A h \in Hooks : \/ HookTransition(h) \/ HookRefetch(h) \/ HookRewards(h)
                             \/ HookFault(h)
                             => Outside(u)
         /\ Tick \/ (\E v \in Users : CacheExpires(v)) \/ UNCHANGED vars => Outside(u)
         /\ \A h \in Hooks : HookUser(h) # u /\ (HookCurrent(h) \/ HookFill(h) \/ HookEnqueue(h))
                             => Outside(u)
<1>t. /\ HookType /\ cache \in [Users -> Snapshot]
      /\ \A h \in Hooks : hook[h].pay \in Payments /\ HookUser(h) \in Users
      /\ enqueued \in [Payments -> Nat]
  BY PaymentTypes DEF TypeOK, StoreType, HookType, HookUser, HistoryType
<1>1. ASSUME NEW p \in Payments,
             (\E k \in Kinds : CreatePayment(p, k)) \/ HandlePaymentCanceled(p)
      PROVE  Outside(u)
  BY <1>1 DEF CreatePayment, HandlePaymentCanceled, Outside, queue, history
<1>2. ASSUME NEW h \in Hooks, NEW p \in Payments, Deliver(h, p) PROVE Outside(u)
  BY <1>2, <1>t DEF Deliver, Outside, HookType, billing, queue, history
<1>e. ASSUME NEW h \in Hooks, HookEnd(h) \/ HookGoto(h, "refetch") \/ HookGoto(h, "current")
      PROVE  \A g \in Hooks : hook'[g].pc \in {"fill", "enqueue"} => hook'[g] = hook[g]
  BY <1>e, <1>t DEF HookEnd, HookGoto, HookType, IdleHook
<1>3. ASSUME NEW h \in Hooks,
             HookTransition(h) \/ HookRefetch(h) \/ HookRewards(h) \/ HookFault(h)
      PROVE  Outside(u)
  <2>1. HookEnd(h) \/ HookGoto(h, "refetch") \/ HookGoto(h, "current")
    BY <1>3 DEF HookTransition, HookRefetch, HookRewards, HookFault
  <2>2. UNCHANGED <<current, panel, cache, subs, marked, enqueued, stream, run>>
    BY <1>3 DEF HookTransition, HookRefetch, HookRewards, HookFault, billing, queue, history
  <2> QED BY <1>e, <2>1, <2>2 DEF Outside
<1>4. ASSUME Tick \/ (\E v \in Users : CacheExpires(v)) \/ UNCHANGED vars PROVE Outside(u)
  <2>1. cache'[u] \in {cache[u], Uncached}
    BY <1>4, <1>t DEF Tick, CacheExpires, vars
  <2>2. UNCHANGED <<current, panel, subs, marked, enqueued, stream, run, hook>>
    BY <1>4 DEF Tick, CacheExpires, vars, billing, queue, history
  <2> QED BY <2>1, <2>2 DEF Outside
<1>5. ASSUME NEW h \in Hooks, HookUser(h) # u, HookCurrent(h) \/ HookFill(h) \/ HookEnqueue(h)
      PROVE  Outside(u)
  <2>1. UNCHANGED <<current, panel, subs, marked, run>>
    BY <1>5 DEF HookCurrent, HookFill, HookEnqueue, billing, queue, history
  <2>2. cache'[u] = cache[u]
    BY <1>5, <1>t DEF HookCurrent, HookFill, HookEnqueue
  <2>3. \A g \in Hooks : g # h => hook'[g] = hook[g]
    BY <1>5, <1>t DEF HookCurrent, HookFill, HookEnqueue, HookGoto, HookEnd, HookType
  <2>4. hook'[h].pc \in {"fill", "enqueue"} => hook'[h].pay = hook[h].pay
    BY <1>5, <1>t DEF HookCurrent, HookFill, HookEnqueue, HookGoto, HookEnd, HookType, IdleHook
  <2>5. \A g \in Hooks : hook'[g].pc \in {"fill", "enqueue"} /\ HookUser(g)' = u =>
          hook'[g] = hook[g]
    BY <1>5, <2>3, <2>4 DEF HookUser
  <2>6. /\ \A p \in Payments : OwnerOf[p] = u => enqueued'[p] = enqueued[p]
        /\ \A e \in Entry : OwnerOf[e.pay] = u => (e \in stream' <=> e \in stream)
    <3>1. CASE HookCurrent(h) \/ HookFill(h)
      BY <3>1 DEF HookCurrent, HookFill, queue, history
    <3>2. CASE HookEnqueue(h)
      BY <1>5, <1>t, <3>2 DEF HookEnqueue, HookUser
    <3> QED BY <1>5, <3>1, <3>2
  <2> QED BY <2>1, <2>2, <2>5, <2>6 DEF Outside
<1> QED BY <1>1, <1>2, <1>3, <1>4, <1>5

\* A write to a subscription that is not held for a user leaves that user's.
LEMMA SnapKept ==
  ASSUME TypeOK, Apart, NEW u \in Users, NEW v \in Users, u # v, NEW j \in Nat,
         j = 0 \/ Knows(v, j), NEW i \in Nat, Knows(u, i)
  PROVE  /\ Snap([subs EXCEPT ![j].status = "DISABLED"], i) = Snap(subs, i)
         /\ \A n \in Nat : Snap([subs EXCEPT ![j].expire = n], i) = Snap(subs, i)
         /\ \A r \in SubRecord : Snap(Append(subs, r), i) = Snap(subs, i)
<1>1. subs \in Seq(SubRecord) /\ 0 \notin DOMAIN subs
  BY DEF TypeOK, BillingType
<1>2. i = 0 \/ i # j
  BY DEF Apart
<1>3. i <= Len(subs)
  <2>1. i = 0 => i <= Len(subs)
    BY <1>1, LenProperties
  <2> QED BY <2>1 DEF Apart
<1>4. Snap([subs EXCEPT ![j].status = "DISABLED"], i) = Snap(subs, i)
  BY <1>1, <1>2 DEF Snap
<1>5. ASSUME NEW n \in Nat PROVE Snap([subs EXCEPT ![j].expire = n], i) = Snap(subs, i)
  BY <1>1, <1>2 DEF Snap
<1>6. ASSUME NEW r \in SubRecord PROVE Snap(Append(subs, r), i) = Snap(subs, i)
  <2>1. CASE i = 0
    <3>1. 0 \notin DOMAIN Append(subs, r)
      BY <1>1, AppendProperties
    <3> QED BY <1>1, <2>1, <3>1 DEF Snap
  <2>2. CASE i # 0
    <3>1. i \in 1..Len(subs)
      BY <1>1, <1>3, <2>2, LenProperties
    <3>2. i \in DOMAIN subs /\ i \in DOMAIN Append(subs, r) /\ Append(subs, r)[i] = subs[i]
      BY <1>1, <3>1, AppendProperties, LenProperties
    <3> QED BY <3>2 DEF Snap
  <2> QED BY <2>1, <2>2
<1> QED BY <1>4, <1>5, <1>6

\* A step of a run is outside the stores of everyone but its user.
LEMMA WorkersOutside ==
  ASSUME TypeOK, SettleInv, GuardInv, Apart, NEW u \in Users, NEW w \in Workers,
         RunUser(w) # u,
         RunStep(w) \/ Raises(w) \/ MutateRaises(w) \/ FlushRaises(w) \/ FailRaises(w) \/ Crash(w)
  PROVE  Outside(u)
<1> DEFINE x == RunUser(w)
<1>t. /\ RunType /\ run[w].e \in Entry /\ RunPay(w) \in Payments /\ RunUser(w) \in Users
      /\ RunSub(w) \in Snapshot /\ run[w].expire \in Nat
      /\ current \in [Users -> Nat] /\ subs \in Seq(SubRecord) /\ panel \in [Users -> Account]
      /\ cache \in [Users -> Snapshot] /\ stream \subseteq Entry
  BY RunFields DEF TypeOK, BillingType, StoreType
<1>w. /\ Active(w)
      /\ UNCHANGED <<hook, enqueued>> /\ \A v \in Workers : v # w => run'[v] = run[v]
      /\ run'[w].pc = "idle" \/ run'[w].e.pay = RunPay(w)
  <2>1. Active(w)
    BY DEF RunStep, Check, Disable, Evict, Mutate, MarkApplied, Record, SetCurrent, WrapUp,
           Flush, Redirect, Fail, Ack, Retry, Raises, MutateRaises, FlushRaises, FailRaises,
           Crash, RunAt, Active
  <2>2. run'[w].pc = "idle" \/ run'[w].e.pay = RunPay(w)
    <3>1. CASE Ack(w) \/ Crash(w)
      BY <1>t, <3>1 DEF Ack, Crash, IdleRun, RunType
    <3>2. CASE Mutate(w) \/ MutateRaises(w)
      <4>1. run'[w].e = Touched(run[w].e)
        BY <1>t, <3>2 DEF Mutate, MutateRaises, RunType, RunRecord
      <4> QED BY <1>t, <4>1, TouchedPay DEF RunPay
    <3>3. CASE Record(w)
      <4>1. run'[w].e = run[w].e
        <5>1. CASE Path(run[w].e) = "RENEW"
          BY <1>t, <3>3, <5>1, Goes DEF Record, RunPcs
        <5>2. CASE Path(run[w].e) # "RENEW"
          BY <1>t, <3>3, <5>2 DEF Record, RunType, RunRecord
        <5> QED BY <5>1, <5>2
      <4> QED BY <4>1 DEF RunPay
    <3>4. CASE \E pc \in RunPcs : RunGoto(w, pc)
      BY <1>t, <3>4, Goes DEF RunPay
    <3>5. ASSUME ~(Ack(w) \/ Crash(w) \/ Mutate(w) \/ MutateRaises(w) \/ Record(w))
          PROVE  \E pc \in RunPcs : RunGoto(w, pc)
      BY <3>5 DEF RunStep, Check, Disable, Evict, MarkApplied, SetCurrent, WrapUp,
           Flush, Redirect, Fail, Retry, Raises, FlushRaises, FailRaises, RunPcs, AfterHandler
    <3> QED BY <3>1, <3>2, <3>3, <3>4, <3>5
  <2> QED BY <2>1, <2>2, WorkerSteps DEF WorkerFrame
<1>r. \A v \in Workers : WorksFor(v, u)' \/ WorksFor(v, u) => run'[v] = run[v]
  BY <1>w DEF WorksFor, RunUser, RunPay, Active
<1>l. ASSUME current'[u] = current[u], panel'[u] = panel[u], cache'[u] = cache[u],
             \A i \in Nat : Knows(u, i) => Snap(subs', i) = Snap(subs, i),
             \A p \in Payments : OwnerOf[p] = u => (p \in marked' <=> p \in marked),
             \A e \in Entry : OwnerOf[e.pay] = u => (e \in stream' <=> e \in stream)
      PROVE  Outside(u)
  BY <1>l, <1>r, <1>w DEF Outside
<1>1. CASE Check(w) \/ Redirect(w) \/ Raises(w) \/ Crash(w)
  BY <1>1, <1>l DEF Check, Redirect, Raises, Crash, billing, queue
<1>2. CASE Fail(w) \/ FailRaises(w)
  BY <1>2, <1>l DEF Fail, FailRaises, queue
<1>3. CASE Disable(w)
  <2>1. \A i \in Nat : Knows(u, i) => Snap(subs', i) = Snap(subs, i)
    <3>1. Knows(x, RunSub(w).id) /\ RunSub(w).id \in Nat
      BY <1>t DEF Knows, Snapshot
    <3> QED BY <1>3, <1>t, <3>1, SnapKept DEF Disable
  <2> QED BY <1>3, <1>l, <2>1 DEF Disable, queue
<1>4. CASE Evict(w) \/ WrapUp(w)
  <2>1. cache'[u] = cache[u]
    BY <1>4, <1>t DEF Evict, WrapUp
  <2> QED BY <1>4, <1>l, <2>1 DEF Evict, WrapUp, billing, queue
<1>5. CASE Mutate(w) \/ MutateRaises(w)
  <2>1. panel'[u] = panel[u]
    BY <1>5, <1>t DEF Mutate, MutateRaises, MutatePanel
  <2> QED BY <1>5, <1>l, <2>1 DEF Mutate, MutateRaises, billing, queue
<1>6. CASE MarkApplied(w)
  BY <1>6, <1>l, <1>t DEF MarkApplied, billing, queue, RunUser
<1>7. CASE Record(w)
  <2>1. \A i \in Nat : Knows(u, i) => Snap(subs', i) = Snap(subs, i)
    <3>1. Knows(x, RunSub(w).id) /\ RunSub(w).id \in Nat
      BY <1>t DEF Knows, Snapshot
    <3>2. [expire |-> run[w].expire, trial |-> FALSE, status |-> "ACTIVE"] \in SubRecord
      BY <1>t DEF SubRecord, SubStatuses
    <3>3. CASE subs' = [subs EXCEPT ![RunSub(w).id].expire = run[w].expire]
      BY <1>t, <3>1, <3>3, SnapKept
    <3>4. CASE subs' = Append(subs, [expire |-> run[w].expire, trial |-> FALSE,
                                     status |-> "ACTIVE"])
      <4> DEFINE r == [expire |-> run[w].expire, trial |-> FALSE, status |-> "ACTIVE"]
      <4> HIDE DEF r
      <4> QED BY <1>t, <3>1, <3>2, <3>4, SnapKept DEF r
    <3> QED BY <1>7, <3>3, <3>4 DEF Record
  <2> QED BY <1>7, <1>l, <2>1 DEF Record, queue
<1>8. CASE SetCurrent(w)
  <2>1. current'[u] = current[u]
    BY <1>8, <1>t DEF SetCurrent
  <2> QED BY <1>8, <1>l, <2>1 DEF SetCurrent, queue
<1>9. CASE Flush(w) \/ FlushRaises(w)
  <2>1. FlushBilling(x) \/ UNCHANGED <<subs, cache>>
    BY <1>9 DEF Flush, FlushRaises
  <2>2. FlushPanel(x) \/ UNCHANGED panel
    BY <1>9 DEF Flush, FlushRaises
  <2>3. cache'[u] = cache[u] /\ panel'[u] = panel[u]
    BY <1>t, <2>1, <2>2 DEF FlushBilling, FlushPanel
  <2>4. \A i \in Nat : Knows(u, i) => Snap(subs', i) = Snap(subs, i)
    <3>1. CachedSub(x) \in Snapshot /\ now \in Nat
      BY <1>t, SnapshotTypes DEF TypeOK, StoreType
    <3>2. FlushExpire(x) \in Nat
      <4>1. Later(CachedSub(x).expire, now) \in Nat
        BY <3>1, LaterType DEF Snapshot
      <4> QED BY <4>1, BoundTypes DEF FlushExpire
    <3>3. CachedSub(x).id \in Nat /\ (CachedSub(x).id = 0 \/ Knows(x, CachedSub(x).id))
      BY <1>t, <3>1, SnapshotId DEF Knows, Snapshot
    <3>4. CASE subs' = [subs EXCEPT ![CachedSub(x).id].expire = FlushExpire(x)]
      BY <1>t, <3>2, <3>3, <3>4, SnapKept
    <3>5. CASE subs' = subs
      BY <3>5
    <3> QED BY <2>1, <3>4, <3>5 DEF FlushBilling
  <2> QED BY <1>9, <1>l, <2>3, <2>4 DEF Flush, FlushRaises, queue
<1>10. CASE Ack(w)
  <2>1. \A e \in Entry : OwnerOf[e.pay] = u => (e \in stream' <=> e \in stream)
    BY <1>10, <1>w, HeldPay DEF Ack, RunUser
  <2> QED BY <1>10, <1>l, <2>1 DEF Ack, billing
<1>11. CASE Retry(w)
  <2>1. \A e \in stream' : e \in stream \/ e.pay = RunPay(w)
    BY <1>11 DEF Retry, queue, RunPay
  <2>2. stream \subseteq stream'
    BY <1>11 DEF Retry, queue
  <2>3. \A e \in Entry : OwnerOf[e.pay] = u => (e \in stream' <=> e \in stream)
    BY <2>1, <2>2 DEF RunUser
  <2> QED BY <1>11, <1>l, <2>3 DEF Retry, billing
<1> QED BY <1>1, <1>2, <1>3, <1>4, <1>5, <1>6, <1>7, <1>8, <1>9, <1>10, <1>11 DEF RunStep

\* Taking a message is outside the stores of everyone but its user.
LEMMA TakeOutside ==
  ASSUME TypeOK, NEW w \in Workers, NEW e \in stream, NEW u \in Users, OwnerOf[e.pay] # u,
         RunAt(w, "idle"),
         run' = [run EXCEPT ![w] = [pc |-> "check", e |-> e, expire |-> 0, id |-> 0]],
         UNCHANGED <<billing, panel, marked, cache, queue, hook, now, faults, history>>
  PROVE  Outside(u)
<1>1. /\ run'[w].e = e /\ run'[w].pc = "check" /\ \A v \in Workers : v # w => run'[v] = run[v]
  BY DEF TypeOK, RunType
<1>2. \A v \in Workers : WorksFor(v, u)' \/ WorksFor(v, u) => run'[v] = run[v]
  BY <1>1 DEF WorksFor, RunUser, RunPay, Active, RunAt
<1> QED BY <1>2 DEF Outside, billing, queue, history

\* Two messages that say the same but for the expiry a renewal writes.
Alike(e, f) ==
  /\ f.pay = e.pay /\ f.sub.id = e.sub.id /\ f.sub.trial = e.sub.trial
  /\ f.sub.status = e.sub.status

\* A retried or redelivered copy of a sound message is sound.
LEMMA AlikeSound ==
  ASSUME TypeOK, SettleInv, Onward, NEW e \in Entry, NEW f \in Entry, Sound(e), Alike(e, f),
         enqueued[e.pay] = 1, UNCHANGED <<subs, current, marked>>
  PROVE  Sound(f)'
<1>1. e.pay \in Payments /\ f.pay = e.pay
  BY DEF Entry, Alike
<1>2. kind'[e.pay] = kind[e.pay]
  BY <1>1 DEF SettleInv, QueueInv, Onward, Paid
<1>3. Path(f)' = Path(e)
  BY <1>2 DEF Path, HasTrial, Alike
<1>4. CurrentSub(OwnerOf[e.pay])' = CurrentSub(OwnerOf[e.pay])
  BY DEF CurrentSub, SnapshotOf
<1> QED BY <1>1, <1>3, <1>4 DEF Sound, Alike

\* A step of a run, or the start of one, that writes to no store a payment
\* depends on.
LEMMA CalmStored ==
  ASSUME TypeOK, TypeOK', SettleInv, Onward, NEW u \in Users, Stored(u), NEW w \in Workers,
         UNCHANGED <<subs, current, panel, marked, enqueued>>, Fresh(u) => Fresh(u)',
         \A v \in Workers : v # w => run'[v] = run[v],
         WorksFor(w, u) => ~Registering(w),
         NEW e \in Entry, Sound(e), OwnerOf[e.pay] = u, enqueued[e.pay] = 1,
         WorksFor(w, u)' =>
           /\ Alike(e, run'[w].e)
           /\ run'[w].pc \notin {"mark", "record", "setCurrent", "evict"}
           /\ run'[w].pc \in {"disable", "disableEvict", "mutate"} => e.pay \notin marked,
         \A f \in stream' : OwnerOf[f.pay] = u => Alike(e, f) \/ \E o \in stream : Alike(o, f)
  PROVE  Before(u)' /\ Messages(u)' /\ panel'[u].status = "ACTIVE" /\ Works(u)' /\ Registered(u)'
<1>t. /\ stream \subseteq Entry /\ stream' \subseteq Entry
      /\ \A v \in Workers : run[v].e \in Entry /\ run'[v].e \in Entry
      /\ \A f \in Entry : f.pay \in Payments
  BY RunFields DEF TypeOK, StoreType, Entry, RunType, RunRecord
<1>s. CurrentSub(u)' = CurrentSub(u) /\ (Agree(u)' <=> Agree(u))
  BY DEF CurrentSub, SnapshotOf, Agree
<1>1. Before(u)'
  BY <1>t DEF Before
<1>2. Messages(u)'
  <2>1. ASSUME NEW f \in stream', OwnerOf[f.pay] = u PROVE Sound(f)'
    <3>1. ASSUME NEW o \in stream, Alike(o, f) PROVE Sound(f)'
      <4>1. OwnerOf[o.pay] = u
        BY <2>1, <3>1 DEF Alike
      <4>2. Sound(o) /\ enqueued[o.pay] = 1
        BY <4>1 DEF Stored, Messages, SettleInv, QueueInv
      <4> QED BY <1>t, <3>1, <4>2, AlikeSound
    <3>2. CASE Alike(e, f)
      BY <1>t, <3>2, AlikeSound
    <3> QED BY <2>1, <3>1, <3>2
  <2>2. ASSUME NEW v \in Workers, WorksFor(v, u)' PROVE Sound(run[v].e)'
    <3>0. PICK f \in Entry : f = run'[v].e
      BY <1>t
    <3>1. Sound(f)'
      <4>1. CASE v = w
        BY <2>2, <3>0, <4>1, AlikeSound
      <4>2. CASE v # w
        <5>1. run'[v] = run[v] /\ WorksFor(v, u)
          BY <2>2, <4>2 DEF WorksFor, Active, RunUser, RunPay
        <5>2. Sound(f) /\ enqueued[f.pay] = 1
          BY <3>0, <5>1 DEF Stored, Messages, SettleInv, QueueInv, WorksFor, RunPay
        <5> QED BY <5>2, AlikeSound DEF Alike
      <4> QED BY <4>1, <4>2
    <3> QED BY <3>0, <3>1 DEF Sound, Path, HasTrial
  <2> QED BY <2>1, <2>2 DEF Messages
<1>3. panel'[u].status = "ACTIVE"
  BY DEF Stored
<1>4. Works(u)'
  <2> SUFFICES ASSUME NEW v \in Workers, WorksFor(v, u)' PROVE Work(v)'
    BY DEF Works
  <2>1. CASE v = w
    <3>1. RunPay(w)' = e.pay
      BY <2>1 DEF Alike, RunPay
    <3> QED BY <2>1, <3>1 DEF Work
  <2>2. CASE v # w
    <3>1. run'[v] = run[v] /\ WorksFor(v, u)
      BY <2>2 DEF WorksFor, Active, RunUser, RunPay
    <3>2. Work(v)
      BY <3>1 DEF Stored, Works
    <3>3. Path(run[v].e)' = Path(run[v].e)
      <4>1. kind'[RunPay(v)] = kind[RunPay(v)]
        BY <3>1, ActivePaid DEF Onward, Paid, WorksFor
      <4> QED BY <3>1, <4>1 DEF Path, HasTrial, RunPay
    <3>4. RunPay(v)' = RunPay(v) /\ RunUser(v) = u /\ RunUser(v)' = u /\ RunSub(v)' = RunSub(v)
      BY <3>1 DEF WorksFor, RunUser, RunPay, RunSub
    <3> QED BY <1>s, <3>1, <3>2, <3>3, <3>4 DEF Work
  <2> QED BY <2>1, <2>2
<1>5. Registered(u)'
  <2>1. ASSUME \A v \in Workers : WorksFor(v, u)' => ~Registering(v)',
               NEW v \in Workers, WorksFor(v, u)
        PROVE  ~Registering(v)
    BY <2>1 DEF WorksFor, Active, RunUser, RunPay, Registering
  <2>2. \A p \in Payments : p \in marked' <=> p \in marked
    OBVIOUS
  <2> QED BY <1>s, <2>1, <2>2 DEF Stored, Registered
<1> QED BY <1>1, <1>2, <1>3, <1>4, <1>5

\* A run that keeps the stream, and was not about to drop its message, leaves
\* one letter.
LEMMA LetterKept ==
  ASSUME NEW u \in Users, OneLetter(u), NEW w \in Workers, stream' = stream,
         run[w].pc # "drop", \A v \in Workers : v # w => run'[v] = run[v]
  PROVE  OneLetter(u)'
<1>1. \A e \in stream : Dropping(e) => Dropping(e)'
  BY DEF Dropping, RunAt
<1> QED BY <1>1 DEF OneLetter

\* An ack removes the letter the run dropped, or the one it answered.
LEMMA LetterAcked ==
  ASSUME TypeOK, NEW u \in Users, OneLetter(u), NEW w \in Workers, Ack(w)
  PROVE  OneLetter(u)'
<1>1. /\ stream' = {e \in stream : e.id # run[w].e.id}
      /\ \A v \in Workers : v # w => run'[v] = run[v]
  BY DEF Ack, TypeOK, RunType
<1>2. \A e \in stream' : Dropping(e) => Dropping(e)'
  BY <1>1 DEF Dropping, RunAt
<1> QED BY <1>1, <1>2 DEF OneLetter

\* A retry replaces the letter.
LEMMA LetterRetried ==
  ASSUME TypeOK, SettleInv, GuardInv, NEW u \in Users, Regular(u), OneLetter(u),
         NEW w \in Workers, RunUser(w) = u, Retry(w)
  PROVE  OneLetter(u)'
<1>1. /\ run[w].pc = "retry" /\ RunType /\ nextId \in Nat /\ stream \subseteq Entry
  BY DEF Retry, RunAt, TypeOK, StoreType
<1>2. CASE RetryAllowed(run[w].e)
  <2>1. PICK s \in {run[w].e.sub} \union Received(run[w].e) :
          stream' = stream \union {[id |-> nextId, pay |-> run[w].e.pay,
                                    try |-> run[w].e.try + 1, sub |-> s]}
    BY <1>2 DEF Retry
  <2> DEFINE new == [id |-> nextId, pay |-> run[w].e.pay, try |-> run[w].e.try + 1, sub |-> s]
  <2>2. stream' = stream \union {new} /\ RunGoto(w, "drop")
    BY <1>2, <2>1 DEF Retry
  <2> HIDE DEF new
  <2>3. /\ \A v \in Workers : v # w => run'[v] = run[v]
        /\ run'[w].e = run[w].e /\ run'[w].pc = "drop"
    BY <1>1, <2>2, GotoFrame DEF RunPcs
  <2>4. PICK m \in stream : m.id = run[w].e.id /\ m.pay = RunPay(w)
    BY <1>1 DEF GuardInv, StreamInv, Active
  <2>5. ~Dropping(m) /\ Dropping(m)' /\ OwnerOf[m.pay] = u
    BY <1>1, <2>3, <2>4 DEF GuardInv, StreamInv, Dropping, RunAt, Active, RunUser
  <2>6. \A e \in stream : Dropping(e) => Dropping(e)'
    BY <1>1, <2>3 DEF Dropping, RunAt
  <2>7. ASSUME NEW e \in stream, OwnerOf[e.pay] = u, ~Dropping(e)' PROVE FALSE
    <3>1. e = m
      BY <2>5, <2>6, <2>7 DEF OneLetter
    <3> QED BY <2>5, <2>7, <3>1
  <2> QED BY <2>2, <2>7 DEF OneLetter
<1>3. CASE ~RetryAllowed(run[w].e)
  <2>1. RunGoto(w, "ack") /\ stream' = stream /\ "ack" \in RunPcs
    BY <1>3 DEF Retry, queue, RunPcs
  <2> QED BY <1>1, <2>1, GotoFrame, LetterKept
<1> QED BY <1>2, <1>3

\* Two runs of a regular user are one run, unless one is about to drop its message.
LEMMA OnlyRun ==
  ASSUME TypeOK, SettleInv, GuardInv, NEW u \in Users, Regular(u), OneLetter(u),
         NEW v \in Workers, NEW w \in Workers, WorksFor(v, u), WorksFor(w, u),
         run[v].pc # "drop", run[w].pc # "drop"
  PROVE  v = w
<1>1. PICK e \in stream : e.id = run[v].e.id /\ e.pay = RunPay(v)
  BY DEF GuardInv, StreamInv, WorksFor
<1>2. PICK f \in stream : f.id = run[w].e.id /\ f.pay = RunPay(w)
  BY DEF GuardInv, StreamInv, WorksFor
<1>3. ~Dropping(e) /\ ~Dropping(f)
  BY <1>1, <1>2 DEF GuardInv, StreamInv, Dropping, RunAt, Active, WorksFor
<1>4. e = f
  BY <1>1, <1>2, <1>3 DEF OneLetter, WorksFor, RunUser
<1> QED BY <1>1, <1>2, <1>4 DEF GuardInv, StreamInv, WorksFor

\* What holds before a step of a regular user's run.
Standing(u, w) ==
  /\ TypeOK /\ TypeOK' /\ SettleInv /\ GuardInv /\ ProgressInv /\ Apart /\ Onward
  /\ Regular(u) /\ Regular(u)' /\ Stored(u) /\ WorksFor(w, u)

\* What is known of the run itself.
LEMMA StandingRun ==
  ASSUME NEW u \in Users, NEW w \in Workers, Standing(u, w)
  PROVE  /\ RunType /\ run[w].e \in Entry /\ run[w].pc \in RunPcs /\ run[w].pc # "idle"
         /\ RunPay(w) \in Payments /\ RunUser(w) = u /\ OwnerOf[RunPay(w)] = u
         /\ RunSub(w) \in Snapshot /\ run[w].expire \in Nat
         /\ enqueued[RunPay(w)] = 1 /\ txStatus[RunPay(w)] \in Paid
         /\ Sound(run[w].e) /\ Work(w) /\ Progress(w)
BY RunFields, ActivePaid
   DEF Standing, TypeOK, WorksFor, Active, RunUser, Stored, Messages, Works, ProgressInv

\* Everything queued for the user is the run's payment.
LEMMA StandingPay ==
  ASSUME NEW u \in Users, NEW w \in Workers, Standing(u, w)
  PROVE  /\ \A p \in Payments : OwnerOf[p] = u /\ (enqueued[p] > 0 \/ p \in marked) => p = RunPay(w)
         /\ \A e \in stream : OwnerOf[e.pay] = u => e.pay = RunPay(w)
         /\ \A v \in Workers : WorksFor(v, u) => RunPay(v) = RunPay(w)
<1>1. /\ \A p \in Payments : OwnerOf[p] = u /\ txStatus[p] \in Paid => p = RunPay(w)
      /\ \A e \in stream : e.pay \in Payments
      /\ \A v \in Workers : RunPay(v) \in Payments
  BY StandingRun, OnePayment, RunFields DEF Standing, TypeOK, StoreType, Entry
<1>2. \A p \in Payments : p \in marked => enqueued[p] = 1
  BY DEF Standing, SettleInv, QueueInv
<1>3. \A p \in Payments : enqueued[p] > 0 => txStatus[p] \in Paid
  BY DEF Standing, SettleInv, QueueInv
<1>4. \A e \in stream : enqueued[e.pay] = 1
  BY DEF Standing, SettleInv, QueueInv
<1>5. \A v \in Workers : Active(v) => enqueued[RunPay(v)] = 1
  BY DEF Standing, SettleInv, QueueInv
<1> QED BY <1>1, <1>2, <1>3, <1>4, <1>5 DEF WorksFor, RunUser

\* The other runs of the user are about to drop their messages.
LEMMA StandingAlone ==
  ASSUME NEW u \in Users, NEW w \in Workers, Standing(u, w), run[w].pc # "drop",
         NEW v \in Workers, WorksFor(v, u), v # w
  PROVE  run[v].pc = "drop"
BY OnlyRun DEF Standing, Stored

\* A fault in one of the gaps that tear a run would have made the user irregular.
LEMMA NotTorn ==
  ASSUME NEW u \in Users, NEW w \in Workers, Standing(u, w), NEW where, Fault(w, where)
  PROVE  where \notin {"record", "setCurrent", "evict", "flush", "drop"}
<1>1. where \in halted'[RunPay(w)]
  BY FaultNotes DEF Standing
<1>2. RunPay(w) \in Payments /\ OwnerOf[RunPay(w)] = u /\ txStatus'[RunPay(w)] \in Paid
  BY StandingRun DEF Standing, Onward
<1> QED BY <1>1, <1>2 DEF Standing, Regular, Torn

\* The steps that write to no store a payment depends on.
LEMMA CalmSteps ==
  ASSUME NEW u \in Users, NEW w \in Workers, Standing(u, w),
         \/ Check(w) \/ (Evict(w) /\ RunAt(w, "disableEvict")) \/ WrapUp(w) \/ Redirect(w)
         \/ Fail(w) \/ Ack(w) \/ Retry(w) \/ Raises(w) \/ FailRaises(w) \/ Crash(w)
         \/ Flush(w) /\ ~Flushable(u)
  PROVE  Stored(u)'
<1>t. /\ RunType /\ run[w].e \in Entry /\ RunPay(w) \in Payments /\ RunUser(w) = u
      /\ OwnerOf[RunPay(w)] = u /\ enqueued[RunPay(w)] = 1 /\ Sound(run[w].e) /\ Work(w)
      /\ run[w].pc \in RunPcs /\ Stored(u) /\ cache \in [Users -> Snapshot]
  BY StandingRun DEF Standing, TypeOK, StoreType
<1>a. Alike(run[w].e, run[w].e)
  BY DEF Alike
<1>c. ASSUME UNCHANGED <<subs, current, panel, marked, enqueued>>, Fresh(u) => Fresh(u)',
             \A v \in Workers : v # w => run'[v] = run[v], ~Registering(w),
             \/ run'[w].pc = "idle"
             \/ /\ run'[w].e = run[w].e
                /\ run'[w].pc \notin {"mark", "record", "setCurrent", "evict"}
                /\ run'[w].pc \in {"disable", "disableEvict", "mutate"} => RunPay(w) \notin marked,
             \A f \in stream' : OwnerOf[f.pay] = u =>
               f \in stream \/ Alike(run[w].e, f) \/ \E o \in stream : Alike(o, f),
             OneLetter(u)'
      PROVE  Stored(u)'
  <2>1. WorksFor(w, u)' => run'[w].pc # "idle"
    BY DEF WorksFor, Active
  <2>2. TypeOK /\ TypeOK' /\ SettleInv /\ Onward /\ run[w].e.pay = RunPay(w)
    BY DEF Standing, RunPay
  <2>3. Before(u)' /\ Messages(u)' /\ panel'[u].status = "ACTIVE" /\ Works(u)' /\ Registered(u)'
    <3>1. \A f \in stream' : OwnerOf[f.pay] = u =>
            Alike(run[w].e, f) \/ \E o \in stream : Alike(o, f)
      BY <1>c DEF Alike
    <3> QED BY <1>t, <1>a, <1>c, <2>1, <2>2, <3>1, CalmStored
  <2> QED BY <1>c, <2>3 DEF Stored
<1>g. ASSUME NEW pc \in RunPcs, RunGoto(w, pc), stream' = stream, run[w].pc # "drop",
             UNCHANGED <<subs, current, panel, marked, enqueued>>, Fresh(u) => Fresh(u)',
             ~Registering(w),
             pc \notin {"mark", "record", "setCurrent", "evict"},
             pc \in {"disable", "disableEvict", "mutate"} => RunPay(w) \notin marked
      PROVE  Stored(u)'
  <2>1. /\ run'[w].pc = pc /\ run'[w].e = run[w].e /\ \A v \in Workers : v # w => run'[v] = run[v]
    BY <1>t, <1>g, Goes
  <2>2. OneLetter(u)'
    BY <1>t, <1>g, <2>1, LetterKept DEF Stored
  <2> QED BY <1>c, <1>g, <2>1, <2>2
<1>f. UNCHANGED <<subs, current, cache>> => (Fresh(u) => Fresh(u)')
  BY DEF Fresh, CurrentSub, SnapshotOf
<1>1. CASE Check(w)
  <2>1. PICK pc \in {"fail", "wrapUp", "flush", "disable", "mutate"} :
          RunGoto(w, pc) /\ (pc \in {"disable", "mutate"} => RunPay(w) \notin marked)
    BY <1>1 DEF Check, AfterHandler
  <2>2. /\ run[w].pc = "check" /\ stream' = stream
        /\ UNCHANGED <<subs, current, cache, panel, marked, enqueued>>
    BY <1>1 DEF Check, RunAt, billing, queue, history
  <2> QED BY <1>f, <1>g, <2>1, <2>2 DEF RunPcs, Registering
<1>2. CASE Evict(w) /\ RunAt(w, "disableEvict")
  <2>1. /\ run[w].pc = "disableEvict" /\ RunGoto(w, "mutate") /\ stream' = stream
        /\ UNCHANGED <<subs, current, panel, marked, enqueued>>
        /\ cache' = [cache EXCEPT ![u] = Uncached]
    BY <1>2, <1>t DEF Evict, RunAt, billing, queue, history
  <2>2. Fresh(u)'
    BY <1>t, <2>1 DEF Fresh
  <2>3. RunPay(w) \notin marked
    BY <1>t, <2>1 DEF Work
  <2> QED BY <1>g, <2>1, <2>2, <2>3 DEF RunPcs, Registering
<1>3. CASE WrapUp(w)
  <2>1. /\ run[w].pc = "wrapUp" /\ RunGoto(w, "flush") /\ stream' = stream
        /\ UNCHANGED <<subs, current, panel, marked, enqueued>>
        /\ cache' = [cache EXCEPT ![u] = CachedSub(u)]
    BY <1>3, <1>t DEF WrapUp, RunAt, billing, queue, history
  <2>2. Fresh(u) => Fresh(u)'
    <3>1. CurrentSub(u)' = CurrentSub(u)
      BY <2>1 DEF CurrentSub, SnapshotOf
    <3> QED BY <1>t, <2>1, <3>1, NeverUncached DEF Fresh, Standing
  <2> QED BY <1>g, <2>1, <2>2 DEF RunPcs, Registering
<1>4. CASE Redirect(w)
  <2>1. /\ run[w].pc = "redirect" /\ RunGoto(w, "ack") /\ stream' = stream
        /\ UNCHANGED <<subs, current, cache, panel, marked, enqueued>>
    BY <1>4 DEF Redirect, RunAt, billing, queue, history
  <2> QED BY <1>f, <1>g, <2>1 DEF RunPcs, Registering
<1>5. CASE Fail(w) \/ FailRaises(w)
  <2>1. /\ run[w].pc = "fail" /\ stream' = stream
        /\ UNCHANGED <<subs, current, cache, panel, marked, enqueued>>
    BY <1>5 DEF Fail, FailRaises, RunAt, queue, history
  <2>2. PICK pc \in {"ack", "retry"} : RunGoto(w, pc)
    BY <1>5 DEF Fail, FailRaises
  <2> QED BY <1>f, <1>g, <2>1, <2>2 DEF RunPcs, Registering
<1>6. CASE Ack(w)
  <2>1. /\ run[w].pc \in {"ack", "drop"} /\ stream' \subseteq stream
        /\ run'[w].pc = "idle" /\ \A v \in Workers : v # w => run'[v] = run[v]
        /\ UNCHANGED <<subs, current, cache, panel, marked, enqueued>>
    BY <1>6, <1>t DEF Ack, IdleRun, RunType, billing, history
  <2>2. OneLetter(u)'
    BY <1>6, <1>t, LetterAcked DEF Stored, Standing
  <2> QED BY <1>c, <1>f, <2>1, <2>2 DEF Registering
<1>7. CASE Retry(w)
  <2>1. PICK pc \in {"ack", "drop"} : RunGoto(w, pc)
    BY <1>7 DEF Retry
  <2>2. /\ run[w].pc = "retry"
        /\ UNCHANGED <<subs, current, cache, panel, marked, enqueued>>
    BY <1>7 DEF Retry, RunAt, billing
  <2>3. /\ run'[w].pc = pc /\ run'[w].e = run[w].e /\ \A v \in Workers : v # w => run'[v] = run[v]
    BY <1>t, <2>1, Goes DEF RunPcs
  <2>4. OneLetter(u)'
    BY <1>7, <1>t, LetterRetried DEF Stored, Standing
  <2>5. ASSUME NEW f \in stream', OwnerOf[f.pay] = u 
        PROVE  f \in stream \/ Alike(run[w].e, f) \/ \E o \in stream : Alike(o, f)
    <3>1. f \in stream \/ (f.pay = RunPay(w) /\ f.sub \in {RunSub(w)} \union Received(run[w].e))
      BY <1>7, <2>5 DEF Retry, queue, RunPay, RunSub
    <3>2. CASE f.pay = RunPay(w) /\ f.sub = RunSub(w)
      BY <3>2 DEF Alike, RunPay, RunSub
    <3>3. CASE f.pay = RunPay(w) /\ f.sub \in Received(run[w].e)
      <4>1. PICK o \in stream : o.id = run[w].e.id /\ f.sub = o.sub
        BY <3>3 DEF Received
      <4>2. o.pay = RunPay(w)
        BY <2>2, <4>1, HeldPay DEF Standing, Active
      <4> QED BY <3>3, <4>1, <4>2 DEF Alike
    <3> QED BY <3>1, <3>2, <3>3
  <2> QED BY <1>c, <1>f, <2>1, <2>2, <2>3, <2>4, <2>5 DEF Registering
<1>8. CASE Raises(w)
  <2>1. /\ RunGoto(w, "fail") /\ stream' = stream /\ Fault(w, run[w].pc)
        /\ run[w].pc # "drop" /\ UNCHANGED <<subs, current, cache, panel, marked, enqueued>>
    BY <1>8 DEF Raises, billing, queue
  <2>2. ~Registering(w)
    BY <2>1, NotTorn DEF Registering
  <2> QED BY <1>f, <1>g, <2>1, <2>2 DEF RunPcs
<1>9. CASE Crash(w)
  <2>1. /\ run'[w].pc = "idle" /\ \A v \in Workers : v # w => run'[v] = run[v]
        /\ stream' = stream /\ Fault(w, run[w].pc)
        /\ UNCHANGED <<subs, current, cache, panel, marked, enqueued>>
    BY <1>9, <1>t DEF Crash, IdleRun, RunType, billing, queue
  <2>2. ~Registering(w) /\ run[w].pc # "drop"
    BY <2>1, NotTorn DEF Registering
  <2>3. OneLetter(u)'
    BY <1>t, <2>1, <2>2, LetterKept DEF Stored
  <2> QED BY <1>c, <1>f, <2>1, <2>2, <2>3
<1>10. CASE Flush(w) /\ ~Flushable(u)
  <2>1. /\ run[w].pc = "flush" /\ RunGoto(w, "redirect") /\ stream' = stream
        /\ UNCHANGED <<subs, current, cache, panel, marked, enqueued>>
    BY <1>10, <1>t DEF Flush, RunAt, queue, history
  <2> QED BY <1>f, <1>g, <2>1 DEF RunPcs, Registering
<1> QED BY <1>1, <1>2, <1>3, <1>4, <1>5, <1>6, <1>7, <1>8, <1>9, <1>10

\* Taking a message.
LEMMA TakeStored ==
  ASSUME TypeOK, TypeOK', SettleInv, GuardInv, Onward, NEW u \in Users, Stored(u), NEW w \in Workers,
         Take(w)
  PROVE  Stored(u)'
<1>1. PICK e \in stream :
        /\ RunAt(w, "idle")
        /\ run' = [run EXCEPT ![w] = [pc |-> "check", e |-> e, expire |-> 0, id |-> 0]]
        /\ UNCHANGED <<billing, panel, marked, cache, queue, hook, now, faults, history>>
  BY DEF Take
<1>2. /\ run'[w].e = e /\ run'[w].pc = "check" /\ \A v \in Workers : v # w => run'[v] = run[v]
      /\ e \in Entry
  BY <1>1 DEF TypeOK, RunType, StoreType
<1>3. CASE OwnerOf[e.pay] # u
  BY <1>1, <1>3, TakeOutside, OutsideStored
<1>4. CASE OwnerOf[e.pay] = u
  <2>1. Sound(e) /\ enqueued[e.pay] = 1
    BY <1>4 DEF Stored, Messages, SettleInv, QueueInv
  <2>2. /\ UNCHANGED <<subs, current, panel, marked, enqueued, cache, stream>>
        /\ ~WorksFor(w, u) /\ run[w].pc = "idle"
    BY <1>1 DEF billing, queue, history, WorksFor, Active, RunAt
  <2>3. Fresh(u) => Fresh(u)'
    BY <2>2 DEF Fresh, CurrentSub, SnapshotOf
  <2>4. Alike(e, run'[w].e)
    BY <1>2 DEF Alike
  <2>5. \A f \in stream' : OwnerOf[f.pay] = u => Alike(e, f) \/ \E o \in stream : Alike(o, f)
    BY <2>2 DEF Alike
  <2>6. Before(u)' /\ Messages(u)' /\ panel'[u].status = "ACTIVE" /\ Works(u)' /\ Registered(u)'
    BY <1>2, <1>4, <2>1, <2>2, <2>3, <2>4, <2>5, CalmStored
  <2>7. OneLetter(u)'
    BY <1>2, <2>2, LetterKept DEF Stored
  <2> QED BY <2>6, <2>7 DEF Stored
<1> QED BY <1>3, <1>4

\* A step that writes to the stores: what is left to show of it.
LEMMA LoudStored ==
  ASSUME NEW u \in Users, NEW w \in Workers, Standing(u, w), run[w].pc # "drop",
         stream' = stream, enqueued' = enqueued, \A v \in Workers : v # w => run'[v] = run[v],
         Alike(run[w].e, run'[w].e), marked' \subseteq marked \union {RunPay(w)},
         \/ RunPay(w) \in marked'
         \/ /\ RunPay(w) \notin marked
            /\ current'[u] = current[u] /\ CurrentSub(u)'.trial = CurrentSub(u).trial
            /\ Path(run[w].e) = "RENEW" => CurrentSub(u)'.status = "ACTIVE",
         panel'[u].status = "ACTIVE", Work(w)', Registered(u)'
  PROVE  Stored(u)'
<1> DEFINE p == RunPay(w)
<1>t. /\ run[w].e \in Entry /\ p \in Payments /\ OwnerOf[p] = u /\ enqueued[p] = 1
      /\ Sound(run[w].e) /\ txStatus[p] \in Paid /\ run[w].e.pay = p /\ run'[w].e.pay = p
  BY StandingRun DEF RunPay, Alike
<1>k. kind'[p] = kind[p]
  BY <1>t DEF Standing, Onward, Paid
<1>s. ASSUME NEW f \in Entry, f.pay = p, Sound(f) PROVE Sound(f)'
  <2>1. CASE p \in marked'
    BY <1>s, <2>1 DEF Sound
  <2>2. CASE p \notin marked'
    <3>1. /\ p \notin marked /\ current'[u] = current[u]
          /\ CurrentSub(u)'.trial = CurrentSub(u).trial
          /\ Path(run[w].e) = "RENEW" => CurrentSub(u)'.status = "ACTIVE"
      BY <2>2
    <3>2. f.sub.id = run[w].e.sub.id /\ f.sub.trial = run[w].e.sub.trial
      BY <1>s, <1>t, <3>1 DEF Sound
    <3>3. Path(f) = Path(run[w].e) /\ Path(f)' = Path(f)
      BY <1>k, <1>s, <1>t, <3>2 DEF Path, HasTrial
    <3> QED BY <1>s, <1>t, <3>1, <3>3 DEF Sound
  <2> QED BY <2>1, <2>2
<1>a. ASSUME NEW f \in Entry, Alike(run[w].e, f) PROVE Sound(f)
  BY <1>a, <1>t DEF Sound, Alike, Path, HasTrial
<1>1. Before(u)'
  BY <1>t DEF Before
<1>2. Messages(u)'
  <2>1. ASSUME NEW f \in stream', OwnerOf[f.pay] = u PROVE Sound(f)'
    <3>1. f.pay = p /\ f \in Entry /\ Sound(f)
      BY <2>1, StandingPay DEF Standing, Stored, Messages, TypeOK, StoreType
    <3> QED BY <1>s, <3>1
  <2>2. ASSUME NEW v \in Workers, WorksFor(v, u)' PROVE Sound(run[v].e)'
    <3>0. PICK f \in Entry : f = run'[v].e
      BY DEF Standing, TypeOK, RunType, RunRecord
    <3>1. Sound(f) /\ f.pay = p
      <4>1. CASE v = w
        BY <1>a, <1>t, <3>0, <4>1
      <4>2. CASE v # w
        <5>1. run'[v] = run[v] /\ WorksFor(v, u)
          BY <2>2, <4>2 DEF WorksFor, Active, RunUser, RunPay
        <5>2. Sound(run[v].e)
          BY <5>1 DEF Standing, Stored, Messages
        <5>3. RunPay(v) = p
          BY <5>1, StandingPay
        <5> QED BY <3>0, <5>1, <5>2, <5>3 DEF RunPay
      <4> QED BY <4>1, <4>2
    <3>2. Sound(f)'
      BY <1>s, <3>1
    <3> QED BY <3>0, <3>2 DEF Sound, Path, HasTrial
  <2> QED BY <2>1, <2>2 DEF Messages
<1>4. Works(u)'
  <2> SUFFICES ASSUME NEW v \in Workers, WorksFor(v, u)', v # w PROVE Work(v)'
    BY DEF Works
  <2>1. run'[v] = run[v] /\ WorksFor(v, u)
    BY DEF WorksFor, Active, RunUser, RunPay
  <2>2. run'[v].pc = "drop"
    BY <2>1, StandingAlone
  <2> QED BY <2>2 DEF Work
<1>6. OneLetter(u)'
  BY LetterKept DEF Standing, Stored
<1> QED BY <1>1, <1>2, <1>4, <1>6 DEF Stored

\* While the marker is not set, nothing of the user is marked.
LEMMA NothingMarked ==
  ASSUME NEW u \in Users, NEW w \in Workers, Standing(u, w), RunPay(w) \notin marked,
         UNCHANGED marked
  PROVE  Registered(u)'
BY StandingPay DEF Registered

\* A run that is registering is enough to say nothing yet.
LEMMA StillRegistering ==
  ASSUME NEW u \in Users, NEW w \in Workers, WorksFor(w, u)', Registering(w)'
  PROVE  Registered(u)'
BY DEF Registered

\* Switching the old subscription off comes before the marker.
LEMMA DisableStored ==
  ASSUME NEW u \in Users, NEW w \in Workers, Standing(u, w), Disable(w)
  PROVE  Stored(u)'
<1>t. /\ RunType /\ run[w].e \in Entry /\ RunPay(w) \in Payments /\ RunUser(w) = u
      /\ Sound(run[w].e) /\ Work(w) /\ Progress(w) /\ subs \in Seq(SubRecord)
      /\ RunSub(w) \in Snapshot /\ Stored(u)
  BY StandingRun DEF Standing, TypeOK, BillingType
<1>1. /\ run[w].pc = "disable" /\ subs' = [subs EXCEPT ![RunSub(w).id].status = "DISABLED"]
      /\ UNCHANGED <<current, panel, marked, stream, enqueued>> /\ RunGoto(w, "disableEvict")
  BY DEF Disable, RunAt, queue, history
<1>2. /\ \A v \in Workers : v # w => run'[v] = run[v]
      /\ run'[w].e = run[w].e /\ run'[w].pc = "disableEvict"
  BY <1>1, <1>t, Goes DEF RunPcs
<1>3. RunPay(w) \notin marked
  BY <1>1, <1>t DEF Work
<1>4. CurrentSub(u)'.trial = CurrentSub(u).trial
  <2>1. Snap(subs', current[u]).trial = Snap(subs, current[u]).trial
    BY <1>1, <1>t DEF Snap, SubRecord
  <2> QED BY <1>1, <2>1, SnapIs
<1>5. Path(run[w].e) # "RENEW"
  BY <1>1, <1>t DEF Progress
<1>6. Work(w)'
  BY <1>1, <1>2, <1>3 DEF Work, RunPay
<1> QED BY <1>1, <1>2, <1>3, <1>4, <1>5, <1>6, <1>t, LoudStored, NothingMarked DEF Alike, Stored

\* The panel gets the account the run was asked for; only a renewal sends the
\* status it holds, which is an active one.
LEMMA MutateStored ==
  ASSUME NEW u \in Users, NEW w \in Workers, Standing(u, w), Mutate(w) \/ MutateRaises(w)
  PROVE  Stored(u)'
<1> DEFINE e == run[w].e
<1>t. /\ RunType /\ run[w].e \in Entry /\ RunPay(w) \in Payments /\ RunUser(w) = u
      /\ Sound(run[w].e) /\ Work(w) /\ panel \in [Users -> Account] /\ Stored(u)
  BY StandingRun DEF Standing, TypeOK, StoreType
<1>1. /\ run[w].pc = "mutate" /\ UNCHANGED <<current, subs, kind, marked, stream, enqueued>>
  BY DEF Mutate, MutateRaises, RunAt, billing, queue
<1>2. /\ \A v \in Workers : v # w => run'[v] = run[v]
      /\ run'[w].e = Touched(e)
      /\ \/ run'[w].pc = "fail"
         \/ run'[w].pc = "mark" /\ run'[w].expire = NewExpire(e) /\ MutatePanel(w)
  BY <1>t DEF Mutate, MutateRaises, RunType, RunRecord
<1>3. Alike(e, run'[w].e)
  BY <1>2, <1>t DEF Alike, Touched, Entry, Snapshot
<1>4. RunPay(w) \notin marked
  BY <1>1, <1>t DEF Work
<1>5. CurrentSub(u)' = CurrentSub(u)
  BY <1>1 DEF CurrentSub, SnapshotOf
<1>6. Path(e) = "RENEW" => CurrentSub(u).status = "ACTIVE"
  BY <1>4, <1>t DEF Sound, RunPay, RunUser
<1>7. MutatePanel(w) => panel'[u] = [expire |-> NewExpire(e), status |-> "ACTIVE"]
  BY <1>t DEF MutatePanel, NewStatus, Sound
<1>8. panel'[u].status = "ACTIVE"
  BY <1>7, <1>t DEF Mutate, MutateRaises, Stored
<1>9. Work(w)'
  <2>1. RunPay(w)' = RunPay(w) /\ RunUser(w)' = u
    BY <1>3, <1>t DEF RunPay, RunUser, Alike
  <2> QED BY <1>1, <1>2, <1>4, <1>7, <2>1 DEF Work
<1>10. Registered(u)'
  BY <1>1, <1>4, NothingMarked
<1> QED BY <1>1, <1>2, <1>3, <1>4, <1>5, <1>6, <1>8, <1>9, <1>10, LoudStored

\* The marker is set by a run whose panel call is the account's.
LEMMA MarkStored ==
  ASSUME NEW u \in Users, NEW w \in Workers, Standing(u, w), MarkApplied(w)
  PROVE  Stored(u)'
<1>t. /\ RunType /\ run[w].e \in Entry /\ RunPay(w) \in Payments /\ RunUser(w) = u
      /\ OwnerOf[RunPay(w)] = u /\ Sound(run[w].e) /\ Work(w) /\ Stored(u)
  BY StandingRun DEF Standing
<1>1. /\ run[w].pc = "mark" /\ marked' = marked \union {RunPay(w)} /\ RunGoto(w, "record")
      /\ UNCHANGED <<current, subs, kind, panel, stream, enqueued>>
  BY DEF MarkApplied, RunAt, billing, queue, history
<1>2. /\ \A v \in Workers : v # w => run'[v] = run[v]
      /\ run'[w].pc = "record" /\ run'[w].e = run[w].e /\ run'[w].expire = run[w].expire
  BY <1>1, <1>t, Goes DEF RunPcs
<1>3. RunPay(w)' = RunPay(w) /\ RunUser(w)' = u /\ RunSub(w)' = RunSub(w)
  BY <1>2, <1>t DEF RunPay, RunUser, RunSub
<1>4. CurrentSub(u)' = CurrentSub(u) /\ Path(run[w].e)' = Path(run[w].e)
  BY <1>1, <1>2 DEF CurrentSub, SnapshotOf, Path, HasTrial
<1>5. RunPay(w) \notin marked /\ panel[u].expire = run[w].expire
  BY <1>1, <1>t DEF Work
<1>6. RunSub(w).id = current[u] /\ (Path(run[w].e) = "RENEW" => CurrentSub(u).status = "ACTIVE")
  BY <1>5, <1>t DEF Sound, RunPay, RunSub
<1>7. Work(w)'
  BY <1>1, <1>2, <1>3, <1>4, <1>5, <1>6 DEF Work
<1>8. Registered(u)'
  BY <1>2, <1>3, StillRegistering DEF WorksFor, Active, Registering
<1> QED BY <1>1, <1>2, <1>7, <1>8, <1>t, LoudStored DEF Alike, Stored

\* Past the marker nothing more is asked of the messages.
LEMMA PastStored ==
  ASSUME NEW u \in Users, NEW w \in Workers, Standing(u, w), run[w].pc \in Past,
         UNCHANGED <<marked, stream, enqueued>>, \A v \in Workers : v # w => run'[v] = run[v],
         run'[w].e = run[w].e, panel'[u].status = "ACTIVE", Work(w)', Registered(u)'
  PROVE  Stored(u)'
<1>1. RunPay(w) \in marked /\ run[w].pc # "drop"
  BY StandingRun DEF Progress, Past
<1> QED BY <1>1, LoudStored DEF Alike

\* A renewal writes the panel's term to the current subscription; the others
\* create one of that term.
LEMMA RecordStored ==
  ASSUME NEW u \in Users, NEW w \in Workers, Standing(u, w), Record(w)
  PROVE  Stored(u)'
<1>t. /\ RunType /\ run[w].e \in Entry /\ run[w] \in RunRecord /\ RunUser(w) = u
      /\ OwnerOf[RunPay(w)] = u
      /\ Work(w) /\ Progress(w) /\ Stored(u) /\ subs \in Seq(SubRecord)
      /\ current[u] \in Nat /\ RunSub(w).id \in Nat /\ run[w].expire \in Nat
  BY StandingRun DEF Standing, TypeOK, BillingType, RunType, Snapshot
<1>1. /\ run[w].pc = "record" /\ UNCHANGED <<current, panel, marked, stream, enqueued>>
  BY DEF Record, RunAt, queue, history
<1>2. panel[u].expire = run[w].expire /\ panel[u].status = "ACTIVE"
  BY <1>1, <1>t DEF Work, Stored
<1>3. CASE Path(run[w].e) = "RENEW"
  <2>1. RunGoto(w, "evict") /\ subs' = [subs EXCEPT ![RunSub(w).id].expire = run[w].expire]
    BY <1>3 DEF Record
  <2>2. /\ \A v \in Workers : v # w => run'[v] = run[v]
        /\ run'[w].pc = "evict" /\ run'[w].e = run[w].e
    BY <1>t, <2>1, Goes DEF RunPcs
  <2>3. RunPay(w)' = RunPay(w) /\ RunUser(w)' = u
    BY <1>t, <2>2 DEF RunPay, RunUser
  <2>4. RunSub(w).id = current[u] /\ CurrentSub(u).status = "ACTIVE"
    BY <1>1, <1>3, <1>t DEF Work
  <2>5. current[u] \in DOMAIN subs
    <3>1. current[u] # 0
      BY <1>1, <1>3, <1>t, <2>4 DEF Progress, Handling, LacksSubscription, RunSub
    <3>2. current[u] <= Len(subs)
      BY <1>t, <3>1 DEF Standing, Apart, Knows
    <3> QED BY <1>t, <3>1, <3>2, LenProperties
  <2>6. subs[current[u]].status = "ACTIVE"
    BY <2>4, <2>5, SnapIs DEF Snap
  <2>7. current[u] \in DOMAIN subs' /\ subs'[current[u]].expire = run[w].expire
        /\ subs'[current[u]].status = "ACTIVE"
    <3>1. subs[current[u]] \in SubRecord
      BY <1>t, <2>5
    <3> QED BY <1>t, <2>1, <2>4, <2>5, <2>6, <3>1 DEF SubRecord
  <2>8. /\ CurrentSub(u)'.id = current[u] /\ CurrentSub(u)'.expire = run[w].expire
        /\ CurrentSub(u)'.status = "ACTIVE"
    BY <1>1, <2>7, SnapIs DEF Snap
  <2>9. Agree(u)'
    <3>1. current[u] # 0
      BY <1>t, <2>5
    <3> QED BY <1>1, <1>2, <2>8, <3>1 DEF Agree
  <2>10. Work(w)'
    BY <2>2, <2>3, <2>9 DEF Work
  <2>11. Registered(u)'
    BY <2>2, <2>3, StillRegistering DEF WorksFor, Active, Registering
  <2> QED BY <1>1, <1>2, <2>2, <2>10, <2>11, PastStored DEF Past
<1>4. CASE Path(run[w].e) # "RENEW"
  <2> DEFINE new == [expire |-> run[w].expire, trial |-> FALSE, status |-> "ACTIVE"]
  <2>1. /\ run' = [run EXCEPT ![w].pc = "setCurrent", ![w].id = Len(subs) + 1]
        /\ subs' = Append(subs, new)
    BY <1>4 DEF Record
  <2>2. /\ \A v \in Workers : v # w => run'[v] = run[v]
        /\ run'[w].pc = "setCurrent" /\ run'[w].e = run[w].e /\ run'[w].id = Len(subs) + 1
        /\ run'[w].expire = run[w].expire
    BY <1>t, <2>1 DEF RunType, RunRecord
  <2>3. RunPay(w)' = RunPay(w) /\ RunUser(w)' = u
    BY <1>t, <2>2 DEF RunPay, RunUser
  <2>4. new \in SubRecord
    BY <1>t DEF SubRecord, SubStatuses
  <2>5. new.expire = run[w].expire /\ new.trial = FALSE /\ new.status = "ACTIVE"
    OBVIOUS
  <2> HIDE DEF new
  <2>6. /\ Len(subs) \in Nat /\ Len(subs) + 1 \in DOMAIN subs'
        /\ subs'[Len(subs) + 1] = new
    BY <1>t, <2>1, <2>4, AppendProperties, LenProperties
  <2>7. Snap(subs', Len(subs) + 1) = [id |-> Len(subs) + 1, expire |-> run[w].expire,
                                      trial |-> FALSE, status |-> "ACTIVE"]
    BY <2>5, <2>6 DEF Snap
  <2>8. Work(w)'
    <3>1. run'[w].id # 0
      BY <2>2, <2>6
    <3>2. Snap(subs', run'[w].id) = [id |-> run'[w].id, expire |-> run'[w].expire,
                                      trial |-> FALSE, status |-> "ACTIVE"]
      BY <2>2, <2>7
    <3> QED BY <1>1, <1>2, <2>2, <2>3, <3>1, <3>2 DEF Work
  <2>9. Registered(u)'
    BY <2>2, <2>3, StillRegistering DEF WorksFor, Active, Registering
  <2> QED BY <1>1, <1>2, <2>2, <2>8, <2>9, PastStored DEF Past
<1> QED BY <1>3, <1>4

\* The new subscription becomes the current one.
LEMMA SetCurrentStored ==
  ASSUME NEW u \in Users, NEW w \in Workers, Standing(u, w), SetCurrent(w)
  PROVE  Stored(u)'
<1>t. /\ RunType /\ RunUser(w) = u /\ OwnerOf[RunPay(w)] = u /\ Work(w) /\ Stored(u)
      /\ current \in [Users -> Nat]
  BY StandingRun DEF Standing, TypeOK, BillingType
<1>1. /\ run[w].pc = "setCurrent" /\ UNCHANGED <<subs, panel, marked, stream, enqueued>>
      /\ current' = [current EXCEPT ![u] = run[w].id] /\ RunGoto(w, "evict")
  BY <1>t DEF SetCurrent, RunAt, queue, history
<1>2. /\ \A v \in Workers : v # w => run'[v] = run[v]
      /\ run'[w].pc = "evict" /\ run'[w].e = run[w].e
  BY <1>1, <1>t, Goes DEF RunPcs
<1>3. RunPay(w)' = RunPay(w) /\ RunUser(w)' = u
  BY <1>2, <1>t DEF RunPay, RunUser
<1>4. Agree(u)'
  <2>1. current'[u] = run[w].id
    BY <1>1, <1>t
  <2>2. CurrentSub(u)' = Snap(subs, run[w].id)
    BY <1>1, <2>1, SnapIs
  <2>3. /\ run[w].id # 0 /\ panel[u].expire = run[w].expire
        /\ Snap(subs, run[w].id) = [id |-> run[w].id, expire |-> run[w].expire,
                                    trial |-> FALSE, status |-> "ACTIVE"]
    BY <1>1, <1>t DEF Work
  <2> QED BY <1>1, <1>t, <2>2, <2>3 DEF Agree, Stored
<1>5. Work(w)'
  BY <1>2, <1>3, <1>4 DEF Work
<1>6. Registered(u)'
  BY <1>2, <1>3, StillRegistering DEF WorksFor, Active, Registering
<1> QED BY <1>1, <1>2, <1>5, <1>6, <1>t, PastStored DEF Past, Stored

\* With the cached copy gone, what billing answers is what was registered.
LEMMA EvictStored ==
  ASSUME NEW u \in Users, NEW w \in Workers, Standing(u, w), Evict(w), RunAt(w, "evict")
  PROVE  Stored(u)'
<1>t. /\ RunType /\ RunUser(w) = u /\ OwnerOf[RunPay(w)] = u /\ Work(w) /\ Stored(u)
      /\ cache \in [Users -> Snapshot]
  BY StandingRun DEF Standing, TypeOK, StoreType
<1>1. /\ run[w].pc = "evict" /\ UNCHANGED <<subs, current, panel, marked, stream, enqueued>>
      /\ cache' = [cache EXCEPT ![u] = Uncached]
  BY <1>t DEF Evict, RunAt, billing, queue, history
<1>2. PICK pc \in {"wrapUp", "flush"} : RunGoto(w, pc)
  BY DEF Evict, AfterHandler
<1>3. /\ \A v \in Workers : v # w => run'[v] = run[v]
      /\ run'[w].pc = pc /\ run'[w].e = run[w].e
  BY <1>2, <1>t, Goes DEF RunPcs
<1>4. Agree(u)' /\ Fresh(u)'
  <2>1. Agree(u)
    BY <1>1, <1>t DEF Work
  <2>2. CurrentSub(u)' = CurrentSub(u)
    BY <1>1 DEF CurrentSub, SnapshotOf
  <2> QED BY <1>1, <1>t, <2>1, <2>2 DEF Agree, Fresh
<1>5. Work(w)' /\ Registered(u)'
  BY <1>3, <1>4 DEF Work, Registered
<1> QED BY <1>1, <1>3, <1>5, <1>t, PastStored DEF Past, Stored

\* A flushed reward reads the current subscription and writes the same term to
\* billing and to the panel.
LEMMA FlushStored ==
  ASSUME NEW u \in Users, NEW w \in Workers, Standing(u, w), Flush(w), Flushable(u)
  PROVE  Stored(u)'
<1>t. /\ RunType /\ RunUser(w) = u /\ OwnerOf[RunPay(w)] = u /\ RunPay(w) \in Payments
      /\ Stored(u) /\ Progress(w)
      /\ TypeOK /\ subs \in Seq(SubRecord)
      /\ cache \in [Users -> Snapshot] /\ panel \in [Users -> Account]
  BY StandingRun DEF Standing, TypeOK, StoreType, BillingType
<1>1. /\ run[w].pc = "flush" /\ UNCHANGED <<current, marked, stream, enqueued>>
      /\ RunGoto(w, "redirect") /\ FlushBilling(u) /\ FlushPanel(u)
  BY <1>t DEF Flush, RunAt, queue, history
<1>2. /\ \A v \in Workers : v # w => run'[v] = run[v]
      /\ run'[w].pc = "redirect" /\ run'[w].e = run[w].e
  BY <1>1, <1>t, Goes DEF RunPcs
<1>3. Agree(u) /\ Fresh(u)
  <2>1. RunPay(w) \in marked
    BY <1>1, <1>t DEF Progress, Past
  <2>2. ASSUME NEW v \in Workers, WorksFor(v, u) PROVE ~Registering(v)
    <3>1. CASE v = w
      BY <1>1, <3>1 DEF Registering
    <3>2. CASE v # w
      BY <1>1, <2>2, <3>2, StandingAlone DEF Registering
    <3> QED BY <3>1, <3>2
  <2> QED BY <1>t, <2>1, <2>2 DEF Stored, Registered
<1>4. CachedSub(u) = CurrentSub(u)
  BY <1>3, <1>t, NeverUncached
<1>5. /\ CachedSub(u).id = current[u] /\ current[u] \in DOMAIN subs /\ current[u] # 0
      /\ CachedSub(u).status = "ACTIVE" /\ subs[current[u]].status = "ACTIVE"
  BY <1>3, <1>4, SnapIs DEF Agree, Snap, NoSub
<1>6. /\ subs' = [subs EXCEPT ![current[u]].expire = FlushExpire(u)]
      /\ cache'[u] = Uncached
      /\ panel'[u] = [expire |-> FlushExpire(u), status |-> "ACTIVE"]
  BY <1>1, <1>5, <1>t DEF FlushBilling, FlushPanel
<1>7. /\ current[u] \in DOMAIN subs' /\ subs'[current[u]].expire = FlushExpire(u)
      /\ subs'[current[u]].status = "ACTIVE"
  <2>1. subs[current[u]] \in SubRecord
    BY <1>5, <1>t
  <2> QED BY <1>5, <1>6, <1>t, <2>1 DEF SubRecord
<1>8. /\ CurrentSub(u)'.id = current[u] /\ CurrentSub(u)'.expire = FlushExpire(u)
      /\ CurrentSub(u)'.status = "ACTIVE"
  BY <1>1, <1>7, SnapIs DEF Snap
<1>9. Agree(u)' /\ Fresh(u)'
  BY <1>5, <1>6, <1>8 DEF Agree, Fresh
<1>10. Work(w)' /\ Registered(u)'
  BY <1>2, <1>9 DEF Work, Registered
<1> QED BY <1>1, <1>2, <1>6, <1>10, PastStored DEF Past

\* Every step of a regular user's run keeps what the stores say.
LEMMA RunStored ==
  ASSUME NEW u \in Users, NEW w \in Workers, Standing(u, w),
         RunStep(w) \/ Raises(w) \/ MutateRaises(w) \/ FlushRaises(w) \/ FailRaises(w) \/ Crash(w)
  PROVE  Stored(u)'
<1>1. ~FlushRaises(w)
  BY NotTorn DEF FlushRaises
<1>2. CASE Evict(w)
  BY <1>2, CalmSteps, EvictStored DEF Evict, RunAt
<1>3. CASE Flush(w)
  BY <1>3, CalmSteps, FlushStored
<1> QED BY <1>1, <1>2, <1>3, CalmSteps, DisableStored, MutateStored, MarkStored, RecordStored,
           SetCurrentStored DEF RunStep

\* Nothing of a regular user is queued while a handler of theirs is still to queue.
LEMMA NothingQueued ==
  ASSUME TypeOK, SettleInv, NEW u \in Users, Regular(u), NEW h \in Hooks, HookUser(h) = u,
         hook[h].pc \in {"current", "fill", "enqueue"}
  PROVE  /\ \A p \in Payments : OwnerOf[p] = u => enqueued[p] = 0 /\ p \notin marked
         /\ \A e \in stream : OwnerOf[e.pay] # u
         /\ \A w \in Workers : ~WorksFor(w, u)
<1>1. hook[h].pay \in Payments /\ OwnerOf[hook[h].pay] = u /\ enqueued \in [Payments -> Nat]
  BY DEF TypeOK, HookType, HookUser, HistoryType
<1>2. txStatus[hook[h].pay] \in Paid /\ enqueued[hook[h].pay] = 0
  BY DEF SettleInv, HookInv, Settling, HookAt
<1>3. \A p \in Payments : enqueued[p] > 0 => txStatus[p] \in Paid
  BY DEF SettleInv, QueueInv
<1>4. ASSUME NEW p \in Payments, OwnerOf[p] = u PROVE enqueued[p] = 0
  <2>1. CASE enqueued[p] > 0
    <3>1. p = hook[h].pay
      BY <1>1, <1>2, <1>3, <1>4, <2>1, OnePayment
    <3> QED BY <1>2, <3>1
  <2>2. CASE ~(enqueued[p] > 0)
    BY <1>1, <2>2
  <2> QED BY <2>1, <2>2
<1>5. \A e \in stream : e.pay \in Payments
  BY DEF TypeOK, StoreType, Entry
<1>6. \A w \in Workers : RunPay(w) \in Payments
  BY RunFields DEF TypeOK
<1> QED BY <1>4, <1>5, <1>6 DEF SettleInv, QueueInv, WorksFor, RunUser

\* A handler reads, keeps and queues the current subscription of its user.
LEMMA HookStored ==
  ASSUME TypeOK, SettleInv, Apart, NEW u \in Users, Regular(u), Stored(u),
         NEW h \in Hooks, HookUser(h) = u, HookCurrent(h) \/ HookFill(h) \/ HookEnqueue(h)
  PROVE  Stored(u)'
<1>t. /\ HookType /\ cache \in [Users -> Snapshot] /\ hook[h].pay \in Payments
      /\ OwnerOf[hook[h].pay] = u
      /\ current[u] \in Nat /\ subs \in Seq(SubRecord)
  BY DEF TypeOK, HookType, StoreType, BillingType, HookUser
<1>u. UNCHANGED <<subs, current, panel, marked, run, kind>>
  BY DEF HookCurrent, HookFill, HookEnqueue, billing
<1>s. CurrentSub(u)' = CurrentSub(u)
  BY <1>u DEF CurrentSub, SnapshotOf
<1>n. /\ \A p \in Payments : OwnerOf[p] = u => enqueued[p] = 0 /\ p \notin marked
      /\ \A e \in stream : OwnerOf[e.pay] # u
      /\ \A w \in Workers : ~WorksFor(w, u)
  BY NothingQueued DEF HookCurrent, HookFill, HookEnqueue, HookAt
<1>b. /\ CurrentSub(u).status = "ACTIVE" /\ Fresh(u)
      /\ \A g \in Hooks : hook[g].pc \in {"fill", "enqueue"} /\ HookUser(g) = u =>
           hook[g].sub = CurrentSub(u)
  BY <1>n DEF Stored, Before
<1>w. \A w \in Workers : ~WorksFor(w, u)'
  BY <1>n, <1>u DEF WorksFor, Active, RunUser, RunPay
<1>1. panel'[u].status = "ACTIVE" /\ Works(u)' /\ Registered(u)'
  BY <1>u, <1>n, <1>w DEF Stored, Works, Registered
<1>2. CASE HookCurrent(h) \/ HookFill(h)
  <2>1. stream' = stream /\ enqueued' = enqueued
    BY <1>2 DEF HookCurrent, HookFill, queue, history
  <2>2. Messages(u)' /\ OneLetter(u)'
    BY <1>n, <1>w, <2>1 DEF Messages, OneLetter
  <2>3. CASE HookCurrent(h)
    <3>1. /\ cache' = cache /\ \A g \in Hooks : g # h => hook'[g] = hook[g]
          /\ hook'[h].sub = CachedSub(u)
      BY <1>t, <2>3 DEF HookCurrent, HookType
    <3>2. CachedSub(u) = CurrentSub(u)
      BY <1>b, NeverUncached
    <3>3. Before(u)'
      BY <1>b, <1>s, <3>1, <3>2 DEF Before, Fresh, HookUser
    <3> QED BY <1>1, <2>2, <3>3, <1>u DEF Stored
  <2>4. CASE HookFill(h)
    <3>1. /\ cache' = [cache EXCEPT ![u] = hook[h].sub] /\ hook[h].pc = "fill"
          /\ HookGoto(h, "enqueue")
      BY <2>4 DEF HookFill, HookAt
    <3>2. /\ \A g \in Hooks : g # h => hook'[g] = hook[g]
          /\ hook'[h].sub = hook[h].sub /\ hook'[h].pay = hook[h].pay
      BY <1>t, <3>1 DEF HookGoto, HookType
    <3>3. hook[h].sub = CurrentSub(u)
      BY <1>b, <3>1
    <3>4. Before(u)'
      BY <1>b, <1>s, <1>t, <3>1, <3>2, <3>3 DEF Before, Fresh, HookUser
    <3> QED BY <1>1, <2>2, <3>4, <1>u DEF Stored
  <2> QED BY <1>2, <2>3, <2>4
<1>3. CASE HookEnqueue(h)
  <2> DEFINE p == hook[h].pay
             new == [id |-> nextId, pay |-> p, try |-> 0, sub |-> hook[h].sub]
  <2>1. /\ stream' = stream \union {new} /\ enqueued' = [enqueued EXCEPT ![p] = @ + 1]
        /\ hook[h].pc = "enqueue"
    BY <1>3 DEF HookEnqueue, HookAt
  <2>2. new.pay = p /\ new.sub = CurrentSub(u)
    BY <1>b, <2>1
  <2>n. PICK f : f = new
    OBVIOUS
  <2>f. f.pay = p /\ f.sub = CurrentSub(u)
    BY <2>2, <2>n
  <2> HIDE DEF new
  <2>3. Before(u)'
    <3>1. enqueued'[p] # 0
      BY <1>n, <1>t, <2>1 DEF TypeOK, HistoryType
    <3> QED BY <1>t, <3>1 DEF Before
  <2>4. CurrentSub(u).id = current[u]
    <3>1. CASE current[u] = 0
      BY <1>t, <3>1, SnapIs DEF Snap, NoSub
    <3>2. CASE current[u] # 0
      <4>1. current[u] <= Len(subs)
        BY <1>t, <3>2 DEF Apart, Knows
      <4>2. current[u] \in DOMAIN subs
        BY <1>t, <3>2, <4>1, LenProperties
      <4> QED BY <4>2, SnapIs DEF Snap
    <3> QED BY <3>1, <3>2
  <2>5. Sound(f)'
    <3> DEFINE s == CurrentSub(u)
    <3>1. /\ OwnerOf[f.pay] = u /\ f.sub = s /\ s.status = "ACTIVE" /\ s.id = current[u]
          /\ current'[u] = current[u] /\ CurrentSub(u)' = s
      BY <1>b, <1>s, <1>t, <1>u, <2>f, <2>4
    <3> HIDE DEF s
    <3>2. CurrentSub(OwnerOf[f.pay])' = s
      BY <3>1
    <3> QED BY <3>1, <3>2 DEF Sound
  <2>6. Messages(u)'
    <3>1. \A e \in stream' : OwnerOf[e.pay] = u => e = f
      BY <1>n, <2>1, <2>n
    <3> QED BY <1>w, <2>5, <3>1 DEF Messages
  <2>7. OneLetter(u)'
    BY <1>n, <2>1 DEF OneLetter
  <2> QED BY <1>1, <2>3, <2>6, <2>7 DEF Stored
<1> QED BY <1>2, <1>3

\* Every step keeps what the stores of regular users say.
LEMMA NextStores ==
  TypeOK /\ SettleInv /\ GuardInv /\ ProgressInv /\ Apart /\ StoresInv /\ [Next]_vars
    => StoresInv'
<1> SUFFICES ASSUME TypeOK, SettleInv, GuardInv, ProgressInv, Apart, StoresInv, [Next]_vars,
                    NEW u \in Users, Regular(u)'
             PROVE  Stored(u)'
  BY DEF StoresInv
<1>1. Onward /\ TypeOK'
  BY StepsOnward, NextType
<1>2. Regular(u) /\ Stored(u)
  BY <1>1, RegularBack DEF StoresInv
<1>3. CASE Outside(u)
  BY <1>1, <1>2, <1>3, OutsideStored
<1>4. ASSUME NEW h \in Hooks, HookStep(h) PROVE Stored(u)'
  BY <1>2, <1>3, <1>4, HooksOutside, HookStored DEF HookStep
<1>5. ASSUME NEW w \in Workers,
             RunStep(w) \/ Raises(w) \/ MutateRaises(w) \/ FlushRaises(w) \/ FailRaises(w) \/ Crash(w)
      PROVE  Stored(u)'
  <2>1. CASE RunUser(w) # u
    BY <1>3, <1>5, <2>1, WorkersOutside
  <2>2. CASE RunUser(w) = u
    <3>1. Active(w)
      BY <1>5 DEF RunStep, Check, Disable, Evict, Mutate, MarkApplied, Record, SetCurrent,
                  WrapUp, Flush, Redirect, Fail, Ack, Retry, Raises, MutateRaises, FlushRaises,
                  FailRaises, Crash, RunAt, Active
    <3>2. Standing(u, w)
      BY <1>1, <1>2, <2>2, <3>1 DEF Standing, WorksFor
    <3> QED BY <1>5, <3>2, RunStored
  <2> QED BY <2>1, <2>2
<1>6. ASSUME NEW w \in Workers, Take(w) PROVE Stored(u)'
  BY <1>1, <1>2, <1>6, TakeStored
<1> QED BY <1>3, <1>4, <1>5, <1>6, HooksOutside DEF Next

\* At the start nobody has a switched-off account.
LEMMA StartStores == Init => StoresInv
<1> SUFFICES ASSUME Init, NEW u \in Users PROVE Stored(u)
  BY DEF StoresInv
<1>1. TypeOK
  BY InitType
<1>2. CurrentSub(u).status = "ACTIVE"
  <2>1. CASE current[u] \in DOMAIN subs
    <3>1. subs[current[u]].status = "ACTIVE"
      BY <2>1, StartActive DEF Init
    <3> QED BY <2>1, <3>1, SnapIs DEF Snap
  <2>2. CASE current[u] \notin DOMAIN subs
    <3>1. CurrentSub(u) = NoSub
      BY <2>2, SnapIs DEF Snap
    <3> QED BY <3>1 DEF NoSub
  <2> QED BY <2>1, <2>2
<1>3. Before(u)
  BY <1>2 DEF Init, Before, Fresh, IdleHook
<1>4. Messages(u) /\ Works(u) /\ Registered(u) /\ OneLetter(u)
  BY DEF Init, Messages, Works, Registered, OneLetter, WorksFor, Active, IdleRun
<1>5. panel[u].status = "ACTIVE"
  BY DEF Init
<1> QED BY <1>3, <1>4, <1>5 DEF Stored

\* A settled purchase whose task is over has been registered.
LEMMA StoresImply ==
  TypeOK /\ SettleInv /\ GuardInv /\ OverInv /\ StoresInv
    => BillingFollowsPanel /\ DisabledOnlyByInterference
<1> SUFFICES ASSUME TypeOK, SettleInv, GuardInv, OverInv, StoresInv
             PROVE  BillingFollowsPanel /\ DisabledOnlyByInterference
  OBVIOUS
<1>1. BillingFollowsPanel
  <2> SUFFICES ASSUME NEW p \in Payments, NEW u \in Users, u = OwnerOf[p],
                      Finished(p), Alone(p), txStatus[p] = "COMPLETED", ~Torn(p),
                      p \in marked \/ "fail" \notin halted[p]
               PROVE  p \in marked /\ Agree(u)
    BY PaymentTypes DEF BillingFollowsPanel, Agree
  <2>1. p \in marked
    BY DEF OverInv, Answered, Finished
  <2>2. Regular(u)
    <3> SUFFICES ASSUME NEW q \in Payments, OwnerOf[q] = u, txStatus[q] \in Paid
                 PROVE  q = p
      BY DEF Regular
    <3> QED BY DEF Alone
  <2>3. \A w \in Workers : ~WorksFor(w, u)
    <3> SUFFICES ASSUME NEW w \in Workers, WorksFor(w, u) PROVE FALSE
      OBVIOUS
    <3>1. RunPay(w) \in Payments /\ OwnerOf[RunPay(w)] = u /\ txStatus[RunPay(w)] \in Paid
      BY ActivePaid DEF WorksFor, RunUser
    <3>2. RunPay(w) = p
      BY <3>1 DEF Alone
    <3> QED BY <3>2 DEF GuardInv, StreamInv, WorksFor, Finished, Queued
  <2> QED BY <2>1, <2>2, <2>3 DEF StoresInv, Stored, Registered
<1>2. DisabledOnlyByInterference
  BY DEF DisabledOnlyByInterference, StoresInv, Stored, Regular
<1> QED BY <1>1, <1>2

StoresAll == TypeOK /\ SettleInv /\ GuardInv /\ ProgressInv /\ OverInv /\ Apart /\ StoresInv

\* The conjunction is inductive.
LEMMA StoresInductive == (Init => StoresAll) /\ (StoresAll /\ [Next]_vars => StoresAll')
BY InitType, InitSettle, InitGuard, InitStores, StartStores,
   NextType, NextSettle, NextGuard, NextProgress, NextOver, NextApart, NextStores DEF StoresAll

\* A settled purchase that is over leaves billing and the panel telling the same
\* story, whatever crashed or was retried on the way, unless a run was torn or
\* gave up.
THEOREM BillingFollows == Spec => []BillingFollowsPanel
<1>1. StoresAll => BillingFollowsPanel
  BY StoresImply DEF StoresAll
<1> QED BY <1>1, StoresInductive, PTL DEF Spec

\* A paying user is switched off only by payments that interfere or a torn run.
THEOREM DisabledByInterference == Spec => []DisabledOnlyByInterference
<1>1. StoresAll => DisabledOnlyByInterference
  BY StoresImply DEF StoresAll
<1> QED BY <1>1, StoresInductive, PTL DEF Spec

-----------------------------------------------------------------------------
(* Days paid for: sums over sets of payments                               *)

\* Induction over the subsets of a finite set: what holds of a set whenever it
\* holds of all its proper subsets holds of them all.
LEMMA SubsetInduction ==
  ASSUME NEW U, IsFiniteSet(U), NEW T \in SUBSET SUBSET U,
         \A s \in SUBSET U : (\A t \in SUBSET s : t # s => t \in T) => s \in T
  PROVE  T = SUBSET U
<1> SUFFICES ASSUME (SUBSET U) \ T # {} PROVE FALSE
  OBVIOUS
<1>1. IsWellFoundedOn(StrictSubsetOrdering(U), FiniteSubsetsOf(U))
  BY FS_StrictSubsetOrderingWellFounded
<1>2. FiniteSubsetsOf(U) = SUBSET U
  BY FS_FiniteSubsetsOfFinite
<1>3. \E s \in (SUBSET U) \ T : \A t \in (SUBSET U) \ T : ~ (<<t, s>> \in StrictSubsetOrdering(U))
  <2> DEFINE R == StrictSubsetOrdering(U)  W == SUBSET U  X == (SUBSET U) \ T
  <2>1. IsWellFoundedOn(R, W) /\ X \subseteq W /\ X # {}
    BY <1>1, <1>2
  <2> HIDE DEF R, W, X
  <2>2. \E s \in X : \A t \in X : ~ (<<t, s>> \in R)
    BY <2>1, WFMin
  <2> QED BY <2>2 DEF R, X
<1>4. PICK s \in (SUBSET U) \ T : \A t \in (SUBSET U) \ T : ~ (<<t, s>> \in StrictSubsetOrdering(U))
  BY <1>3
<1>5. \A t \in SUBSET s : t # s => t \in T
  BY <1>4 DEF StrictSubsetOrdering
<1> QED BY <1>4, <1>5

\* Induction over the numbers, for a set of them.
LEMMA NatSet ==
  ASSUME NEW T \in SUBSET Nat, 0 \in T, \A n \in T : n + 1 \in T
  PROVE  T = Nat
<1> SUFFICES ASSUME Nat \ T # {} PROVE FALSE
  OBVIOUS
<1> DEFINE R == OpToRel(<, Nat)
<1>1. IsWellFoundedOn(R, Nat)
  BY NatLessThanWellFounded
<1> HIDE DEF R
<1>2. PICK x \in Nat \ T : \A y \in Nat \ T : <<y, x>> \notin R
  BY <1>1, WFMin
<1>3. \A a, b \in Nat : a < b => <<a, b>> \in R
  BY DEF R, OpToRel
<1>4. x \in Nat /\ x # 0 /\ x - 1 \in Nat /\ x - 1 < x
  OBVIOUS
<1>5. x - 1 \in Nat \ T
  <2>1. (x - 1) + 1 = x
    BY <1>4
  <2> QED BY <1>4, <2>1
<1> QED BY <1>2, <1>3, <1>4, <1>5

\* The element a sum takes next, and what one step of it computes.
Pick1(s) == CHOOSE p \in s : TRUE
Adds(f, s) == IF s = {} THEN 0 ELSE Days[Pick1(s)] + f[s \ {Pick1(s)}]
Sums(f, S) == f = [s \in SUBSET S |-> Adds(f, s)]
Fold(S) == CHOOSE f : Sums(f, S)

\* The sum of the model is that of its recursive function.
LEMMA DaysOfFold ==
  ASSUME NEW S
  PROVE  DaysOf(S) = Fold(S)[S]
<1>1. DaysOf(S) = (CHOOSE f : f = [s \in SUBSET S |->
                     IF s = {} THEN 0
                     ELSE Days[CHOOSE p \in s : TRUE] + f[s \ {CHOOSE p \in s : TRUE}]])[S]
  BY DEF DaysOf, MapThenSumSet, MapThenFoldSet
<1> QED BY <1>1 DEF Fold, Sums, Adds, Pick1

\* A finite set has the sums of all its subsets.
LEMMA SumsExist ==
  ASSUME NEW S, IsFiniteSet(S)
  PROVE  \E f : Sums(f, S)
<1> DEFINE Upto(n) == {s \in SUBSET S : Cardinality(s) <= n}
           Some(n) == \E f : f = [s \in Upto(n) |-> Adds(f, s)]
           T == {n \in Nat : Some(n)}
<1>c. \A s \in SUBSET S : IsFiniteSet(s) /\ Cardinality(s) \in Nat /\ Cardinality(s) <= Cardinality(S)
  BY FS_Subset, FS_CardinalityType
<1>0. Some(0)
  <2>1. \A s \in Upto(0) : s = {}
    BY <1>c, FS_EmptySet
  <2> DEFINE f == [s \in Upto(0) |-> 0]
  <2>2. f = [s \in Upto(0) |-> Adds(f, s)]
    BY <2>1 DEF Adds
  <2> QED BY <2>2
<1>1. ASSUME NEW n \in Nat, Some(n) PROVE Some(n + 1)
  <2>1. PICK f : f = [s \in Upto(n) |-> Adds(f, s)]
    BY <1>1
  <2> DEFINE g == [s \in Upto(n + 1) |-> Adds(f, s)]
  <2>2. \A s \in Upto(n + 1) : s # {} => s \ {Pick1(s)} \in Upto(n)
    <3> SUFFICES ASSUME NEW s \in Upto(n + 1), s # {} PROVE s \ {Pick1(s)} \in Upto(n)
      OBVIOUS
    <3>1. Pick1(s) \in s
      BY DEF Pick1
    <3>2. Cardinality(s \ {Pick1(s)}) = Cardinality(s) - 1
      BY <1>c, <3>1, FS_RemoveElement
    <3> QED BY <1>c, <3>2
  <2>3. \A s \in Upto(n) : s \in Upto(n + 1) /\ g[s] = f[s]
    <3>1. Upto(n) \subseteq Upto(n + 1)
      BY <1>c
    <3> HIDE DEF Upto
    <3>2. \A s \in Upto(n) : g[s] = Adds(f, s)
      BY <3>1
    <3>3. \A s \in Upto(n) : f[s] = Adds(f, s)
      BY <2>1
    <3> QED BY <3>1, <3>2, <3>3
  <2>4. g = [s \in Upto(n + 1) |-> Adds(g, s)]
    <3> HIDE DEF Upto
    <3>1. \A s \in Upto(n + 1) : Adds(g, s) = Adds(f, s)
      <4> HIDE DEF g
      <4> QED BY <2>2, <2>3 DEF Adds
    <3> QED BY <3>1
  <2> HIDE DEF g
  <2> QED BY <2>4
<1>2. T = Nat
  <2> HIDE DEF Some
  <2>1. T \in SUBSET Nat /\ 0 \in T /\ \A n \in T : n + 1 \in T
    BY <1>0, <1>1
  <2> HIDE DEF T
  <2> QED BY <2>1, NatSet
<1>3. Upto(Cardinality(S)) = SUBSET S
  BY <1>c
<1>4. Some(Cardinality(S))
  <2> HIDE DEF Some
  <2>1. Cardinality(S) \in Nat
    BY FS_CardinalityType
  <2> QED BY <1>2, <2>1
<1> QED BY <1>3, <1>4 DEF Sums

\* The sums of a set and those of a larger one are the same.
LEMMA SumsAgree ==
  ASSUME NEW U, IsFiniteSet(U), NEW S \in SUBSET U, NEW f, NEW g, Sums(f, S), Sums(g, U)
  PROVE  f[S] = g[S]
<1> DEFINE T == {s \in SUBSET S : f[s] = g[s]}
<1>1. ASSUME NEW s \in SUBSET S, \A t \in SUBSET s : t # s => t \in T PROVE s \in T
  <2>1. f[s] = Adds(f, s) /\ g[s] = Adds(g, s)
    BY DEF Sums
  <2>2. s # {} => s \ {Pick1(s)} \in SUBSET s /\ s \ {Pick1(s)} # s
    BY DEF Pick1
  <2>3. Adds(f, s) = Adds(g, s)
    BY <1>1, <2>2 DEF Adds
  <2> QED BY <2>1, <2>3
<1>2. IsFiniteSet(S)
  BY FS_Subset
<1>3. T = SUBSET S
  <2> HIDE DEF T
  <2>1. T \in SUBSET SUBSET S
    BY DEF T
  <2> QED BY <1>1, <1>2, <2>1, SubsetInduction
<1> QED BY <1>3

\* The recursion of the sum.
LEMMA DaysOfStep ==
  ASSUME NEW S, IsFiniteSet(S)
  PROVE  /\ DaysOf({}) = 0
         /\ S # {} => /\ Pick1(S) \in S
                      /\ DaysOf(S) = Days[Pick1(S)] + DaysOf(S \ {Pick1(S)})
<1>1. \A U : IsFiniteSet(U) => Sums(Fold(U), U)
  BY SumsExist DEF Fold
<1>2. \A U : IsFiniteSet(U) => DaysOf(U) = Adds(Fold(U), U)
  <2> SUFFICES ASSUME NEW U, IsFiniteSet(U) PROVE DaysOf(U) = Adds(Fold(U), U)
    OBVIOUS
  <2>1. Fold(U)[U] = Adds(Fold(U), U)
    BY <1>1 DEF Sums
  <2> QED BY <2>1, DaysOfFold
<1>3. DaysOf({}) = 0
  BY <1>2, FS_EmptySet DEF Adds
<1>4. ASSUME S # {}
      PROVE  Pick1(S) \in S /\ DaysOf(S) = Days[Pick1(S)] + DaysOf(S \ {Pick1(S)})
  <2> DEFINE R == S \ {Pick1(S)}
  <2>1. Pick1(S) \in S /\ R \in SUBSET S
    BY <1>4 DEF Pick1
  <2>2. IsFiniteSet(R)
    BY <2>1, FS_Subset
  <2>3. Fold(R)[R] = Fold(S)[R]
    <3> HIDE DEF R
    <3> QED BY <1>1, <2>1, <2>2, SumsAgree
  <2>4. DaysOf(R) = Fold(R)[R]
    BY DaysOfFold
  <2>5. DaysOf(S) = Days[Pick1(S)] + Fold(S)[R]
    BY <1>2, <1>4 DEF Adds
  <2> QED BY <2>1, <2>3, <2>4, <2>5
<1> QED BY <1>3, <1>4

\* A sum of days is a number of days.
LEMMA DaysOfType ==
  ASSUME NEW S \in SUBSET Payments, IsFiniteSet(S)
  PROVE  DaysOf(S) \in Nat
<1> DEFINE T == {s \in SUBSET S : DaysOf(s) \in Nat}
<1>1. ASSUME NEW s \in SUBSET S, \A t \in SUBSET s : t # s => t \in T PROVE s \in T
  <2>0. IsFiniteSet(s)
    BY FS_Subset
  <2>1. CASE s = {}
    <3>1. DaysOf(s) = 0
      BY <2>0, <2>1, DaysOfStep
    <3> QED BY <3>1
  <2>2. CASE s # {}
    <3>1. Pick1(s) \in s /\ DaysOf(s) = Days[Pick1(s)] + DaysOf(s \ {Pick1(s)})
      BY <2>0, <2>2, DaysOfStep
    <3>2. s \ {Pick1(s)} \in T
      BY <1>1, <3>1
    <3>3. Days[Pick1(s)] \in Nat
      BY <3>1, PaymentTypes
    <3> QED BY <3>1, <3>2, <3>3
  <2> QED BY <2>1, <2>2
<1>2. T = SUBSET S
  <2>1. T \in SUBSET SUBSET S
    OBVIOUS
  <2> HIDE DEF T
  <2> QED BY <1>1, <2>1, SubsetInduction
<1> QED BY <1>2

\* A payment more adds its days, in whatever order the sum is taken.
LEMMA DaysOfAdd ==
  ASSUME NEW S \in SUBSET Payments, IsFiniteSet(S), NEW q \in Payments, q \notin S
  PROVE  DaysOf(S \union {q}) = DaysOf(S) + Days[q]
<1> DEFINE Adding(s) == \A p \in Payments \ s : DaysOf(s \union {p}) = DaysOf(s) + Days[p]
           T == {s \in SUBSET S : Adding(s)}
<1>1. ASSUME NEW s \in SUBSET S, \A t \in SUBSET s : t # s => t \in T PROVE s \in T
  <2> SUFFICES ASSUME NEW p \in Payments \ s PROVE DaysOf(s \union {p}) = DaysOf(s) + Days[p]
    OBVIOUS
  <2> DEFINE a == s \union {p}
             c == Pick1(a)
             r == s \ {c}
  <2>0. IsFiniteSet(s) /\ IsFiniteSet(a) /\ Days[p] \in Nat
    BY FS_Subset, FS_AddElement, PaymentTypes
  <2>1. c \in a /\ DaysOf(a) = Days[c] + DaysOf(a \ {c})
    <3> HIDE DEF a
    <3>1. a # {}
      BY DEF a
    <3> QED BY <2>0, <3>1, DaysOfStep
  <2>2. CASE c = p
    <3>1. a \ {c} = s
      BY <2>2
    <3>2. DaysOf(s) \in Nat
      BY <2>0, DaysOfType
    <3>3. DaysOf(a) = Days[p] + DaysOf(s)
      BY <2>1, <2>2, <3>1
    <3> HIDE DEF c
    <3> QED BY <2>0, <3>2, <3>3
  <2>3. CASE c # p
    <3>1. c \in s /\ c \in Payments
      BY <2>1, <2>3
    <3>2. Adding(r)
      <4>1. r \in SUBSET s /\ r # s
        BY <3>1
      <4> HIDE DEF r, Adding
      <4> QED BY <1>1, <4>1
    <3>3. a \ {c} = r \union {p} /\ s = r \union {c} /\ p \notin r /\ c \notin r
      BY <2>3, <3>1
    <3>4. DaysOf(r) \in Nat /\ Days[c] \in Nat
      BY <2>0, <3>1, FS_Subset, DaysOfType, PaymentTypes
    <3> HIDE DEF r, c, a
    <3>5. DaysOf(r \union {p}) = DaysOf(r) + Days[p] /\ DaysOf(r \union {c}) = DaysOf(r) + Days[c]
      BY <3>1, <3>2, <3>3
    <3>6. DaysOf(a) = Days[c] + (DaysOf(r) + Days[p]) /\ DaysOf(s) = DaysOf(r) + Days[c]
      BY <2>1, <3>3, <3>5
    <3> QED BY <2>0, <3>4, <3>6 DEF a
  <2> QED BY <2>2, <2>3
<1>2. T = SUBSET S
  <2>1. T \in SUBSET SUBSET S
    OBVIOUS
  <2> HIDE DEF T
  <2> QED BY <1>1, <2>1, SubsetInduction
<1> QED BY <1>2

\* A set of payments with and without one of them.
LEMMA DaysOfOwn ==
  ASSUME NEW B \in SUBSET Payments, IsFiniteSet(B), NEW p \in Payments
  PROVE  /\ DaysOf(B) \in Nat /\ DaysOf(B \ {p}) \in Nat /\ DaysOf(B \ {p}) <= DaysOf(B)
         /\ p \in B => DaysOf(B) = DaysOf(B \ {p}) + Days[p]
         /\ p \notin B => DaysOf(B) = DaysOf(B \ {p})
<1> DEFINE R == B \ {p}
<1>1. R \in SUBSET Payments /\ IsFiniteSet(R) /\ p \notin R
  BY FS_Subset
<1>2. DaysOf(B) \in Nat /\ DaysOf(R) \in Nat /\ Days[p] \in Nat
  BY <1>1, DaysOfType, PaymentTypes
<1>3. CASE p \in B
  <2>1. B = R \union {p}
    BY <1>3
  <2> HIDE DEF R
  <2>2. DaysOf(B) = DaysOf(R) + Days[p]
    BY <1>1, <2>1, DaysOfAdd
  <2> QED BY <1>2, <1>3, <2>2 DEF R
<1>4. CASE p \notin B
  <2>1. B = R
    BY <1>4
  <2> HIDE DEF R
  <2> QED BY <1>2, <1>4, <2>1 DEF R
<1> QED BY <1>3, <1>4

-----------------------------------------------------------------------------
(* No free time                                                            *)

\* What a user may have without having bought it, what with it, and what with it
\* but for one payment.  A reward counts once it is no longer banked.
Credit(u) == Later(MaxStartExpire, now) + (RewardDays - banked[u]) + extra[u]
Bound(u) == Credit(u) + DaysOf(Bought(u))
Without(p) == Credit(OwnerOf[p]) + DaysOf(Bought(OwnerOf[p]) \ {p})

\* Every place that holds a subscription of a user keeps within the bound; a
\* message, and a run until its panel call, within the bound without its own
\* payment.
Ahead == PreCall \union {"check"}
Counted == \A u \in Users : banked[u] \in {0, RewardDays} /\ IsFiniteSet(Bought(u))
Terms(u) ==
  /\ panel[u].expire <= Bound(u) /\ cache[u].expire <= Bound(u)
  /\ \A i \in DOMAIN subs : Knows(u, i) => subs[i].expire <= Bound(u)
RunTerm(w) ==
  /\ run[w].expire <= Bound(RunUser(w))
  /\ RunSub(w).expire <= Without(RunPay(w)) + Days[RunPay(w)]
  /\ run[w].pc \in Ahead => RunSub(w).expire <= Without(RunPay(w))
TermInv ==
  /\ Counted
  /\ \A u \in Users : Terms(u)
  /\ \A h \in Hooks : hook[h].sub.expire <= Bound(HookUser(h))
  /\ \A e \in stream : e.sub.expire <= Without(e.pay)
  /\ \A w \in Workers : RunTerm(w)

\* The bounds are numbers of days, and not over yet.
LEMMA BoundTypesHold ==
  ASSUME TypeOK, Counted
  PROVE  /\ \A u \in Users : Credit(u) \in Nat /\ Bound(u) \in Nat /\ now <= Bound(u)
         /\ \A p \in Payments : Without(p) \in Nat /\ now <= Without(p) /\ Without(p) <= Bound(OwnerOf[p])
<1>0. now \in Nat /\ MaxStartExpire \in Nat /\ RewardDays \in Nat
  BY BoundTypes, StartBound DEF TypeOK, StoreType
<1>1. ASSUME NEW u \in Users
      PROVE  Credit(u) \in Nat /\ now <= Credit(u) /\ Bought(u) \in SUBSET Payments /\ IsFiniteSet(Bought(u))
  <2>1. banked[u] \in {0, RewardDays} /\ extra[u] \in Nat
    BY DEF Counted, TypeOK, HistoryType
  <2>2. Later(MaxStartExpire, now) \in Nat /\ now <= Later(MaxStartExpire, now)
    BY <1>0 DEF Later
  <2>3. RewardDays - banked[u] \in Nat
    BY <1>0, <2>1
  <2> QED BY <1>0, <2>1, <2>2, <2>3 DEF Credit, Bought, Counted
<1>2. ASSUME NEW u \in Users PROVE Bound(u) \in Nat /\ now <= Bound(u)
  <2>1. DaysOf(Bought(u)) \in Nat
    BY <1>1, DaysOfType
  <2> QED BY <1>0, <1>1, <2>1 DEF Bound
<1>3. ASSUME NEW p \in Payments
      PROVE  Without(p) \in Nat /\ now <= Without(p) /\ Without(p) <= Bound(OwnerOf[p])
  <2>1. OwnerOf[p] \in Users
    BY PaymentTypes
  <2> DEFINE B == Bought(OwnerOf[p])
  <2>2. B \in SUBSET Payments /\ IsFiniteSet(B)
    BY <1>1, <2>1
  <2> HIDE DEF B
  <2>3. DaysOf(B) \in Nat /\ DaysOf(B \ {p}) \in Nat /\ DaysOf(B \ {p}) <= DaysOf(B)
    BY <2>2, DaysOfOwn
  <2> QED BY <1>0, <1>1, <2>1, <2>3 DEF Without, Bound, B
<1> QED BY <1>1, <1>2, <1>3

\* What is counted is only ever added to, and one payment at a time.
LEMMA StepsCount ==
  ASSUME TypeOK, [Next]_vars
  PROVE  /\ now' \in {now, now + 1}
         /\ \A u \in Users : banked'[u] \in {banked[u], 0} /\ extra'[u] >= extra[u]
         /\ \E q \in Payments : /\ \A p \in Payments \ {q} : mutated'[p] = mutated[p]
                                /\ mutated'[q] \in {mutated[q], mutated[q] + 1}
<1>t. /\ mutated \in [Payments -> Nat] /\ extra \in [Users -> Nat] /\ banked \in [Users -> Nat]
      /\ \A w \in Workers : RunUser(w) \in Users /\ RunPay(w) \in Payments /\ Days[RunPay(w)] \in Nat
  BY RunFields, PaymentTypes DEF TypeOK, BillingType, HistoryType
<1>e. PICK q \in Payments : TRUE
  BY NonEmpty
<1>1. CASE UNCHANGED <<now, banked, extra, mutated>>
  BY <1>t, <1>e, <1>1
<1>2. ASSUME NEW w \in Workers,
             Take(w) \/ RunStep(w) \/ Raises(w) \/ MutateRaises(w) \/ FlushRaises(w)
               \/ FailRaises(w) \/ Crash(w)
      PROVE  /\ now' = now
             /\ \A u \in Users : banked'[u] \in {banked[u], 0} /\ extra'[u] >= extra[u]
  <2>1. CASE Flush(w)
    BY <1>t, <2>1 DEF Flush, history
  <2>2. CASE Retry(w)
    BY <1>t, <2>2, PaymentTypes DEF Retry, billing, RunUser, RunPay
  <2>3. CASE FlushRaises(w)
    BY <1>t, <2>3, BoundTypes DEF FlushRaises
  <2>4. CASE UNCHANGED <<now, banked, extra>>
    BY <1>t, <2>4
  <2> QED BY <1>2, <2>1, <2>2, <2>3, <2>4
        DEF Take, RunStep, Check, Disable, Evict, Mutate, MarkApplied, Record, SetCurrent, WrapUp,
            Redirect, Fail, Ack, Raises, MutateRaises, FailRaises, Crash, billing, history
<1>3. ASSUME NEW w \in Workers,
             Take(w) \/ RunStep(w) \/ Raises(w) \/ MutateRaises(w) \/ FlushRaises(w)
               \/ FailRaises(w) \/ Crash(w)
      PROVE  \E p \in Payments : /\ \A r \in Payments \ {p} : mutated'[r] = mutated[r]
                                 /\ mutated'[p] \in {mutated[p], mutated[p] + 1}
  <2>1. mutated' = mutated \/ mutated' = [mutated EXCEPT ![RunPay(w)] = @ + 1]
    BY <1>3, WorkerSteps DEF WorkerFrame
  <2> QED BY <1>t, <2>1
<1>4. ASSUME Tick PROVE now' = now + 1 /\ UNCHANGED <<banked, extra, mutated>>
  BY <1>4 DEF Tick, billing, history
<1>5. ASSUME \/ \E p \in Payments : (\E k \in Kinds : CreatePayment(p, k)) \/ HandlePaymentCanceled(p)
             \/ \E h \in Hooks : (\E p \in Payments : Deliver(h, p)) \/ HookStep(h) \/ HookFault(h)
             \/ (\E u \in Users : CacheExpires(u)) \/ UNCHANGED vars
      PROVE  UNCHANGED <<now, banked, extra, mutated>>
  BY <1>5 DEF CreatePayment, HandlePaymentCanceled, Deliver, HookStep, HookTransition, HookRefetch,
              HookCurrent, HookFill, HookEnqueue, HookRewards, HookFault, CacheExpires, vars, billing, history
<1> QED BY <1>t, <1>e, <1>1, <1>2, <1>3, <1>4, <1>5 DEF Next

\* The bounds of a step's start are within those of its end.
Grown ==
  /\ Counted'
  /\ \A u \in Users : Bound(u) \in Nat /\ Bound(u)' \in Nat /\ Bound(u) <= Bound(u)'
  /\ \A p \in Payments : /\ Without(p) \in Nat /\ Without(p)' \in Nat /\ Without(p) <= Without(p)'
                         /\ Days[p] \in Nat /\ OwnerOf[p] \in Users
                         /\ Without(p)' <= Bound(OwnerOf[p])'

\* No step lowers a bound.
LEMMA BoundsGrow ==
  ASSUME TypeOK, TypeOK', Counted, [Next]_vars
  PROVE  Grown
<1>t. /\ mutated \in [Payments -> Nat] /\ extra \in [Users -> Nat] /\ now \in Nat
      /\ mutated' \in [Payments -> Nat] /\ extra' \in [Users -> Nat] /\ now' \in Nat
      /\ MaxStartExpire \in Nat /\ RewardDays \in Nat
  BY BoundTypes, StartBound DEF TypeOK, StoreType, HistoryType
<1>1. PICK q \in Payments : /\ \A p \in Payments \ {q} : mutated'[p] = mutated[p]
                            /\ mutated'[q] \in {mutated[q], mutated[q] + 1}
  BY StepsCount
<1>2. ASSUME NEW u \in Users
      PROVE  /\ Bought(u)' \in {Bought(u), Bought(u) \union {q}}
             /\ Bought(u) \in SUBSET Payments /\ IsFiniteSet(Bought(u))
             /\ Bought(u)' \in SUBSET Payments /\ IsFiniteSet(Bought(u)')
  <2>1. \A p \in Payments \ {q} : p \in Bought(u)' <=> p \in Bought(u)
    BY <1>1 DEF Bought
  <2>2. q \in Bought(u) => q \in Bought(u)'
    BY <1>t, <1>1 DEF Bought
  <2>3. Bought(u) \in SUBSET Payments /\ Bought(u)' \in SUBSET Payments
    BY DEF Bought
  <2>4. Bought(u)' \in {Bought(u), Bought(u) \union {q}}
    BY <2>1, <2>2, <2>3
  <2>5. IsFiniteSet(Bought(u))
    BY DEF Counted
  <2>6. IsFiniteSet(Bought(u) \union {q})
    BY <2>5, FS_AddElement
  <2> QED BY <2>3, <2>4, <2>5, <2>6
<1>3. Counted'
  <2>1. \A u \in Users : banked'[u] \in {0, RewardDays}
    BY StepsCount DEF Counted
  <2> QED BY <1>2, <2>1 DEF Counted
<1>4. ASSUME NEW u \in Users
      PROVE  Credit(u) \in Nat /\ Credit(u)' \in Nat /\ Credit(u) <= Credit(u)'
  <2>1. /\ banked[u] \in {0, RewardDays} /\ banked'[u] \in {banked[u], 0}
        /\ extra'[u] >= extra[u] /\ now' \in {now, now + 1}
    BY StepsCount DEF Counted
  <2>2. /\ Later(MaxStartExpire, now) \in Nat /\ Later(MaxStartExpire, now') \in Nat
        /\ Later(MaxStartExpire, now) <= Later(MaxStartExpire, now')
    BY <1>t, <2>1 DEF Later
  <2>3. /\ RewardDays - banked[u] \in Nat /\ RewardDays - banked'[u] \in Nat
        /\ RewardDays - banked[u] <= RewardDays - banked'[u]
    BY <1>t, <2>1
  <2> QED BY <1>t, <2>1, <2>2, <2>3 DEF Credit
<1>5. ASSUME NEW B \in SUBSET Payments, IsFiniteSet(B), NEW C \in {B, B \union {q}}, NEW p \in Payments
      PROVE  /\ DaysOf(B) \in Nat /\ DaysOf(C) \in Nat /\ DaysOf(B) <= DaysOf(C)
             /\ DaysOf(B \ {p}) \in Nat /\ DaysOf(C \ {p}) \in Nat /\ DaysOf(B \ {p}) <= DaysOf(C \ {p})
  <2>1. ASSUME NEW D \in SUBSET Payments, IsFiniteSet(D)
        PROVE  DaysOf(D) \in Nat /\ DaysOf(D \union {q}) \in Nat /\ DaysOf(D) <= DaysOf(D \union {q})
    <3>1. CASE q \in D
      <4>1. D \union {q} = D
        BY <3>1
      <4> QED BY <2>1, <4>1, DaysOfType
    <3>2. CASE q \notin D
      <4>1. DaysOf(D) \in Nat /\ Days[q] \in Nat /\ DaysOf(D \union {q}) = DaysOf(D) + Days[q]
        BY <2>1, <3>2, DaysOfType, DaysOfAdd, PaymentTypes
      <4> QED BY <4>1
    <3> QED BY <3>1, <3>2
  <2>2. B \ {p} \in SUBSET Payments /\ IsFiniteSet(B \ {p})
    BY <1>5, FS_Subset
  <2>3. C \ {p} \in {B \ {p}, (B \ {p}) \union {q}}
    BY <1>5
  <2>4. DaysOf(B) \in Nat /\ DaysOf(B \union {q}) \in Nat /\ DaysOf(B) <= DaysOf(B \union {q})
    BY <1>5, <2>1
  <2> DEFINE R == B \ {p}
  <2>5. DaysOf(R) \in Nat /\ DaysOf(R \union {q}) \in Nat /\ DaysOf(R) <= DaysOf(R \union {q})
    <3> HIDE DEF R
    <3>1. R \in SUBSET Payments /\ IsFiniteSet(R)
      BY <2>2 DEF R
    <3> QED BY <2>1, <3>1
  <2> QED BY <1>5, <2>3, <2>4, <2>5
<1>6. ASSUME NEW u \in Users PROVE Bound(u) \in Nat /\ Bound(u)' \in Nat /\ Bound(u) <= Bound(u)'
  <2> DEFINE B == Bought(u)  C == Bought(u)'
  <2>1. B \in SUBSET Payments /\ IsFiniteSet(B) /\ C \in {B, B \union {q}}
    BY <1>2
  <2> HIDE DEF B, C
  <2>2. DaysOf(B) \in Nat /\ DaysOf(C) \in Nat /\ DaysOf(B) <= DaysOf(C)
    BY <1>5, <2>1
  <2>3. Bound(u) = Credit(u) + DaysOf(B) /\ Bound(u)' = Credit(u)' + DaysOf(C)
    BY DEF Bound, B, C
  <2> QED BY <1>4, <2>2, <2>3
<1>7. ASSUME NEW p \in Payments
      PROVE  /\ Without(p) \in Nat /\ Without(p)' \in Nat /\ Without(p) <= Without(p)'
             /\ Days[p] \in Nat /\ OwnerOf[p] \in Users
             /\ Without(p)' <= Bound(OwnerOf[p])'
  <2>0. OwnerOf[p] \in Users /\ Days[p] \in Nat
    BY PaymentTypes
  <2> DEFINE u == OwnerOf[p]  B == Bought(u)  C == Bought(u)'
  <2>1. B \in SUBSET Payments /\ IsFiniteSet(B) /\ C \in {B, B \union {q}}
        /\ C \in SUBSET Payments /\ IsFiniteSet(C)
    BY <1>2, <2>0
  <2>3. /\ Without(p) = Credit(u) + DaysOf(B \ {p}) /\ Without(p)' = Credit(u)' + DaysOf(C \ {p})
        /\ Bound(u)' = Credit(u)' + DaysOf(C)
    BY DEF Without, Bound
  <2>4. Credit(u) \in Nat /\ Credit(u)' \in Nat /\ Credit(u) <= Credit(u)'
    BY <1>4, <2>0
  <2> HIDE DEF B, C
  <2>2. DaysOf(B \ {p}) \in Nat /\ DaysOf(C \ {p}) \in Nat /\ DaysOf(B \ {p}) <= DaysOf(C \ {p})
    BY <1>5, <2>1
  <2>5. DaysOf(C) \in Nat /\ DaysOf(C \ {p}) <= DaysOf(C)
    BY <2>1, DaysOfOwn
  <2> QED BY <2>0, <2>2, <2>3, <2>4, <2>5
<1> QED BY <1>3, <1>6, <1>7 DEF Grown

\* The frame of every step: what it leaves alone stays within its bound.
LEMMA TermStep ==
  ASSUME TypeOK, TypeOK', TermInv, Grown,
         \A u \in Users : panel'[u].expire = panel[u].expire \/ panel'[u].expire <= Bound(u)',
         \A u \in Users : cache'[u].expire = cache[u].expire \/ cache'[u].expire <= Bound(u)',
         \A u \in Users : \A i \in DOMAIN subs' : Knows(u, i)' =>
           \/ Knows(u, i) /\ i \in DOMAIN subs /\ subs'[i].expire = subs[i].expire
           \/ subs'[i].expire <= Bound(u)',
         \A h \in Hooks : \/ hook'[h].pay = hook[h].pay /\ hook'[h].sub = hook[h].sub
                          \/ hook'[h].sub.expire <= Bound(HookUser(h))',
         \A e \in stream' : e \in stream \/ e.sub.expire <= Without(e.pay)',
         \A w \in Workers : run'[w] = run[w] \/ RunTerm(w)'
  PROVE  TermInv'
<1>1. ASSUME NEW u \in Users PROVE Terms(u)'
  <2>1. Bound(u) \in Nat /\ Bound(u)' \in Nat /\ Bound(u) <= Bound(u)' /\ Terms(u)
    BY DEF Grown, TermInv
  <2>2. panel[u].expire \in Nat /\ cache[u].expire \in Nat
    BY DEF TypeOK, StoreType, Account, Snapshot
  <2>3. \A i \in DOMAIN subs : subs[i].expire \in Nat
    <3>1. subs \in Seq(SubRecord)
      BY DEF TypeOK, BillingType
    <3>2. \A i \in DOMAIN subs : subs[i] \in SubRecord
      BY <3>1
    <3> QED BY <3>2 DEF SubRecord
  <2>m. \A n \in Nat : n <= Bound(u) => n <= Bound(u)'
    BY <2>1
  <2>4. panel'[u].expire <= Bound(u)'
    <3>1. panel[u].expire <= Bound(u)'
      BY <2>1, <2>2, <2>m DEF Terms
    <3> QED BY <3>1
  <2>5. cache'[u].expire <= Bound(u)'
    <3>1. cache[u].expire <= Bound(u)'
      BY <2>1, <2>2, <2>m DEF Terms
    <3> QED BY <3>1
  <2>6. ASSUME NEW i \in DOMAIN subs', Knows(u, i)' PROVE subs'[i].expire <= Bound(u)'
    <3>1. CASE Knows(u, i) /\ i \in DOMAIN subs /\ subs'[i].expire = subs[i].expire
      <4>1. subs[i].expire <= Bound(u)
        BY <2>1, <3>1 DEF Terms
      <4> QED BY <2>1, <2>3, <3>1, <4>1
    <3> QED BY <2>6, <3>1
  <2> QED BY <2>4, <2>5, <2>6 DEF Terms
<1>2. ASSUME NEW h \in Hooks PROVE hook'[h].sub.expire <= Bound(HookUser(h))'
  <2>1. CASE hook'[h].pay = hook[h].pay /\ hook'[h].sub = hook[h].sub
    <3>1. HookUser(h) \in Users /\ HookUser(h)' = HookUser(h)
      BY <2>1, PaymentTypes DEF TypeOK, HookType, HookUser
    <3> DEFINE u == HookUser(h)
    <3>2. hook[h].sub.expire <= Bound(u)
      BY DEF TermInv
    <3>3. hook[h].sub.expire \in Nat
      BY DEF TypeOK, HookType, Snapshot
    <3>4. Bound(u) \in Nat /\ Bound(u)' \in Nat /\ Bound(u) <= Bound(u)'
      <4>1. \A v \in Users : Bound(v) \in Nat /\ Bound(v)' \in Nat /\ Bound(v) <= Bound(v)'
        BY DEF Grown
      <4>2. PICK v \in Users : v = u
        BY <3>1
      <4>3. Bound(u) = Bound(v) /\ Bound(u)' = Bound(v)'
        BY <3>1, <4>2 DEF Bound, Credit, Bought
      <4> QED BY <4>1, <4>3
    <3> QED BY <2>1, <3>2, <3>3, <3>4
  <2> QED BY <2>1
<1>3. ASSUME NEW e \in stream' PROVE e.sub.expire <= Without(e.pay)'
  <2>1. CASE e \in stream
    <3>1. e \in Entry
      BY <2>1 DEF TypeOK, StoreType
    <3>2. e.pay \in Payments /\ e.sub.expire \in Nat
      BY <3>1 DEF Entry, Snapshot
    <3>3. e.sub.expire <= Without(e.pay)
      BY <2>1 DEF TermInv
    <3>4. Without(e.pay) \in Nat /\ Without(e.pay)' \in Nat /\ Without(e.pay) <= Without(e.pay)'
      BY <3>2 DEF Grown
    <3> QED BY <3>2, <3>3, <3>4
  <2> QED BY <1>3, <2>1
<1>4. ASSUME NEW w \in Workers, run'[w] = run[w] PROVE RunTerm(w)'
  <2>1. /\ run[w].expire \in Nat /\ RunPay(w) \in Payments /\ RunUser(w) \in Users /\ RunSub(w).expire \in Nat
    BY RunFields DEF TypeOK, Snapshot
  <2>2. PICK p \in Payments : p = RunPay(w)
    BY <2>1
  <2>3. RunPay(w)' = p /\ RunUser(w) = OwnerOf[p] /\ RunUser(w)' = OwnerOf[p] /\ RunSub(w)' = RunSub(w)
    BY <1>4, <2>2 DEF RunPay, RunUser, RunSub
  <2>4. /\ run[w].expire <= Bound(OwnerOf[p])
        /\ RunSub(w).expire <= Without(p) + Days[p]
        /\ run[w].pc \in Ahead => RunSub(w).expire <= Without(p)
    BY <2>2, <2>3 DEF TermInv, RunTerm
  <2>5. /\ Bound(OwnerOf[p]) \in Nat /\ Bound(OwnerOf[p])' \in Nat /\ Bound(OwnerOf[p]) <= Bound(OwnerOf[p])'
        /\ Without(p) \in Nat /\ Without(p)' \in Nat /\ Without(p) <= Without(p)' /\ Days[p] \in Nat
    BY DEF Grown
  <2>6. /\ run'[w].expire <= Bound(OwnerOf[p])'
        /\ RunSub(w)'.expire <= Without(p)' + Days[p]
        /\ run'[w].pc \in Ahead => RunSub(w)'.expire <= Without(p)'
    BY <1>4, <2>1, <2>3, <2>4, <2>5
  <2>7. Bound(RunUser(w))' = Bound(OwnerOf[p])' /\ Without(RunPay(w))' = Without(p)'
    BY <2>3 DEF Bound, Credit, Bought, Without
  <2> QED BY <2>3, <2>6, <2>7 DEF RunTerm
<1> QED BY <1>1, <1>2, <1>3, <1>4 DEF TermInv, Grown

\* What billing or Redis answers is within the user's bound.
LEMMA ReadTerm ==
  ASSUME TypeOK, TermInv, NEW u \in Users
  PROVE  /\ CurrentSub(u).expire \in Nat /\ CurrentSub(u).expire <= Bound(u)
         /\ CachedSub(u).expire \in Nat /\ CachedSub(u).expire <= Bound(u)
<1>1. /\ Bound(u) \in Nat /\ Terms(u)
      /\ CurrentSub(u) \in Snapshot /\ CachedSub(u) \in Snapshot
  BY BoundTypesHold, SnapshotTypes DEF TermInv
<1>2. CurrentSub(u).expire \in Nat /\ CachedSub(u).expire \in Nat
  BY <1>1 DEF Snapshot
<1>3. CurrentSub(u).expire <= Bound(u)
  <2>1. CASE current[u] \in DOMAIN subs
    <3>1. subs[current[u]].expire <= Bound(u)
      BY <1>1, <2>1 DEF Terms, Knows
    <3> QED BY <2>1, <3>1 DEF CurrentSub, SnapshotOf
  <2>2. CASE current[u] \notin DOMAIN subs
    <3>1. CurrentSub(u).expire = 0
      BY <2>2 DEF CurrentSub, SnapshotOf, NoSub
    <3> QED BY <1>1, <3>1
  <2> QED BY <2>1, <2>2
<1>4. CachedSub(u).expire <= Bound(u)
  BY <1>1, <1>3 DEF CachedSub, Terms
<1> QED BY <1>2, <1>3, <1>4

\* What is empty is within any bound.
LEMMA NothingTerm ==
  NoSub.expire = 0 /\ Uncached.expire = 0 /\ IdleRun.expire = 0 /\ IdleRun.e.sub.expire = 0
    /\ IdleRun.pc = "idle" /\ IdleHook.sub.expire = 0
BY DEF NoSub, Uncached, IdleRun, BlankEntry, IdleHook

\* The webhook side, the users' payments and time keep the bounds.
LEMMA OthersTerm ==
  ASSUME TypeOK, TypeOK', SettleInv, TermInv, Grown, [Next]_vars, UNCHANGED run,
         ~ \E w \in Workers : Take(w) \/ RunStep(w) \/ Raises(w) \/ MutateRaises(w)
                                \/ FlushRaises(w) \/ FailRaises(w) \/ Crash(w)
  PROVE  TermInv'
<1>t. /\ HookType /\ cache \in [Users -> Snapshot]
      /\ \A h \in Hooks : hook[h].pay \in Payments /\ HookUser(h) \in Users
  BY PaymentTypes DEF TypeOK, StoreType, HookType, HookUser
<1>s. subs' = subs
  BY OthersLearn, NonEmpty, PaymentTypes
<1>k. \A u \in Users : \A i \in DOMAIN subs' : Knows(u, i)' =>
        Knows(u, i) /\ i \in DOMAIN subs /\ subs'[i].expire = subs[i].expire
  <2> SUFFICES ASSUME NEW u \in Users, NEW i \in DOMAIN subs', Knows(u, i)' PROVE Knows(u, i)
    BY <1>s
  <2>1. i \in Nat /\ i # 0
    BY <1>s DEF TypeOK, BillingType
  <2> QED BY <2>1, OthersLearn
<1>p. panel' = panel
  BY DEF Next, vars, CreatePayment, HandlePaymentCanceled, Deliver, HookStep, HookTransition,
         HookRefetch, HookCurrent, HookFill, HookEnqueue, HookRewards, HookFault, Tick,
         CacheExpires, billing, history
<1>n. \A u \in Users : 0 <= Bound(u)'
  BY DEF Grown
<1>g. ASSUME NEW h \in Hooks, NEW pc, HookGoto(h, pc)
      PROVE  \A g \in Hooks : hook'[g].pay = hook[g].pay /\ hook'[g].sub = hook[g].sub
  BY <1>t, <1>g DEF HookGoto, HookType
<1>i. ASSUME NEW h \in Hooks, HookEnd(h)
      PROVE  \A g \in Hooks : \/ hook'[g].pay = hook[g].pay /\ hook'[g].sub = hook[g].sub
                              \/ hook'[g].sub.expire <= Bound(HookUser(g))'
  <2>1. hook'[h] = IdleHook /\ \A g \in Hooks : g # h => hook'[g] = hook[g]
    BY <1>t, <1>i DEF HookEnd, HookType
  <2>2. HookUser(h)' \in Users
    BY PaymentTypes DEF TypeOK, HookType, HookUser
  <2>3. 0 <= Bound(HookUser(h))'
    <3>1. PICK v \in Users : v = HookUser(h)'
      BY <2>2
    <3>2. Bound(HookUser(h))' = Bound(v)'
      BY <3>1 DEF Bound, Credit, Bought
    <3> QED BY <1>n, <3>2
  <2> QED BY <2>1, <2>3, NothingTerm
<1>f. ASSUME \A u \in Users : cache'[u].expire = cache[u].expire \/ cache'[u].expire <= Bound(u)',
             \A h \in Hooks : \/ hook'[h].pay = hook[h].pay /\ hook'[h].sub = hook[h].sub
                              \/ hook'[h].sub.expire <= Bound(HookUser(h))',
             \A e \in stream' : e \in stream \/ e.sub.expire <= Without(e.pay)'
      PROVE  TermInv'
  <2>1. \A u \in Users : panel'[u].expire = panel[u].expire
    BY <1>p
  <2>2. \A w \in Workers : run'[w] = run[w]
    OBVIOUS
  <2> QED BY <1>f, <1>k, <2>1, <2>2, TermStep
<1>1. ASSUME UNCHANGED <<cache, hook, stream>> PROVE TermInv'
  BY <1>1, <1>f
<1>2. ASSUME NEW p \in Payments, (\E k \in Kinds : CreatePayment(p, k)) \/ HandlePaymentCanceled(p)
      PROVE  TermInv'
  BY <1>1, <1>2 DEF CreatePayment, HandlePaymentCanceled, queue
<1>3. ASSUME NEW h \in Hooks, NEW p \in Payments, Deliver(h, p) PROVE TermInv'
  <2>1. hook'[h].pay = p /\ hook'[h].sub = NoSub /\ \A g \in Hooks : g # h => hook'[g] = hook[g]
    BY <1>3, <1>t DEF Deliver, HookType
  <2>2. hook'[h].sub.expire <= Bound(HookUser(h))'
    <3>1. OwnerOf[p] \in Users /\ HookUser(h)' = OwnerOf[p]
      BY <2>1, PaymentTypes DEF HookUser
    <3>2. Bound(HookUser(h))' = Bound(OwnerOf[p])'
      BY <3>1 DEF Bound, Credit, Bought
    <3>3. 0 <= Bound(OwnerOf[p])'
      BY <1>n, <3>1
    <3> QED BY <2>1, <3>2, <3>3, NothingTerm
  <2>3. UNCHANGED <<cache, stream>>
    BY <1>3 DEF Deliver, queue
  <2> QED BY <1>f, <2>1, <2>2, <2>3
<1>4. ASSUME NEW h \in Hooks, HookTransition(h) \/ HookRefetch(h) \/ HookRewards(h) \/ HookFault(h)
      PROVE  TermInv'
  <2>1. UNCHANGED <<cache, stream>>
    BY <1>4 DEF HookTransition, HookRefetch, HookRewards, HookFault, queue
  <2>2. HookEnd(h) \/ \E pc : HookGoto(h, pc)
    BY <1>4 DEF HookTransition, HookRefetch, HookRewards, HookFault
  <2> QED BY <1>f, <1>g, <1>i, <2>1, <2>2
<1>5. ASSUME NEW h \in Hooks, HookCurrent(h) PROVE TermInv'
  <2>1. UNCHANGED <<cache, stream>>
    BY <1>5 DEF HookCurrent, queue
  <2>2. /\ hook'[h].pay = hook[h].pay /\ hook'[h].sub = CachedSub(HookUser(h))
        /\ \A g \in Hooks : g # h => hook'[g] = hook[g]
    BY <1>5, <1>t DEF HookCurrent, HookType
  <2>3. hook'[h].sub.expire <= Bound(HookUser(h))'
    <3>1. PICK u \in Users : u = HookUser(h)
      BY <1>t
    <3>2. HookUser(h)' = u
      BY <2>2, <3>1 DEF HookUser
    <3>3. Bound(HookUser(h))' = Bound(u)'
      BY <3>2 DEF Bound, Credit, Bought
    <3>4. CachedSub(u).expire \in Nat /\ CachedSub(u).expire <= Bound(u)
      BY ReadTerm
    <3>5. CachedSub(u).expire <= Bound(u)'
      BY <3>4 DEF Grown
    <3> QED BY <2>2, <3>1, <3>3, <3>5
  <2> QED BY <1>f, <2>1, <2>2, <2>3
<1>6. ASSUME NEW h \in Hooks, HookFill(h) PROVE TermInv'
  <2>1. stream' = stream /\ cache' = [cache EXCEPT ![HookUser(h)] = hook[h].sub] /\ HookGoto(h, "enqueue")
    BY <1>6 DEF HookFill, queue
  <2>2. ASSUME NEW u \in Users PROVE cache'[u].expire = cache[u].expire \/ cache'[u].expire <= Bound(u)'
    <3>1. CASE u = HookUser(h)
      <4>1. cache'[u] = hook[h].sub
        BY <1>t, <2>1, <3>1
      <4>2. hook[h].sub.expire <= Bound(u)
        BY <3>1 DEF TermInv
      <4>3. hook[h].sub.expire \in Nat
        BY DEF TypeOK, HookType, Snapshot
      <4> QED BY <4>1, <4>2, <4>3 DEF Grown
    <3>2. CASE u # HookUser(h)
      BY <1>t, <2>1, <3>2
    <3> QED BY <3>1, <3>2
  <2> QED BY <1>f, <1>g, <2>1, <2>2
<1>7. ASSUME NEW h \in Hooks, HookEnqueue(h) PROVE TermInv'
  <2>1. cache' = cache /\ (HookEnd(h) \/ \E pc : HookGoto(h, pc))
    BY <1>7 DEF HookEnqueue
  <2>2. PICK p \in Payments : p = hook[h].pay
    BY <1>t
  <2>3. \A e \in stream' : e \in stream \/ (e.pay = p /\ e.sub = hook[h].sub)
    BY <1>7, <2>2 DEF HookEnqueue
  <2>4. mutated[p] = 0
    <3>1. enqueued[p] = 0
      BY <1>7, <2>2 DEF HookEnqueue, HookAt, SettleInv, HookInv, Settling
    <3>2. ~(mutated[p] > 0) /\ mutated[p] \in Nat
      BY <3>1 DEF SettleInv, QueueInv, TypeOK, HistoryType
    <3> QED BY <3>2
  <2>5. Without(p) = Bound(OwnerOf[p])
    <3> DEFINE B == Bought(OwnerOf[p])
    <3>1. B \in SUBSET Payments /\ IsFiniteSet(B) /\ p \notin B
      BY <2>4, PaymentTypes DEF Bought, TermInv, Counted
    <3> HIDE DEF B
    <3>2. DaysOf(B) = DaysOf(B \ {p})
      BY <3>1, DaysOfOwn
    <3> QED BY <3>2 DEF B, Without, Bound
  <2>6. hook[h].sub.expire <= Without(p)
    <3>1. hook[h].sub.expire <= Bound(HookUser(h))
      BY DEF TermInv
    <3> QED BY <2>2, <2>5, <3>1 DEF HookUser
  <2>7. hook[h].sub.expire <= Without(p)'
    <3>1. hook[h].sub.expire \in Nat
      BY DEF TypeOK, HookType, Snapshot
    <3> QED BY <2>6, <3>1 DEF Grown
  <2>8. \A e \in stream' : e \in stream \/ e.sub.expire <= Without(e.pay)'
    BY <2>3, <2>7
  <2> QED BY <1>f, <1>g, <1>i, <2>1, <2>8
<1>8. ASSUME Tick \/ (\E u \in Users : CacheExpires(u)) PROVE TermInv'
  <2>1. UNCHANGED <<hook, stream>> /\ \A u \in Users : cache'[u] = cache[u] \/ cache'[u] = Uncached
    BY <1>8, <1>t DEF Tick, CacheExpires, queue
  <2> QED BY <1>f, <1>n, <2>1, NothingTerm
<1>9. CASE UNCHANGED vars
  BY <1>1, <1>9 DEF vars, queue
<1> QED BY <1>2, <1>3, <1>4, <1>5, <1>6, <1>7, <1>8, <1>9 DEF Next, HookStep

\* A run that keeps its message, and does not come before its panel call again,
\* keeps within its bounds.
LEMMA RunKept ==
  ASSUME TypeOK, TermInv, Grown, NEW w \in Workers,
         run'[w].e = run[w].e, run'[w].expire = run[w].expire,
         run'[w].pc \in Ahead => run[w].pc \in Ahead
  PROVE  RunTerm(w)'
<1>1. run[w].expire \in Nat /\ RunPay(w) \in Payments /\ RunSub(w).expire \in Nat
  BY RunFields DEF TypeOK, Snapshot
<1>2. PICK p \in Payments : p = RunPay(w)
  BY <1>1
<1>3. RunPay(w)' = p /\ RunUser(w) = OwnerOf[p] /\ RunUser(w)' = OwnerOf[p] /\ RunSub(w)' = RunSub(w)
  BY <1>2 DEF RunPay, RunUser, RunSub
<1>4. /\ run[w].expire <= Bound(OwnerOf[p])
      /\ RunSub(w).expire <= Without(p) + Days[p]
      /\ run[w].pc \in Ahead => RunSub(w).expire <= Without(p)
  BY <1>2, <1>3 DEF TermInv, RunTerm
<1>5. /\ Bound(OwnerOf[p]) \in Nat /\ Bound(OwnerOf[p])' \in Nat /\ Bound(OwnerOf[p]) <= Bound(OwnerOf[p])'
      /\ Without(p) \in Nat /\ Without(p)' \in Nat /\ Without(p) <= Without(p)' /\ Days[p] \in Nat
  BY DEF Grown
<1>6. /\ run'[w].expire <= Bound(OwnerOf[p])'
      /\ RunSub(w)'.expire <= Without(p)' + Days[p]
      /\ run'[w].pc \in Ahead => RunSub(w)'.expire <= Without(p)'
  BY <1>1, <1>3, <1>4, <1>5
<1>7. Bound(RunUser(w))' = Bound(OwnerOf[p])' /\ Without(RunPay(w))' = Without(p)'
  BY <1>3 DEF Bound, Credit, Bought, Without
<1> QED BY <1>3, <1>6, <1>7 DEF RunTerm

\* What a run's bounds are after a step, for the payment it then works for.
LEMMA RunBounds ==
  ASSUME Grown, NEW w \in Workers, NEW p \in Payments, RunPay(w)' = p,
         run'[w].expire <= Bound(OwnerOf[p])',
         RunSub(w)'.expire <= Without(p)' + Days[p],
         run'[w].pc \in Ahead => RunSub(w)'.expire <= Without(p)'
  PROVE  RunTerm(w)'
<1>1. RunUser(w)' = OwnerOf[p]
  BY DEF RunUser
<1>2. Bound(RunUser(w))' = Bound(OwnerOf[p])' /\ Without(RunPay(w))' = Without(p)'
  BY <1>1 DEF Bound, Credit, Bought, Without
<1> QED BY <1>2 DEF RunTerm

\* A run that is over, and one that has just taken a message.
LEMMA RunFresh ==
  ASSUME TypeOK, TypeOK', TermInv, Grown, NEW w \in Workers,
         \/ run'[w] = IdleRun
         \/ \E e \in stream : run'[w] = [pc |-> "check", e |-> e, expire |-> 0, id |-> 0]
  PROVE  RunTerm(w)'
<1>1. CASE run'[w] = IdleRun
  <2>1. PICK p \in Payments : p = BlankEntry.pay
    BY NonEmpty DEF BlankEntry
  <2>2. RunPay(w)' = p /\ RunSub(w)'.expire = 0 /\ run'[w].expire = 0 /\ run'[w].pc \notin Ahead
    BY <1>1, <2>1, NothingTerm DEF RunPay, RunSub, IdleRun, Ahead, PreCall
  <2>3. Bound(OwnerOf[p])' \in Nat /\ Without(p)' \in Nat /\ Days[p] \in Nat
    BY DEF Grown
  <2>4. 0 <= Bound(OwnerOf[p])' /\ 0 <= Without(p)' + Days[p]
    BY <2>3
  <2> QED BY <2>2, <2>4, RunBounds
<1>2. ASSUME NEW e \in stream, run'[w] = [pc |-> "check", e |-> e, expire |-> 0, id |-> 0]
      PROVE  RunTerm(w)'
  <2>1. e \in Entry /\ e.pay \in Payments /\ e.sub.expire \in Nat
    BY DEF TypeOK, StoreType, Entry, Snapshot
  <2>2. PICK p \in Payments : p = e.pay
    BY <2>1
  <2>3. RunPay(w)' = p /\ RunSub(w)'.expire = e.sub.expire /\ run'[w].expire = 0
    BY <1>2, <2>2 DEF RunPay, RunSub
  <2>4. /\ Bound(OwnerOf[p])' \in Nat /\ Without(p)' \in Nat /\ Days[p] \in Nat
        /\ Without(p) \in Nat /\ Without(p) <= Without(p)'
    BY DEF Grown
  <2>5. e.sub.expire <= Without(p)
    BY <2>2 DEF TermInv
  <2>6. 0 <= Bound(OwnerOf[p])' /\ e.sub.expire <= Without(p)' /\ e.sub.expire <= Without(p)' + Days[p]
    BY <2>1, <2>4, <2>5
  <2> QED BY <2>3, <2>6, RunBounds
<1> QED BY <1>1, <1>2

\* The expiry a handler asks for is within the bound with its own payment.
LEMMA NewTerm ==
  ASSUME TypeOK, TermInv, NEW e \in Entry, e.sub.expire <= Without(e.pay)
  PROVE  NewExpire(e) \in Nat /\ NewExpire(e) <= Without(e.pay) + Days[e.pay]
<1>1. /\ e.pay \in Payments /\ e.sub.expire \in Nat /\ now \in Nat /\ Days[e.pay] \in Nat
      /\ Without(e.pay) \in Nat /\ now <= Without(e.pay)
  BY BoundTypesHold, PaymentTypes DEF Entry, Snapshot, TypeOK, StoreType, TermInv
<1>2. Later(e.sub.expire, now) \in Nat /\ Later(e.sub.expire, now) <= Without(e.pay)
  BY <1>1 DEF Later
<1> QED BY <1>1, <1>2 DEF NewExpire

\* Once the panel call was made for a payment, its days are in the owner's bound.
LEMMA MutatedBound ==
  ASSUME TypeOK', Grown, NEW p \in Payments, mutated'[p] > 0
  PROVE  Bound(OwnerOf[p])' = Without(p)' + Days[p]
<1> DEFINE C == Bought(OwnerOf[p])'
<1>1. C \in SUBSET Payments /\ IsFiniteSet(C) /\ p \in C
  BY PaymentTypes DEF Bought, Grown, Counted
<1>2. /\ Bound(OwnerOf[p])' = Credit(OwnerOf[p])' + DaysOf(C)
      /\ Without(p)' = Credit(OwnerOf[p])' + DaysOf(C \ {p})
  BY DEF Bound, Without
<1> HIDE DEF C
<1>3. DaysOf(C) = DaysOf(C \ {p}) + Days[p] /\ DaysOf(C \ {p}) \in Nat /\ Days[p] \in Nat
  BY <1>1, DaysOfOwn, PaymentTypes
<1>4. Credit(OwnerOf[p])' \in Nat
  <2>1. /\ banked'[OwnerOf[p]] \in {0, RewardDays} /\ extra'[OwnerOf[p]] \in Nat /\ now' \in Nat
        /\ RewardDays \in Nat /\ MaxStartExpire \in Nat
    BY PaymentTypes, BoundTypes, StartBound DEF Grown, Counted, TypeOK, HistoryType, StoreType
  <2>2. RewardDays - banked'[OwnerOf[p]] \in Nat /\ Later(MaxStartExpire, now') \in Nat
    BY <2>1 DEF Later
  <2> QED BY <2>1, <2>2 DEF Credit
<1> QED BY <1>2, <1>3, <1>4

\* A reward that is flushed raises the bound by its days, as one that stays
\* banked does and is counted as granted twice.
LEMMA RewardBound ==
  ASSUME TypeOK, Counted, NEW u \in Users, UNCHANGED <<now, mutated>>, banked[u] > 0,
         \/ banked'[u] = 0 /\ extra'[u] = extra[u]
         \/ banked'[u] = banked[u] /\ extra'[u] = extra[u] + RewardDays
  PROVE  Bound(u)' = Bound(u) + RewardDays
<1>1. /\ now \in Nat /\ extra[u] \in Nat /\ RewardDays \in Nat /\ MaxStartExpire \in Nat
      /\ banked[u] = RewardDays
  BY BoundTypes, StartBound DEF TypeOK, StoreType, HistoryType, Counted
<1>2. Bought(u)' = Bought(u)
  BY DEF Bought
<1>3. DaysOf(Bought(u)) \in Nat
  <2>1. Bought(u) \in SUBSET Payments /\ IsFiniteSet(Bought(u))
    BY DEF Bought, Counted
  <2> QED BY <2>1, DaysOfType
<1>4. Later(MaxStartExpire, now) \in Nat /\ Later(MaxStartExpire, now)' = Later(MaxStartExpire, now)
  BY <1>1 DEF Later
<1>5. Credit(u)' = Credit(u) + RewardDays /\ Credit(u) \in Nat
  BY <1>1, <1>4 DEF Credit
<1> QED BY <1>1, <1>2, <1>3, <1>5 DEF Bound

\* The same for a payment that is granted twice.
LEMMA TwiceBound ==
  ASSUME TypeOK, Counted, NEW p \in Payments, UNCHANGED <<now, mutated, banked>>,
         extra' = [extra EXCEPT ![OwnerOf[p]] = @ + Days[p]]
  PROVE  Without(p)' = Without(p) + Days[p]
<1> DEFINE u == OwnerOf[p]
<1>1. /\ u \in Users /\ now \in Nat /\ extra[u] \in Nat /\ RewardDays \in Nat /\ MaxStartExpire \in Nat
      /\ banked[u] \in {0, RewardDays} /\ Days[p] \in Nat /\ extra'[u] = extra[u] + Days[p]
  BY PaymentTypes, BoundTypes, StartBound DEF TypeOK, StoreType, HistoryType, Counted
<1>2. Bought(u)' = Bought(u)
  BY DEF Bought
<1>3. DaysOf(Bought(u) \ {p}) \in Nat
  <2>1. Bought(u) \in SUBSET Payments /\ IsFiniteSet(Bought(u))
    BY <1>1 DEF Bought, Counted
  <2> QED BY <2>1, DaysOfOwn
<1>4. Later(MaxStartExpire, now) \in Nat /\ Later(MaxStartExpire, now)' = Later(MaxStartExpire, now)
  BY <1>1 DEF Later
<1>5. Credit(u)' = Credit(u) + Days[p] /\ Credit(u) \in Nat
  BY <1>1, <1>4 DEF Credit
<1> QED BY <1>1, <1>2, <1>3, <1>5 DEF Without

\* A write to a subscription of a user leaves what the others know of.
LEMMA WriteTerm ==
  ASSUME TypeOK, Apart, NEW u \in Users, NEW id \in Nat, NEW n \in Nat,
         subs' = [subs EXCEPT ![id].expire = n], id = 0 \/ Knows(u, id), n <= Bound(u)',
         \A v \in Users, i \in Nat : Knows(v, i)' => i = 0 \/ Knows(v, i)
  PROVE  \A v \in Users : \A i \in DOMAIN subs' : Knows(v, i)' =>
           \/ Knows(v, i) /\ i \in DOMAIN subs /\ subs'[i].expire = subs[i].expire
           \/ subs'[i].expire <= Bound(v)'
<1> SUFFICES ASSUME NEW v \in Users, NEW i \in DOMAIN subs', Knows(v, i)'
             PROVE  \/ Knows(v, i) /\ i \in DOMAIN subs /\ subs'[i].expire = subs[i].expire
                    \/ subs'[i].expire <= Bound(v)'
  OBVIOUS
<1>0. subs \in Seq(SubRecord) /\ DOMAIN subs = 1..Len(subs)
  BY DEF TypeOK, BillingType
<1>1. i \in DOMAIN subs /\ i \in Nat /\ i # 0 /\ subs[i] \in SubRecord
  BY <1>0
<1>2. Knows(v, i)
  BY <1>1
<1>3. CASE i = id
  <2>1. v = u
    BY <1>1, <1>2, <1>3 DEF Apart
  <2>2. subs'[i].expire = n
    BY <1>1, <1>3 DEF SubRecord
  <2> QED BY <2>1, <2>2
<1>4. CASE i # id
  BY <1>1, <1>2, <1>4
<1> QED BY <1>3, <1>4

\* The steps of a task run keep the bounds, however they fail.
LEMMA WorkerTerm ==
  ASSUME TypeOK, TypeOK', SettleInv, GuardInv, Apart, TermInv, Grown, NEW w \in Workers,
         Take(w) \/ RunStep(w) \/ Raises(w) \/ MutateRaises(w)
           \/ FlushRaises(w) \/ FailRaises(w) \/ Crash(w)
  PROVE  TermInv'
<1>t. /\ RunType /\ run[w] \in RunRecord /\ run[w].e \in Entry /\ run[w].expire \in Nat
      /\ RunSub(w) \in Snapshot /\ RunSub(w).expire \in Nat /\ RunSub(w).id \in Nat
      /\ cache \in [Users -> Snapshot] /\ panel \in [Users -> Account]
      /\ current \in [Users -> Nat] /\ subs \in Seq(SubRecord) /\ DOMAIN subs = 1..Len(subs)
      /\ mutated \in [Payments -> Nat]
  <2>1. RunType /\ BillingType /\ StoreType /\ HistoryType
    BY DEF TypeOK
  <2>2. /\ run[w].e \in Entry /\ run[w].expire \in Nat /\ RunSub(w) \in Snapshot
    BY <2>1, RunFields
  <2>3. RunSub(w).expire \in Nat /\ RunSub(w).id \in Nat
    BY <2>2 DEF Snapshot
  <2>4. run[w] \in RunRecord
    BY <2>1 DEF RunType
  <2>5. current \in [Users -> Nat] /\ subs \in Seq(SubRecord)
    BY <2>1 DEF BillingType
  <2>6. DOMAIN subs = 1..Len(subs)
    BY <2>5
  <2>7. cache \in [Users -> Snapshot] /\ panel \in [Users -> Account]
    BY <2>1 DEF StoreType
  <2>8. mutated \in [Payments -> Nat]
    BY <2>1 DEF HistoryType
  <2> QED BY <2>1, <2>2, <2>3, <2>4, <2>5, <2>6, <2>7, <2>8
<1>p. PICK p \in Payments : p = RunPay(w)
  BY RunFields DEF TypeOK
<1>u. RunUser(w) = OwnerOf[p] /\ OwnerOf[p] \in Users /\ Days[p] \in Nat
  BY <1>p, PaymentTypes DEF RunUser
<1>b. /\ Bound(OwnerOf[p]) \in Nat /\ Bound(OwnerOf[p])' \in Nat /\ Bound(OwnerOf[p]) <= Bound(OwnerOf[p])'
      /\ Without(p) \in Nat /\ Without(p)' \in Nat /\ Without(p) <= Without(p)'
      /\ Without(p)' <= Bound(OwnerOf[p])'
  BY DEF Grown
<1>r. /\ run[w].expire <= Bound(OwnerOf[p])
      /\ RunSub(w).expire <= Without(p) + Days[p]
      /\ run[w].pc \in Ahead => RunSub(w).expire <= Without(p)
  BY <1>p, <1>u DEF TermInv, RunTerm
<1>h. \A h \in Hooks : hook'[h] = hook[h]
  BY WorkerSteps DEF WorkerFrame
<1>o. \A v \in Workers : v # w => run'[v] = run[v]
  BY WorkerSteps DEF WorkerFrame
<1>n. \A u \in Users : 0 <= Bound(u)'
  BY DEF Grown
<1> DEFINE Panels == \A u \in Users : panel'[u].expire = panel[u].expire \/ panel'[u].expire <= Bound(u)'
           Caches == \A u \in Users : cache'[u].expire = cache[u].expire \/ cache'[u].expire <= Bound(u)'
           Tables == \A u \in Users : \A i \in DOMAIN subs' : Knows(u, i)' =>
                       \/ Knows(u, i) /\ i \in DOMAIN subs /\ subs'[i].expire = subs[i].expire
                       \/ subs'[i].expire <= Bound(u)'
           Streams == \A e \in stream' : e \in stream \/ e.sub.expire <= Without(e.pay)'
<1>f. ASSUME Panels, Caches, Tables, Streams, RunTerm(w)' PROVE TermInv'
  <2>1. \A v \in Workers : run'[v] = run[v] \/ RunTerm(v)'
    BY <1>o, <1>f
  <2> QED BY <1>h, <1>f, <2>1, TermStep
<1>k. ASSUME ~Record(w) PROVE \A u \in Users, i \in Nat : Knows(u, i)' => i = 0 \/ Knows(u, i)
  BY <1>k, WorkersLearn
<1>s. ASSUME ~Record(w), DOMAIN subs' = DOMAIN subs, \A i \in DOMAIN subs : subs'[i].expire = subs[i].expire
      PROVE  Tables
  <2>1. \A i \in DOMAIN subs : i \in Nat /\ i # 0
    BY <1>t
  <2> QED BY <1>k, <1>s, <2>1
<1>g. ASSUME NEW pc \in RunPcs, RunGoto(w, pc), pc \in Ahead => run[w].pc \in Ahead PROVE RunTerm(w)'
  BY <1>t, <1>g, Goes, RunKept
<1>i. run' = [run EXCEPT ![w] = IdleRun] => RunTerm(w)'
  BY <1>t, RunFresh DEF RunType
<1>c. ASSUME NEW u \in Users, cache' = [cache EXCEPT ![u] = Uncached] PROVE Caches
  BY <1>t, <1>c, <1>n, NothingTerm
<1>q. /\ panel' = panel => Panels
      /\ cache' = cache => Caches
      /\ subs' = subs /\ ~Record(w) => Tables
      /\ stream' \subseteq stream => Streams
  <2>1. subs' = subs /\ ~Record(w) => Tables
    BY <1>s
  <2> QED BY <2>1
<1> HIDE DEF Panels, Caches, Tables, Streams
<1>1. ASSUME ~Record(w), UNCHANGED <<panel, cache, subs, stream>>, RunTerm(w)' PROVE TermInv'
  BY <1>1, <1>f, <1>q
<1>nr. ASSUME Record(w) PROVE run[w].pc = "record"
  BY <1>nr DEF Record, RunAt
<1>2. CASE Take(w)
  <2>1. PICK e \in stream :
          run' = [run EXCEPT ![w] = [pc |-> "check", e |-> e, expire |-> 0, id |-> 0]]
    BY <1>2 DEF Take
  <2>2. RunTerm(w)'
    BY <1>t, <2>1, RunFresh DEF RunType
  <2> QED BY <1>2, <1>1, <1>nr, <2>2 DEF Take, RunAt, billing, queue
<1>3. CASE Check(w)
  <2>1. PICK pc \in RunPcs : RunGoto(w, pc) /\ run[w].pc \in Ahead
    BY <1>3 DEF Check, RunPcs, AfterHandler, RunAt, Ahead
  <2>2. RunTerm(w)'
    BY <1>g, <2>1
  <2> QED BY <1>3, <1>1, <1>nr, <2>2 DEF Check, RunAt, billing, queue
<1>4. CASE Redirect(w) \/ Raises(w) \/ Fail(w) \/ FailRaises(w) \/ MarkApplied(w) \/ SetCurrent(w)
  <2>1. PICK pc \in RunPcs : RunGoto(w, pc) /\ pc \notin Ahead
    BY <1>4 DEF Redirect, Raises, Fail, FailRaises, MarkApplied, SetCurrent, RunPcs, Ahead, PreCall
  <2>2. RunTerm(w)'
    BY <1>g, <2>1
  <2>3. UNCHANGED <<panel, cache, subs, stream>>
    BY <1>4 DEF Redirect, Raises, Fail, FailRaises, MarkApplied, SetCurrent, billing, queue
  <2>4. ~Record(w)
    <3>1. ASSUME Raises(w), Record(w) PROVE FALSE
      <4>1. faults' = faults + 1 /\ faults' = faults /\ faults \in Nat
        BY <3>1 DEF Raises, Record, Fault, TypeOK, StoreType
      <4> QED BY <4>1
    <3> QED BY <1>4, <1>nr, <3>1 DEF Redirect, Fail, FailRaises, MarkApplied, SetCurrent, RunAt
  <2> QED BY <1>1, <2>2, <2>3, <2>4
<1>5. CASE Disable(w)
  <2>1. RunGoto(w, "disableEvict") /\ run[w].pc \in Ahead /\ "disableEvict" \in RunPcs
    BY <1>5 DEF Disable, RunAt, Ahead, PreCall, RunPcs
  <2>2. RunTerm(w)'
    BY <1>g, <2>1
  <2>3. ~Record(w)
    BY <1>5, <1>nr DEF Disable, RunAt
  <2>4. DOMAIN subs' = DOMAIN subs /\ \A i \in DOMAIN subs : subs'[i].expire = subs[i].expire
    <3>1. subs' = [subs EXCEPT ![RunSub(w).id].status = "DISABLED"]
      BY <1>5 DEF Disable
    <3>2. \A i \in DOMAIN subs : subs[i] \in SubRecord
      BY <1>t
    <3> QED BY <3>1, <3>2 DEF SubRecord
  <2>5. Tables
    BY <1>s, <2>3, <2>4
  <2>6. UNCHANGED <<panel, cache, stream>>
    BY <1>5 DEF Disable, queue
  <2> QED BY <1>f, <1>q, <2>2, <2>5, <2>6
<1>6. CASE Evict(w)
  <2>1. PICK pc \in RunPcs : RunGoto(w, pc) /\ (pc \in Ahead => run[w].pc \in Ahead)
    BY <1>6 DEF Evict, RunAt, AfterHandler, Ahead, PreCall, RunPcs
  <2>2. RunTerm(w)'
    BY <1>g, <2>1
  <2>3. ~Record(w)
    BY <1>6, <1>nr DEF Evict
  <2>4. Caches
    BY <1>6, <1>c, <1>u DEF Evict
  <2>5. UNCHANGED <<panel, subs, stream>>
    BY <1>6 DEF Evict, billing, queue
  <2> QED BY <1>f, <1>q, <2>2, <2>3, <2>4, <2>5
<1>7. CASE WrapUp(w)
  <2>1. RunGoto(w, "flush") /\ "flush" \in RunPcs /\ "flush" \notin Ahead
    BY <1>7 DEF WrapUp, RunPcs, Ahead, PreCall
  <2>2. RunTerm(w)'
    BY <1>g, <2>1
  <2>3. ~Record(w)
    BY <1>7, <1>nr DEF WrapUp, RunAt
  <2>4. Caches
    <3>1. cache' = [cache EXCEPT ![OwnerOf[p]] = CachedSub(OwnerOf[p])]
      BY <1>7, <1>u DEF WrapUp
    <3>2. CachedSub(OwnerOf[p]).expire \in Nat /\ CachedSub(OwnerOf[p]).expire <= Bound(OwnerOf[p])
      BY <1>u, ReadTerm
    <3>3. CachedSub(OwnerOf[p]).expire <= Bound(OwnerOf[p])'
      BY <1>b, <3>2
    <3> QED BY <1>t, <1>u, <3>1, <3>3 DEF Caches
  <2>5. UNCHANGED <<panel, subs, stream>>
    BY <1>7 DEF WrapUp, billing, queue
  <2> QED BY <1>f, <1>q, <2>2, <2>3, <2>4, <2>5
<1>8. CASE Ack(w) \/ Crash(w)
  <2>1. RunTerm(w)'
    BY <1>8, <1>i DEF Ack, Crash
  <2>2. UNCHANGED <<panel, cache, subs>> /\ stream' \subseteq stream
    BY <1>8 DEF Ack, Crash, billing, queue
  <2>3. ~Record(w)
    <3>1. ASSUME Record(w) PROVE run'[w].pc \in {"evict", "setCurrent"}
      BY <1>t, <3>1 DEF Record, RunGoto, RunType, RunRecord
    <3>2. run'[w].pc = "idle"
      BY <1>8, <1>t, NothingTerm DEF Ack, Crash, RunType
    <3> QED BY <3>1, <3>2
  <2> QED BY <1>f, <1>q, <2>1, <2>2, <2>3
<1> DEFINE e == run[w].e
<1>e. e \in Entry /\ e.pay = p /\ e.sub = RunSub(w)
  BY <1>t, <1>p DEF RunPay, RunSub
<1>N. ASSUME run[w].pc = "mutate"
      PROVE  /\ NewExpire(e) \in Nat /\ NewExpire(e) <= Without(p) + Days[p]
             /\ Touched(e).pay = p /\ Touched(e).sub.expire \in Nat
             /\ Touched(e).sub.expire <= Without(p)' + Days[p]
  <2>1. e.sub.expire <= Without(e.pay)
    BY <1>r, <1>e, <1>N DEF Ahead, PreCall
  <2>2. NewExpire(e) \in Nat /\ NewExpire(e) <= Without(p) + Days[p]
    BY <1>e, <2>1, NewTerm
  <2>3. Touched(e).pay = p /\ Touched(e).sub.expire \in {e.sub.expire, NewExpire(e)}
    BY <1>e DEF Touched, Entry, Snapshot
  <2> QED BY <1>t, <1>e, <1>u, <1>b, <2>1, <2>2, <2>3
<1> HIDE DEF e
<1>9. CASE Mutate(w) \/ MutateRaises(w)
  <2>0. run[w].pc = "mutate" /\ ~Record(w)
    BY <1>9, <1>nr DEF Mutate, MutateRaises, RunAt
  <2>1. /\ run'[w].e = Touched(e) /\ run'[w].pc \notin Ahead
        /\ run'[w].expire \in {run[w].expire, NewExpire(e)}
        /\ Mutate(w) \/ run'[w].expire = run[w].expire
    BY <1>9, <1>t DEF Mutate, MutateRaises, RunType, RunRecord, Ahead, PreCall, e
  <2>2. UNCHANGED <<cache, subs, stream>>
    BY <1>9 DEF Mutate, MutateRaises, billing, queue
  <2>3. UNCHANGED <<panel, mutated>> \/ MutatePanel(w)
    BY <1>9 DEF Mutate, MutateRaises
  <2>m. Mutate(w) => MutatePanel(w)
    BY DEF Mutate
  <2>4. ASSUME MutatePanel(w) PROVE NewExpire(e) <= Bound(OwnerOf[p])' /\ Panels
    <3>1. mutated' = [mutated EXCEPT ![p] = @ + 1]
      BY <2>4, <1>e DEF MutatePanel, e
    <3>2. mutated'[p] > 0
      BY <1>t, <3>1
    <3>3. Bound(OwnerOf[p])' = Without(p)' + Days[p]
      BY <3>2, MutatedBound
    <3>4. NewExpire(e) <= Bound(OwnerOf[p])'
      BY <1>N, <1>b, <1>u, <2>0, <3>3
    <3>5. panel' = [panel EXCEPT ![OwnerOf[p]] = [expire |-> NewExpire(e), status |-> NewStatus(e)]]
      BY <2>4, <1>u DEF MutatePanel, e
    <3> QED BY <1>t, <1>u, <3>4, <3>5 DEF Panels
  <2>5. Panels
    BY <1>q, <2>3, <2>4
  <2>6. run'[w].expire <= Bound(OwnerOf[p])'
    BY <1>t, <1>r, <1>b, <2>1, <2>m, <2>4
  <2>7. RunPay(w)' = p /\ RunSub(w)'.expire <= Without(p)' + Days[p]
    BY <1>N, <2>0, <2>1 DEF RunPay, RunSub
  <2>8. RunTerm(w)'
    BY <2>1, <2>6, <2>7, RunBounds
  <2> QED BY <1>f, <1>q, <2>0, <2>2, <2>5, <2>8
<1>10. CASE Flush(w) \/ FlushRaises(w)
  <2> DEFINE u == OwnerOf[p]
  <2>1. RunGoto(w, "redirect") /\ "redirect" \in RunPcs /\ "redirect" \notin Ahead /\ stream' = stream
    BY <1>10 DEF Flush, FlushRaises, RunPcs, Ahead, PreCall, queue
  <2>2. RunTerm(w)'
    BY <1>g, <2>1
  <2>3. ~Record(w)
    BY <1>10, <1>nr DEF Flush, FlushRaises, RunAt
  <2>4. CASE UNCHANGED <<panel, subs, cache>>
    BY <1>f, <1>q, <2>1, <2>2, <2>3, <2>4
  <2>5. CASE FlushBilling(u) /\ (FlushPanel(u) \/ UNCHANGED panel) /\ banked[u] > 0
             /\ UNCHANGED <<now, mutated>>
             /\ \/ banked'[u] = 0 /\ extra'[u] = extra[u]
                \/ banked'[u] = banked[u] /\ extra'[u] = extra[u] + RewardDays
    <3>1. Bound(u)' = Bound(u) + RewardDays
      BY <1>u, <2>5, RewardBound DEF TermInv
    <3>2. /\ CachedSub(u).expire \in Nat /\ CachedSub(u).expire <= Bound(u)
          /\ now \in Nat /\ now <= Bound(u) /\ RewardDays \in Nat
      BY <1>u, ReadTerm, BoundTypesHold, BoundTypes DEF TypeOK, StoreType, TermInv
    <3>3. FlushExpire(u) \in Nat /\ FlushExpire(u) <= Bound(u)'
      <4>1. Later(CachedSub(u).expire, now) \in Nat /\ Later(CachedSub(u).expire, now) <= Bound(u)
        BY <3>2 DEF Later
      <4> QED BY <1>b, <3>1, <3>2, <4>1 DEF FlushExpire
    <3>4. Panels
      <4>1. CASE FlushPanel(u)
        <5>1. panel' = [panel EXCEPT ![u] = [expire |-> FlushExpire(u), status |-> CachedSub(u).status]]
          BY <4>1 DEF FlushPanel
        <5> QED BY <1>t, <1>u, <3>3, <5>1 DEF Panels
      <4> QED BY <1>q, <2>5, <4>1
    <3>5. Caches
      BY <1>c, <1>u, <2>5 DEF FlushBilling
    <3>6. Tables
      <4>1. CachedSub(u).id \in Nat /\ (CachedSub(u).id = 0 \/ Knows(u, CachedSub(u).id))
        <5>1. CachedSub(u) \in Snapshot
          BY <1>u, SnapshotTypes
        <5>2. CachedSub(u).id \in Nat
          BY <5>1 DEF Snapshot
        <5>3. CachedSub(u).id \in {0, current[u], cache[u].id}
          BY <1>u, SnapshotId
        <5> QED BY <5>2, <5>3 DEF Knows
      <4>2. subs' = [subs EXCEPT ![CachedSub(u).id].expire = FlushExpire(u)]
        BY <2>5 DEF FlushBilling
      <4>3. \A v \in Users, i \in Nat : Knows(v, i)' => i = 0 \/ Knows(v, i)
        BY <1>k, <2>3
      <4> QED BY <1>u, <3>3, <4>1, <4>2, <4>3, WriteTerm DEF Tables
    <3> QED BY <1>f, <1>q, <2>1, <2>2, <3>4, <3>5, <3>6
  <2>6. UNCHANGED <<now, mutated>>
    BY <1>10 DEF Flush, FlushRaises, history
  <2>7. CASE Flush(w)
    <3>1. CASE Flushable(u)
      <4>1. /\ FlushBilling(u) /\ FlushPanel(u) /\ banked' = [banked EXCEPT ![u] = 0] /\ banked[u] > 0
            /\ extra' = extra
        BY <2>7, <3>1, <1>u DEF Flush, Flushable, history
      <4>2. banked'[u] = 0
        BY <1>u, <4>1 DEF TypeOK, BillingType
      <4> QED BY <2>5, <2>6, <4>1, <4>2
    <3>2. CASE ~Flushable(u)
      BY <2>7, <2>4, <3>2, <1>u DEF Flush
    <3> QED BY <3>1, <3>2
  <2>8. CASE FlushRaises(w)
    <3>1. CASE UNCHANGED <<subs, cache, panel, extra>>
      BY <2>4, <3>1
    <3>2. CASE FlushBilling(u) /\ (FlushPanel(u) \/ UNCHANGED panel)
               /\ extra' = [extra EXCEPT ![u] = @ + RewardDays]
      <4>1. banked' = banked /\ banked[u] > 0
        BY <2>8, <1>u DEF FlushRaises, Flushable
      <4>2. extra'[u] = extra[u] + RewardDays
        BY <1>u, <3>2 DEF TypeOK, HistoryType
      <4> QED BY <2>5, <2>6, <3>2, <4>1, <4>2
    <3> QED BY <2>8, <3>1, <3>2, <1>u DEF FlushRaises
  <2> QED BY <1>10, <2>7, <2>8
<1>11. CASE Record(w)
  <2>1. UNCHANGED <<panel, cache, stream>>
    BY <1>11 DEF Record, queue
  <2>2. RunTerm(w)'
    <3>1. run'[w].e = run[w].e /\ run'[w].expire = run[w].expire /\ run'[w].pc \notin Ahead
      BY <1>11, <1>t DEF Record, RunGoto, RunType, RunRecord, Ahead, PreCall
    <3> QED BY <3>1, RunKept
  <2>l. \A v \in Users, i \in Nat : Knows(v, i)' =>
          \/ i = 0 \/ Knows(v, i)
          \/ v = RunUser(w) /\ i = Len(subs) + 1 /\ Len(subs') = Len(subs) + 1
    BY <1>11, RecordLearns
  <2>n. Len(subs) \in Nat
    BY <1>t, LenProperties
  <2>3. Tables
    <3>1. CASE Path(run[w].e) = "RENEW"
      <4>1. subs' = [subs EXCEPT ![RunSub(w).id].expire = run[w].expire]
        BY <1>11, <3>1 DEF Record
      <4>2. Len(subs') = Len(subs)
        BY <1>t, <4>1, LenKept
      <4>3. \A v \in Users, i \in Nat : Knows(v, i)' => i = 0 \/ Knows(v, i)
        BY <2>l, <2>n, <4>2
      <4>4. Knows(OwnerOf[p], RunSub(w).id)
        BY <1>u DEF Knows
      <4>5. run[w].expire <= Bound(OwnerOf[p])'
        BY <1>t, <1>r, <1>b
      <4> QED BY <1>t, <1>u, <4>1, <4>3, <4>4, <4>5, WriteTerm DEF Tables
    <3>2. CASE Path(run[w].e) # "RENEW"
      <4>1. subs' = Append(subs, [expire |-> run[w].expire, trial |-> FALSE, status |-> "ACTIVE"])
        BY <1>11, <3>2 DEF Record
      <4>2. SUFFICES ASSUME NEW v \in Users, NEW i \in DOMAIN subs', Knows(v, i)'
                     PROVE  \/ Knows(v, i) /\ i \in DOMAIN subs /\ subs'[i].expire = subs[i].expire
                            \/ subs'[i].expire <= Bound(v)'
        BY DEF Tables
      <4>3. /\ DOMAIN subs' = 1..(Len(subs) + 1) /\ i \in Nat /\ i # 0
            /\ \A j \in 1..Len(subs) : subs'[j] = subs[j]
            /\ subs'[Len(subs) + 1].expire = run[w].expire
        BY <1>t, <2>n, <4>1, <4>2
      <4>4. CASE i \in 1..Len(subs)
        <5>1. Knows(v, i)
          BY <2>l, <2>n, <4>2, <4>3, <4>4
        <5> QED BY <1>t, <4>3, <4>4, <5>1
      <4>5. CASE i = Len(subs) + 1
        <5>1. ~Knows(v, i)
          BY <2>n, <4>3, <4>5 DEF Apart
        <5>2. v = OwnerOf[p]
          BY <1>u, <2>l, <4>2, <4>3, <5>1
        <5>3. run[w].expire <= Bound(OwnerOf[p])'
          BY <1>t, <1>r, <1>b
        <5> QED BY <4>3, <4>5, <5>2, <5>3
      <4> QED BY <2>n, <4>2, <4>3, <4>4, <4>5
    <3> QED BY <3>1, <3>2
  <2> QED BY <1>f, <1>q, <2>1, <2>2, <2>3
<1>12. CASE Retry(w)
  <2>1. PICK pc \in RunPcs : RunGoto(w, pc) /\ pc \notin Ahead
    BY <1>12 DEF Retry, RunPcs, Ahead, PreCall
  <2>2. RunTerm(w)'
    BY <1>g, <2>1
  <2>3. ~Record(w)
    BY <1>12, <1>nr DEF Retry, RunAt
  <2>4. UNCHANGED <<panel, cache, subs>>
    BY <1>12 DEF Retry, billing
  <2>5. Streams
    <3>1. CASE ~RetryAllowed(e)
      <4>1. stream' = stream
        BY <1>12, <3>1 DEF Retry, queue, e
      <4> QED BY <1>q, <4>1
    <3>2. CASE RetryAllowed(e)
      <4>1. PICK s \in {e.sub} \union Received(e) :
               /\ stream' = stream \union {[id |-> nextId, pay |-> e.pay, try |-> e.try + 1, sub |-> s]}
               /\ extra' = IF s \in Received(e) THEN extra
                           ELSE [extra EXCEPT ![RunUser(w)] = @ + Days[e.pay]]
        BY <1>12, <3>2 DEF Retry, e
      <4>2. s.expire <= Without(p)'
        <5>1. CASE s \in Received(e)
          <6>1. PICK o \in stream : o.id = e.id /\ s = o.sub
            BY <5>1 DEF Received
          <6>2. o.pay = p
            BY <1>12, <1>p, <6>1, HeldPay DEF Retry, RunAt, Active, e
          <6>3. s.expire <= Without(p)
            BY <6>1, <6>2 DEF TermInv
          <6>4. s.expire \in Nat
            BY <6>1 DEF TypeOK, StoreType, Entry, Snapshot
          <6> QED BY <1>b, <6>3, <6>4
        <5>2. CASE s \notin Received(e)
          <6>1. s = RunSub(w) /\ extra' = [extra EXCEPT ![OwnerOf[p]] = @ + Days[p]]
            BY <1>e, <1>u, <4>1, <5>2
          <6>2. UNCHANGED <<now, mutated, banked>>
            BY <1>12 DEF Retry, billing
          <6>3. Without(p)' = Without(p) + Days[p]
            BY <6>1, <6>2, TwiceBound DEF TermInv
          <6> QED BY <1>r, <6>1, <6>3
        <5> QED BY <5>1, <5>2
      <4>3. ASSUME NEW f \in stream', f \notin stream PROVE f.sub.expire <= Without(f.pay)'
        <5>1. f.sub = s /\ f.pay = p
          BY <1>e, <4>1, <4>3
        <5>2. Without(f.pay)' = Without(p)'
          BY <5>1
        <5> QED BY <4>2, <5>1, <5>2
      <4> QED BY <4>3 DEF Streams
    <3> QED BY <3>1, <3>2
  <2> QED BY <1>f, <1>q, <2>2, <2>3, <2>4, <2>5
<1> QED BY <1>2, <1>3, <1>4, <1>5, <1>6, <1>7, <1>8, <1>9, <1>10, <1>11, <1>12 DEF RunStep

\* No user begins with more than the longest term there is.
LEMMA InitTerm == Init => TermInv
<1> SUFFICES ASSUME Init PROVE TermInv
  OBVIOUS
<1>0. TypeOK
  BY InitType
<1>1. ASSUME NEW u \in Users PROVE Bought(u) = {} /\ Bound(u) = MaxStartExpire + (RewardDays - banked[u])
  <2>1. Bought(u) = {}
    BY DEF Init, Bought
  <2>2. DaysOf(Bought(u)) = 0
    <3>1. DaysOf({}) = 0
      BY FS_EmptySet, DaysOfStep
    <3> QED BY <2>1, <3>1
  <2>3. Later(MaxStartExpire, now) = MaxStartExpire /\ extra[u] = 0 /\ banked[u] \in {0, RewardDays}
    BY StartBound DEF Init, Later
  <2> QED BY <2>1, <2>2, <2>3, StartBound, BoundTypes DEF Bound, Credit
<1>2. Counted
  BY <1>1, FS_EmptySet DEF Init, Counted
<1>b. \A u \in Users : Bound(u) \in Nat /\ MaxStartExpire <= Bound(u) /\ 0 <= Bound(u)
  <2> TAKE u \in Users
  <2>1. banked[u] \in {0, RewardDays}
    BY DEF Init
  <2> QED BY <1>1, <2>1, StartBound, BoundTypes
<1>3. ASSUME NEW u \in Users PROVE Terms(u)
  <2>1. panel[u].expire <= Bound(u)
    <3>1. CASE current[u] = 0
      BY <1>b, <3>1 DEF Init
    <3>2. CASE current[u] # 0
      <4>1. current[u] \in DOMAIN StartSubs
        BY <3>2, StartTypes DEF Init
      <4>2. panel[u].expire = StartSubs[current[u]].expire
        BY <3>2 DEF Init
      <4>3. panel[u].expire <= MaxStartExpire /\ panel[u].expire \in Nat
        BY <1>0, <4>1, <4>2, StartBound DEF TypeOK, StoreType, Account
      <4> QED BY <1>b, <4>3, StartBound
    <3> QED BY <3>1, <3>2
  <2>2. cache[u].expire <= Bound(u)
    BY <1>b, NothingTerm DEF Init
  <2>3. ASSUME NEW i \in DOMAIN subs PROVE subs[i].expire <= Bound(u)
    <3>1. subs[i].expire <= MaxStartExpire /\ subs[i] \in SubRecord
      BY <1>0, StartBound DEF Init, TypeOK, BillingType
    <3>2. subs[i].expire \in Nat
      BY <3>1 DEF SubRecord
    <3> QED BY <1>b, <3>1, <3>2, StartBound
  <2> QED BY <2>1, <2>2, <2>3 DEF Terms
<1>4. ASSUME NEW h \in Hooks PROVE hook[h].sub.expire <= Bound(HookUser(h))
  <2>1. HookUser(h) \in Users
    BY <1>0, PaymentTypes DEF TypeOK, HookType, HookUser
  <2> QED BY <1>b, <2>1, NothingTerm DEF Init
<1>5. stream = {}
  BY DEF Init
<1>6. ASSUME NEW w \in Workers PROVE RunTerm(w)
  <2>1. /\ run[w].expire = 0 /\ RunSub(w).expire = 0 /\ run[w].pc \notin Ahead
    BY NothingTerm DEF Init, RunSub, Ahead, PreCall
  <2>2. RunUser(w) \in Users /\ RunPay(w) \in Payments
    BY <1>0, RunFields DEF TypeOK
  <2>3. Without(RunPay(w)) \in Nat /\ Days[RunPay(w)] \in Nat
    BY <1>0, <1>2, <2>2, BoundTypesHold, PaymentTypes
  <2>4. 0 <= Without(RunPay(w)) + Days[RunPay(w)]
    BY <2>3
  <2> QED BY <1>b, <2>1, <2>2, <2>4 DEF RunTerm
<1> QED BY <1>2, <1>3, <1>4, <1>5, <1>6 DEF TermInv

TermAll == TypeOK /\ SettleInv /\ GuardInv /\ Apart /\ TermInv

\* The conjunction is inductive.
LEMMA TermInductive == (Init => TermAll) /\ (TermAll /\ [Next]_vars => TermAll')
<1>1. Init => TermAll
  BY InitType, InitSettle, InitGuard, InitStores, InitTerm DEF TermAll
<1>2. ASSUME TermAll, [Next]_vars PROVE TermAll'
  <2>1. (TypeOK /\ SettleInv /\ GuardInv /\ Apart)'
    BY <1>2, NextType, NextSettle, NextGuard, NextApart DEF TermAll
  <2>2. Grown
    BY <1>2, <2>1, BoundsGrow DEF TermAll, TermInv
  <2>3. TermInv'
    <3>1. ASSUME NEW w \in Workers, Take(w) \/ RunStep(w) \/ Raises(w) \/ MutateRaises(w)
                                      \/ FlushRaises(w) \/ FailRaises(w) \/ Crash(w)
          PROVE  TermInv'
      BY <1>2, <2>1, <2>2, <3>1, WorkerTerm DEF TermAll
    <3>2. CASE ~ \E w \in Workers : Take(w) \/ RunStep(w) \/ Raises(w) \/ MutateRaises(w)
                                      \/ FlushRaises(w) \/ FailRaises(w) \/ Crash(w)
      BY <1>2, <2>1, <2>2, <3>2, OthersTerm, OthersLeaveRuns DEF TermAll
    <3> QED BY <3>1, <3>2
  <2> QED BY <2>1, <2>3 DEF TermAll
<1> QED BY <1>1, <1>2

\* No order of purchases, crashes, redeliveries and retries lets the panel run an
\* account for longer than the user began with, was rewarded and paid for, but for
\* what a retry or a failed flush is known to grant twice.
THEOREM NothingFree == Spec => []NoFreeTime
<1>1. TermAll => NoFreeTime
  <2> SUFFICES ASSUME TermAll, NEW u \in Users
               PROVE  panel[u].expire <= Later(MaxStartExpire, now) + RewardDays + extra[u] + DaysOf(Bought(u))
    BY DEF NoFreeTime
  <2>1. panel[u].expire <= Bound(u) /\ Counted /\ TypeOK
    BY DEF TermAll, TermInv, Terms
  <2>2. /\ panel[u].expire \in Nat /\ extra[u] \in Nat /\ now \in Nat /\ MaxStartExpire \in Nat
        /\ RewardDays \in Nat /\ banked[u] \in {0, RewardDays}
    BY <2>1, BoundTypes, StartBound DEF TypeOK, StoreType, HistoryType, Account, Counted
  <2>3. DaysOf(Bought(u)) \in Nat
    <3>1. Bought(u) \in SUBSET Payments /\ IsFiniteSet(Bought(u))
      BY <2>1 DEF Bought, Counted
    <3> QED BY <3>1, DaysOfType
  <2>4. Later(MaxStartExpire, now) \in Nat
    BY <2>2 DEF Later
  <2> QED BY <2>1, <2>2, <2>3, <2>4 DEF Bound, Credit
<1> QED BY <1>1, TermInductive, PTL DEF Spec
=============================================================================
