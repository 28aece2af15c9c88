------------------------ MODULE PurchaseProvisioning ------------------------
(***************************************************************************)
(* From a paid invoice to a provisioned VPN account.                       *)
(*                                                                         *)
(* PaymentGatewayService.handle_payment_succeeded (a webhook handler, any  *)
(* number of which run at once) moves a transaction PENDING -> COMPLETED   *)
(* at the billing service and queues purchase_subscription_task on a Redis *)
(* stream.  Worker processes take entries of the stream, mutate the        *)
(* Remnawave panel, set an idempotency marker in Redis and register the    *)
(* subscription at the billing service.  Every await on another process is *)
(* a step of its own, so crashes, exceptions and other handlers fall       *)
(* between any two of them.                                                *)
(*                                                                         *)
(* Stores:  billing (txStatus, subs, current, discount, banked), the       *)
(* panel, Redis (marked, cache, stream).  A subscription's id is its index *)
(* in subs; id 0 is "no subscription".  Times are in days.                 *)
(***************************************************************************)
EXTENDS Integers, Sequences, FiniteSets, FiniteSetsExt

CONSTANTS
  Users, Payments, Hooks, Workers,
  OwnerOf,        \* the user a payment belongs to
  FreePayments,   \* pricing.is_free
  Days,           \* payment -> plan duration
  StartSubs,      \* subscriptions users may have at the start
  MaxStartExpire, \* none of them ends later
  RewardDays,     \* size of a banked referral reward
  MaxTry,         \* SmartRetryMiddleware's retry count
  MaxFaults, MaxNow          \* bounds on failures and on the clock

Statuses == {"ABSENT", "PENDING", "COMPLETED", "CANCELED", "FAILED"}
Paid == {"COMPLETED", "FAILED"}
\* purchase_type, and "TEST" for the NEW transactions with is_test
Kinds == {"NEW", "RENEW", "CHANGE", "TEST"}
SubStatuses == {"ACTIVE", "DISABLED"}
SubRecord == [expire : Nat, trial : BOOLEAN, status : SubStatuses]
Snapshot == [id : Nat, expire : Nat, trial : BOOLEAN, status : SubStatuses]

ASSUME NonEmpty == Payments # {}
ASSUME PaymentTypes ==
  /\ OwnerOf \in [Payments -> Users]
  /\ FreePayments \subseteq Payments
  /\ Days \in [Payments -> Nat]
ASSUME StartTypes == StartSubs \in Seq(SubRecord)
\* no account is switched off at the start, see Init
ASSUME StartActive == \A i \in DOMAIN StartSubs : StartSubs[i].status = "ACTIVE"
ASSUME StartBound ==
  MaxStartExpire \in Nat /\ \A i \in DOMAIN StartSubs : StartSubs[i].expire <= MaxStartExpire
ASSUME BoundTypes ==
  RewardDays \in Nat /\ MaxTry \in Nat /\ MaxFaults \in Nat /\ MaxNow \in Nat

VARIABLES
  txStatus, kind, subs, current, discount, banked,  \* billing service
  panel,                                      \* Remnawave: user -> account
  marked, cache,                              \* Redis keys
  stream, nextId,                             \* Redis stream of task messages
  hook, run,                                  \* webhook handlers, task runs
  now, faults,
  enqueued, rewarded, mutated,   \* history: how often, per payment
  halted,                        \* history: where its handler or runs were stopped
  extra                          \* history: days granted twice, per user

billing == <<txStatus, kind, subs, current, discount, banked>>
queue == <<stream, nextId>>
history == <<enqueued, rewarded, mutated, halted, extra>>
vars == <<billing, panel, marked, cache, queue, hook, run, now, faults, history>>

NoSub == [id |-> 0, expire |-> 0, trial |-> FALSE, status |-> "ACTIVE"]
Uncached == [id |-> 0, expire |-> 0, trial |-> TRUE, status |-> "ACTIVE"]
Account == [expire : Nat, status : SubStatuses]

Entry == [id : Nat, pay : Payments, try : Nat, sub : Snapshot]
BlankEntry == [id |-> 0, pay |-> CHOOSE p \in Payments : TRUE,
               try |-> 0, sub |-> NoSub]
HookPcs == {"idle", "transition", "refetch", "current", "fill",
            "enqueue", "rewards"}
RunPcs == {"idle", "check", "disable", "disableEvict", "mutate", "mark", "record",
           "setCurrent", "evict", "wrapUp", "flush", "redirect", "fail",
           "retry", "drop", "ack"}
IdleHook == [pc |-> "idle", pay |-> CHOOSE p \in Payments : TRUE, sub |-> NoSub]
IdleRun == [pc |-> "idle", e |-> BlankEntry, expire |-> 0, id |-> 0]

Later(a, b) == IF a >= b THEN a ELSE b

-----------------------------------------------------------------------------
(* billing.get_current_subscription, and the cached read in front of it    *)

\* mutant: the converter drops a field
SnapshotOfShort(id) == [id |-> id, expire |-> 0]

SnapshotOf(id) == IF id \in DOMAIN subs
                  THEN [id |-> id, expire |-> subs[id].expire,
                        trial |-> subs[id].trial, status |-> subs[id].status]
                  ELSE NoSub
CurrentSub(u) == SnapshotOf(current[u])
CachedSub(u) == IF cache[u] = Uncached THEN CurrentSub(u) ELSE cache[u]

Init ==
  /\ txStatus = [p \in Payments |-> "ABSENT"]
  /\ kind = [p \in Payments |-> "NEW"]
  /\ subs = StartSubs
  /\ current \in [Users -> 0..Len(StartSubs)]
  /\ \A u, v \in Users : current[u] = current[v] /\ current[u] # 0 => u = v
  /\ discount = [u \in Users |-> TRUE]
  /\ banked \in [Users -> {0, RewardDays}]
  /\ panel = [u \in Users |->
                [expire |-> IF current[u] = 0 THEN 0 ELSE StartSubs[current[u]].expire,
                 status |-> "ACTIVE"]]
  /\ marked = {}
  /\ cache = [u \in Users |-> Uncached]
  /\ stream = {} /\ nextId = 1
  /\ hook = [h \in Hooks |-> IdleHook]
  /\ run = [w \in Workers |-> IdleRun]
  /\ now = 0 /\ faults = 0
  /\ enqueued = [p \in Payments |-> 0]
  /\ rewarded = [p \in Payments |-> 0]
  /\ mutated = [p \in Payments |-> 0]
  /\ halted = [p \in Payments |-> {}]
  /\ extra = [u \in Users |-> 0]

-----------------------------------------------------------------------------
(* Transactions                                                            *)

\* create_payment / create_test_payment: the link is only shown to the user
\* after the transaction is stored, so the invoice call has no state here.
CreatePayment(p, k) ==
  /\ txStatus[p] = "ABSENT"
  /\ txStatus' = [txStatus EXCEPT ![p] = "PENDING"]
  /\ kind' = [kind EXCEPT ![p] = k]
  /\ UNCHANGED <<subs, current, discount, banked, panel, marked, cache, queue,
                 hook, run, now, faults, history>>

\* mutant: the transition does not compare
TransitionAnyway(p, from) == TRUE

\* billing.transition_transaction_status: 404 and 409 answer None.
CanTransition(p, from) == txStatus[p] = from

\* mutant: the cancel report is believed whatever the status
CancelAnyway(p) ==
  /\ txStatus[p] \notin {"ABSENT", "CANCELED"}
  /\ txStatus' = [txStatus EXCEPT ![p] = "CANCELED"]
  /\ UNCHANGED <<kind, subs, current, discount, banked, panel, marked, cache, queue,
                 hook, run, now, faults, history>>

HandlePaymentCanceled(p) ==
  /\ CanTransition(p, "PENDING")
  /\ txStatus' = [txStatus EXCEPT ![p] = "CANCELED"]
  /\ UNCHANGED <<kind, subs, current, discount, banked, panel, marked, cache, queue,
                 hook, run, now, faults, history>>

-----------------------------------------------------------------------------
(* handle_payment_succeeded, one action per await                          *)

HookAt(h, pc) == hook[h].pc = pc
HookGoto(h, pc) == hook' = [hook EXCEPT ![h].pc = pc]
HookEnd(h) == hook' = [hook EXCEPT ![h] = IdleHook]
HookUser(h) == OwnerOf[hook[h].pay]

\* The gateway reports a payment; it may report one again at any time.
Deliver(h, p) ==
  /\ HookAt(h, "idle")
  /\ txStatus[p] # "ABSENT"
  /\ hook' = [hook EXCEPT ![h] = [pc |-> "transition", pay |-> p, sub |-> NoSub]]
  /\ UNCHANGED <<billing, panel, marked, cache, queue, run, now, faults, history>>

HookTransition(h) ==
  /\ HookAt(h, "transition")
  /\ IF CanTransition(hook[h].pay, "PENDING")
     THEN /\ txStatus' = [txStatus EXCEPT ![hook[h].pay] = "COMPLETED"]
          /\ HookGoto(h, "refetch")
     ELSE UNCHANGED txStatus /\ HookEnd(h)
  /\ UNCHANGED <<kind, subs, current, discount, banked, panel, marked, cache, queue,
                 run, now, faults, history>>

\* A test payment only gets a notification; any other clears the one-time
\* purchase discount.
HookRefetch(h) ==
  /\ HookAt(h, "refetch")
  /\ IF kind[hook[h].pay] = "TEST"
     THEN UNCHANGED discount /\ HookEnd(h)
     ELSE /\ discount' = [discount EXCEPT ![HookUser(h)] = FALSE]
          /\ HookGoto(h, "current")
  /\ UNCHANGED <<txStatus, kind, subs, current, banked, panel, marked, cache, queue,
                 run, now, faults, history>>

\* get_current: a hit answers from Redis; a miss reads billing and only then
\* stores what it read.
HookCurrent(h) ==
  /\ HookAt(h, "current")
  /\ hook' = [hook EXCEPT
       ![h].sub = CachedSub(HookUser(h)),
       ![h].pc = IF cache[HookUser(h)] = Uncached THEN "fill" ELSE "enqueue"]
  /\ UNCHANGED <<billing, panel, marked, cache, queue, run, now, faults, history>>

HookFill(h) ==
  /\ HookAt(h, "fill")
  /\ cache' = [cache EXCEPT ![HookUser(h)] = hook[h].sub]
  /\ HookGoto(h, "enqueue")
  /\ UNCHANGED <<billing, panel, marked, queue, run, now, faults, history>>

HookEnqueue(h) ==
  LET p == hook[h].pay IN
  /\ HookAt(h, "enqueue")
  /\ stream' = stream \union {[id |-> nextId, pay |-> p, try |-> 0, sub |-> hook[h].sub]}
  /\ nextId' = nextId + 1
  /\ enqueued' = [enqueued EXCEPT ![p] = @ + 1]
  /\ IF p \in FreePayments THEN HookEnd(h) ELSE HookGoto(h, "rewards")
  /\ UNCHANGED <<billing, panel, marked, cache, run, now, faults, rewarded,
                 mutated, halted, extra>>

HookRewards(h) ==
  /\ HookAt(h, "rewards")
  /\ rewarded' = [rewarded EXCEPT ![hook[h].pay] = @ + 1]
  /\ HookEnd(h)
  /\ UNCHANGED <<billing, panel, marked, cache, queue, run, now, faults,
                 enqueued, mutated, halted, extra>>

\* The handler raises or its process dies before the step it stands at.
HookFault(h) ==
  /\ ~HookAt(h, "idle")
  /\ faults < MaxFaults
  /\ faults' = faults + 1
  /\ halted' = IF HookAt(h, "transition") THEN halted
               ELSE [halted EXCEPT ![hook[h].pay] = @ \union {"hook"}]
  /\ HookEnd(h)
  /\ UNCHANGED <<billing, panel, marked, cache, queue, run, now, enqueued,
                 rewarded, mutated, extra>>

HookStep(h) ==
  \/ HookTransition(h) \/ HookRefetch(h) \/ HookCurrent(h)
  \/ HookFill(h) \/ HookEnqueue(h) \/ HookRewards(h)

-----------------------------------------------------------------------------
(* purchase_subscription_task                                              *)

RunAt(w, pc) == run[w].pc = pc
RunGoto(w, pc) == run' = [run EXCEPT ![w].pc = pc]
RunPay(w) == run[w].e.pay
RunUser(w) == OwnerOf[RunPay(w)]
RunSub(w) == run[w].e.sub

\* The dispatch of the task body: a trial subscription turns every purchase
\* into a change.
HasTrial(s) == s.id # 0 /\ s.trial
Path(e) == IF HasTrial(e.sub) THEN "CHANGE" ELSE kind[e.pay]
LacksSubscription(e) == Path(e) # "NEW" /\ e.sub.id = 0

\* The stream hands a message to one live consumer; a message of a consumer
\* that died stays pending and is claimed again.
Take(w) ==
  \E e \in stream :
    /\ RunAt(w, "idle")
    /\ \A v \in Workers : RunAt(v, "idle") \/ run[v].e.id # e.id
    /\ run' = [run EXCEPT ![w] = [pc |-> "check", e |-> e, expire |-> 0, id |-> 0]]
    /\ UNCHANGED <<billing, panel, marked, cache, queue, hook, now, faults, history>>

\* Only a NEW purchase reads the subscription again, for the reminder.
AfterHandler(w) == IF Path(run[w].e) = "NEW" THEN "wrapUp" ELSE "flush"

Check(w) ==
  /\ RunAt(w, "check")
  /\ RunGoto(w, IF LacksSubscription(run[w].e) THEN "fail"
                ELSE IF RunPay(w) \in marked THEN AfterHandler(w)
                ELSE IF Path(run[w].e) = "CHANGE" THEN "disable" ELSE "mutate")
  /\ UNCHANGED <<billing, panel, marked, cache, queue, hook, now, faults, history>>

Disable(w) ==
  /\ RunAt(w, "disable")
  /\ subs' = [subs EXCEPT ![RunSub(w).id].status = "DISABLED"]
  /\ RunGoto(w, "disableEvict")
  /\ UNCHANGED <<txStatus, kind, current, discount, banked, panel, marked, cache, queue,
                 hook, now, faults, history>>

\* clear_subscription_cache
Evict(w) ==
  /\ run[w].pc \in {"disableEvict", "evict"}
  /\ cache' = [cache EXCEPT ![RunUser(w)] = Uncached]
  /\ RunGoto(w, IF RunAt(w, "evict") THEN AfterHandler(w) ELSE "mutate")
  /\ UNCHANGED <<billing, panel, marked, queue, hook, now, faults, history>>

\* mutant: renew and change add to what the panel has
NewExpireRelative(e) == Later(panel[OwnerOf[e.pay]].expire, now) + Days[e.pay]

\* The expiry each handler asks for: provision_user counts the plan from now,
\* renew adds it to the snapshot's expiry, change to the days that remain.
NewExpire(e) ==
  IF Path(e) = "NEW" THEN now + Days[e.pay] ELSE Later(e.sub.expire, now) + Days[e.pay]

\* mutant: change sends the subscription it has just disabled
NewStatusOfOld(e) == IF Path(e) = "CHANGE" THEN "DISABLED" ELSE e.sub.status

\* updated_user keeps a DISABLED subscription disabled; only renew sends one.
NewStatus(e) == IF Path(e) = "RENEW" THEN e.sub.status ELSE "ACTIVE"

\* The message as the handler leaves it: renew writes the new expiry into the
\* subscription object it was called with before it calls the panel.
Touched(e) == IF Path(e) = "RENEW" THEN [e EXCEPT !.sub.expire = NewExpire(e)] ELSE e

MutatePanel(w) ==
  LET e == run[w].e IN
  /\ panel' = [panel EXCEPT ![RunUser(w)] =
                 [expire |-> NewExpire(e), status |-> NewStatus(e)]]
  /\ mutated' = [mutated EXCEPT ![e.pay] = @ + 1]

Mutate(w) ==
  /\ RunAt(w, "mutate")
  /\ MutatePanel(w)
  /\ run' = [run EXCEPT ![w].pc = "mark", ![w].e = Touched(run[w].e),
                        ![w].expire = NewExpire(run[w].e)]
  /\ UNCHANGED <<billing, marked, cache, queue, hook, now, faults,
                 enqueued, rewarded, halted, extra>>

\* mutant: the marker is forgotten
MarkNothing(w) ==
  /\ RunAt(w, "mark")
  /\ RunGoto(w, "record")
  /\ UNCHANGED <<billing, panel, marked, cache, queue, hook, now, faults, history>>

MarkApplied(w) ==
  /\ RunAt(w, "mark")
  /\ marked' = marked \union {RunPay(w)}
  /\ RunGoto(w, "record")
  /\ UNCHANGED <<billing, panel, cache, queue, hook, now, faults, history>>

\* renew updates the snapshot's subscription in place; new and change create
\* a subscription and then make it the current one.
Record(w) ==
  /\ RunAt(w, "record")
  /\ IF Path(run[w].e) = "RENEW"
     THEN /\ subs' = [subs EXCEPT ![RunSub(w).id].expire = run[w].expire]
          /\ RunGoto(w, "evict")
     ELSE /\ subs' = Append(subs, [expire |-> run[w].expire, trial |-> FALSE,
                                   status |-> "ACTIVE"])
          /\ run' = [run EXCEPT ![w].pc = "setCurrent", ![w].id = Len(subs) + 1]
  /\ UNCHANGED <<txStatus, kind, current, discount, banked, panel, marked, cache, queue,
                 hook, now, faults, history>>

\* mutant: the new subscription is not made the current one
SetCurrentNot(w) ==
  /\ RunAt(w, "setCurrent")
  /\ RunGoto(w, "evict")
  /\ UNCHANGED <<billing, panel, marked, cache, queue, hook, now, faults, history>>

SetCurrent(w) ==
  /\ RunAt(w, "setCurrent")
  /\ current' = [current EXCEPT ![RunUser(w)] = run[w].id]
  /\ RunGoto(w, "evict")
  /\ UNCHANGED <<txStatus, kind, subs, discount, banked, panel, marked, cache, queue,
                 hook, now, faults, history>>

\* get_current, for the link of the connect reminder
WrapUp(w) ==
  /\ RunAt(w, "wrapUp")
  /\ cache' = [cache EXCEPT ![RunUser(w)] = CachedSub(RunUser(w))]
  /\ RunGoto(w, "flush")
  /\ UNCHANGED <<billing, panel, marked, queue, hook, now, faults, history>>

\* The referral days flush_pending_rewards adds, to the subscription its cached
\* read returns: billing first, then the panel, then the reward is issued.
Flushable(u) == CachedSub(u).id # 0 /\ ~CachedSub(u).trial /\ banked[u] > 0
FlushExpire(u) == Later(CachedSub(u).expire, now) + RewardDays
FlushBilling(u) ==
  /\ subs' = [subs EXCEPT ![CachedSub(u).id].expire = FlushExpire(u)]
  /\ cache' = [cache EXCEPT ![u] = Uncached]
FlushPanel(u) ==
  panel' = [panel EXCEPT ![u] = [expire |-> FlushExpire(u),
                                 status |-> CachedSub(u).status]]

Flush(w) ==
  LET u == RunUser(w) IN
  /\ RunAt(w, "flush")
  /\ RunGoto(w, "redirect")
  /\ IF Flushable(u)
     THEN FlushBilling(u) /\ FlushPanel(u) /\ banked' = [banked EXCEPT ![u] = 0]
     ELSE UNCHANGED <<subs, cache, panel, banked>>
  /\ UNCHANGED <<txStatus, kind, current, discount, marked, queue, hook, now, faults, history>>

Redirect(w) ==
  /\ RunAt(w, "redirect")
  /\ RunGoto(w, "ack")
  /\ UNCHANGED <<billing, panel, marked, cache, queue, hook, now, faults, history>>

\* The except clause: transaction_service.update transitions from whatever
\* status the transaction has to FAILED.
Fail(w) ==
  /\ RunAt(w, "fail")
  /\ txStatus' = [txStatus EXCEPT ![RunPay(w)] = "FAILED"]
  /\ RunGoto(w, "ack")
  /\ UNCHANGED <<kind, subs, current, discount, banked, panel, marked, cache, queue,
                 hook, now, faults, history>>

Ack(w) ==
  /\ run[w].pc \in {"ack", "drop"}
  /\ stream' = {e \in stream : e.id # run[w].e.id}
  /\ run' = [run EXCEPT ![w] = IdleRun]
  /\ UNCHANGED <<billing, panel, marked, cache, nextId, hook, now, faults, history>>

\* SmartRetryMiddleware sends the message again, with the arguments as they
\* were received or as the body left them, and the old message is acked.
\* mutant: the last retry is lost
RetryFewer(e) == e.try + 1 < MaxTry

RetryAllowed(e) == e.try < MaxTry
Received(e) == {o.sub : o \in {x \in stream : x.id = e.id}}

Retry(w) ==
  LET e == run[w].e IN
  /\ RunAt(w, "retry")
  /\ IF RetryAllowed(e)
     THEN /\ \E s \in {e.sub} \union Received(e) :
               /\ stream' = stream \union {[id |-> nextId, pay |-> e.pay,
                                            try |-> e.try + 1, sub |-> s]}
               /\ extra' = IF s \in Received(e) THEN extra
                           ELSE [extra EXCEPT ![RunUser(w)] = @ + Days[e.pay]]
          /\ nextId' = nextId + 1
          /\ RunGoto(w, "drop")
     ELSE UNCHANGED <<queue, extra>> /\ RunGoto(w, "ack")
  /\ UNCHANGED <<billing, panel, marked, cache, hook, now, faults,
                 enqueued, rewarded, mutated, halted>>

-----------------------------------------------------------------------------
(* What goes wrong in a run                                                *)

Fault(w, where) ==
  /\ faults < MaxFaults
  /\ faults' = faults + 1
  /\ halted' = [halted EXCEPT ![RunPay(w)] = @ \union {where}]

\* An await inside the try block raises.
Raises(w) ==
  /\ run[w].pc \in RunPcs \ {"idle", "mutate", "flush", "fail", "retry", "drop", "ack"}
  /\ Fault(w, run[w].pc)
  /\ RunGoto(w, "fail")
  /\ UNCHANGED <<billing, panel, marked, cache, queue, hook, now,
                 enqueued, rewarded, mutated, extra>>

\* The panel call raises, before or after the panel has changed.
MutateRaises(w) ==
  /\ RunAt(w, "mutate")
  /\ run' = [run EXCEPT ![w].pc = "fail", ![w].e = Touched(run[w].e)]
  /\ \/ Fault(w, "mark") /\ MutatePanel(w)
     \/ Fault(w, "mutate") /\ UNCHANGED <<panel, mutated>>
  /\ UNCHANGED <<billing, marked, cache, queue, hook, now, enqueued, rewarded, extra>>

\* _flush_pending_referral_rewards swallows the exception; what was done before
\* it stays done, and the reward stays pending.
FlushRaises(w) ==
  LET u == RunUser(w) IN
  /\ RunAt(w, "flush")
  /\ Flushable(u)
  /\ Fault(w, "flush")
  /\ RunGoto(w, "redirect")
  /\ \/ /\ FlushBilling(u)
        /\ FlushPanel(u) \/ UNCHANGED panel
        /\ extra' = [extra EXCEPT ![u] = @ + RewardDays]
     \/ UNCHANGED <<subs, cache, panel, extra>>
  /\ UNCHANGED <<txStatus, kind, current, discount, banked, marked, queue, hook, now,
                 enqueued, rewarded, mutated>>

\* The except clause itself raises, before or after it has set FAILED: only
\* then does the task raise and the retry middleware act.
FailRaises(w) ==
  /\ RunAt(w, "fail")
  /\ Fault(w, "fail")
  /\ txStatus' \in {txStatus, [txStatus EXCEPT ![RunPay(w)] = "FAILED"]}
  /\ RunGoto(w, "retry")
  /\ UNCHANGED <<kind, subs, current, discount, banked, panel, marked, cache, queue, hook,
                 now, enqueued, rewarded, mutated, extra>>

\* The worker dies; its message stays in the stream.
Crash(w) ==
  /\ ~RunAt(w, "idle")
  /\ Fault(w, run[w].pc)
  /\ run' = [run EXCEPT ![w] = IdleRun]
  /\ UNCHANGED <<billing, panel, marked, cache, queue, hook, now,
                 enqueued, rewarded, mutated, extra>>

\* Time passes; a cached read lives for a minute.
Tick ==
  /\ now < MaxNow
  /\ now' = now + 1
  /\ cache' = [u \in Users |-> Uncached]
  /\ UNCHANGED <<billing, panel, marked, queue, hook, run, faults, history>>

CacheExpires(u) ==
  /\ cache[u] # Uncached
  /\ cache' = [cache EXCEPT ![u] = Uncached]
  /\ UNCHANGED <<billing, panel, marked, queue, hook, run, now, faults, history>>

RunStep(w) ==
  \/ Check(w) \/ Disable(w) \/ Evict(w) \/ Mutate(w) \/ MarkApplied(w) \/ Record(w)
  \/ SetCurrent(w) \/ WrapUp(w) \/ Flush(w) \/ Redirect(w) \/ Fail(w) \/ Ack(w)
  \/ Retry(w)

Next ==
  \/ \E p \in Payments : (\E k \in Kinds : CreatePayment(p, k)) \/ HandlePaymentCanceled(p)
  \/ \E h \in Hooks : (\E p \in Payments : Deliver(h, p)) \/ HookStep(h) \/ HookFault(h)
  \/ \E w \in Workers : \/ Take(w) \/ RunStep(w)
                        \/ Raises(w) \/ MutateRaises(w) \/ FlushRaises(w)
                        \/ FailRaises(w) \/ Crash(w)
  \/ Tick
  \/ \E u \in Users : CacheExpires(u)

\* Handlers and workers that are not dead run on; nothing makes a gateway
\* report a payment, or a user start one.
Fairness ==
  /\ \A h \in Hooks : WF_vars(HookStep(h))
  /\ \A w \in Workers : WF_vars(Take(w)) /\ WF_vars(RunStep(w))

Spec == Init /\ [][Next]_vars
FairSpec == Spec /\ Fairness
-----------------------------------------------------------------------------
(* Properties                                                              *)

BillingType ==
  /\ txStatus \in [Payments -> Statuses] /\ kind \in [Payments -> Kinds]
  /\ subs \in Seq(SubRecord) /\ current \in [Users -> Nat]
  /\ discount \in [Users -> BOOLEAN] /\ banked \in [Users -> Nat]
StoreType ==
  /\ panel \in [Users -> Account]
  /\ marked \subseteq Payments /\ cache \in [Users -> Snapshot]
  /\ stream \subseteq Entry /\ nextId \in Nat
  /\ now \in Nat /\ faults \in Nat
HookType == hook \in [Hooks -> [pc : HookPcs, pay : Payments, sub : Snapshot]]
RunRecord == [pc : RunPcs, e : Entry, expire : Nat, id : Nat]
RunType == run \in [Workers -> RunRecord]
HistoryType ==
  /\ enqueued \in [Payments -> Nat] /\ rewarded \in [Payments -> Nat]
  /\ mutated \in [Payments -> Nat]
  /\ halted \in [Payments -> SUBSET (RunPcs \union {"hook"})]
  /\ extra \in [Users -> Nat]

\* Every variable keeps to its type.
TypeOK == BillingType /\ StoreType /\ HookType /\ RunType /\ HistoryType

Queued(p) == \E e \in stream : e.pay = p
Finished(p) == enqueued[p] > 0 /\ ~Queued(p)
Alone(p) == \A q \in Payments \ {p} : OwnerOf[q] = OwnerOf[p] => txStatus[q] \notin Paid

\* The panel is changed, and the idempotency marker set, only for a payment
\* that was settled and is no test; a canceled payment gives nothing, whatever
\* order the gateway's reports arrive in.
ProvisionedOnlyIfPaid ==
  \A p \in Payments :
    mutated[p] > 0 \/ p \in marked => txStatus[p] \in Paid /\ kind[p] # "TEST"

\* However often and however concurrently a payment is reported, one handler
\* queues its task and assigns its referral rewards, and it queues first.
SettledOnce ==
  \A p \in Payments : enqueued[p] <= 1 /\ rewarded[p] <= enqueued[p]

\* The strengthening that makes both inductive: a handler past the transition
\* is the only one of its payment and has not queued it; messages, runs and
\* panel calls exist for queued payments alone.
Settling(h) == hook[h].pc \notin {"idle", "transition"}
Active(w) == run[w].pc # "idle"

HookInv ==
  \A h \in Hooks :
    /\ Settling(h) =>
         /\ txStatus[hook[h].pay] \in Paid /\ rewarded[hook[h].pay] = 0
         /\ enqueued[hook[h].pay] = IF HookAt(h, "rewards") THEN 1 ELSE 0
         /\ \A i \in Hooks : Settling(i) /\ hook[i].pay = hook[h].pay => i = h
    /\ hook[h].pc \in {"current", "fill", "enqueue"} => kind[hook[h].pay] # "TEST"

QueueInv ==
  /\ \A p \in Payments : enqueued[p] > 0 => txStatus[p] \in Paid /\ kind[p] # "TEST"
  /\ \A e \in stream : enqueued[e.pay] = 1
  /\ \A w \in Workers : Active(w) => enqueued[RunPay(w)] = 1
  /\ \A p \in Payments : mutated[p] > 0 \/ p \in marked => enqueued[p] = 1

SettleInv == HookInv /\ QueueInv /\ SettledOnce

\* A payment mutates the panel once, through redeliveries, exceptions and
\* retries, unless a run was stopped between the panel call and the marker,
\* or between sending a retry and acking the message it replaces.
GuardHolds ==
  \A p \in Payments : halted[p] \intersect {"mark", "drop"} = {} => mutated[p] <= 1

\* The strengthening: stream ids are fresh and unique, every run holds a message
\* of the stream and no two hold the same one; for a payment that was never
\* stopped in the two gaps, one message at most is not about to be dropped, and
\* a run stands before the panel call only while nothing was done.
StreamInv ==
  /\ \A e \in stream : e.id < nextId
  /\ \A e, f \in stream : e.id = f.id => e = f
  /\ \A w \in Workers : Active(w) =>
       /\ \E e \in stream : e.id = run[w].e.id /\ e.pay = RunPay(w)
       /\ \A v \in Workers : Active(v) /\ run[v].e.id = run[w].e.id => v = w

Exposed(p) == halted[p] \intersect {"mark", "drop"} # {}
Dropping(e) == \E w \in Workers : RunAt(w, "drop") /\ run[w].e.id = e.id
Marking(p) == \E w \in Workers : RunAt(w, "mark") /\ RunPay(w) = p

OneLiveMessage ==
  \A e, f \in stream :
    e.pay = f.pay /\ ~Exposed(e.pay) /\ ~Dropping(e) /\ ~Dropping(f) => e = f
OneMutation ==
  /\ \A p \in Payments : ~Exposed(p) =>
       mutated[p] = 0 \/ (mutated[p] = 1 /\ (p \in marked \/ Marking(p)))
  /\ \A w \in Workers :
       run[w].pc \in {"disable", "disableEvict", "mutate"} /\ ~Exposed(RunPay(w)) =>
         mutated[RunPay(w)] = 0 /\ RunPay(w) \notin marked
GuardInv == StreamInv /\ OneLiveMessage /\ OneMutation

\* A run of p was stopped while it registered or flushed, or between sending a
\* retry and acking the message it replaces.
Torn(p) == halted[p] \intersect {"record", "setCurrent", "evict", "flush", "drop"} # {}

\* When the task of a user's only purchase is over and did not fail, its marker
\* is set, and billing's current subscription is the account the panel runs,
\* active and of the same term - unless a run was torn, or the last retry was
\* given up because FAILED could not be written either.
BillingFollowsPanel ==
  \A p \in Payments :
    LET u == OwnerOf[p] IN
    /\ Finished(p) /\ Alone(p) /\ txStatus[p] = "COMPLETED" /\ ~Torn(p)
    /\ p \in marked \/ "fail" \notin halted[p]
    => /\ p \in marked
       /\ CurrentSub(u).id # 0
       /\ CurrentSub(u).expire = panel[u].expire
       /\ CurrentSub(u).status = "ACTIVE" /\ panel[u].status = "ACTIVE"

\* A paying user's account is switched off on the panel (by a renewal or a
\* flushed reward that sends on the DISABLED written by an unfinished change)
\* only after a run of a settled payment was torn, or when another payment of
\* the user settled too.
DisabledOnlyByInterference ==
  \A u \in Users : panel[u].status = "DISABLED" =>
    \E p \in Payments : OwnerOf[p] = u /\ txStatus[p] \in Paid /\ (Torn(p) \/ ~Alone(p))

\* No interleaving of purchases, crashes and redeliveries gives a user more
\* days than were paid for or banked: renew and change compute an absolute
\* expiry from the subscription as it was when the payment settled, so doing
\* them again is harmless.  Only a retry that carries the handler's own change
\* of the subscription, or a reward flushed again after a failure, adds more.
DaysOf(S) == MapThenSumSet(LAMBDA p : Days[p], S)
Bought(u) == {p \in Payments : OwnerOf[p] = u /\ mutated[p] > 0}
NoFreeTime ==
  \A u \in Users :
    panel[u].expire <= Later(MaxStartExpire, now) + RewardDays + extra[u] + DaysOf(Bought(u))

\* The pipeline implements the ledger: statuses only move forward and only a
\* settled payment is ever provisioned.
Ledger == INSTANCE PaymentLedger WITH
            status <- txStatus, provisioned <- {p \in Payments : mutated[p] > 0}
LedgerSpec == Ledger!Spec

\* A settled purchase ends with its marker set or reported FAILED, unless the
\* webhook handler that settled it was stopped before it queued the task.
PaidIsSettled ==
  \A p \in Payments :
    txStatus[p] = "COMPLETED" /\ kind[p] # "TEST"
      ~> p \in marked \/ txStatus[p] = "FAILED" \/ "hook" \in halted[p]

\* "Guards purchase/renew/change taskiq tasks against re-mutating Remnawave
\* ... when a task for the same payment is retried or re-delivered after a
\* mid-task crash" (core/storage/keys.py).
MutatesOnce == \A p \in Payments : mutated[p] <= 1
=============================================================================
