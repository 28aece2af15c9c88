# Verification of the Compono Telegram shop

TLA+ models of the Telegram shop in `src/src` (aiogram bot, taskiq workers,
Kafka consumers), TLC configurations that check them on small instances, and
TLAPS proofs for any number of users, payments, workers and messages.

The bot sells VPN subscriptions. It keeps almost nothing itself: users, plans,
subscriptions and transactions live in a billing service (Go, HTTP), accounts on
a Remnawave panel (HTTP), and locks, queues, caches and dialog state in Redis.
What can go wrong is therefore mostly *between* two awaits: a handler, a worker
or a consumer stops, fails or is overtaken after one store was changed and before
the next one is.

Running: `tlc -workers 2 -config MCKafka.cfg MCKafka.tla`, `tlapm KafkaProofs.tla`.

## 1. The system

| Part | Code (under `src/src`) | State | Operations | Talks to |
|---|---|---|---|---|
| Purchase pipeline | `services/payment_gateway.py`, `infrastructure/taskiq/tasks/subscriptions.py`, `taskiq/{broker,idempotency}.py`, `services/{subscription,transaction}.py` | transaction status, subscriptions, current subscription (billing); account (panel); marker, cache, stream (Redis) | create payment, webhook success / cancel, task new / renew / change, reward flush, retry, ack | billing, panel, Redis stream, referral |
| Checkout dialog | `bot/routers/subscription/*` | dialog data (plan, duration, method, asset, payment cache), window | choose plan, duration, method, asset; back; leave | billing (create payment), survey queue |
| Payment reminder and cancel survey | `infrastructure/taskiq/tasks/cancel_survey.py`, `bot/routers/extra/cancel_survey.py` | sorted set, three kinds of marker, answers | schedule, scheduled task every 5 min, answer, text | billing, Telegram |
| Kafka consumers | `infrastructure/kafka/*`, `taskiq/worker.py` | offsets, assignment, supervisor state | start, poll, handle, commit, backoff, stop | Kafka, notifications, reminders, experiments |
| Not-connected reminder, notifications | `tasks/notifications.py`, `services/notification.py` | sorted set, two dedup markers | schedule, scheduled task, send | panel, billing, Telegram |
| Loyalty and referral rewards | `services/loyalty_reward.py`, `services/referral.py`, `tasks/referrals.py` | grant state, Redis lock, rewards, points | grant, assign, give, flush | billing, panel |
| Admin dashboard | `bot/routers/dashboard/users/user/*` | nothing of its own | change one user's subscription at billing and on the panel, sync | billing, panel |
| Access, waitlist, channel, menu, trial | `services/access.py`, `services/channel_incentive.py`, `bot/middlewares/*`, `bot/routers/menu/*` | copies of user and membership, waitlist, block, prompt keys | register, refer, accept rules, join channel, throttle, trial, beta enrolment | billing, panel, Redis |
| Experiments | `services/experiment.py`, `core/experiments.py`, `estimand_sdk/*` | a configuration per request, markers of exposures, attribution | fetch, assign, expose, convert, attribute | Estimand, Redis, billing |
| Gateways, converters, settings, DI, i18n, start-up | `infrastructure/{payment_gateways,billing,di}`, `core/*`, `api/*`, `lifespan.py` | none or configuration | formatting, HTTP, wiring | - |

**How they interact.** The dialog creates a payment at billing and puts a survey
check on a sorted set. A paid transaction becomes a task on a Redis stream; the
task changes the panel, then billing, then flushes referral rewards, schedules a
not-connected reminder and redirects the user. A scheduler starts the two
reminder tasks every five minutes. Billing publishes events on Kafka; five
consumers (each a group of its own) turn them into notifications, redirects,
reminders and experiment events. The caches of `infrastructure/redis/cache.py`
stand between the services and billing.

**Which code is live.** `handle_payment_succeeded/canceled`,
`PaymentGatewayService.create_payment`, `purchase_subscription_task`,
`trial_subscription_task`, `set_mode` and the panel event handlers
`handle_*_event` have no caller in `src/src` (only tests call them): payments
are now settled by billing and reported over Kafka. The first three are modelled
because they are the repository's own statement of how a payment becomes an
account, are registered with the broker and are tested; their callers are marked
external. The others are not.

**What makes it hard.** Several workers and handlers run at once; a stream
redelivers what was not acked; the retry middleware re-sends a message whose
task raised; at-least-once consumers rebalance under a slow handler; scheduled
runs may outlast their period; check-then-act on Redis keys; two stores that are
written one after the other; markers that expire while what they guard goes on.
`PROJECT.json` lists each hazard at its line, with the properties that cover it
or the reason none does yet.

What makes each part correct, in a sentence: the *pipeline* provisions what was
paid and nothing else, once, and leaves billing and panel agreeing; the
*checkout* offers the payment its window describes and no payment twice; the
*survey* sends each message once and loses no check; the *consumers* commit only
what was handled and do not get stuck on what can be handled; the *dashboard*, the
*grants* and the *rewards* leave billing and the panel telling the same story and
take nothing away that another gave; the *reminders* are sent once and not lost;
the *middlewares* let in whom the settings admit and keep what an invitation
promised; the *experiments* count what was shown.

## 2. Plan

Modules are written in this order, the most important behaviour first.

| # | Modules | Abstract specification / composition | Status |
|---|---|---|---|
| 1 | `PurchaseProvisioning`, `PaymentLedger` | the pipeline refines the ledger; contains the subscription cache and the reward flush | done, `PurchaseProofs` |
| 2 | `KafkaConsumer` | - | done, `KafkaProofs` |
| 3 | `Checkout` | - | done, `CheckoutProofs`; promocode, free payment, discount left |
| 4 | `CancelSurvey` | - | done, `SurveyProofs` |
| 5 | `Reminders` | not-connected queue with `NotificationService`'s marker | done, `NewcomersProofs` |
| 6 | `UserAccount`, `UserDashboard`, `Grants` | `Accounts` composes them over one set of stores: dashboard, synchronisation, loyalty grant, referral rewards | done: `AccountsProofs` has the grants, the rewards and the copies, `StoresProofs` the types, `AgreementProofs` what is due and what the stores agree on |
| 7 | `Onboarding` | order of the middlewares, copies, referral link, trial, beta | done, `NewcomersProofs`; channel incentive left |
| 8 | `Estimand`, `Experiments` | `Experiments` extends the SDK's assignment by the service of a request | done, `NewcomersProofs` |
| 9 | `Newcomers` | composes 5, 7 and 8 | done, `NewcomersProofs` |

Theorems in the same order: types, then the invariants that say something is
done once or is not lost, then refinement. Every safety property that the passing
runs check is now a theorem; liveness stays with TLC.

## 3. The modules

Every definition's source lines are in `PROJECT.json` under `map`. "External"
there marks code outside this repository, modelled from how the repository uses it.

### PurchaseProvisioning - from a paid invoice to an account

One action per await of the webhook handler (`Hook*`) and of the task run
(`Check`, `Disable`, `Evict`, `Mutate`, `MarkApplied`, `Record`, `SetCurrent`,
`WrapUp`, `Flush`, `Redirect`, `Fail`, `Ack`). `hook[h]` and `run[w]` hold the
program counter and the locals; `stream` the unacked messages, which `Take` may
take again after `Crash`; `Retry` re-sends a message whose task raised, with the
arguments as they were or as the handler had changed them (the middleware sends
the objects the task was called with). `HookFault`, `Raises`, `MutateRaises`,
`FlushRaises`, `FailRaises`, `Crash` stop a handler or a run at any await,
`MaxFaults` times in all.

Abstractions: subscriptions are records of expiry, trial flag and status, times
are days; "TEST" is a NEW payment with `is_test`; the flush of banked rewards is
one step per store; creating an invoice at the gateway has no state; a user or a
transaction missing after the transition is one of the failures of `HookFault`;
the reminder scheduled at the end is `Schedule` of `Reminders`.

`PaymentLedger` is what the pipeline promises: statuses move forward only and
only settled payments are provisioned. `LedgerSpec` maps `provisioned` to the
payments that changed the panel.

### KafkaConsumer - one consumer group

Every worker process runs one member of each of five groups; the groups share
nothing, so one is modelled. `Start`, `Wake`, `LeaveTo` are the supervisor,
`Fetch`, `Handle`, `HandleRaises`, `Commit` the loop of `_run_once`. Kinds of
message are the branches of the handlers: delivered, ignored, unformattable
(the notification consumer drops it), always raising, no JSON. The broker
(`Rebalance`, `LookUp`, `SlowHandler`) is external: a rebalance forgets
positions, a position is looked up lazily, `commit()` without arguments stores
the positions of what the member owns at that moment. The backoff is a program
counter, not a delay.

### Checkout - the subscription dialog

Every handler is one action ending in `Show`, because aiogram-dialog handles one
callback of a dialog at a time and stores data and window only when the handler
and the getter of the new window succeeded (external assumption). A failing call
(`MaxFaults`) leaves what billing created. What billing offers (`shop`) and the
user's plan are fixed during the dialog. `ChooseDuration` skips windows with one
choice as the code does; `PayFor` takes the payment from the cache of the key
(duration, gateway, asset) or creates one and schedules its survey.

Two histories mark where the code departs from the obvious promise: `failed`
(the payment could not be created and the window shows the one before) and
`carried` (another purchase was begun without emptying the cache). The asset
label is not compared: with a single crypto gateway a stale asset may stay in
the data.

### CancelSurvey - reminder, survey and answer

`queued`/`dueAt` are the sorted set, `pingUntil` and `sent` the two SETNX
markers, `answer`/`texts` the answer hash, `awaiting` the key that routes the
user's next text. A run reads the due members once, removes each before it works
on it and goes through one await per action; several runs may overlap. An
exception and a crash have the same effect on the stores (`RunFault`): the
member in hand is gone, the others are still queued. `Click`, `Prompt`,
`Record`, `EditMessage`, `Text`, `CheckText`, `WriteText`, `Forget` are the two
handlers of the bot.

Members are processed in any order (the code: by score). The clock's unit is not
fixed: only the order of the delays matters, 15 minutes < 2 days < 7 days, and
the 90-day markers outlive it. `TimesAssumption` asks that a run is shorter than
what the reminder's marker outlives the two days by (five days and a quarter of
an hour in the code); `Tick` waits for runs that old.

### UserAccount, UserDashboard, Grants, Accounts - one user's account

Everything here edits the same few things: the user and the current subscription
at billing, the account on the panel, and the two copies Redis keeps of what
billing said (`userCache`, `subCache`, five minutes and one). `UserAccount` has
those stores and what is done to them in a single await. Whoever works on them is
a *job*: the user it is about, the subscription it has in hand, and `todo`, the
awaits it has still to do, so that a handler is the sequence it is in the code
and every other job may take a step between any two of its own. An exception
ends a job with what was written (`Fault`), a crash too.

* `UserDashboard`: twenty windows of the administrator's dialog. A button or a
  typed value begins a job whose last awaits are those of the getter of the next
  window; `shown` is what was drawn, so a button may be pressed on something that
  is no longer so. `Edit`, `Toggle`, `Status`, deletion, devices, squads, limits,
  days, points, discount, role, block, giving a plan, access to the restricted
  plan and the two directions of synchronisation are each translated from their
  handler.
* `Grants`: the loyalty command for one user (`extend_to:` state, lock with its
  300 s, billing, panel, message, mark), the give-reward task with its retries,
  and the flush of banked rewards by a purchase.
* `Accounts` composes them. `agenda` holds the bounds of a behaviour - its jobs,
  windows, edits and failures - because the interesting meetings need different
  ones.

Histories: `due` (what the user should have: points and days as given and taken),
`disturbed` (a job wrote while another still had to write from what it had read, or
to put it into Redis; or one failed after its first write),
`overlapped` (two grants at work on one user at once), `doubtful` (rewards a
flush listed while another job had them in hand, or a job gave and then failed
before it marked them), `applied` and `goals` (rewards given, days aimed at).
The properties speak of users that are not disturbed: what two handlers do to
each other without a lock is what the code does, and what is checked is that
nothing *else* takes something away or leaves the stores apart.

### Reminders - who has connected nothing

`waiting`/`ripe` are the sorted set (two hours), `sentKey` and `markKey` the
markers of the task and of `notify_user`. A run (`sweep`) lists the due members
once and takes each through removal, the first marker, the look at panel and
billing, the second marker, the send and the two writes. Schedule, the user's
connecting, losing the subscription or blocking the bot, the settings switch and
the days that end a marker happen in between. `loose` names the users for whom
the gaps between a send and its markers mattered, `failed` the members a run was
stopped with.

### Onboarding - from an update to a handler

One action per await of the middlewares Access, User, Rules, Channel and
Throttling in the order `setup_middlewares` registers them, then of the menu
handlers for `/start`, a referral link, accepting the rules, the trial button,
buying and `/beta`. Several updates of one person are on the way at once: each
carries what it has `seen`, and the copy in Redis ("there is none" is kept too)
is filled around the others' writes. The settings of a behaviour are one
`house`. An administrator blocks and unblocks in two steps (`SetBlock`,
`ClearBlocked`), people join and leave the channel, copies expire.

Histories: `stale` (an update left a copy when billing knew better), `unchecked`
(Telegram could not say who is a member; the code lets those pass), `dropped`
(an update ended by an exception). One of them is a race of the code: the first
update of a new person stores "no such user", and until the registering update
clears that copy a purchase is not refused although purchases are closed, because
the check needs a user (`update[s].unknown`).

### Estimand, Experiments - what is shown and what is counted

`Estimand` is the SDK as pure operators: rules in order, conditions, coverage,
the ranges of the variations, the hash as an arbitrary function into buckets.
(`Known` is a filter, spelled out because `SelectSeq` is opaque to the prover.)
`Experiments` is `ExperimentService`: a configuration that is fetched, kept while
fresh, reused while safe, and a circuit that opens for thirty seconds; exposures
with their marker in Redis, conversions, and the variants stored with a payment.
dishka makes one service per request (`infrastructure/di/providers/services.py:27`,
scope REQUEST), so all of this but the markers lives as long as the request.

### Newcomers - the three together

The three modules share the process and no state. A behaviour of `Newcomers` is a
behaviour of one of them (`focus`) with the others as they begin, which says what
a behaviour of all does about properties that speak of one.

## 4. The runs

| Run | Instance | Shows |
|---|---|---|
| `crash` | 1 payment, 2 handlers, 2 workers, 2 faults, 2 days | settled payments only are provisioned (`ProvisionedOnlyIfPaid`); one panel change outside two gaps (`GuardHolds`); billing ends agreeing with the panel (`BillingFollowsPanel`); no days given away (`NoFreeTime`) |
| `overlap` | 2 payments of one user, 2 handlers, 2 workers, no fault | settled once (`SettledOnce`), an account is switched off only where payments interfere, refinement of `PaymentLedger` |
| `live` | 1 payment, 1 fault, fairness | a settled payment is provisioned or FAILED unless its handler was stopped (`PaidIsSettled`) |
| `guard` (violated) | 1 payment, 1 crash | the marker does not stop a second panel change after a crash in between (`MutatesOnce`) |
| `kafka` | 2 workers, 1 partition, 2 messages of 5 kinds, 2 faults, fairness | no committed message is unhandled, offsets never go back, everything behind the offset is handled unless a message can never be |
| `kafka_latest` (violated) | same, safety | before the first commit a failed message is skipped (`StartedIsKept`) |
| `checkout` | 5 shops, 2 plans, 2 durations, 2 gateways, 2 payments, 1 fault | the window offers the payment it describes, no double payment, every payment shown has its survey |
| `checkout_renew` (violated) | same, no fault | main menu, another purchase, same duration and method: the old payment is shown (`ConfirmNamesThePurchase`) |
| `survey` | 2 payments, 2 overlapping runs, 1 fault, clock 0..3 | survey and reminder once, no check forgotten |
| `survey_answers` | 1 payment, 1 run, 2 handlers, 2 faults, clock 0..4, fairness | answers written once unless two handlers race, canceled payments are asked about, checks end |
| `accounts` | 1 user, 1 or 2 administrators, 2 loyalty runs, 2 rewards, 2 flushes; 25 ways to begin | billing and panel agree again (`StoresAgree`), copies are what billing says (`CacheFresh`), nothing given is lost (`NothingLost`), nothing is given twice (`GrantedOnce`, `RewardedOnce`) or shortened (`NeverShortens`) |
| `newcomers` | 1 person with 2 updates under 7 settings; 2 reminders with 2 runs; 2 requests under 4 configurations | who is let in, what an invitation gives, who is told to be a beta tester, who is reminded how often, what is counted |

*Why these bounds.* Every hazard here needs two actors on one payment, or two
payments of one user, and one or two failures: a second handler or run is what a
duplicate, a redelivery and an overlap look like. Two messages are the smallest
log with one behind another, two members the smallest group that rebalances. In
`crash` two faults reach a failure of the recovery of the first. `PaidIsSettled`
needs `MaxFaults <= MaxTry`: with more failures than retries the middleware
gives up, which is the code's own limit (hazard at `broker.py:31`). In the survey
runs the clock passes the delay, the two days and the end of the reminder's
marker. The proofs below lift the safety results from these bounds. Symmetry is
used on handlers, workers, runs, payments, updates and reminders in safety runs only.

`accounts` begins in stores that agree, lack a half or disagree, and each beginning
has its own jobs: one administrator with every window and two edits; windows drawn
before the subscription or the account vanished; two administrators in the window
of points or of days; an administrator against a loyalty run or a reward; two
loyalty runs; two rewards and a flush; two flushes; a run and a flush - the last
four with a failure. In `newcomers` every setting has the kinds of update that
can go wrong under it: two updates with a failure or a turn of the world (a block,
a membership, a purchase, an expiry), three for the rules against a block, so that
one update overtakes another before and after each of its awaits. The reminders
have two members of one user, two runs and a failure: the smallest instance with
each of the three gaps of `RemindedOnce`; `DayPasses` waits for a run to end,
which says that a run takes less than the day a marker lives. The experiments
have a narrow and a wide configuration (coverage), one whose variant the service
does not know, one with a condition, one change of configuration, one failure and
one passing of the 30 seconds.

Deadlock is not checked where the system comes to rest when its payments,
messages or checks are used up; the checkout never does and is checked.

*Fairness.* Weak fairness only, and only on the program's own steps: handlers
and workers that are not dead go on (an event loop and a supervised process),
an unacked message is taken (the stream keeps it), a stopped consumer is started
again and a rebalance ends, the scheduler starts the survey task again and time
passes. No fairness for users, gateways, producers or failures.

Every property has a mutant in `PROJECT.json`, a plausible mistake in one mapped
definition, written beside it, under which TLC finds the property violated.

## 5. What is proved

For every value of the constants that satisfies the `ASSUME`s; the bounds are
arbitrary numbers, so nothing depends on their size. Besides the types of the
constants and `Nothing`/`NoOne`/`None` lying outside the sets they are added to,
the assumptions are: a run of the survey task is shorter than what its marker
outlives the two days by (`TimesAssumption`); no account is switched off when the
pipeline begins (`StartActive`) and none ends after `MaxStartExpire`
(`StartBound`); published configurations have revisions of their
own, and none is the salt of a local experiment (`ConfigsAssumption`,
`RevisionsAssumption`), and their features are well-formed, without a negative
weight (`FeaturesAssumption`: nothing in `models.py` refuses one, and with one the
ranges overlap and `CoverageSticky` fails; that Estimand publishes none is taken
from outside); a job of `Accounts` is of one kind - a dashboard, a run, a
task or a flush - and an administrator works on one user (`JobAssumption`,
`DeskAssumption`); the awaits that make a job a writer are among `Writes`
(`WritesAssumption`); and where `Accounts` begins, the stores are typed, panel
accounts are numbered below the next one, no two users have one current
subscription (billing gives every subscription to one user), and billing and the
panel agree about everybody who is not set `apart` (`StartAssumption`).

* `PurchaseProofs`: `TypeCorrect`; `SettlesOnce` and `ProvisionsPaid` from
  `SettleInv` (a handler past the transition is alone with its payment and has
  not queued it; messages, runs, marks and panel changes exist for queued
  payments only - without this a second handler might queue again);
  `ImplementsLedger` (initial states and steps map to those of `PaymentLedger`);
  `GuardCorrect` from `GuardInv` (stream ids are fresh, a run holds a message of
  the stream and nobody else holds it; a payment never stopped in the two gaps
  has one live message, and a run is before the panel call only while nothing
  was done); `BillingFollows` and `DisabledByInterference` from `StoresInv`. The
  last speaks of *regular* users, who have one settled payment and no torn run:
  their messages carry the current subscription until the marker is set
  (`Sound`), every run has done what its program counter says (`Work`), and
  nobody registers once billing and the panel agree (`Registered`). It needs that
  no subscription is held for two users anywhere - billing, copies, handlers,
  messages, runs (`Apart`) - and that a payment without messages was provisioned
  or failed (`OverInv`). `NothingFree` (`NoFreeTime`) from `TermInv`, which does not
  speak of the panel only: an expiry is copied from billing through the cache, a
  handler, a message and a run before it reaches the panel, so every copy of a
  user's subscription is within the user's `Bound` - what the start, the rewards no
  longer banked, the known double writes (`extra`) and the payments that changed
  the panel allow. A payment must not count itself twice: its message, and its run
  until the panel call, are within the bound *without* this payment (`Without`),
  and adding its days then stays within the bound with it. `Grown` says that no step lowers a
  bound. The sum over payments is a fold; `DaysOfAdd` (one payment
  more, its days more) is proved by well-founded induction over the subsets of a finite
  set, stated with a set instead of a predicate (`SubsetInduction`, from `WFMin`), and
  the payments that reached the panel are finitely many at any time (`Counted`),
  so `Payments` may be infinite.
* `KafkaProofs`: `TypeCorrect`; `NoLoss` and `NeverBack` from `GroupInv`: what
  was read up to a position was handled or is in the hands of the owner, and
  positions are never behind the commit. The commit of a member that lost and
  regained a partition stores a fresh position, which is why offsets do not go back.
* `SurveyProofs`: `TypeCorrect`; `SurveysOnce` and `ForgetsNothing` from
  `SurveyInv`: the marker admits one run to the delivery, and a marked survey is
  delivered, about to be, or excused - so a run that finds the marker may drop
  its member. `PingsOnce` from `RemindInv`: a run takes up a member only after
  the first delay and reminds only within the two days, by a time it read at most
  `RunTime` ago, so a marker set by then is still there whenever another run
  could remind. `AnswersAreOne` from `AnswerInv`: past its check a handler is
  alone with its payment and finds no answer, or the payment is contended.
* `CheckoutProofs`: `TypeCorrect`; `ConfirmsChoice`, `PaysOnce` and
  `ShowsSurveyed` from `CheckoutInv`: which data the dialog has at which window
  (`Standing`), every payment in the cache is surveyed and lies under its own key
  (`Known`), is for this purchase unless the cache was carried over (`Own`), and
  every payment received is in the cache (`Made`) - but for one. A shop with one
  plan, one duration and one gateway creates its payment without caching it
  (`SinglePlan`), and there the argument is that no button leads back to it
  (`Direct`, `Lone`).
* `NewcomersProofs`, first the onboarding: `OnboardingTyped`; `BetaIsBeta`,
  `InvitesAreKept` and `OnlyAdmitted`, for any number of people, updates and
  settings. The argument is an order: billing only moves *forward* (a user once registered, rules once
  accepted, a discount once given are not taken back), and whatever an update
  holds or Redis keeps is *below* what billing says now (`Below`). What an update
  has passed therefore stays true (`Ruled`, `Joined`, `Restricted`, `Recognised`,
  `Buying`, `Barring`, one per gate), with the copies described per person
  (`CopyBlocked`, `CopyKnown`, `CopyJoined`): a copy that says "not blocked" of a
  blocked person exists only while the block is being written, or the person is
  `stale`. `OwnStep` says that an update's step leaves the others' alone, and the
  lemmas before it what each kind of step may write.
  Then the reminders: `RemindersTyped`; `RemindersAreKept` and `RemindsOnce`. The
  last needs the state of every run that could still send: a
  user who was reminded and is not `loose` is behind a marker, or one run is past
  the send and about to write it, and no other run is past the check. Then the
  experiments: `ExperimentsTyped`, `CountsServed` and `ConvertsExposed` from
  `ExperimentsInv`: every step a request has still to do is *backed* - it counts
  what a published configuration served, and a conversion still to be counted has
  its exposure counted or before it in the same list. None of these expands how Estimand
  evaluates. `CoverageSticks` (`CoverageSticky`) does: an exposure was served by the
  configuration of its revision, and the widened configuration selects the same rule
  (`SameRule`), raises where that raised and chooses the same variation
  (`ChoiceStays`), because a range begins at the total of the weights before it
  whatever the coverage (`TotalPrefix`), grows with the coverage (`PartRises`) and
  never reaches beyond where the next one begins (`TotalsRise`). `ComponentsRun`
  says that a behaviour of `Newcomers` is one of `Onboarding`, of `Reminders` and
  of `Experiments`, from which `NewcomersTyped` and `NewcomersSafe` collect the
  theorems of the three.
* `AccountsProofs`: `GrantsOnce` from `RunsInv`: a run is before it read its
  state, between that and its goal, or past it, and one that saw no state finds
  none chosen unless another run is at its user. `RewardsOnce` (an action
  property) from `TasksOK` and `RewardsInv`: a reward that is not doubtful is in
  the stream, in one pair of hands, or marked, never two of these, and was given
  only if it is marked or the job that has it will mark it. A step of a job
  leaves, takes, gives, marks or finds a reward (`Treats`), and each of the five
  keeps that (`SingleKept`); the lemmas before it say what is left of a job's
  awaits after each of them, and `DeskOwn` that none of the dashboard's handlers
  touches another job.
  The second part of the module is `CopiesFresh`, from `CopiesInv` and `DeskInv`:
  a copy that lacks something has a job of the user whose next await clears it
  (`StaleSub`, `StaleUser`), and an answer on its way into Redis is still what
  billing says (`FreshFor`) - for every user nothing irregular happened to. For
  that to hold after every await one has to know where in a list the awaits that
  write, clear or fill may stand at all (`Free`, `Applying` and their parts: every
  list the code builds is one of some twenty shapes), that a job holds a
  subscription of its own user (`own` says whose each is, and grows with
  `CreateSub`), and that a handler which draws its window again has one to draw
  (`DeskInv`: the menu is shown only while a dashboard is being opened). One lemma
  per await (`...Keeps`, `...Keep`) shows that it keeps all this; `SteadyKeeps`,
  `WrittenKeeps` and `SettledKeeps` are the three ways it is done - nothing is
  written, something is written whose copy is about to be cleared, a copy is
  cleared or filled.
* `StoresProofs` (on top of it): `AccountsTyped`. That billing is typed depends on
  what a job wrote there, and so on what it had in hand: a handler writes the copy
  it read three awaits ago. `RecordOK` says so of each job: the copies it holds are
  typed, and a list whose next use of a copy is not preceded by its read has the
  copy (`Sound`) - which user, subscription or account a list still uses is a
  property of the list (`UserNext`, `PushDue`, `ApplyDue`, `Bare`, ...), and
  `ConsAhead` says what taking or putting an await in front does to each of them.
  `TypedStep` is what one await does; there is one lemma for each.
* `AgreementProofs` (on top of it):
  * `GiftsKept` from `KeptInv`: billing has what is `due` to every undisturbed user,
    and a job that is still going to write points or a subscription has in hand
    what billing says (`Held`). The steps that leave billing alone are `Quiet`;
    each that writes it shows that nobody else holds the user, or that the user
    is disturbed from now on.
  * `GiftsNeverShorten`, an action property, from the same invariant: the days a
    grant or a reward writes are at least those of the copy in hand, and the copy
    is billing's.
  * `StoresMend` (`StoresAgree`) from `MendInv`: the two stores agree about an
    undisturbed user, or a job of that user has written one of them and has the
    write of the other still ahead (`Mends`) - a push, a removal, a status, a
    created subscription or a whole synchronisation. Both orders occur in the code
    (panel first for the ban, a plan and a restored account, billing first for
    edits, gifts and the deletion), so a job about to make the second write
    must also know what the first one left (`Aware`): that the subscription it will
    create is that of the account it made, that the account it will apply is the
    one the panel has, that the status it will write at billing is the ban it set.
    A handler that raises, or a run that dies, in between has disturbed its user,
    which is what `disturbed` means; a synchronisation that starts alone on fresh
    copies takes that back, and is itself one of the jobs that mend.

**Only model-checked:**

* the four liveness properties (`PaidIsSettled`, `UnpoisonedIsHandled`,
  `CanceledIsSurveyed`, `ChecksEnd`): fairness and ENABLED are beyond the prover.

Sums (the days paid for, the weights before a range) are folds, recursive functions
over subsets. The prover cannot instantiate the library's induction theorems, which
take a predicate as a parameter; `SubsetInduction` and `NatSet` state the same with a
*set*, from `WFMin` (a well-founded order has minimal elements), and what is needed of
a sum - it is a number, and one element more adds that element - follows for any
finite set. Both proof modules with sums carry these few lemmas.

What the proofs changed: `StoresAgree`, as it was first stated, is false in two
situations the run had no beginning for. `sync_user` imports an account that is
banned and past its day as EXPIRED (`remnawave.py:508`), after which billing does
not know of the ban; and `on_sync_from_remnashop` (`handlers.py:1002`) pushes a
subscription that was deleted but is still the current one back to an account that
is still there. Both are what the code does and nothing in the repository says
otherwise, so `Agrees` now describes them, and the run begins in each of them too
(its two last beginnings). The constants of the dashboard and of the grants had no
types (`DeskAssumption`, `GrantAssumption`), the stores a behaviour begins with were
not said to have any (`StartAssumption`), and two guards of `Edited` overlapped.
`CacheFresh` did not hold. A reader that asked billing
and has not yet put the answer into Redis was only counted as a reader if it also
had a subscription in hand and something to write, so a flush that had found no
subscription could keep that answer after an administrator had given the user
one, and nothing said so. `Holds` now counts everyone about to fill a copy
(`Filling`), and the run begins in one more way, where this happens. `RewardedOnce` was first stated with the history of
flush and task meeting only, and was not provable: two failures and a
synchronisation that clears `disturbed`, or two flushes at once, give a reward
again. It now says exactly which rewards (`doubtful`), and the run has a second
flush. `BillingFollowsPanel` and `DisabledOnlyByInterference` did not exclude a run
that sent its retry and died before it acked the old message, nor a last retry
given up because FAILED could not be written; both are named now (`Torn`, and the
premise about `"fail"`).

## 6. Disagreements between code and text

1. `PurchaseIdempotencyKey` promises that a redelivered task does not change the
   panel again; the marker is set after the change (`guard`).
2. `base_consumer.py` promises redelivery after a crash; with
   `auto_offset_reset="latest"` this holds only after the first commit (`kafka_latest`).
3. The confirmation says "extended" and may carry the payment of a change: the
   cache is keyed by duration and gateway and survives the main window (`checkout_renew`).

Seen while modelling, without a run of their own:

* `idempotency.py:16-17` says that a second *mutation* is skipped; the run that
  finds the marker returns (`subscriptions.py:192-197`) before it registers the
  subscription at billing. `BillingFollowsPanel` names the crash that leads there.
* Synchronising a user from the panel whose account is gone clears the current
  subscription of `user.telegram_id`, the administrator who pressed the button,
  not of the user shown (`bot/routers/dashboard/users/user/handlers.py:976`;
  `DropActor`, which marks the administrator as disturbed).
* The README's "keeps the last good Estimand config for a short TTL"
  (`README.md:259`) holds within a request only: the service has scope REQUEST.
* A conversion of `payment_rescue` has no exposure anywhere, which is why
  `ConversionsExposed` excuses conversions of requests that showed nothing.
* `AccessService.set_mode` has no caller, so the waitlist is filled and never
  told, though `assets/translations/ru/notifications.ftl:474` promises a message.
  Were it called, who joins between reading and clearing the list would be
  dropped (`access.py:138-145`).
* `channel_incentive.py:115` sets a key and its expiry in two calls; a crash in
  between leaves it for good.

## 7. Not modelled

Payment gateway adapters (formatting and signatures), start-up, the webhook
endpoint, statistics, broadcast, the funnel report, configuration, translations
and wiring: no state machine of their own (`status` and reason in
`PROJECT.json`).

Within modelled parts: prices, discounts, the promocode and success windows, free
payments and the order of gateways; `trial_subscription_task`; the
synchronisation-waiting window, searches and lists of the dashboard; the
`handle_*_event` methods; the cached subscription in the beta enrolment, the
channel-incentive prompt and the recent activity of a user; the expiry of exposure
markers, the cache `track_checkout_event` keeps per dialog (a set here) and
the event batches sent to Estimand; texts, keyboards and metrics other than the
two that count experiments. HTTP clients and converters are inlined where they
change state.
