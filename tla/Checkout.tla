----------------------------- MODULE Checkout ------------------------------
(***************************************************************************)
(* The subscription dialog (bot/routers/subscription): a user chooses a    *)
(* plan, a duration and a payment method, and the confirmation window      *)
(* shows the link of a payment that was created for the choice or taken    *)
(* from the cache in the dialog's data.                                    *)
(*                                                                         *)
(* One dialog of one user.  aiogram-dialog runs the handlers of a dialog   *)
(* one at a time and stores its data and window only when the handler and  *)
(* the getter of the new window succeeded, so every handler is one action  *)
(* that ends in Show.  What is created at billing stays created.           *)
(***************************************************************************)
EXTENDS Integers, Sequences

CONSTANTS
    Plans, Days, Gateways, Assets,
    None,          \* a key absent from the dialog's data
    Plaidly,       \* the gateway that asks for a crypto asset first
    Unlisted,      \* the user's subscription matches no plan on sale
    Shops,         \* what billing may offer, see ShopType
    MaxPayments,   \* bound: payments created
    MaxFaults      \* bound: calls of billing or Redis that fail

PurchaseTypes == {"NEW", "RENEW", "CHANGE"}

\* The plans on sale, the durations of each, the gateways of the BOT channel in
\* their order and the pairs of plan and duration that cost nothing.
ShopType == [plans : (SUBSET Plans) \ {{}},
             durations : [Plans -> (SUBSET Days) \ {{}}],
             gateways : Seq(Gateways) \ {<<>>},
             free : SUBSET (Plans \X Days)]

ASSUME CheckoutAssumption ==
    /\ None \notin Plans \union Days \union Gateways \union Assets \union Nat
    /\ None \notin PurchaseTypes
    /\ Unlisted \notin Plans \union {None}
    /\ Shops \subseteq ShopType
    /\ MaxPayments \in Nat /\ MaxFaults \in Nat

VARIABLES
    shop,       \* what billing offers during the dialog
    current,    \* the plan of the user's subscription, Unlisted, or None
    window,     \* the window shown
    data,       \* the dialog's data
    payments,   \* the payments billing created, in their order
    surveyed,   \* the payments a cancel survey is scheduled for
    failed,     \* history: the last payment asked for could not be created
    carried,    \* history: the cache was kept when another purchase was begun
    faults

vars == <<shop, current, window, data, payments, surveyed, failed, carried, faults>>

Windows == {"MAIN", "PLANS", "DURATION", "PAYMENT_METHOD", "CRYPTO_ASSET", "CONFIRM"}

Opt(S) == S \union {None}
Key == Days \X Gateways \X Opt(Assets)     \* _get_cache_key, with the asset appended
Payment == [plan : Plans, duration : Days, method : Gateways, asset : Opt(Assets),
            ptype : PurchaseTypes]
PaymentIds == 1 .. MaxPayments

\* final_pricing, payment_url and payment_id of the data are the payment `shown`;
\* `since` holds the payments received since the cache was last emptied and is not
\* read by the code.
Data == [plan : Opt(Plans), duration : Opt(Days), method : Opt(Gateways),
         asset : Opt(Assets), ptype : Opt(PurchaseTypes), shown : Opt(PaymentIds),
         cache : [Key -> Opt(PaymentIds)],
         is_free : BOOLEAN, single_plan : BOOLEAN, single_duration : BOOLEAN,
         since : SUBSET PaymentIds]

EmptyCache == [k \in Key |-> None]

\* The data of a dialog just started.
Blank ==
    [plan |-> None, duration |-> None, method |-> None, asset |-> None, ptype |-> None,
     shown |-> None, cache |-> EmptyCache, is_free |-> FALSE, single_plan |-> FALSE,
     single_duration |-> FALSE, since |-> {}]

TypeOK ==
    /\ shop \in Shops
    /\ current \in Plans \union {None, Unlisted}
    /\ window \in Windows
    /\ data \in Data
    /\ payments \in Seq(Payment) /\ Len(payments) <= MaxPayments
    /\ surveyed \subseteq 1 .. Len(payments)
    /\ failed \in BOOLEAN /\ carried \in BOOLEAN
    /\ faults \in 0 .. MaxFaults

Init ==
    /\ shop \in Shops
    /\ current \in shop.plans \union {None, Unlisted}
    /\ window = "MAIN"
    /\ data = Blank
    /\ payments = <<>>
    /\ surveyed = {}
    /\ failed = FALSE
    /\ carried = FALSE
    /\ faults = 0

-----------------------------------------------------------------------------
\* The getters raise on keys that are missing and on a duration the plan lacks.
HasDuration(d) == d.plan # None /\ d.duration # None /\ d.duration \in shop.durations[d.plan]

Renders(w, d) ==
    CASE w = "DURATION" -> d.plan # None
      [] w = "PAYMENT_METHOD" -> HasDuration(d)
      [] w = "CONFIRM" -> HasDuration(d) /\ d.method # None /\ d.shown # None
      [] OTHER -> TRUE

\* duration_getter resets is_free.
Rendered(w, d) == IF w = "DURATION" THEN [d EXCEPT !.is_free = FALSE] ELSE d

\* switch_to(w): the new data is stored when the window can be rendered.
Show(w, d) ==
    IF Renders(w, d) THEN window' = w /\ data' = Rendered(w, d)
                     ELSE UNCHANGED <<window, data>>

SingleGateway == Len(shop.gateways) = 1

-----------------------------------------------------------------------------
\* mutant: the purchase type is not sent
SelectionUntyped(d, asset) == [plan |-> d.plan, duration |-> d.duration,
                               method |-> d.method, asset |-> asset]

\* What the payment is created for.
Selection(d, asset) == [plan |-> d.plan, duration |-> d.duration, method |-> d.method,
                        asset |-> asset, ptype |-> d.ptype]

BillingCreates(payment) ==
    /\ Len(payments) < MaxPayments
    /\ payments' = Append(payments, payment)

\* mutant: a payment is handed out although its survey could not be scheduled
CreateAnyway(d, asset, id) ==
    /\ BillingCreates(Selection(d, asset))
    /\ id = Len(payments')
    /\ failed' = FALSE
    /\ \/ surveyed' = surveyed \union {id} /\ UNCHANGED faults
       \/ faults < MaxFaults /\ faults' = faults + 1 /\ UNCHANGED surveyed

\* _create_payment_and_get_data for the selection in d returns the payment id, or
\* None after an exception, which may have come after billing created the payment:
\* from scheduling the survey or from pricing.
CreatePayment(d, asset, id) ==
    \/ /\ BillingCreates(Selection(d, asset))
       /\ id = Len(payments')
       /\ surveyed' = surveyed \union {id}
       /\ failed' = FALSE
       /\ UNCHANGED faults
    \/ /\ id = None
       /\ faults < MaxFaults
       /\ faults' = faults + 1
       /\ failed' = TRUE
       /\ \/ UNCHANGED <<payments, surveyed>>
          \/ /\ BillingCreates(Selection(d, asset))
             /\ surveyed' \in {surveyed, surveyed \union {Len(payments')}}

\* A handler that asks for no payment.
NoPayment == UNCHANGED <<payments, surveyed, faults>>
Only(w, d) == Show(w, d) /\ NoPayment /\ UNCHANGED failed

\* _save_payment_data, and the entry in the cache.
Saved(d, id) == [d EXCEPT !.shown = id, !.since = @ \union {id}]
Cached(d, key, id) == [Saved(d, id) EXCEPT !.cache[key] = id]

\* mutant: the cache is never looked at
PayAgain(d, asset, w, dw) ==
    \E id \in Opt(PaymentIds) :
        /\ CreatePayment(d, asset, id)
        /\ IF id = None THEN Show(w, dw)
           ELSE Show("CONFIRM", Cached(d, <<d.duration, d.method, asset>>, id))

\* What the select handlers have in common: a payment in the cache is shown again,
\* otherwise one is created; when that fails the window w is shown with the data dw.
PayFor(d, asset, w, dw) ==
    LET key == <<d.duration, d.method, asset>> IN
    \/ /\ d.cache[key] # None
       /\ Show("CONFIRM", Saved(d, d.cache[key]))
       /\ failed' = FALSE
       /\ NoPayment
    \/ /\ d.cache[key] = None
       /\ \E id \in Opt(PaymentIds) :
             /\ CreatePayment(d, asset, id)
             /\ IF id = None THEN Show(w, dw) ELSE Show("CONFIRM", Cached(d, key, id))

-----------------------------------------------------------------------------
\* The buttons of the main window depend on the subscription.
Offered == IF current = None THEN {"NEW"} ELSE {"RENEW", "CHANGE"}

\* The rest of on_subscription_plans when one plan only is on sale.
SinglePlan(d, plan) ==
    LET days == CHOOSE k \in shop.durations[plan] : TRUE
        d1 == [d EXCEPT !.plan = plan, !.single_plan = TRUE]
        d2 == [d1 EXCEPT !.duration = days, !.single_duration = TRUE]
        d3 == [d2 EXCEPT !.method = shop.gateways[1]]
    IN
    \/ /\ shop.durations[plan] # {days}
       /\ Only("DURATION", d1)
    \/ /\ shop.durations[plan] = {days} /\ ~SingleGateway
       /\ Only("PAYMENT_METHOD", d2)
    \/ /\ shop.durations[plan] = {days} /\ SingleGateway
       /\ \E id \in Opt(PaymentIds) :
             /\ CreatePayment(d3, None, id)
             /\ Show("CONFIRM", IF id = None THEN d3 ELSE Saved(d3, id))

Renews(t) == t = "RENEW" /\ current # None

\* on_subscription_plans
OpenPlans(t) ==
    LET d == [data EXCEPT !.ptype = t, !.duration = None]
        only == CHOOSE p \in shop.plans : TRUE
    IN
    /\ window = "MAIN"
    /\ t \in Offered
    /\ carried' = (carried \/ data.cache # EmptyCache)
    /\ \/ /\ Renews(t) /\ current \in shop.plans
          /\ Only("DURATION", [d EXCEPT !.plan = current, !.single_plan = TRUE])
       \/ /\ Renews(t) /\ current \notin shop.plans
          /\ Only("MAIN", d)
       \/ /\ ~Renews(t) /\ shop.plans = {only}
          /\ SinglePlan(d, only)
       \/ /\ ~Renews(t) /\ shop.plans # {only}
          /\ Only("PLANS", [d EXCEPT !.single_plan = FALSE, !.single_duration = FALSE])
    /\ UNCHANGED <<shop, current>>

\* on_duration_select with the data d
ChooseDuration(d, days) ==
    LET free == <<d.plan, days>> \in shop.free
        d1 == [d EXCEPT !.duration = days, !.is_free = free]
        d2 == [d1 EXCEPT !.method = shop.gateways[1]]
        d3 == [d1 EXCEPT !.method = None]
    IN
    \/ /\ SingleGateway \/ free
       /\ PayFor(d2, None, "PAYMENT_METHOD", d3)
    \/ /\ ~(SingleGateway \/ free)
       /\ Only("PAYMENT_METHOD", d3)

\* mutant: the payments of the plan chosen before stay in the cache
KeepingCache(plan) ==
    [data EXCEPT !.plan = plan, !.duration = None, !.method = None, !.since = {}]

\* on_plan_select forgets the payments of the plan chosen before.
WithPlan(plan) ==
    [data EXCEPT !.plan = plan, !.duration = None, !.method = None,
                 !.cache = EmptyCache, !.since = {}]

\* on_plan_select
SelectPlan(plan) ==
    LET days == CHOOSE k \in shop.durations[plan] : TRUE IN
    /\ window = "PLANS"
    /\ plan \in shop.plans
    /\ carried' = FALSE
    /\ \/ /\ shop.durations[plan] = {days}
          /\ ChooseDuration([WithPlan(plan) EXCEPT !.single_duration = TRUE], days)
       \/ /\ shop.durations[plan] # {days}
          /\ Only("DURATION", WithPlan(plan))
    /\ UNCHANGED <<shop, current>>

\* on_duration_select
SelectDuration(days) ==
    /\ window = "DURATION"
    /\ days \in shop.durations[data.plan]
    /\ ChooseDuration(data, days)
    /\ UNCHANGED <<shop, current, carried>>

\* on_payment_method_select: when the payment cannot be created the confirmation
\* is shown all the same.
SelectMethod(method) ==
    LET d == [data EXCEPT !.method = method] IN
    /\ window = "PAYMENT_METHOD"
    /\ \E i \in 1 .. Len(shop.gateways) : shop.gateways[i] = method
    /\ \/ method = Plaidly /\ Only("CRYPTO_ASSET", d)
       \/ method # Plaidly /\ PayFor(d, None, "CONFIRM", d)
    /\ UNCHANGED <<shop, current, carried>>

\* on_crypto_asset_select
SelectAsset(asset) ==
    LET d == [data EXCEPT !.method = Plaidly, !.asset = asset] IN
    /\ window = "CRYPTO_ASSET"
    /\ PayFor(d, asset, "CONFIRM", d)
    /\ UNCHANGED <<shop, current, carried>>

\* The back buttons of the windows and the conditions under which they are shown.
Back(from, to) ==
    \/ from = "PLANS" /\ to = "MAIN"
    \/ from = "DURATION" /\ to = "PLANS" /\ ~data.single_plan
    \/ from = "PAYMENT_METHOD" /\ to = "DURATION" /\ ~data.single_duration
    \/ from = "CRYPTO_ASSET" /\ to = "PAYMENT_METHOD"
    \/ /\ from = "CONFIRM"
       /\ \/ to = "CRYPTO_ASSET" /\ data.method = Plaidly /\ ~data.is_free
          \/ /\ to = "PAYMENT_METHOD"
             /\ ~SingleGateway /\ ~data.is_free /\ data.method # Plaidly
          \/ /\ to = "DURATION"
             /\ data.is_free \/ (SingleGateway /\ ~data.single_duration)

GoBack(to) ==
    /\ Back(window, to)
    /\ Only(to, data)
    /\ UNCHANGED <<shop, current, carried>>

\* "Main menu" and the redirect after a payment reset the stack: the dialog is
\* started again with no data.
Leave ==
    /\ window' = "MAIN"
    /\ data' = Blank
    /\ failed' = FALSE
    /\ carried' = FALSE
    /\ NoPayment
    /\ UNCHANGED <<shop, current>>

Next ==
    \/ \E t \in PurchaseTypes : OpenPlans(t)
    \/ \E plan \in Plans : SelectPlan(plan)
    \/ \E days \in Days : SelectDuration(days)
    \/ \E method \in Gateways : SelectMethod(method)
    \/ \E asset \in Assets : SelectAsset(asset)
    \/ \E to \in Windows : GoBack(to)
    \/ Leave

Spec == Init /\ [][Next]_vars

-----------------------------------------------------------------------------
Shown == payments[data.shown]

\* The payment is for what the window says.
Agrees(p) ==
    /\ p.plan = data.plan /\ p.ptype = data.ptype
    /\ p.duration = data.duration /\ p.method = data.method
    /\ data.is_free => <<p.plan, p.duration>> \in shop.free

\* The payment on the confirmation window is for the plan, duration, method and
\* purchase type written above it, and the button that takes it for nothing is only
\* there when it costs nothing - unless the payment just asked for could not be
\* created, or another purchase was begun over a filled cache (handlers.py:51, 592).
ConfirmAgrees == window = "CONFIRM" /\ ~failed /\ ~carried => Agrees(Shown)

\* Going back and choosing the same again does not create a second payment.
NoDoublePayment ==
    \A i, j \in data.since : payments[i] = payments[j] => i = j

\* Whoever could pay and did not is asked why: the survey of every payment that is
\* on the confirmation window was scheduled before.
ShownIsSurveyed == window = "CONFIRM" => data.shown \in surveyed

\* "Confirm the renewal ... the current subscription will be extended"
\* (messages.ftl:1018-1036): the payment on the confirmation window is of the plan
\* and the purchase type the window names.
ConfirmNamesThePurchase ==
    window = "CONFIRM" => Shown.plan = data.plan /\ Shown.ptype = data.ptype
=============================================================================
