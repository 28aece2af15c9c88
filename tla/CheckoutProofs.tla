--------------------------- MODULE CheckoutProofs ---------------------------
(***************************************************************************)
(* Proofs about Checkout for any shops and any number of payments.  The    *)
(* invariant's parts are stated of a window w and data d, with P the       *)
(* payments and S the surveyed ones, so that what a handler builds can be  *)
(* spoken of before it is stored.                                          *)
(***************************************************************************)
EXTENDS Checkout, SequenceTheorems, TLAPS

KeyOf(p) == <<p.duration, p.method, p.asset>>

\* Which data the dialog has at which window.
Standing(w, d) ==
    /\ w # "MAIN" => d.ptype # None
    /\ w = "DURATION" => d.plan # None
    /\ w \in {"PAYMENT_METHOD", "CRYPTO_ASSET", "CONFIRM"} =>
           HasDuration(d) /\ (d.is_free => <<d.plan, d.duration>> \in shop.free)
    /\ w \in {"MAIN", "PLANS", "DURATION"} => ~d.is_free
    /\ w = "CRYPTO_ASSET" => d.method = Plaidly /\ d.method # None
    /\ w = "CONFIRM" => d.method # None /\ d.shown # None

\* The payments the dialog knows were surveyed, and each is cached under its own key.
Known(P, S, d) ==
    /\ d.shown # None => d.shown \in S
    /\ d.since \subseteq S
    /\ \A k \in Key : d.cache[k] # None => d.cache[k] \in d.since /\ KeyOf(P[d.cache[k]]) = k

\* One plan on sale: nothing leads back to the main window but leaving.
OnePlanOnly == \E p \in Plans : shop.plans = {p}
Lone(w, d) ==
    OnePlanOnly => /\ w # "PLANS"
                   /\ w # "MAIN" => d.single_plan
                   /\ w = "MAIN" => d.since = {} /\ d.cache = EmptyCache

\* The payment that is made with nothing to choose is not cached, and nothing leads back
\* to making it again.
Direct(P, w, d, i) ==
    /\ OnePlanOnly /\ SingleGateway
    /\ d.single_duration /\ ~d.is_free /\ d.method = shop.gateways[1]
    /\ w \in {"CONFIRM", "CRYPTO_ASSET", "PAYMENT_METHOD"}
    /\ w # "CONFIRM" => shop.gateways[1] = Plaidly
    /\ P[i].asset = None
    /\ \A k \in Key : k[3] = None => d.cache[k] = None
    /\ \A j \in d.since : P[j].asset = None => j = i
Filed(P, d, i) == d.cache[KeyOf(P[i])] = i
Made(P, w, d) == \A i \in d.since : Filed(P, d, i) \/ Direct(P, w, d, i)
AllFiled(P, d) == \A i \in d.since : Filed(P, d, i)

\* Unless the cache was carried over, what is in it is for this purchase; and what is
\* confirmed is for the choice.
Own(P, c, d) ==
    ~c => \A k \in Key : d.cache[k] # None => /\ P[d.cache[k]].plan = d.plan
                                             /\ P[d.cache[k]].ptype = d.ptype
Right(P, f, c, w, d) ==
    w = "CONFIRM" /\ ~f /\ ~c =>
        LET p == P[d.shown] IN
        p.plan = d.plan /\ p.ptype = d.ptype /\ p.duration = d.duration /\ p.method = d.method

CheckoutInv ==
    /\ TypeOK
    /\ Standing(window, data)
    /\ Known(payments, surveyed, data)
    /\ Lone(window, data)
    /\ Made(payments, window, data)
    /\ Own(payments, carried, data)
    /\ Right(payments, failed, carried, window, data)

-----------------------------------------------------------------------------
(***************************************************************************)
(* Payments are only added, and survey checks too.                         *)
(***************************************************************************)
Longer(P, S, Q, T) ==
    /\ P \in Seq(Payment) /\ S \subseteq 1 .. Len(P)
    /\ Q \in Seq(Payment) /\ Len(Q) <= MaxPayments /\ T \subseteq 1 .. Len(Q)
    /\ Len(P) <= Len(Q) /\ S \subseteq T
    /\ \A i \in 1 .. Len(P) : Q[i] = P[i]

\* What else a step of the user leaves in order.
Orderly ==
    /\ Longer(payments, surveyed, payments', surveyed')
    /\ UNCHANGED <<shop, current>>
    /\ faults' \in 0 .. MaxFaults /\ failed' \in BOOLEAN

\* None is no payment, no purchase type, no plan, no duration, no gateway and no asset.
LEMMA NoneApart ==
    /\ None \notin PurchaseTypes /\ None \notin Plans /\ None \notin Days /\ None \notin Gateways /\ None \notin Assets
    /\ \A n \in Nat : n # None
BY CheckoutAssumption

\* A shop has plans, durations and gateways.
LEMMA ShopHas ==
    ASSUME TypeOK
    PROVE  /\ shop.plans \subseteq Plans /\ shop.plans # {}
           /\ \A p \in Plans : shop.durations[p] \subseteq Days /\ shop.durations[p] # {}
           /\ shop.gateways \in Seq(Gateways) /\ Len(shop.gateways) \in Nat
           /\ Len(shop.gateways) >= 1 /\ shop.gateways[1] \in Gateways
           /\ shop.free \subseteq Plans \X Days
<1>1. shop \in ShopType
  BY CheckoutAssumption DEF TypeOK
<1>2. /\ shop.plans \in (SUBSET Plans) \ {{}} /\ shop.durations \in [Plans -> (SUBSET Days) \ {{}}]
      /\ shop.gateways \in Seq(Gateways) \ {<<>>} /\ shop.free \in SUBSET (Plans \X Days)
  BY <1>1 DEF ShopType
<1>3. shop.gateways # <<>> /\ shop.gateways \in Seq(Gateways)
  BY <1>2
<1>4. Len(shop.gateways) \in Nat /\ Len(shop.gateways) >= 1
  BY <1>3, EmptySeq, LenProperties
<1>5. shop.gateways[1] \in Gateways
  BY <1>3, <1>4, ElementOfSeq
<1>6. \A p \in Plans : shop.durations[p] \in (SUBSET Days) \ {{}}
  BY <1>2
<1> QED
  BY <1>2, <1>3, <1>4, <1>5, <1>6

\* Asking for a payment: what billing and the survey queue have afterwards.
LEMMA Creating ==
    ASSUME TypeOK, NEW d, NEW asset, NEW id, CreatePayment(d, asset, id),
           Selection(d, asset) \in Payment, UNCHANGED <<shop, current>>
    PROVE  /\ Orderly
           /\ id = None => failed' = TRUE
           /\ id # None => /\ failed' = FALSE /\ id \in PaymentIds /\ id \notin 1 .. Len(payments)
                           /\ payments'[id] = Selection(d, asset) /\ id \in surveyed'
<1> DEFINE p == Selection(d, asset)
<1> HIDE DEF p
<1>1. payments \in Seq(Payment) /\ Len(payments) \in Nat /\ Len(payments) <= MaxPayments
      /\ surveyed \subseteq 1 .. Len(payments) /\ faults \in 0 .. MaxFaults /\ MaxFaults \in Nat /\ MaxPayments \in Nat
  BY CheckoutAssumption, LenProperties DEF TypeOK
<1>2. p \in Payment
  BY DEF p
<1>3. /\ Append(payments, p) \in Seq(Payment) /\ Len(Append(payments, p)) = Len(payments) + 1
      /\ \A i \in 1 .. Len(payments) : Append(payments, p)[i] = payments[i]
      /\ Append(payments, p)[Len(payments) + 1] = p
  BY <1>1, <1>2, AppendProperties
<1>4. ASSUME BillingCreates(p)
      PROVE  /\ payments' \in Seq(Payment) /\ Len(payments') = Len(payments) + 1 /\ Len(payments') <= MaxPayments
             /\ \A i \in 1 .. Len(payments) : payments'[i] = payments[i]
             /\ payments'[Len(payments) + 1] = p
  BY <1>1, <1>3, <1>4 DEF BillingCreates
<1>5. CASE BillingCreates(p) /\ id = Len(payments') /\ surveyed' = surveyed \union {id} /\ failed' = FALSE /\ UNCHANGED faults
  <2>1. id = Len(payments) + 1 /\ id \in PaymentIds /\ id # None
    BY <1>1, <1>4, <1>5, NoneApart DEF PaymentIds
  <2>5. /\ payments' \in Seq(Payment) /\ Len(payments') = Len(payments) + 1 /\ Len(payments') <= MaxPayments
        /\ \A i \in 1 .. Len(payments) : payments'[i] = payments[i]
    BY <1>4, <1>5
  <2>6. surveyed' \subseteq surveyed \union {Len(payments) + 1} /\ surveyed \subseteq surveyed'
    BY <1>5, <2>1
  <2>2. Longer(payments, surveyed, payments', surveyed')
    BY <1>1, <2>5, <2>6 DEF Longer
  <2>4. Orderly
    BY <1>1, <1>5, <2>2 DEF Orderly
  <2>3. id \notin 1 .. Len(payments) /\ payments'[id] = p /\ id \in surveyed' /\ failed' = FALSE
    BY <1>1, <1>4, <1>5, <2>1
  <2> QED
    BY <2>1, <2>3, <2>4 DEF p
<1>6. CASE /\ id = None /\ faults < MaxFaults /\ faults' = faults + 1 /\ failed' = TRUE
           /\ \/ UNCHANGED <<payments, surveyed>>
              \/ /\ BillingCreates(p)
                 /\ surveyed' \in {surveyed, surveyed \union {Len(payments')}}
  <2>1. Longer(payments, surveyed, payments', surveyed')
    <3>1. CASE UNCHANGED <<payments, surveyed>>
      BY <1>1, <3>1 DEF Longer
    <3>2. CASE BillingCreates(p) /\ surveyed' \in {surveyed, surveyed \union {Len(payments')}}
      <4>1. /\ payments' \in Seq(Payment) /\ Len(payments') = Len(payments) + 1 /\ Len(payments') <= MaxPayments
            /\ \A i \in 1 .. Len(payments) : payments'[i] = payments[i]
        BY <1>4, <3>2
      <4>2. surveyed' \subseteq surveyed \union {Len(payments) + 1} /\ surveyed \subseteq surveyed'
        BY <3>2, <4>1
      <4> QED
        BY <1>1, <4>1, <4>2 DEF Longer
    <3> QED
      BY <1>6, <3>1, <3>2
  <2>2. Orderly
    BY <1>1, <1>6, <2>1 DEF Orderly
  <2> QED
    BY <1>6, <2>2
<1>7. \/ BillingCreates(p) /\ id = Len(payments') /\ surveyed' = surveyed \union {id} /\ failed' = FALSE /\ UNCHANGED faults
      \/ /\ id = None /\ faults < MaxFaults /\ faults' = faults + 1 /\ failed' = TRUE
         /\ \/ UNCHANGED <<payments, surveyed>>
            \/ /\ BillingCreates(p)
               /\ surveyed' \in {surveyed, surveyed \union {Len(payments')}}
  BY Zenon DEF CreatePayment, p
<1> QED
  BY <1>5, <1>6, <1>7

\* A handler that asks for none.
LEMMA Unpaid ==
    ASSUME TypeOK, NoPayment, failed' \in BOOLEAN, UNCHANGED <<shop, current>>
    PROVE  Orderly
<1>1. payments' = payments /\ surveyed' = surveyed /\ faults' = faults
  BY DEF NoPayment
<1>2. /\ payments \in Seq(Payment) /\ Len(payments) \in Nat /\ Len(payments) <= MaxPayments
      /\ surveyed \subseteq 1 .. Len(payments) /\ faults \in 0 .. MaxFaults
  BY LenProperties DEF TypeOK
<1>3. Longer(payments, surveyed, payments', surveyed')
  BY <1>1, <1>2 DEF Longer
<1> QED
  BY <1>1, <1>2, <1>3 DEF Orderly

-----------------------------------------------------------------------------
(***************************************************************************)
(* The books of the dialog when payments are added.                        *)
(***************************************************************************)
Bookkeeping(P, S, c, d) == Known(P, S, d) /\ Own(P, c, d)

\* Where a handler leaves the cache alone; what it shows is what was shown, or cached.
LEMMA BooksKept ==
    ASSUME NEW P, NEW S, NEW Q, NEW T, Longer(P, S, Q, T), NEW c, NEW d \in Data, NEW e,
           Bookkeeping(P, S, c, d), e.cache = d.cache, e.since = d.since,
           e.shown = d.shown \/ \E k \in Key : d.cache[k] # None /\ e.shown = d.cache[k],
           c \/ (e.plan = d.plan /\ e.ptype = d.ptype)
    PROVE  /\ Bookkeeping(Q, T, c, e)
           /\ \A i \in d.since : Q[i] = P[i] /\ (Filed(P, d, i) => Filed(Q, e, i))
<1>1. \A i \in S : i \in T /\ Q[i] = P[i]
  BY DEF Longer
<1>2. d.since \subseteq S
  BY DEF Bookkeeping, Known
<1>3. \A k \in Key : d.cache[k] # None => d.cache[k] \in d.since /\ KeyOf(P[d.cache[k]]) = k /\ Q[d.cache[k]] = P[d.cache[k]]
  BY <1>1, <1>2 DEF Bookkeeping, Known
<1>4. Known(Q, T, e)
  <2>1. e.shown # None => e.shown \in T
    BY <1>1, <1>2, <1>3 DEF Bookkeeping, Known
  <2>2. e.since \subseteq T
    BY <1>1, <1>2
  <2>3. \A k \in Key : e.cache[k] # None => e.cache[k] \in e.since /\ KeyOf(Q[e.cache[k]]) = k
    BY <1>3
  <2> QED
    BY <2>1, <2>2, <2>3 DEF Known
<1>5. Own(Q, c, e)
  BY <1>3 DEF Bookkeeping, Own
<1>6. \A i \in d.since : Q[i] = P[i] /\ (Filed(P, d, i) => Filed(Q, e, i))
  BY <1>1, <1>2 DEF Filed
<1> QED
  BY <1>4, <1>5, <1>6 DEF Bookkeeping

\* Where a payment is put into an empty place of the cache.
LEMMA BooksFilled ==
    ASSUME NEW P, NEW S, NEW Q, NEW T, Longer(P, S, Q, T), NEW c, NEW d \in Data, NEW e,
           Bookkeeping(P, S, c, d), NEW key \in Key, d.cache[key] = None,
           NEW id \in T, id # None, id \notin 1 .. Len(P), KeyOf(Q[id]) = key,
           e.cache = [d.cache EXCEPT ![key] = id], e.since = d.since \union {id}, e.shown = id,
           e.plan = d.plan, e.ptype = d.ptype, Q[id].plan = d.plan, Q[id].ptype = d.ptype
    PROVE  /\ Bookkeeping(Q, T, c, e)
           /\ \A i \in d.since : i # id /\ Q[i] = P[i] /\ (i # None => (Filed(P, d, i) => Filed(Q, e, i)))
           /\ Filed(Q, e, id)
<1>0. d.cache \in [Key -> Opt(PaymentIds)]
  BY DEF Data
<1>1. \A i \in S : i \in T /\ Q[i] = P[i] /\ i \in 1 .. Len(P)
  BY DEF Longer
<1>2. d.since \subseteq S
  BY DEF Bookkeeping, Known
<1>3. \A k \in Key : d.cache[k] # None => d.cache[k] \in d.since /\ KeyOf(P[d.cache[k]]) = k /\ Q[d.cache[k]] = P[d.cache[k]]
  BY <1>1, <1>2 DEF Bookkeeping, Known
<1>4. e.cache[key] = id /\ \A k \in Key : k # key => e.cache[k] = d.cache[k]
  BY <1>0
<1>5. Known(Q, T, e)
  <2>1. e.shown # None => e.shown \in T
    OBVIOUS
  <2>2. e.since \subseteq T
    BY <1>1, <1>2
  <2>3. ASSUME NEW k \in Key, e.cache[k] # None
        PROVE  e.cache[k] \in e.since /\ KeyOf(Q[e.cache[k]]) = k
    <3>1. CASE k = key
      BY <1>4, <3>1
    <3>2. CASE k # key
      BY <1>3, <1>4, <2>3, <3>2
    <3> QED
      BY <3>1, <3>2
  <2> QED
    BY <2>1, <2>2, <2>3 DEF Known
<1>6. Own(Q, c, e)
  <2> SUFFICES ASSUME ~c, NEW k \in Key, e.cache[k] # None
               PROVE  Q[e.cache[k]].plan = e.plan /\ Q[e.cache[k]].ptype = e.ptype
    BY DEF Own
  <2>1. CASE k = key
    BY <1>4, <2>1
  <2>2. CASE k # key
    BY <1>3, <1>4, <2>2 DEF Bookkeeping, Own
  <2> QED
    BY <2>1, <2>2
<1>7. Filed(Q, e, id)
  BY <1>4 DEF Filed
<1>8. ASSUME NEW i \in d.since
      PROVE  i # id /\ Q[i] = P[i] /\ (i # None => (Filed(P, d, i) => Filed(Q, e, i)))
  <2>1. i # id /\ Q[i] = P[i]
    BY <1>1, <1>2
  <2>2. ASSUME i # None, Filed(P, d, i) PROVE Filed(Q, e, i)
    <3>1. KeyOf(Q[i]) = KeyOf(P[i]) /\ d.cache[KeyOf(P[i])] = i
      BY <2>1, <2>2 DEF Filed
    <3>2. KeyOf(P[i]) # key
      BY <2>2, <3>1
    <3>3. KeyOf(P[i]) \in Key
      <4>1. P[i] \in Payment
        BY <1>1, <1>2, ElementOfSeq DEF Longer
      <4> QED
        BY <4>1 DEF Payment, Key, KeyOf
    <3> QED
      BY <1>4, <3>1, <3>2, <3>3 DEF Filed
  <2> QED
    BY <2>1, <2>2
<1> QED
  BY <1>5, <1>6, <1>7, <1>8 DEF Bookkeeping

-----------------------------------------------------------------------------
(***************************************************************************)
(* A window that is shown, and the steps that end in one.                  *)
(***************************************************************************)
LEMMA Arrive ==
    ASSUME TypeOK, Orderly, carried' \in BOOLEAN,
           NEW w \in Windows, NEW e \in Data, window' = w, data' = e,
           Standing(w, e), Bookkeeping(payments', surveyed', carried', e), Lone(w, e),
           Made(payments', w, e), Right(payments', failed', carried', w, e)
    PROVE  CheckoutInv'
<1>1. TypeOK'
  BY DEF TypeOK, Orderly, Longer
<1>2. shop' = shop
  BY DEF Orderly
<1>3. Standing(window, data)'
  BY <1>2 DEF Standing, HasDuration
<1>4. Known(payments, surveyed, data)' /\ Own(payments, carried, data)'
  BY DEF Bookkeeping, Known, Own
<1>5. Lone(window, data)'
  BY <1>2 DEF Lone, OnePlanOnly
<1>6. Made(payments, window, data)'
  BY <1>2 DEF Made, Filed, Direct, OnePlanOnly, SingleGateway
<1>7. Right(payments, failed, carried, window, data)'
  BY DEF Right
<1> QED
  BY <1>1, <1>3, <1>4, <1>5, <1>6, <1>7 DEF CheckoutInv

\* What the select handlers have in common.
LEMMA Paying ==
    ASSUME CheckoutInv, NEW d \in Data, NEW asset \in Opt(Assets), NEW w, NEW dw,
           PayFor(d, asset, w, dw), UNCHANGED <<shop, current>>, carried' \in BOOLEAN,
           HasDuration(d), d.method # None, d.ptype # None,
           d.is_free => <<d.plan, d.duration>> \in shop.free,
           Bookkeeping(payments, surveyed, carried', d), Lone("CONFIRM", d),
           Made(payments, "CONFIRM", d), asset # None \/ AllFiled(payments, d),
           Orderly /\ failed' = TRUE /\ Show(w, dw) => CheckoutInv'
    PROVE  CheckoutInv'
<1> DEFINE key == <<d.duration, d.method, asset>>
           choice == Selection(d, asset)
<1>1. TypeOK /\ payments \in Seq(Payment) /\ Len(payments) \in Nat
  BY LenProperties DEF CheckoutInv, TypeOK
<1>2. d.duration \in Days /\ d.plan \in Plans /\ d.method \in Gateways /\ d.ptype \in PurchaseTypes
      /\ d.cache \in [Key -> Opt(PaymentIds)] /\ d.since \subseteq PaymentIds
  BY DEF HasDuration, Data, Opt
<1>3. key \in Key
  BY <1>2 DEF Key
<1>4. choice \in Payment /\ KeyOf(choice) = key /\ choice.plan = d.plan /\ choice.ptype = d.ptype
      /\ choice.asset = asset
  BY <1>2 DEF Selection, Payment, KeyOf
<1>5. ASSUME d.cache[key] # None, Show("CONFIRM", Saved(d, d.cache[key])), failed' = FALSE, NoPayment
      PROVE  CheckoutInv'
  <2> DEFINE e == Saved(d, d.cache[key])
  <2>1. d.cache[key] \in d.since /\ KeyOf(payments[d.cache[key]]) = key /\ d.cache[key] \in PaymentIds
    BY <1>2, <1>3, <1>5 DEF Bookkeeping, Known, Opt
  <2>2. e \in Data
    BY <2>1 DEF Saved, Data, Opt
  <2>3. /\ e.plan = d.plan /\ e.ptype = d.ptype /\ e.duration = d.duration /\ e.method = d.method
        /\ e.cache = d.cache /\ e.shown = d.cache[key] /\ e.is_free = d.is_free
        /\ e.single_duration = d.single_duration /\ e.single_plan = d.single_plan
    BY DEF Saved, Data
  <2>4. e.since = d.since
    BY <2>1 DEF Saved, Data
  <2>5. Longer(payments, surveyed, payments', surveyed') /\ Orderly
    BY <1>1, <1>5, Unpaid DEF Orderly
  <2>6. Bookkeeping(payments', surveyed', carried', e)
        /\ \A i \in d.since : payments'[i] = payments[i] /\ (Filed(payments, d, i) => Filed(payments', e, i))
    BY <1>3, <1>5, <2>3, <2>4, <2>5, BooksKept
  <2>7. Renders("CONFIRM", e) /\ Rendered("CONFIRM", e) = e
    BY <1>5, <2>3 DEF Renders, Rendered, HasDuration
  <2>8. window' = "CONFIRM" /\ data' = e
    BY <1>5, <2>7 DEF Show
  <2>9. Standing("CONFIRM", e)
    BY <1>5, <2>3 DEF Standing, HasDuration
  <2>10. Lone("CONFIRM", e)
    BY <2>3, <2>4 DEF Lone
  <2>11. Made(payments', "CONFIRM", e)
    BY <2>3, <2>4, <2>6 DEF Made, Direct
  <2>12. Right(payments', failed', carried', "CONFIRM", e)
    <3>1. payments'[e.shown] = payments[d.cache[key]] /\ KeyOf(payments[d.cache[key]]) = key
      BY <2>1, <2>3, <2>6
    <3>2. ~carried' => payments[d.cache[key]].plan = d.plan /\ payments[d.cache[key]].ptype = d.ptype
      BY <1>3, <1>5 DEF Bookkeeping, Own
    <3> QED
      BY <2>3, <3>1, <3>2 DEF Right, KeyOf
  <2> HIDE DEF e
  <2> QED
    BY <1>1, <2>2, <2>5, <2>6, <2>8, <2>9, <2>10, <2>11, <2>12, Arrive DEF Windows
<1>6. ASSUME d.cache[key] = None, NEW id \in Opt(PaymentIds), id # None, CreatePayment(d, asset, id),
             Show("CONFIRM", Cached(d, key, id))
      PROVE  CheckoutInv'
  <2> DEFINE e == Cached(d, key, id)
  <2>1. /\ Orderly /\ failed' = FALSE /\ id \in PaymentIds /\ id \notin 1 .. Len(payments)
        /\ payments'[id] = choice /\ id \in surveyed'
    BY <1>1, <1>4, <1>6, Creating
  <2>2. e \in Data
    BY <1>3, <2>1 DEF Saved, Cached, Data, Opt
  <2>3. /\ e.plan = d.plan /\ e.ptype = d.ptype /\ e.duration = d.duration /\ e.method = d.method
        /\ e.cache = [d.cache EXCEPT ![key] = id] /\ e.shown = id /\ e.is_free = d.is_free
        /\ e.single_duration = d.single_duration /\ e.single_plan = d.single_plan
        /\ e.since = d.since \union {id}
    BY DEF Saved, Cached, Data
  <2>4. Longer(payments, surveyed, payments', surveyed')
    BY <2>1 DEF Orderly
  <2>5. /\ Bookkeeping(payments', surveyed', carried', e)
        /\ \A i \in d.since : i # id /\ payments'[i] = payments[i]
                             /\ (i # None => (Filed(payments, d, i) => Filed(payments', e, i)))
        /\ Filed(payments', e, id)
    <3> HIDE DEF e, key, choice
    <3> QED
      BY <1>3, <1>4, <1>6, <2>1, <2>3, <2>4, BooksFilled
  <2>6. Renders("CONFIRM", e) /\ Rendered("CONFIRM", e) = e
    BY <1>6, <2>3 DEF Renders, Rendered, HasDuration
  <2>7. window' = "CONFIRM" /\ data' = e
    BY <1>6, <2>6 DEF Show
  <2>8. Standing("CONFIRM", e)
    BY <1>6, <2>3 DEF Standing, HasDuration
  <2>9. Lone("CONFIRM", e)
    BY <2>3 DEF Lone
  <2>10. Made(payments', "CONFIRM", e)
    <3> SUFFICES ASSUME NEW i \in e.since PROVE Filed(payments', e, i) \/ Direct(payments', "CONFIRM", e, i)
      BY DEF Made
    <3>1. CASE i = id
      BY <2>5, <3>1
    <3>2. CASE i # id /\ Filed(payments, d, i)
      <4>1. i \in d.since /\ i # None
        BY <1>2, <2>3, <3>2, NoneApart DEF PaymentIds
      <4> QED
        BY <2>5, <3>2, <4>1
    <3>3. CASE i # id /\ ~Filed(payments, d, i)
      <4>1. i \in d.since /\ Direct(payments, "CONFIRM", d, i) /\ asset # None
        BY <2>3, <3>3 DEF Made, AllFiled
      <4>2. key[3] # None
        BY <4>1
      <4>3. \A k \in Key : k[3] = None => e.cache[k] = None
        BY <1>2, <1>3, <2>3, <4>1, <4>2 DEF Direct
      <4>4. payments'[i].asset = None
        BY <2>5, <4>1 DEF Direct
      <4>5. \A j \in e.since : payments'[j].asset = None => j = i
        BY <1>4, <2>1, <2>3, <2>5, <4>1 DEF Direct
      <4> QED
        BY <2>3, <4>1, <4>3, <4>4, <4>5 DEF Direct
    <3> QED
      BY <3>1, <3>2, <3>3
  <2>11. Right(payments', failed', carried', "CONFIRM", e)
    BY <1>4, <2>1, <2>3 DEF Right, KeyOf
  <2> HIDE DEF e
  <2> QED
    BY <1>1, <2>1, <2>2, <2>5, <2>7, <2>8, <2>9, <2>10, <2>11, Arrive DEF Windows
<1>7. ASSUME CreatePayment(d, asset, None), Show(w, dw)
      PROVE  CheckoutInv'
  BY <1>1, <1>4, <1>7, Creating
<1> QED
  BY <1>5, <1>6, <1>7, Zenon DEF PayFor

\* A window shown with no new payment on it.
LEMMA Moving ==
    ASSUME CheckoutInv, Orderly, carried' \in BOOLEAN, NEW w \in Windows, NEW d \in Data,
           Show(w, d), Renders(w, d), Standing(w, Rendered(w, d)), w = "CONFIRM" => failed' = TRUE,
           Bookkeeping(payments, surveyed, carried', d), Lone(w, d),
           Made(payments, w, d), w = "DURATION" => AllFiled(payments, d)
    PROVE  CheckoutInv'
<1> DEFINE e == Rendered(w, d)
<1>1. e \in Data /\ window' = w /\ data' = e
  BY DEF Rendered, Data, Show
<1>2. /\ e.plan = d.plan /\ e.ptype = d.ptype /\ e.method = d.method
      /\ e.cache = d.cache /\ e.shown = d.shown /\ e.since = d.since
      /\ e.single_duration = d.single_duration /\ e.single_plan = d.single_plan
      /\ w # "DURATION" => e = d
  BY DEF Rendered, Data
<1> HIDE DEF e
<1>3. Longer(payments, surveyed, payments', surveyed')
  BY DEF Orderly
<1>4. /\ Bookkeeping(payments', surveyed', carried', e)
      /\ \A i \in d.since : payments'[i] = payments[i] /\ (Filed(payments, d, i) => Filed(payments', e, i))
  BY <1>2, <1>3, BooksKept
<1>5. Lone(w, e)
  BY <1>2 DEF Lone
<1>6. Made(payments', w, e)
  <2>1. CASE w = "DURATION"
    BY <1>2, <1>4, <2>1 DEF AllFiled, Made
  <2>2. CASE w # "DURATION"
    BY <1>2, <1>4, <2>2 DEF Made, Direct
  <2> QED
    BY <2>1, <2>2
<1>7. Right(payments', failed', carried', w, e)
  BY DEF Right
<1>8. TypeOK /\ Standing(w, e)
  BY DEF CheckoutInv, e
<1> QED
  BY <1>1, <1>4, <1>5, <1>6, <1>7, <1>8, Arrive

\* A window that cannot be shown leaves the one before.
LEMMA Staying ==
    ASSUME CheckoutInv, Orderly, carried' \in BOOLEAN, carried => carried',
           UNCHANGED <<window, data>>, window # "CONFIRM"
    PROVE  CheckoutInv'
<1>1. TypeOK /\ window \in Windows /\ data \in Data
  BY DEF CheckoutInv, TypeOK
<1>2. Longer(payments, surveyed, payments', surveyed')
  BY DEF Orderly
<1>3. Bookkeeping(payments, surveyed, carried', data)
  BY DEF CheckoutInv, Bookkeeping, Own
<1>4. /\ Bookkeeping(payments', surveyed', carried', data)
      /\ \A i \in data.since : payments'[i] = payments[i] /\ (Filed(payments, data, i) => Filed(payments', data, i))
  BY <1>1, <1>2, <1>3, BooksKept
<1>5. Made(payments', window, data)
  BY <1>4 DEF CheckoutInv, Made, Direct
<1>6. Right(payments', failed', carried', window, data)
  BY DEF Right
<1>7. Standing(window, data) /\ Lone(window, data) /\ window' = window /\ data' = data
  BY DEF CheckoutInv
<1> QED
  BY <1>1, <1>4, <1>5, <1>6, <1>7, Arrive

\* on_duration_select, also as the end of on_plan_select.
LEMMA Choosing ==
    ASSUME CheckoutInv, NEW d \in Data, NEW days, d.plan \in Plans, days \in shop.durations[d.plan],
           d.ptype # None, ChooseDuration(d, days), UNCHANGED <<shop, current>>, carried' \in BOOLEAN,
           Bookkeeping(payments, surveyed, carried', d), AllFiled(payments, d),
           OnePlanOnly => d.single_plan
    PROVE  CheckoutInv'
<1> DEFINE free == <<d.plan, days>> \in shop.free
           d1 == [d EXCEPT !.duration = days, !.is_free = free]
           d2 == [d1 EXCEPT !.method = shop.gateways[1]]
           d3 == [d1 EXCEPT !.method = None]
<1>1. TypeOK
  BY DEF CheckoutInv
<1>2. days \in Days /\ shop.gateways[1] \in Gateways /\ days # None /\ d.plan # None /\ shop.gateways[1] # None
  BY <1>1, ShopHas, NoneApart
<1>13. free \in BOOLEAN /\ (free => <<d.plan, days>> \in shop.free)
  OBVIOUS
<1> HIDE DEF free
<1>3. d1 \in Data
  BY <1>2, <1>13 DEF Data, Opt
<1>4. d2 \in Data /\ d3 \in Data
  BY <1>2, <1>3 DEF Data, Opt
<1>5. \A e \in {d2, d3} :
         /\ e.plan = d.plan /\ e.ptype = d.ptype /\ e.duration = days /\ e.cache = d.cache
         /\ e.shown = d.shown /\ e.since = d.since /\ e.single_plan = d.single_plan
         /\ e.is_free = free
  BY <1>3 DEF Data
<1>6. d2.method = shop.gateways[1]
  BY <1>3 DEF Data
<1> HIDE DEF d1, d2, d3
<1>7. \A e \in {d2, d3} :
         /\ HasDuration(e) /\ (e.is_free => <<e.plan, e.duration>> \in shop.free) /\ e.ptype # None
         /\ Bookkeeping(payments, surveyed, carried', e) /\ AllFiled(payments, e)
  <2> SUFFICES ASSUME NEW e \in {d2, d3}
               PROVE  /\ HasDuration(e) /\ (e.is_free => <<e.plan, e.duration>> \in shop.free) /\ e.ptype # None
                      /\ Bookkeeping(payments, surveyed, carried', e) /\ AllFiled(payments, e)
    OBVIOUS
  <2>1. HasDuration(e) /\ e.ptype # None
    BY <1>2, <1>5 DEF HasDuration
  <2>2. e.is_free => <<e.plan, e.duration>> \in shop.free
    BY <1>5, <1>13
  <2>3. Bookkeeping(payments, surveyed, carried', e)
    BY <1>5 DEF Bookkeeping, Known, Own
  <2>4. AllFiled(payments, e)
    BY <1>5 DEF AllFiled, Filed
  <2> QED
    BY <2>1, <2>2, <2>3, <2>4
<1>8. \A e \in {d2, d3} : /\ Lone("CONFIRM", e) /\ Made(payments, "CONFIRM", e)
                          /\ Lone("PAYMENT_METHOD", e) /\ Made(payments, "PAYMENT_METHOD", e)
  BY <1>5, <1>7 DEF Lone, Made, AllFiled
<1>9. ASSUME Orderly, Show("PAYMENT_METHOD", d3) PROVE CheckoutInv'
  <2>1. Renders("PAYMENT_METHOD", d3) /\ Rendered("PAYMENT_METHOD", d3) = d3
    BY <1>7 DEF Renders, Rendered
  <2>2. Standing("PAYMENT_METHOD", d3)
    BY <1>7 DEF Standing
  <2> QED
    BY <1>4, <1>7, <1>8, <1>9, <2>1, <2>2, Moving DEF Windows
<1>10. ASSUME PayFor(d2, None, "PAYMENT_METHOD", d3) PROVE CheckoutInv'
  <2>1. None \in Opt(Assets)
    BY DEF Opt
  <2> QED
    BY <1>2, <1>4, <1>6, <1>7, <1>8, <1>9, <1>10, <2>1, Paying
<1>11. ASSUME Only("PAYMENT_METHOD", d3) PROVE CheckoutInv'
  BY <1>1, <1>9, <1>11, Unpaid DEF Only, CheckoutInv, TypeOK
<1>12. PayFor(d2, None, "PAYMENT_METHOD", d3) \/ Only("PAYMENT_METHOD", d3)
  BY Zenon DEF ChooseDuration, d1, d2, d3, free
<1> QED
  BY <1>10, <1>11, <1>12

-----------------------------------------------------------------------------
(***************************************************************************)
(* The handlers.                                                           *)
(***************************************************************************)
LEMMA SelectsPlan ==
    ASSUME CheckoutInv, NEW plan \in Plans, SelectPlan(plan)
    PROVE  CheckoutInv'
<1> DEFINE d == WithPlan(plan)
           d1 == [d EXCEPT !.single_duration = TRUE]
<1>1. TypeOK /\ data \in Data /\ window = "PLANS" /\ ~OnePlanOnly /\ data.ptype # None /\ plan # None
      /\ shop.durations[plan] # {} /\ UNCHANGED <<shop, current>> /\ carried' \in BOOLEAN
  BY ShopHas, NoneApart DEF CheckoutInv, TypeOK, SelectPlan, Lone, Standing
<1>2. EmptyCache \in [Key -> Opt(PaymentIds)] /\ \A k \in Key : EmptyCache[k] = None
  BY DEF EmptyCache, Opt
<1>3. /\ d \in Data /\ d.plan = plan /\ d.ptype = data.ptype /\ d.shown = data.shown
      /\ d.cache = EmptyCache /\ d.since = {}
  BY <1>1, <1>2 DEF WithPlan, Data, Opt
<1> HIDE DEF d
<1>4. /\ d1 \in Data /\ d1.plan = plan /\ d1.ptype = data.ptype /\ d1.shown = data.shown
      /\ d1.cache = EmptyCache /\ d1.since = {}
  BY <1>3 DEF Data
<1> HIDE DEF d1
<1>5. data.shown # None => data.shown \in surveyed
  BY DEF CheckoutInv, Known
<1>6. \A e \in {d, d1} : /\ Bookkeeping(payments, surveyed, carried', e) /\ AllFiled(payments, e)
                         /\ Made(payments, "DURATION", e) /\ Lone("DURATION", e)
  BY <1>1, <1>2, <1>3, <1>4, <1>5 DEF Bookkeeping, Known, Own, AllFiled, Made, Lone
<1>7. ASSUME NEW days, days \in shop.durations[plan], ChooseDuration(d1, days)
      PROVE  CheckoutInv'
  BY <1>1, <1>4, <1>6, <1>7, Choosing
<1>8. ASSUME Only("DURATION", d)
      PROVE  CheckoutInv'
  <2>1. Orderly /\ Show("DURATION", d)
    BY <1>1, <1>8, Unpaid DEF Only, TypeOK
  <2>2. Renders("DURATION", d) /\ Standing("DURATION", Rendered("DURATION", d))
    BY <1>1, <1>3 DEF Renders, Rendered, Standing, Data
  <2> QED
    BY <1>1, <1>3, <1>6, <2>1, <2>2, Moving DEF Windows
<1>9. (\E days \in shop.durations[plan] : ChooseDuration(d1, days)) \/ Only("DURATION", d)
  BY <1>1 DEF SelectPlan, d, d1
<1> QED
  BY <1>7, <1>8, <1>9

LEMMA SelectsDuration ==
    ASSUME CheckoutInv, NEW days \in Days, SelectDuration(days)
    PROVE  CheckoutInv'
<1>1. /\ TypeOK /\ data \in Data /\ window = "DURATION" /\ data.plan # None /\ data.ptype # None
      /\ days \in shop.durations[data.plan] /\ ChooseDuration(data, days)
      /\ UNCHANGED <<shop, current>> /\ carried' = carried /\ carried \in BOOLEAN
      /\ (OnePlanOnly => data.single_plan)
  BY DEF CheckoutInv, TypeOK, SelectDuration, Standing, Lone
<1>2. data.plan \in Plans
  BY <1>1 DEF Data, Opt
<1>3. Bookkeeping(payments, surveyed, carried', data) /\ AllFiled(payments, data)
  BY <1>1 DEF CheckoutInv, Bookkeeping, Own, Made, Direct, AllFiled
<1> QED
  BY <1>1, <1>2, <1>3, Choosing

LEMMA SelectsMethod ==
    ASSUME CheckoutInv, NEW method \in Gateways, SelectMethod(method)
    PROVE  CheckoutInv'
<1> DEFINE d == [data EXCEPT !.method = method]
<1>1. /\ TypeOK /\ data \in Data /\ window = "PAYMENT_METHOD" /\ data.ptype # None /\ HasDuration(data)
      /\ (data.is_free => <<data.plan, data.duration>> \in shop.free)
      /\ UNCHANGED <<shop, current>> /\ carried' = carried /\ carried \in BOOLEAN
  BY DEF CheckoutInv, TypeOK, SelectMethod, Standing
<1>2. method # None
  BY NoneApart
<1>3. /\ d \in Data /\ d.method = method /\ d.plan = data.plan /\ d.ptype = data.ptype /\ d.duration = data.duration
      /\ d.cache = data.cache /\ d.since = data.since /\ d.shown = data.shown /\ d.is_free = data.is_free
      /\ d.single_plan = data.single_plan /\ d.single_duration = data.single_duration
  BY <1>1 DEF Data, Opt
<1>4. (method = Plaidly /\ Only("CRYPTO_ASSET", d)) \/ (method # Plaidly /\ PayFor(d, None, "CONFIRM", d))
  BY DEF SelectMethod
<1> HIDE DEF d
<1>5. /\ HasDuration(d) /\ d.method # None /\ d.ptype # None
      /\ (d.is_free => <<d.plan, d.duration>> \in shop.free)
  BY <1>1, <1>2, <1>3 DEF HasDuration
<1>6. Bookkeeping(payments, surveyed, carried', d)
  BY <1>1, <1>3 DEF CheckoutInv, Bookkeeping, Known, Own
<1>7. Lone("CONFIRM", d) /\ Lone("CRYPTO_ASSET", d)
  BY <1>1, <1>3 DEF CheckoutInv, Lone
<1>8. CASE method = Plaidly /\ Only("CRYPTO_ASSET", d)
  <2>1. Orderly /\ Show("CRYPTO_ASSET", d)
    BY <1>1, <1>8, Unpaid DEF Only, TypeOK
  <2>2. Renders("CRYPTO_ASSET", d) /\ Standing("CRYPTO_ASSET", Rendered("CRYPTO_ASSET", d))
    BY <1>3, <1>5, <1>8 DEF Renders, Rendered, Standing
  <2>3. Made(payments, "CRYPTO_ASSET", d)
    BY <1>1, <1>3, <1>8 DEF CheckoutInv, Made, Direct, Filed
  <2> QED
    BY <1>1, <1>3, <1>6, <1>7, <2>1, <2>2, <2>3, Moving DEF Windows
<1>9. CASE method # Plaidly /\ PayFor(d, None, "CONFIRM", d)
  <2>1. SingleGateway => shop.gateways[1] = method
    BY DEF SelectMethod, SingleGateway
  <2>2. AllFiled(payments, d)
    BY <1>1, <1>3, <1>9, <2>1 DEF CheckoutInv, Made, Direct, AllFiled, Filed
  <2>3. Made(payments, "CONFIRM", d)
    BY <2>2 DEF Made, AllFiled
  <2>4. ASSUME Orderly, failed' = TRUE, Show("CONFIRM", d) PROVE CheckoutInv'
    <3>1. CASE Renders("CONFIRM", d)
      <4>1. Standing("CONFIRM", Rendered("CONFIRM", d))
        BY <1>5, <3>1 DEF Renders, Rendered, Standing
      <4> QED
        BY <1>1, <1>3, <1>6, <1>7, <2>3, <2>4, <3>1, <4>1, Moving DEF Windows
    <3>2. CASE ~Renders("CONFIRM", d)
      BY <1>1, <2>4, <3>2, Staying DEF Show
    <3> QED
      BY <3>1, <3>2
  <2>5. None \in Opt(Assets)
    BY DEF Opt
  <2> QED
    BY <1>1, <1>3, <1>5, <1>6, <1>7, <1>9, <2>2, <2>3, <2>4, <2>5, Paying
<1> QED
  BY <1>4, <1>8, <1>9

LEMMA SelectsAsset ==
    ASSUME CheckoutInv, NEW asset \in Assets, SelectAsset(asset)
    PROVE  CheckoutInv'
<1> DEFINE d == [data EXCEPT !.method = Plaidly, !.asset = asset]
<1>1. /\ TypeOK /\ data \in Data /\ window = "CRYPTO_ASSET" /\ data.ptype # None /\ HasDuration(data)
      /\ (data.is_free => <<data.plan, data.duration>> \in shop.free) /\ data.method = Plaidly /\ data.method # None
      /\ UNCHANGED <<shop, current>> /\ carried' = carried /\ carried \in BOOLEAN
  BY DEF CheckoutInv, TypeOK, SelectAsset, Standing
<1>2. asset # None /\ asset \in Opt(Assets)
  BY NoneApart DEF Opt
<1>3. /\ d \in Data /\ d.method = data.method /\ d.plan = data.plan /\ d.ptype = data.ptype /\ d.duration = data.duration
      /\ d.cache = data.cache /\ d.since = data.since /\ d.shown = data.shown /\ d.is_free = data.is_free
      /\ d.single_plan = data.single_plan /\ d.single_duration = data.single_duration
  BY <1>1, <1>2 DEF Data
<1>4. PayFor(d, asset, "CONFIRM", d)
  BY DEF SelectAsset
<1> HIDE DEF d
<1>5. /\ HasDuration(d) /\ d.method # None /\ d.ptype # None
      /\ (d.is_free => <<d.plan, d.duration>> \in shop.free)
  BY <1>1, <1>3 DEF HasDuration
<1>6. Bookkeeping(payments, surveyed, carried', d)
  BY <1>1, <1>3 DEF CheckoutInv, Bookkeeping, Known, Own
<1>7. Lone("CONFIRM", d)
  BY <1>1, <1>3 DEF CheckoutInv, Lone
<1>8. Made(payments, "CONFIRM", d)
  BY <1>1, <1>3 DEF CheckoutInv, Made, Direct, Filed
<1>9. ASSUME Orderly, failed' = TRUE, Show("CONFIRM", d) PROVE CheckoutInv'
  <2>1. CASE Renders("CONFIRM", d)
    <3>1. Standing("CONFIRM", Rendered("CONFIRM", d))
      BY <1>5, <2>1 DEF Renders, Rendered, Standing
    <3> QED
      BY <1>1, <1>3, <1>6, <1>7, <1>8, <1>9, <2>1, <3>1, Moving DEF Windows
  <2>2. CASE ~Renders("CONFIRM", d)
    BY <1>1, <1>9, <2>2, Staying DEF Show
  <2> QED
    BY <2>1, <2>2
<1> QED
  BY <1>1, <1>2, <1>3, <1>4, <1>5, <1>6, <1>7, <1>8, <1>9, Paying

LEMMA GoesBack ==
    ASSUME CheckoutInv, NEW to \in Windows, GoBack(to)
    PROVE  CheckoutInv'
<1>1. /\ TypeOK /\ data \in Data /\ Only(to, data) /\ Back(window, to)
      /\ UNCHANGED <<shop, current>> /\ carried' = carried /\ carried \in BOOLEAN
  BY DEF CheckoutInv, TypeOK, GoBack
<1>2. Orderly /\ Show(to, data)
  BY <1>1, Unpaid DEF Only, TypeOK
<1>3. Bookkeeping(payments, surveyed, carried', data)
  BY <1>1 DEF CheckoutInv, Bookkeeping, Own
<1>4. Standing(window, data) /\ Lone(window, data) /\ Made(payments, window, data)
  BY DEF CheckoutInv
<1>5. CASE to = "MAIN"
  BY <1>1, <1>2, <1>3, <1>4, <1>5, Moving DEF Back, Renders, Rendered, Standing, Lone, Made, Direct
<1>6. CASE to = "PLANS"
  BY <1>1, <1>2, <1>3, <1>4, <1>6, Moving DEF Back, Renders, Rendered, Standing, Lone, Made, Direct
<1>7. CASE to = "DURATION"
  <2>1. AllFiled(payments, data) /\ Made(payments, to, data)
    BY <1>1, <1>4, <1>7 DEF Back, AllFiled, Made, Direct
  <2>2. data.plan # None /\ data.ptype # None
    BY <1>1, <1>4, <1>7 DEF Back, Standing, HasDuration
  <2>3. Renders(to, data) /\ Standing(to, Rendered(to, data))
    BY <1>1, <1>7, <2>2 DEF Renders, Rendered, Standing, Data
  <2>4. Lone(to, data)
    BY <1>1, <1>4, <1>7 DEF Back, Lone
  <2> QED
    BY <1>1, <1>2, <1>3, <1>7, <2>1, <2>3, <2>4, Moving
<1>8. CASE to \in {"PAYMENT_METHOD", "CRYPTO_ASSET"}
  <2>1. Renders(to, data) /\ Standing(to, Rendered(to, data))
    BY <1>1, <1>4, <1>8 DEF Back, Renders, Rendered, Standing
  <2>2. Lone(to, data)
    BY <1>1, <1>4, <1>8 DEF Back, Lone
  <2>3. Made(payments, to, data)
    BY <1>1, <1>4, <1>8 DEF Back, Made, Direct
  <2> QED
    BY <1>1, <1>2, <1>3, <1>8, <2>1, <2>2, <2>3, Moving
<1> QED
  BY <1>1, <1>5, <1>6, <1>7, <1>8 DEF Back

LEMMA Leaves ==
    ASSUME CheckoutInv, Leave
    PROVE  CheckoutInv'
<1>1. /\ TypeOK /\ UNCHANGED <<shop, current>> /\ failed' = FALSE /\ carried' = FALSE
      /\ NoPayment /\ window' = "MAIN" /\ data' = Blank
  BY DEF CheckoutInv, Leave
<1>2. Orderly
  BY <1>1, Unpaid
<1>3. /\ Blank \in Data /\ Blank.shown = None /\ Blank.since = {} /\ Blank.cache = EmptyCache /\ ~Blank.is_free
      /\ \A k \in Key : Blank.cache[k] = None
  BY DEF Blank, Data, Opt, EmptyCache
<1>4. Standing("MAIN", Blank) /\ Lone("MAIN", Blank)
  BY <1>3 DEF Standing, Lone
<1>5. Bookkeeping(payments', surveyed', carried', Blank) /\ Made(payments', "MAIN", Blank)
      /\ Right(payments', failed', carried', "MAIN", Blank)
  BY <1>3 DEF Bookkeeping, Known, Own, Made, Right
<1> QED
  BY <1>1, <1>2, <1>3, <1>4, <1>5, Arrive DEF Windows

\* The rest of on_subscription_plans with one plan on sale.
LEMMA SelectsOnlyPlan ==
    ASSUME CheckoutInv, window = "MAIN", NEW d \in Data, NEW plan \in Plans, shop.plans = {plan},
           d.ptype # None, d.cache = data.cache, d.since = data.since, d.shown = data.shown, ~d.is_free,
           SinglePlan(d, plan), UNCHANGED <<shop, current>>, carried' \in BOOLEAN, carried => carried'
    PROVE  CheckoutInv'
<1> DEFINE days == CHOOSE k \in shop.durations[plan] : TRUE
           d1 == [d EXCEPT !.plan = plan, !.single_plan = TRUE]
           d2 == [d1 EXCEPT !.duration = days, !.single_duration = TRUE]
           d3 == [d2 EXCEPT !.method = shop.gateways[1]]
<1>1. TypeOK /\ data \in Data /\ OnePlanOnly /\ plan # None
  BY NoneApart DEF CheckoutInv, TypeOK, OnePlanOnly
<1>2. /\ days \in shop.durations[plan] /\ days \in Days /\ days # None
      /\ shop.gateways[1] \in Gateways /\ shop.gateways[1] # None
  BY <1>1, ShopHas, NoneApart
<1> HIDE DEF days
<1>3. d1 \in Data
  BY DEF Data, Opt
<1>4. d2 \in Data
  BY <1>2, <1>3 DEF Data, Opt
<1>5. d3 \in Data
  BY <1>2, <1>4 DEF Data, Opt
<1>6. \A e \in {d1, d2, d3} :
         /\ e.plan = plan /\ e.ptype = d.ptype /\ e.cache = data.cache /\ e.shown = data.shown
         /\ e.since = data.since /\ e.single_plan /\ ~e.is_free
  BY DEF Data
<1>7. /\ d2.duration = days /\ d3.duration = days /\ d3.single_duration /\ d3.method = shop.gateways[1]
  BY DEF Data
<1>8. \/ Only("DURATION", d1)
      \/ Only("PAYMENT_METHOD", d2)
      \/ SingleGateway /\ \E id \in Opt(PaymentIds) :
             CreatePayment(d3, None, id) /\ Show("CONFIRM", IF id = None THEN d3 ELSE Saved(d3, id))
  BY Zenon DEF SinglePlan, days, d1, d2, d3
<1> HIDE DEF d1, d2, d3
<1>9. data.since = {} /\ data.cache = EmptyCache /\ (data.shown # None => data.shown \in surveyed)
  BY <1>1 DEF CheckoutInv, Lone, Known
<1>10. \A k \in Key : EmptyCache[k] = None
  BY DEF EmptyCache
<1>11. \A e \in {d1, d2, d3} : \A w \in Windows \ {"MAIN", "PLANS"} :
          /\ Bookkeeping(payments, surveyed, carried', e) /\ Lone(w, e)
          /\ Made(payments, w, e) /\ AllFiled(payments, e)
  BY <1>6, <1>9, <1>10 DEF Bookkeeping, Known, Own, Lone, Made, AllFiled
<1>12. \A e \in {d2, d3} : HasDuration(e) /\ e.ptype # None
  BY <1>1, <1>2, <1>6, <1>7 DEF HasDuration
<1>13. ASSUME Only("DURATION", d1) PROVE CheckoutInv'
  <2>1. Orderly /\ Show("DURATION", d1)
    BY <1>1, <1>13, Unpaid DEF Only, TypeOK
  <2>2. Renders("DURATION", d1) /\ Standing("DURATION", Rendered("DURATION", d1))
    BY <1>1, <1>3, <1>6 DEF Renders, Rendered, Standing, Data
  <2> QED
    BY <1>3, <1>11, <2>1, <2>2, Moving DEF Windows
<1>14. ASSUME Only("PAYMENT_METHOD", d2) PROVE CheckoutInv'
  <2>1. Orderly /\ Show("PAYMENT_METHOD", d2)
    BY <1>1, <1>14, Unpaid DEF Only, TypeOK
  <2>2. Renders("PAYMENT_METHOD", d2) /\ Standing("PAYMENT_METHOD", Rendered("PAYMENT_METHOD", d2))
    BY <1>6, <1>12 DEF Renders, Rendered, Standing
  <2> QED
    BY <1>4, <1>11, <2>1, <2>2, Moving DEF Windows
<1> DEFINE choice == Selection(d3, None)
<1>15. choice \in Payment /\ KeyOf(choice) = <<days, shop.gateways[1], None>> /\ choice.plan = plan
       /\ choice.ptype = d.ptype /\ choice.asset = None
  <2>1. d.ptype \in PurchaseTypes
    BY DEF Data, Opt
  <2> QED
    BY <1>2, <1>6, <1>7, <2>1 DEF Selection, Payment, KeyOf, Opt
<1>16. ASSUME CreatePayment(d3, None, None), Show("CONFIRM", d3) PROVE CheckoutInv'
  <2>1. Orderly /\ failed' = TRUE
    BY <1>1, <1>15, <1>16, Creating
  <2>2. CASE Renders("CONFIRM", d3)
    <3>1. Standing("CONFIRM", Rendered("CONFIRM", d3))
      BY <1>6, <1>12, <2>2 DEF Renders, Rendered, Standing
    <3> QED
      BY <1>5, <1>11, <1>16, <2>1, <2>2, <3>1, Moving DEF Windows
  <2>3. CASE ~Renders("CONFIRM", d3)
    BY <1>16, <2>1, <2>3, Staying DEF Show
  <2> QED
    BY <2>2, <2>3
<1>17. ASSUME SingleGateway, NEW id \in Opt(PaymentIds), id # None,
              CreatePayment(d3, None, id), Show("CONFIRM", Saved(d3, id))
       PROVE  CheckoutInv'
  <2> DEFINE e == Saved(d3, id)
  <2>1. /\ Orderly /\ failed' = FALSE /\ id \in PaymentIds /\ payments'[id] = choice /\ id \in surveyed'
    BY <1>1, <1>15, <1>17, Creating
  <2>2. e \in Data
    BY <1>5, <2>1 DEF Saved, Data, Opt
  <2>3. /\ e.plan = plan /\ e.ptype = d.ptype /\ e.duration = days /\ e.method = shop.gateways[1]
        /\ e.cache = EmptyCache /\ e.shown = id /\ ~e.is_free /\ e.single_duration /\ e.single_plan
        /\ e.since = {id}
    BY <1>5, <1>6, <1>7, <1>9 DEF Saved, Data
  <2> HIDE DEF e, choice
  <2>4. Renders("CONFIRM", e) /\ Rendered("CONFIRM", e) = e /\ HasDuration(e)
    BY <1>1, <1>2, <1>17, <2>3 DEF Renders, Rendered, HasDuration
  <2>5. window' = "CONFIRM" /\ data' = e
    BY <1>17, <2>4 DEF Show, e
  <2>6. Standing("CONFIRM", e)
    BY <1>2, <1>17, <2>3, <2>4 DEF Standing
  <2>7. Bookkeeping(payments', surveyed', carried', e) /\ Lone("CONFIRM", e)
    BY <1>10, <2>1, <2>3 DEF Bookkeeping, Known, Own, Lone
  <2>8. Made(payments', "CONFIRM", e)
    BY <1>1, <1>10, <1>15, <1>17, <2>1, <2>3 DEF Made, Direct
  <2>9. Right(payments', failed', carried', "CONFIRM", e)
    BY <1>15, <2>1, <2>3 DEF Right, KeyOf
  <2> QED
    BY <1>1, <2>1, <2>2, <2>5, <2>6, <2>7, <2>8, <2>9, Arrive DEF Windows
<1> QED
  BY <1>8, <1>13, <1>14, <1>16, <1>17

LEMMA OpensPlans ==
    ASSUME CheckoutInv, NEW t \in PurchaseTypes, OpenPlans(t)
    PROVE  CheckoutInv'
<1> DEFINE d == [data EXCEPT !.ptype = t, !.duration = None]
           only == CHOOSE p \in shop.plans : TRUE
           renewed == [d EXCEPT !.plan = current, !.single_plan = TRUE]
           several == [d EXCEPT !.single_plan = FALSE, !.single_duration = FALSE]
<1>1. /\ TypeOK /\ data \in Data /\ window = "MAIN" /\ UNCHANGED <<shop, current>> /\ ~data.is_free
      /\ carried \in BOOLEAN /\ carried' = (carried \/ data.cache # EmptyCache)
  BY DEF CheckoutInv, TypeOK, OpenPlans, Standing
<1>2. carried' \in BOOLEAN /\ (carried => carried') /\ (~carried' => data.cache = EmptyCache)
  BY <1>1
<1>3. t # None /\ only \in shop.plans /\ only \in Plans
  BY <1>1, NoneApart, ShopHas
<1> HIDE DEF only
<1>4. /\ d \in Data /\ d.ptype = t /\ d.cache = data.cache /\ d.since = data.since /\ d.shown = data.shown
      /\ ~d.is_free
  BY <1>1 DEF Data, Opt
<1> HIDE DEF d
<1>5. \A k \in Key : EmptyCache[k] = None
  BY DEF EmptyCache
<1>6. ASSUME NEW e, e.cache = data.cache, e.since = data.since, e.shown = data.shown
      PROVE  /\ Bookkeeping(payments, surveyed, carried', e) /\ AllFiled(payments, e)
             /\ \A w \in Windows : Made(payments, w, e)
  <2>1. Known(payments, surveyed, e) /\ Own(payments, carried', e)
    BY <1>2, <1>5, <1>6 DEF CheckoutInv, Known, Own
  <2>2. AllFiled(payments, e)
    BY <1>1, <1>6 DEF CheckoutInv, Made, Direct, AllFiled, Filed
  <2> QED
    BY <2>1, <2>2 DEF Bookkeeping, Made, AllFiled
<1>7. CASE Renews(t) /\ current \in shop.plans /\ Only("DURATION", renewed)
  <2>1. current \in Plans /\ current # None
    BY <1>1, <1>7, ShopHas DEF Renews
  <2>2. /\ renewed \in Data /\ renewed.plan = current /\ renewed.single_plan /\ renewed.ptype = t
        /\ renewed.cache = data.cache /\ renewed.since = data.since /\ renewed.shown = data.shown
    BY <1>4, <2>1 DEF Data, Opt
  <2> HIDE DEF renewed
  <2>3. Orderly /\ Show("DURATION", renewed)
    BY <1>1, <1>7, Unpaid DEF Only, TypeOK
  <2>4. Renders("DURATION", renewed) /\ Standing("DURATION", Rendered("DURATION", renewed)) /\ Lone("DURATION", renewed)
    BY <1>3, <2>1, <2>2 DEF Renders, Rendered, Standing, Data, Lone
  <2> QED
    BY <1>2, <1>6, <2>2, <2>3, <2>4, Moving DEF Windows
<1>8. CASE Only("MAIN", d)
  <2>1. Orderly /\ Show("MAIN", d)
    BY <1>1, <1>8, Unpaid DEF Only, TypeOK
  <2>2. Renders("MAIN", d) /\ Standing("MAIN", Rendered("MAIN", d)) /\ Lone("MAIN", d)
    BY <1>1, <1>4 DEF Renders, Rendered, Standing, CheckoutInv, Lone
  <2> QED
    BY <1>2, <1>4, <1>6, <2>1, <2>2, Moving DEF Windows
<1>9. CASE shop.plans = {only} /\ SinglePlan(d, only)
  BY <1>1, <1>2, <1>3, <1>4, <1>9, SelectsOnlyPlan
<1>10. CASE shop.plans # {only} /\ Only("PLANS", several)
  <2>1. /\ several \in Data /\ several.ptype = t /\ ~several.is_free
        /\ several.cache = data.cache /\ several.since = data.since /\ several.shown = data.shown
    BY <1>4 DEF Data
  <2> HIDE DEF several
  <2>2. Orderly /\ Show("PLANS", several)
    BY <1>1, <1>10, Unpaid DEF Only, TypeOK
  <2>3. ~OnePlanOnly
    BY <1>3, <1>10 DEF OnePlanOnly
  <2>4. Renders("PLANS", several) /\ Standing("PLANS", Rendered("PLANS", several)) /\ Lone("PLANS", several)
    BY <1>3, <2>1, <2>3 DEF Renders, Rendered, Standing, Lone
  <2> QED
    BY <1>2, <1>6, <2>1, <2>2, <2>4, Moving DEF Windows
<1>11. \/ Renews(t) /\ current \in shop.plans /\ Only("DURATION", renewed)
       \/ Only("MAIN", d)
       \/ shop.plans = {only} /\ SinglePlan(d, only)
       \/ shop.plans # {only} /\ Only("PLANS", several)
  BY Zenon DEF OpenPlans, d, only, renewed, several
<1> QED
  BY <1>7, <1>8, <1>9, <1>10, <1>11

-----------------------------------------------------------------------------
(***************************************************************************)
(* The invariant, and what follows from it.                                *)
(***************************************************************************)
LEMMA CheckoutBegins == Init => CheckoutInv
<1> SUFFICES ASSUME Init PROVE CheckoutInv
  OBVIOUS
<1>1. /\ Blank \in Data /\ Blank.shown = None /\ Blank.since = {} /\ Blank.cache = EmptyCache /\ ~Blank.is_free
      /\ \A k \in Key : Blank.cache[k] = None
  BY DEF Blank, Data, Opt, EmptyCache
<1>2. shop.plans \subseteq Plans
  BY CheckoutAssumption DEF Init, ShopType
<1>3. payments \in Seq(Payment) /\ Len(payments) = 0 /\ MaxPayments \in Nat /\ MaxFaults \in Nat
  BY CheckoutAssumption, EmptySeq DEF Init
<1>4. TypeOK
  <2>1. shop \in Shops /\ current \in Plans \union {None, Unlisted} /\ window \in Windows /\ data \in Data
    BY <1>1, <1>2 DEF Init, Windows
  <2>2. payments \in Seq(Payment) /\ Len(payments) <= MaxPayments /\ surveyed \subseteq 1 .. Len(payments)
    BY <1>3 DEF Init
  <2>3. failed \in BOOLEAN /\ carried \in BOOLEAN
    BY DEF Init
  <2>4. faults \in 0 .. MaxFaults
    BY <1>3 DEF Init
  <2> QED
    BY <2>1, <2>2, <2>3, <2>4 DEF TypeOK
<1>5. Standing(window, data) /\ Lone(window, data) /\ Known(payments, surveyed, data)
  BY <1>1 DEF Init, Standing, Lone, Known
<1>6. /\ Made(payments, window, data) /\ Own(payments, carried, data)
      /\ Right(payments, failed, carried, window, data)
  BY <1>1 DEF Init, Made, Own, Right
<1> QED
  BY <1>4, <1>5, <1>6 DEF CheckoutInv

LEMMA CheckoutSteps == CheckoutInv /\ [Next]_vars => CheckoutInv'
<1> SUFFICES ASSUME CheckoutInv, [Next]_vars PROVE CheckoutInv'
  OBVIOUS
<1>1. CASE UNCHANGED vars
  BY <1>1 DEF vars, CheckoutInv, TypeOK, Standing, HasDuration, Known, Lone, OnePlanOnly, Made, Filed, Direct,
              SingleGateway, Own, Right
<1>2. CASE Next
  BY <1>2, OpensPlans, SelectsPlan, SelectsDuration, SelectsMethod, SelectsAsset, GoesBack, Leaves DEF Next
<1> QED
  BY <1>1, <1>2

LEMMA CheckoutCorrect == Spec => []CheckoutInv
BY CheckoutBegins, CheckoutSteps, PTL DEF Spec

\* The dialog's data, the payments and the surveys keep their types, whatever shops,
\* buttons and failures there are (bot/routers/subscription/handlers.py).
THEOREM TypeCorrect == Spec => []TypeOK
<1>1. CheckoutInv => TypeOK
  BY DEF CheckoutInv
<1> QED
  BY <1>1, CheckoutCorrect, PTL

\* The payment confirmed is the one the window describes, but after a failure or over a
\* cache carried from another purchase (handlers.py:51-53, 422, 592).
THEOREM ConfirmsChoice == Spec => []ConfirmAgrees
<1>1. CheckoutInv => ConfirmAgrees
  BY DEF CheckoutInv, Standing, Right, ConfirmAgrees, Agrees, Shown
<1> QED
  BY <1>1, CheckoutCorrect, PTL

\* No two payments are created for one choice, whatever way the buttons lead back to it
\* (handlers.py:51-53, the cache in on_payment_method_select and the others).
THEOREM PaysOnce == Spec => []NoDoublePayment
<1>1. CheckoutInv => NoDoublePayment
  <2> SUFFICES ASSUME CheckoutInv, NEW i \in data.since, NEW j \in data.since, payments[i] = payments[j]
               PROVE  i = j
    BY DEF NoDoublePayment
  <2>1. CASE Filed(payments, data, i) /\ Filed(payments, data, j)
    BY <2>1 DEF Filed
  <2>2. CASE ~Filed(payments, data, i)
    BY <2>2 DEF CheckoutInv, Made, Direct
  <2>3. CASE ~Filed(payments, data, j)
    BY <2>3 DEF CheckoutInv, Made, Direct
  <2> QED
    BY <2>1, <2>2, <2>3
<1> QED
  BY <1>1, CheckoutCorrect, PTL

\* Whatever payment is on the confirmation window, its survey was scheduled
\* (handlers.py:128-160).
THEOREM ShowsSurveyed == Spec => []ShownIsSurveyed
<1>1. CheckoutInv => ShownIsSurveyed
  BY DEF CheckoutInv, Standing, Known, ShownIsSurveyed
<1> QED
  BY <1>1, CheckoutCorrect, PTL
=============================================================================
