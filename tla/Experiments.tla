----------------------------- MODULE Experiments -----------------------------
(***************************************************************************)
(* ExperimentService and the handlers that ask it.  dishka makes one       *)
(* service per request (an update, a webhook, a task), so the fetched      *)
(* configuration, the circuit and "the cached configuration is safe" live  *)
(* as long as the request; shared are the configuration Estimand           *)
(* publishes, the markers "exposed" in Redis and the metrics.              *)
(*                                                                         *)
(* An evaluation blocks the event loop and is atomic; between evaluations  *)
(* a request awaits Redis or billing, and the clock, in units of 30        *)
(* seconds (the lifetime of a fetched configuration and of an open         *)
(* circuit), goes on.  What is sent to Estimand besides the metric is the  *)
(* same event, dropped while the circuit is open, and is left out.         *)
(***************************************************************************)
EXTENDS Estimand

CONSTANTS
    Units,              \* users, by their telegram id
    Requests,           \* requests handled at once
    Configs,            \* [revision, features]: what Estimand may publish
    Configured,         \* APP_EXPERIMENT_ESTIMAND_*: enabled and complete
    TrialEnabled, TrialOnWeight,  \* the local experiment of the trial offer
    Enrolled,           \* per feature, the users created since its start date
    LocalBucket(_, _),  \* _bucket: salt, telegram id; 0..99
    Payload(_, _),      \* the value of a variation of a feature, Absent if it has none
    MaxNow, MaxRequests, MaxPublications, MaxFailures  \* bounds

ASSUME ConfigsAssumption == \A c, d \in Configs : c.revision = d.revision => c = d
\* What is published is well-formed, and has a bucket for every user wherever it asks for one.
ASSUME FeaturesAssumption ==
    \A c \in Configs : \A f \in DOMAIN c.features :
        LET feature == c.features[f] IN
        /\ IsFeature(feature)
        /\ \A rule \in ToSet(feature.rules), u \in Units, v \in {1, 2} :
              /\ rule # Absent
              /\ Hash(SeedOf(feature, rule), u, v) \in 0..(Scale - 1)

VARIABLES
    clock,
    published,      \* what Estimand publishes now
    exposedKeys,    \* Redis: exp_exposed:<feature>:<user>:<revision>:<variant>
    attribution,    \* billing: the variants stored with the payments created
    request,        \* per request: its service's state and the steps it has still to do
    exposures,      \* metric EXPERIMENT_EXPOSURES_TOTAL
    conversions,    \* metric EXPERIMENT_CONVERSIONS_TOTAL, with what the request had shown the user, if anything
    unrecorded,     \* history: users for whom Redis failed, or a request was stopped, at an exposure
    begun, publications, failures

experimentVars == <<clock, published, exposedKeys, attribution, request, exposures, conversions,
                    unrecorded, begun, publications, failures>>

----------------------------------------------------------------------------
(***************************************************************************)
(* core/experiments.py and _build_features: a feature's local experiment,  *)
(* and whether Estimand is asked at all.                                   *)
(***************************************************************************)

FeatureSpec ==
    LET Off(name) == [variants |-> <<name \o "_v1_off", name \o "_v1_on">>, weights |-> <<100, 0>>,
                      enabled |-> FALSE, salt |-> name \o "_v1", remote |-> Configured] IN
    [trial_offer |-> [variants |-> <<"trial_on", "trial_off">>, weights |-> <<TrialOnWeight, 100 - TrialOnWeight>>,
                      enabled |-> TrialEnabled, salt |-> "trial_offer_v1", remote |-> Configured /\ TrialEnabled],
     checkout_flow |-> Off("checkout_flow"), intro_price |-> Off("intro_price"),
     start_tier_price |-> Off("start_tier_price"), payment_rescue |-> Off("payment_rescue")]

\* A local experiment reports its salt as its revision: no revision of Estimand is one.
ASSUME RevisionsAssumption ==
    /\ \A c \in Configs : c.revision # Absent
    /\ \A f \in DOMAIN FeatureSpec : FeatureSpec[f].salt \notin {Absent} \cup {c.revision : c \in Configs}

AssignVariant(spec, unit) ==
    LET below(i) == LocalBucket(spec.salt, unit) < Total(SubSeq(spec.weights, 1, i))
        chosen == {i \in DOMAIN spec.variants : below(i)}
    IN IF ~spec.enabled THEN spec.variants[1]
       ELSE IF chosen = {} THEN Last(spec.variants) ELSE spec.variants[Min(chosen)]

Local(f, variant, track) ==
    [feature |-> f, variant |-> variant, payload |-> Absent, revision |-> FeatureSpec[f].salt, track |-> track]
\* mutant: a fallback is always counted
LocalFallbackCounted(f, unit, track) == Local(f, AssignVariant(FeatureSpec[f], unit), TRUE)
LocalFallback(f, unit, track) == Local(f, AssignVariant(FeatureSpec[f], unit), track)

----------------------------------------------------------------------------
\* What of a configuration matters to the service: what it serves to whom, or that asking
\* is an error.
Publication(c) ==
    [revision |-> c.revision,
     serves |-> [f \in DOMAIN FeatureSpec |-> [u \in Units |->
                   IF Breaks(c, f, u) THEN [breaks |-> TRUE, variant |-> Absent]
                   ELSE [breaks |-> FALSE, variant |-> Evaluated(c, f, u)]]]]
Publications == {Publication(c) : c \in Configs}

(***************************************************************************)
(* The service of one request: config, fetched at `at`, safe to reuse,     *)
(* and no fetch before `retry`.                                            *)
(***************************************************************************)

NewService == [config |-> Absent, at |-> 0, safe |-> FALSE, retry |-> 0]

OpenCircuit(q) == [q EXCEPT !.retry = clock + 1]
Reusable(q) == IF q.safe THEN q.config ELSE Absent

\* _fetch_estimand_config; answer is Absent when the request to Estimand fails
FetchConfig(q, answer) ==
    IF q.config # Absent /\ q.at = clock THEN [q |-> q, config |-> q.config]
    ELSE IF clock < q.retry THEN [q |-> q, config |-> Reusable(q)]
    ELSE IF answer # Absent
    THEN [q |-> [config |-> answer, at |-> clock, safe |-> TRUE, retry |-> 0], config |-> answer]
    ELSE [q |-> OpenCircuit(q), config |-> Reusable(q)]

Valid(f, variant) == variant # Absent /\ (f = "trial_offer" => variant \in ToSet(FeatureSpec[f].variants))

\* _evaluate: the service afterwards, and the evaluation
Evaluate(service, f, unit, answer) ==
    LET fetched == FetchConfig(service, answer)
        config == fetched.config
        serves == config.serves[f][unit]
    IN IF unit \notin Enrolled[f]
       THEN [q |-> service, e |-> Local(f, FeatureSpec[f].variants[1], FALSE)]
       ELSE IF ~FeatureSpec[f].remote THEN [q |-> service, e |-> LocalFallback(f, unit, TRUE)]
       ELSE IF config = Absent THEN [q |-> fetched.q, e |-> LocalFallback(f, unit, FALSE)]
       ELSE IF serves.breaks
       THEN [q |-> OpenCircuit([fetched.q EXCEPT !.safe = FALSE]), e |-> LocalFallback(f, unit, FALSE)]
       ELSE IF Valid(f, serves.variant)
       THEN [q |-> fetched.q, e |-> [feature |-> f, variant |-> serves.variant, payload |-> Payload(f, serves.variant),
                                     revision |-> config.revision, track |-> TRUE]]
       ELSE [q |-> fetched.q, e |-> LocalFallback(f, unit, FALSE)]

----------------------------------------------------------------------------
(***************************************************************************)
(* Requests: steps <<op, ...>> that are still to be done.                  *)
(***************************************************************************)

NoRequest == [unit |-> Absent, service |-> NewService, shown |-> Absent, todo |-> <<>>]
Does(r, op) == request[r].todo # <<>> /\ Head(request[r].todo).op = op
Step(r) == Head(request[r].todo)

Ends(q) == IF q.todo = <<>> THEN NoRequest ELSE q
Follow(r, service, shown, steps) ==
    request' = [request EXCEPT ![r] = Ends([unit |-> @.unit, service |-> service, shown |-> shown,
                                            todo |-> steps \o Tail(@.todo)])]
Advance(r) == Follow(r, request[r].service, request[r].shown, <<>>)

\* mutant: the marker does not name the revision
ExposureKeyBare(e, unit) == [feature |-> e.feature, unit |-> unit, variant |-> e.variant]
ExposureKey(e, unit) == [feature |-> e.feature, unit |-> unit, revision |-> e.revision, variant |-> e.variant]
Counted(e, unit) == [feature |-> e.feature, unit |-> unit, revision |-> e.revision, variant |-> e.variant]

\* record_evaluated_conversion
RecordConversion(e, unit, shown) ==
    conversions' = IF e.track
                   THEN conversions \cup {[of |-> Counted(e, unit),
                                           shown |-> {Counted(s, unit) : s \in {shown} \ {Absent}}]}
                   ELSE conversions

Fetches == {published} \cup (IF failures < MaxFailures THEN {Absent} ELSE {})
Answered(answer) == failures' = IF answer = Absent THEN failures + 1 ELSE failures

do(op) == [op |-> op]
doing(op, e) == [op |-> op, e |-> e]
asking(op, f) == [op |-> op, f |-> f]

\* menu_getter, on_get_trial, _create_payment, the two webhook outcomes, the cancel
\* survey's buttons, and the pricing outcome billing reports
Programs ==
    {<<asking("expose", "trial_offer")>>,
     <<asking("expose", "trial_offer"), do("offered"), asking("convert", "trial_offer")>>,
     <<asking("expose", "checkout_flow"), asking("convert", "checkout_flow")>>,
     <<asking("convert", "payment_rescue")>>}
    \cup {<<[op |-> "context", eligible |-> s]>> : s \in SUBSET {"intro_price", "start_tier_price"}}

BeginRequest(r, unit) ==
    /\ request[r] = NoRequest /\ begun < MaxRequests
    /\ \E program \in Programs \cup {<<doing("outcome", a)>> : a \in {x \in attribution : x.unit = unit}} :
          request' = [request EXCEPT ![r] = [NoRequest EXCEPT !.unit = unit, !.todo = program]]
    /\ begun' = begun + 1
    /\ UNCHANGED <<clock, published, exposedKeys, attribution, exposures, conversions, unrecorded, publications, failures>>

\* expose: evaluate, then the marker in Redis if the evaluation is tracked
Expose(r) ==
    /\ Does(r, "expose")
    /\ \E answer \in Fetches :
          LET got == Evaluate(request[r].service, Step(r).f, request[r].unit, answer) IN
          /\ Follow(r, got.q, got.e, IF got.e.track THEN <<doing("set", got.e)>> ELSE <<>>)
          /\ Answered(answer)
    /\ UNCHANGED <<clock, published, exposedKeys, attribution, exposures, conversions, unrecorded, begun, publications>>

\* mutant: the exposure is counted and not marked
SetExposedNot(r) ==
    /\ Does(r, "set")
    /\ exposures' = exposures \cup {Counted(Step(r).e, request[r].unit)}
    /\ Advance(r)
    /\ UNCHANGED <<clock, published, exposedKeys, attribution, conversions, unrecorded, begun, publications, failures>>

\* expose_evaluation: the first to set the key counts
SetExposed(r) ==
    /\ Does(r, "set")
    /\ LET e == Step(r).e
           key == ExposureKey(e, request[r].unit) IN
       /\ exposures' = IF key \in exposedKeys THEN exposures ELSE exposures \cup {Counted(e, request[r].unit)}
       /\ exposedKeys' = exposedKeys \cup {key}
    /\ Advance(r)
    /\ UNCHANGED <<clock, published, attribution, conversions, unrecorded, begun, publications, failures>>

\* Redis raises, whether or not it has set the key: the exception is swallowed
SetFails(r) ==
    /\ Does(r, "set") /\ failures < MaxFailures
    /\ \/ exposedKeys' = exposedKeys \cup {ExposureKey(Step(r).e, request[r].unit)}
       \/ UNCHANGED exposedKeys
    /\ unrecorded' = unrecorded \cup {request[r].unit}
    /\ failures' = failures + 1
    /\ Advance(r)
    /\ UNCHANGED <<clock, published, attribution, exposures, conversions, begun, publications>>

\* on_get_trial: the offer is on, and billing has a trial for the user, or the handler ends
Offered(r) ==
    /\ Does(r, "offered")
    /\ \/ request[r].shown.variant = FeatureSpec["trial_offer"].variants[1] /\ Advance(r)
       \/ request' = [request EXCEPT ![r] = NoRequest]
    /\ UNCHANGED <<clock, published, exposedKeys, attribution, exposures, conversions, unrecorded, begun, publications, failures>>

\* record_conversion evaluates once more
Convert(r) ==
    /\ Does(r, "convert")
    /\ \E answer \in Fetches :
          LET got == Evaluate(request[r].service, Step(r).f, request[r].unit, answer) IN
          /\ RecordConversion(got.e, request[r].unit, request[r].shown)
          /\ Follow(r, got.q, request[r].shown, <<>>)
          /\ Answered(answer)
    /\ UNCHANGED <<clock, published, exposedKeys, attribution, exposures, unrecorded, begun, publications>>

\* build_checkout_context: the flow, and the first pricing experiment with a payload that
\* the purchase is eligible for (one month; new, or of the start tier); then track_checkout_event, twice, around create_payment
Context(r) ==
    /\ Does(r, "context")
    /\ \E answer \in Fetches :
          LET unit == request[r].unit
              flow == Evaluate(request[r].service, "checkout_flow", unit, answer)
              intro == Evaluate(flow.q, "intro_price", unit, answer)
              start == Evaluate(intro.q, "start_tier_price", unit, answer)
              eligible(e) == e.payload # Absent /\ e.feature \in Step(r).eligible
              pricing == IF eligible(intro.e) THEN intro.e ELSE start.e
              track(e) == IF e.track THEN <<doing("set", e), doing("count", e)>> ELSE <<>>
              event == track(flow.e) \o (IF eligible(pricing) THEN track(pricing) ELSE <<>>)
              pay == IF eligible(pricing) THEN <<doing("pay", pricing)>> ELSE <<>>
          IN /\ Follow(r, IF eligible(intro.e) THEN intro.q ELSE start.q, Absent, event \o pay \o event)
             /\ Answered(answer)
    /\ UNCHANGED <<clock, published, exposedKeys, attribution, exposures, conversions, unrecorded, begun, publications>>

CountEvent(r) ==
    /\ Does(r, "count")
    /\ RecordConversion(Step(r).e, request[r].unit, Step(r).e)
    /\ Advance(r)
    /\ UNCHANGED <<clock, published, exposedKeys, attribution, exposures, unrecorded, begun, publications, failures>>

\* create_payment stores billing_experiment with the payment
Pay(r) ==
    /\ Does(r, "pay")
    /\ attribution' = attribution \cup {[unit |-> request[r].unit, feature |-> Step(r).e.feature, variant |-> Step(r).e.variant]}
    /\ Advance(r)
    /\ UNCHANGED <<clock, published, exposedKeys, exposures, conversions, unrecorded, begun, publications, failures>>

\* track_payment_outcome: record_attributed_conversion takes the variant as it is
Attribute(r) ==
    /\ Does(r, "outcome")
    /\ RecordConversion([feature |-> Step(r).e.feature, variant |-> Step(r).e.variant, payload |-> Absent,
                         revision |-> Absent, track |-> TRUE], request[r].unit, Absent)
    /\ Advance(r)
    /\ UNCHANGED <<clock, published, exposedKeys, attribution, exposures, unrecorded, begun, publications, failures>>

\* an exception at billing, or a crash
RequestFault(r) ==
    /\ request[r] # NoRequest /\ failures < MaxFailures
    /\ failures' = failures + 1
    /\ request' = [request EXCEPT ![r] = NoRequest]
    /\ UNCHANGED <<clock, published, exposedKeys, attribution, exposures, conversions, unrecorded, begun, publications>>

\* 30 seconds pass, or Estimand publishes another configuration
Passes ==
    /\ clock < MaxNow /\ clock' = clock + 1
    /\ UNCHANGED <<published, exposedKeys, attribution, request, exposures, conversions, unrecorded, begun, publications, failures>>
Publish ==
    /\ publications < MaxPublications /\ publications' = publications + 1
    /\ \E p \in Publications \ {published} : published' = p
    /\ UNCHANGED <<clock, exposedKeys, attribution, request, exposures, conversions, unrecorded, begun, failures>>

RequestStep(r) ==
    \/ Expose(r) \/ SetExposed(r) \/ SetFails(r) \/ Offered(r) \/ Convert(r)
    \/ Context(r) \/ CountEvent(r) \/ Pay(r) \/ Attribute(r)

ExperimentsInit ==
    /\ clock = 0 /\ published \in Publications
    /\ exposedKeys = {} /\ attribution = {} /\ exposures = {} /\ conversions = {} /\ unrecorded = {}
    /\ request = [r \in Requests |-> NoRequest]
    /\ begun = 0 /\ publications = 0 /\ failures = 0

ExperimentsNext ==
    \/ \E r \in Requests : (\E unit \in Units : BeginRequest(r, unit)) \/ RequestStep(r) \/ RequestFault(r)
    \/ Passes \/ Publish

ExperimentsSpec == ExperimentsInit /\ [][ExperimentsNext]_experimentVars

----------------------------------------------------------------------------

\* Whatever is counted while Estimand decides was decided by Estimand: the variant is the
\* one the configuration of that revision serves the user, never a local fallback
\* (experiment.py:549-633, 736-779).
CountedAsServed ==
    \A x \in exposures \cup {c.of : c \in {d \in conversions : d.of.revision # Absent}} :
        FeatureSpec[x.feature].remote =>
            \E p \in Publications : p.revision = x.revision /\ p.serves[x.feature][x.unit].variant = x.variant

\* A conversion is counted for a variant whose exposure was counted, in whatever request -
\* unless Redis failed at the exposure, or the request re-evaluated the feature under a
\* configuration other than the one it had shown the user, or showed nothing
\* (experiment.py:736-841; checkout_experiments.py:178-200).
ConversionsExposed ==
    \A c \in conversions :
        \/ c.of \in exposures \/ c.of.unit \in unrecorded
        \/ c.of.revision = Absent /\ \E x \in exposures : x.unit = c.of.unit /\ x.feature = c.of.feature /\ x.variant = c.of.variant
        \/ c.of.revision # Absent /\ c.of \notin c.shown

\* Widening the coverage of a feature moves nobody: a user who was served a variant is
\* served the same one by a configuration that differs in a larger coverage only
\* (assignment.py:45-84).
Widened ==
    {x \in Configs \X Configs \X DOMAIN FeatureSpec :
        LET f == x[3] old == x[1].features[f] new == x[2].features[f] IN
        /\ f \in DOMAIN x[1].features \cap DOMAIN x[2].features
        /\ Len(old.rules) = Len(new.rules)
        /\ \A i \in DOMAIN old.rules :
              old.rules[i].coverage <= new.rules[i].coverage /\ [old.rules[i] EXCEPT !.coverage = new.rules[i].coverage] = new.rules[i]
        /\ [old EXCEPT !.rules = new.rules] = new}
Widenings == {[from |-> x[1].revision, to |-> x[2].revision, feature |-> x[3]] : x \in Widened}
CoverageSticky ==
    \A x \in exposures :
        [from |-> x.revision, to |-> published.revision, feature |-> x.feature] \in Widenings =>
            published.serves[x.feature][x.unit].variant = x.variant

ExperimentsTypeOK ==
    /\ \A x \in exposures : x.unit \in Units /\ x.feature \in DOMAIN FeatureSpec
    /\ exposures \subseteq exposedKeys
    /\ \A r \in Requests : LET q == request[r].service IN
          /\ request[r].unit \in Units \cup {Absent}
          /\ q.config \in Publications \cup {Absent}
          /\ q.config = Absent => ~q.safe
    /\ clock \in Nat /\ failures \in Nat
=============================================================================
