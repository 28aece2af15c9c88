----------------------------- MODULE MCNewcomers -----------------------------
(***************************************************************************)
(* Bounds of the run of Newcomers: one person with two updates on the way, *)
(* two reminders and two runs of the task, one unit of the experiments     *)
(* with two requests and four configurations.                              *)
(***************************************************************************)
EXTENDS Newcomers

CONSTANTS p1, u1, m1, m2, s1, s2, e1

----------------------------------------------------------------------------
Open == [mode |-> "PUBLIC", purchases |-> TRUE, registration |-> TRUE, rules |-> FALSE, channel |-> FALSE, invitee |-> FALSE]
MCHouse(settings, kinds, knows, updates, turns, faults) ==
    [kinds |-> kinds, knows |-> knows, updates |-> updates, turns |-> turns, faults |-> faults] @@ settings
Of(user, subscription) == [user |-> user, referred |-> FALSE, squad |-> FALSE, subscription |-> subscription]
Stranger == Of(Nobody, "none")
Customer == Of([NewUser EXCEPT !.accepted = TRUE], "paid")
Boss == Of([NewUser EXCEPT !.privileged = TRUE], "none")
MCHouses ==
    {MCHouse([Open EXCEPT !.rules = TRUE, !.invitee = TRUE], {"ref", "accept"}, {Stranger}, 2, 0, 1),
     MCHouse([Open EXCEPT !.mode = "INVITED", !.purchases = FALSE, !.registration = FALSE, !.invitee = TRUE],
             {"ref", "buy"}, {Stranger}, 2, 1, 0),
     MCHouse([Open EXCEPT !.purchases = FALSE], {"start", "buy"}, {Stranger}, 2, 0, 0),
     MCHouse([Open EXCEPT !.channel = TRUE], {"start", "trial"}, {Stranger, Boss}, 2, 1, 1),
     MCHouse(Open, {"beta"}, {Customer, Stranger}, 2, 0, 1),
     MCHouse([Open EXCEPT !.rules = TRUE], {"start", "accept"}, {Customer}, 3, 1, 0),
     MCHouse([Open EXCEPT !.mode = "RESTRICTED"], {"start"}, {Stranger, Customer, Boss}, 2, 0, 0)}

----------------------------------------------------------------------------
MCUserOf == [m \in Members |-> u1]

----------------------------------------------------------------------------
Feature(seed, variations, rules) ==
    [enabled |-> TRUE, published |-> TRUE, variations |-> variations, forced |-> <<>>, rules |-> rules, seed |-> seed]
Rule(keys, coverage, weights) ==
    [condition |-> {}, default |-> TRUE, force |-> Absent, keys |-> keys, coverage |-> coverage, weights |-> weights,
     ranges |-> <<>>, seed |-> Absent, version |-> 2]
OnOff == <<"trial_on", "trial_off">>
Prices == <<"control", "low">>
Flows == <<"control", "short">>
Price == Feature("price", Prices, <<Rule(Prices, 100, <<>>)>>)
Flow(coverage) == Feature("flow", Flows, <<Rule(Flows, coverage, <<>>)>>)
Config(revision, trial, flow, price) ==
    [revision |-> revision,
     features |-> [trial_offer |-> trial, checkout_flow |-> flow, intro_price |-> Price, start_tier_price |-> price]]
\* weights in per cent; a wider coverage; a hash version that raises, a feature switched off
\* and one not published; an unknown variation, a forced user and a rule for others only
MCConfigs ==
    {Config("narrow", Feature("trial", OnOff, <<Rule(OnOff, 40, <<500000, 500000>>)>>), Flow(40), Price),
     Config("wide", Feature("trial", OnOff, <<Rule(OnOff, 100, <<500000, 500000>>)>>), Flow(100), Price),
     Config("odd", Feature("trial", OnOff, <<[Rule(OnOff, 100, <<>>) EXCEPT !.version = 3]>>),
            [Flow(100) EXCEPT !.enabled = FALSE], [Price EXCEPT !.published = FALSE]),
     Config("targeted", Feature("trial", <<"other">>, <<Rule(<<"other">>, 100, <<>>)>>), [Flow(100) EXCEPT !.forced = e1 :> "short"],
            [Price EXCEPT !.rules = <<[Rule(<<>>, 100, <<>>) EXCEPT !.default = FALSE,
                                                                    !.condition = {[op |-> "is", value |-> "ios"]}],
                                      [Rule(<<"control">>, 100, <<>>) EXCEPT !.force = "low"]>>])}

MCHash(seed, unit, version) == [trial |-> 1500, price |-> 6500, flow |-> 3000][seed]
MCLocalBucket(salt, unit) == 70
MCPayload(feature, variant) == IF variant \in {"low", "short"} THEN "value" ELSE Absent
\* nobody here is young enough for the introductory price
MCEnrolled == [f \in {"trial_offer", "checkout_flow", "intro_price", "start_tier_price", "payment_rescue"} |->
                  IF f = "intro_price" THEN {} ELSE Units]

Alike == Permutations(Slots) \cup Permutations(Members)
=============================================================================
