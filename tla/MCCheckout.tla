----------------------------- MODULE MCCheckout ----------------------------
(***************************************************************************)
(* Five small shops for Checkout: one with everything to choose, one where *)
(* a duration is free, one with nothing to choose, one with a single       *)
(* gateway and one where only the method is left to choose.                *)
(***************************************************************************)
EXTENDS Checkout

CONSTANTS start, pro, card

BothDays == [p \in Plans |-> Days]
OneDay == [p \in Plans |-> {30}]

Open == [plans |-> {start, pro}, durations |-> BothDays,
         gateways |-> <<card, Plaidly>>, free |-> {}]
OneFree == [plans |-> {start, pro}, durations |-> [BothDays EXCEPT ![start] = {30}],
            gateways |-> <<card, Plaidly>>, free |-> {<<pro, 30>>}]
Tiny == [plans |-> {start}, durations |-> OneDay, gateways |-> <<card>>, free |-> {}]
OneGateway == [plans |-> {start, pro}, durations |-> BothDays,
               gateways |-> <<card>>, free |-> {}]
OnePlan == [plans |-> {pro}, durations |-> OneDay,
            gateways |-> <<card, Plaidly>>, free |-> {}]

MCShops == {Open, OneFree, Tiny, OneGateway, OnePlan}
MCDays == {30, 90}
=============================================================================
