--------------------------- MODULE PaymentLedger ---------------------------
(***************************************************************************)
(* What the purchase pipeline promises about each payment, without its     *)
(* webhooks, stream, workers and stores: one status that only moves        *)
(* forward, and a set of payments that were provisioned, all of them paid. *)
(***************************************************************************)
CONSTANT Payments
VARIABLES status, provisioned

Init == status = [p \in Payments |-> "ABSENT"] /\ provisioned = {}

Open(p) ==
  /\ status[p] = "ABSENT"
  /\ status' = [status EXCEPT ![p] = "PENDING"]
  /\ UNCHANGED provisioned

\* PENDING is left once: to COMPLETED or to CANCELED, never back.
Close(p) ==
  /\ status[p] = "PENDING"
  /\ status' \in {[status EXCEPT ![p] = "COMPLETED"], [status EXCEPT ![p] = "CANCELED"]}
  /\ UNCHANGED provisioned

Provision(p) ==
  /\ status[p] \in {"COMPLETED", "FAILED"}
  /\ provisioned' = provisioned \union {p}
  /\ UNCHANGED status

Fail(p) ==
  /\ status[p] = "COMPLETED"
  /\ status' = [status EXCEPT ![p] = "FAILED"]
  /\ UNCHANGED provisioned

Next == \E p \in Payments : Open(p) \/ Close(p) \/ Provision(p) \/ Fail(p)

Spec == Init /\ [][Next]_<<status, provisioned>>
=============================================================================
