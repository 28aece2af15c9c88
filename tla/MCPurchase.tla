----------------------------- MODULE MCPurchase -----------------------------
(* Small instances of PurchaseProvisioning.                                *)
EXTENDS PurchaseProvisioning, TLC

MCOwnerOf == [p \in Payments |-> CHOOSE u \in Users : TRUE]
MCDays == [p \in Payments |-> 2]
MCStartSubs == <<[expire |-> 1, trial |-> FALSE, status |-> "ACTIVE"],
                 [expire |-> 0, trial |-> TRUE, status |-> "ACTIVE"]>>
Symmetry == Permutations(Hooks) \union Permutations(Workers)
=============================================================================
