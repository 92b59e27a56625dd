------------------------------ MODULE MCSlots ------------------------------
(* Model checking of Slots: two tasks, of two tenants.                      *)
EXTENDS Slots

CONSTANTS t1, t2, alice, bob
MCTenantOf == [t \in Tasks |-> IF t = t1 THEN alice ELSE bob]

=============================================================================
