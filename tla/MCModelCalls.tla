---------------------------- MODULE MCModelCalls ----------------------------
(* ModelCalls.tla for TLC: two names, two texts that differ in a slot, a     *)
(* model with a promotional price and one that has no price.                 *)
EXTENDS ModelCalls, TLC
CONSTANTS n1, h, x, y, z, c1, c2, i1, i2, sonnet, snapshot, unknown
MCSlots == [t \in Texts |-> IF t = z THEN {"problem", "tag"} ELSE {"problem"}]
MCSupplied == {{"problem"}}
MCPrices == [m \in {sonnet, snapshot} |-> [d \in 0..LastDay |->
                IF m = snapshot /\ d = 0 THEN 2 ELSE 3]]
Symmetry == Permutations(Calls) \cup Permutations(Instances)
=============================================================================
