----------------------------- MODULE MCPremises -----------------------------
(* Instances of Premises for TLC. *)
EXTENDS Premises, TLC

CONSTANTS s1, s2, b1, b2, e1, e2, e3, nobody, noPlate, noUnit, u1, u2, t1, t2, ama, kofi

Hours == {[from |-> 1, to |-> 2], [from |-> 2, to |-> 3], [from |-> 1, to |-> 3]}

Terms == {[from |-> 1, to |-> 1], [from |-> 2, to |-> 3], [from |-> 1, to |-> 3]}

AllKinds == DOMAIN FirstStatus

Symmetry == Permutations(Slots)

=============================================================================
