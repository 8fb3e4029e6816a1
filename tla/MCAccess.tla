------------------------------ MODULE MCAccess ------------------------------
(* Instances of Access for TLC. *)
EXTENDS Access, TLC

CONSTANTS s1, s2, owner, ama, kofi, root, ada, l1, l2, k1, k2

\* Requests are alike, and so are the administrators, their sessions and links.
Symmetry ==
    Permutations(Slots) \cup Permutations(Admins) \cup Permutations(LogIns) \cup Permutations(Links)

=============================================================================
