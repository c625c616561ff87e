---------------------------- MODULE MCOrganisation -----------------------------
(* Organisation for TLC: handlers and sub-admins are interchangeable.      *)
EXTENDS Organisation, TLC

Symmetry == Permutations(Request) \cup Permutations(SubAdmin)

=============================================================================
