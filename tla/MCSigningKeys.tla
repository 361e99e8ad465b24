---------------------------- MODULE MCSigningKeys ----------------------------
(* A voting and a survey, with direct clients racing for the first key.    *)
EXTENDS SigningKeys, TLC

CONSTANTS v1, s1, c1, c2, d1, d2, d3

MCEntityOf == [c \in Clients |-> IF c = d3 THEN s1 ELSE v1]
MCSymmetry == Permutations(Keys) \cup Permutations(Replicas)
=============================================================================
