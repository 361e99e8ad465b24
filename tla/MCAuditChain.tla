---------------------------- MODULE MCAuditChain ----------------------------
(* Instances of AuditChain for TLC. *)
EXTENDS AuditChain, TLC

CONSTANTS voting, j1, j2, j3

\* Two blocks of one voting and, where there is a third job, one outside it.
MCScopesOf == [j \in Jobs |-> IF j = j3 THEN {Global} ELSE {Global, voting}]

\* Jobs of the same scopes, and verifications, are interchangeable.
Interchangeable == Permutations(Jobs \ {j3}) \cup Permutations(Verifiers)
=============================================================================
