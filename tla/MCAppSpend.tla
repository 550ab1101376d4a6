----------------------------- MODULE MCAppSpend -----------------------------
(* Small instances of AppSpend.                                            *)
EXTENDS AppSpend, TLC

\* Midnight falls inside the TTL of a reservation made before it.
MCDayOf == [t \in Times |-> IF t < 2 THEN 1 ELSE 2]

Symmetry == Permutations(Ids)
=============================================================================
