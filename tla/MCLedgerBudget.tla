--------------------------- MODULE MCLedgerBudget ---------------------------
(* Small instances of LedgerBudget.                                        *)
EXTENDS LedgerBudget, TLC

CONSTANTS k1, k2, i1, i2, i3, all, route, a1, a2

MCScopes == {all, route}
MCCallCap == [s \in MCScopes |-> IF s = all THEN 2 ELSE 1]
MCMoneyCap == [s \in MCScopes |-> 3]

\* Two keys, a cheap spec that also counts against the route, one that costs
\* more, and one from an account that is not allowed.
MCSpecs ==
    {[key |-> k1, scopes |-> {all, route}, cost |-> 1, account |-> a1],
     [key |-> k1, scopes |-> {all}, cost |-> 2, account |-> a1],
     [key |-> k2, scopes |-> {all}, cost |-> 2, account |-> a1],
     [key |-> k2, scopes |-> {all, route}, cost |-> 1, account |-> a2]}

Symmetry == Permutations(Ids)
=============================================================================
