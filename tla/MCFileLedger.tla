---------------------------- MODULE MCFileLedger ----------------------------
(* Small instances of FileLedger.                                          *)
EXTENDS FileLedger, TLC

CONSTANTS k1, k2, all, route, a1

MCScopes == {all, route}
MCCallCap == [s \in MCScopes |-> IF s = all THEN 2 ELSE 1]
MCMoneyCap == [s \in MCScopes |-> 2]

\* Two keys, the first also on the route: enough for a duplicate and for a
\* full cap.
MCSpecs ==
    {[key |-> k1, scopes |-> {all, route}, cost |-> 1, account |-> a1],
     [key |-> k2, scopes |-> {all}, cost |-> 1, account |-> a1]}

\* The second key on the route too: the cap of the route then refuses one of
\* the keys.
MCRouteSpecs ==
    MCSpecs \cup {[key |-> k2, scopes |-> {all, route}, cost |-> 1, account |-> a1]}

\* Two days in two months, so that a compaction may find the month archived
\* or not.
MCMonthOf == [d \in Days |-> d]

Symmetry == Permutations(Ids) \cup Permutations(Procs)
=============================================================================
