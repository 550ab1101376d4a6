------------------------------ MODULE MCRouter ------------------------------
(* Small instances of Router.                                              *)
EXTENDS Router, TLC

CONSTANTS k1, all, a1, a2, c1, c2

MCScopes == {all}
MCCallCap == [s \in MCScopes |-> 3]
MCMoneyCap == [s \in MCScopes |-> 2]

cheap == [scopes |-> {all}, account |-> a1, cost |-> 1]
other == [scopes |-> {all}, account |-> a2, cost |-> 1]

\* The second account's approval ends with the first day.
MCApproved == [a \in {a1, a2} |-> IF a = a1 THEN 2 ELSE 1]

\* A call and its retry under the same key ...
MCSameKey == [c \in {c1, c2} |-> k1]

\* ... on a route with one free and two paid candidates,
chain == [free |-> 1, paid |-> <<cheap, other>>, substitutions |-> TRUE, exact |-> FALSE]

\* or on one that allows no substitution, beside an exact call.
strict == [free |-> 0, paid |-> <<cheap, other>>, substitutions |-> FALSE, exact |-> FALSE]
exact == [free |-> 0, paid |-> <<other>>, substitutions |-> FALSE, exact |-> TRUE]

MCPlans == {[c \in {c1, c2} |-> chain], [c \in {c1, c2} |-> IF c = c1 THEN strict ELSE exact]}

MCIds == {c1, c2} \X (1 .. 2)
=============================================================================
