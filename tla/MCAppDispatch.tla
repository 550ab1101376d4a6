---------------------------- MODULE MCAppDispatch ----------------------------
(* Small instances of AppDispatch.                                         *)
EXTENDS AppDispatch, TLC

CONSTANTS c1, c2

ready == [key |-> TRUE, usd |-> 1]
unset == [key |-> FALSE, usd |-> 1]

\* A chat lane of two backends, and a decision lane with a backend whose key
\* is not set between two that can be used.
chat == [decision |-> FALSE, chain |-> <<ready, ready>>, deadline |-> 2, share |-> 1, floor |-> 1]
decision == [decision |-> TRUE, chain |-> <<ready, unset, ready>>, deadline |-> 1, share |-> 1,
             floor |-> 1]
MCLanes == {chat, decision}

MCIds == Calls \X (1 .. 3)
MCDayOf == [t \in 0 .. LastTime |-> IF t < 2 THEN 1 ELSE 2]
MCThreshold == [name \in {"full"} |-> Cap]

Symmetry == Permutations(Calls)
=============================================================================
