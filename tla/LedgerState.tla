----------------------------- MODULE LedgerState -----------------------------
(***************************************************************************)
(* The state that FileLedger rebuilds from disk at the start of every      *)
(* operation, and what each journal event does to it (ledger.py,           *)
(* _new_state, _apply_event, _usage_for_scope, _prune_stale_idempotency).  *)
(* Only definitions: the modules that EXTEND this one own the variables.   *)
(*                                                                         *)
(* Abstractions.  A key is a key hash, an id is a reservation uuid, a day  *)
(* is the ordinal of a budget day, money is in micro-USD.  Every           *)
(* reservation reserves exactly one call, as reserve() writes it.          *)
(***************************************************************************)
EXTENDS Integers, FiniteSets

CONSTANTS
    Keys,       \* idempotency key hashes
    Scopes,     \* the scopes that have a cap
    Ids,        \* reservation ids (uuid4: never drawn twice)
    Accounts,   \* allowed_provider_accounts
    Specs,      \* the ReservationSpecs callers may present
    CallCap,    \* CallCap[s]: calls per day in scope s
    MoneyCap,   \* MoneyCap[s]: micro-USD per day in scope s
    MaxCost,    \* bound on the charge a reservation may hold
    LastDay     \* bound on the clock: the last budget day explored

ASSUME LedgerAssumption ==
    /\ CallCap \in [Scopes -> Nat]
    /\ MoneyCap \in [Scopes -> Nat]
    /\ MaxCost \in Nat
    /\ LastDay \in Nat \ {0}
    /\ \A spec \in Specs : spec.key \in Keys /\ spec.cost \in 0 .. MaxCost

Days == 1 .. LastDay

\* The status of an idempotency marker; "none" is an absent entry.
Terminal == {"settled", "unknown", "recovered"}
Status == {"none", "live"} \cup Terminal

\* The record reserve() journals and keeps under "live_reservations".
Reservation ==
    [id : Ids, key : Keys, day : Days, scopes : SUBSET Scopes, cost : 0 .. MaxCost]

\* totals[day][scope] is split into its two counters, calls and money.
State ==
    [calls   : [Days -> [Scopes -> Nat]],
     money   : [Days -> [Scopes -> Nat]],
     live    : SUBSET Reservation,
     idem    : [Days -> [Keys -> Status]],
     blocked : BOOLEAN]

\* What _initialize_files writes: no totals, nothing live, no marker.
EmptyState ==
    [calls   |-> [d \in Days |-> [s \in Scopes |-> 0]],
     money   |-> [d \in Days |-> [s \in Scopes |-> 0]],
     live    |-> {},
     idem    |-> [d \in Days |-> [k \in Keys |-> "none"]],
     blocked |-> FALSE]

-----------------------------------------------------------------------------
(* Reading the state. *)

LiveIn(st, d, s) == {r \in st.live : r.day = d /\ s \in r.scopes}

\* The money held by live reservations, one coin per micro-USD, so that the
\* sum of the held charges is the number of coins.
Coins(st, d, s) ==
    {c \in LiveIn(st, d, s) \X (1 .. MaxCost) : c[2] <= c[1].cost}

CallsUsed(st, d, s) == st.calls[d][s] + Cardinality(LiveIn(st, d, s))
MoneyUsed(st, d, s) == st.money[d][s] + Cardinality(Coins(st, d, s))

\* Faulty: only settled calls count against the cap.
CanReserve_ForgetsLive(st, d, spec) ==
    /\ spec.account \in Accounts /\ ~st.blocked /\ st.idem[d][spec.key] = "none"
    /\ spec.scopes \subseteq Scopes
    /\ \A s \in spec.scopes : /\ st.calls[d][s] + 1 <= CallCap[s]
                              /\ MoneyUsed(st, d, s) + spec.cost <= MoneyCap[s]

\* Faulty: the cap is compared with the usage without the new charge.
CanReserve_CostNotAdded(st, d, spec) ==
    /\ spec.account \in Accounts /\ ~st.blocked /\ st.idem[d][spec.key] = "none"
    /\ spec.scopes \subseteq Scopes
    /\ \A s \in spec.scopes : /\ CallsUsed(st, d, s) + 1 <= CallCap[s]
                              /\ MoneyUsed(st, d, s) <= MoneyCap[s]

\* Faulty: the overage block is not consulted.
CanReserve_IgnoresBlock(st, d, spec) ==
    /\ spec.account \in Accounts /\ st.idem[d][spec.key] = "none"
    /\ spec.scopes \subseteq Scopes
    /\ \A s \in spec.scopes : /\ CallsUsed(st, d, s) + 1 <= CallCap[s]
                              /\ MoneyUsed(st, d, s) + spec.cost <= MoneyCap[s]

\* reserve() before the journal is touched: the static check on the account
\* (the spend-domain and price-card checks have the same shape), then the
\* overage block, the duplicate marker of today, and both caps of each scope.
CanReserve(st, d, spec) ==
    /\ spec.account \in Accounts
    /\ ~st.blocked
    /\ st.idem[d][spec.key] = "none"
    /\ spec.scopes \subseteq Scopes
    /\ \A s \in spec.scopes :
          /\ CallsUsed(st, d, s) + 1 <= CallCap[s]
          /\ MoneyUsed(st, d, s) + spec.cost <= MoneyCap[s]

NewReservation(id, d, spec) ==
    [id |-> id, key |-> spec.key, day |-> d, scopes |-> spec.scopes, cost |-> spec.cost]

-----------------------------------------------------------------------------
(* What one event does to the state. *)

\* Faulty: the hold is credited back to the total.
AddTotals_CreditsHold(st, r, actual) ==
    [st EXCEPT
        !.calls[r.day] = [s \in Scopes |-> @[s] + (IF s \in r.scopes THEN 1 ELSE 0)],
        !.money[r.day] = [s \in Scopes |-> @[s] + (IF s \in r.scopes THEN actual - r.cost ELSE 0)]]

\* The call and its charge go to the day of the reservation, not to today.
AddTotals(st, r, actual) ==
    [st EXCEPT
        !.calls[r.day] = [s \in Scopes |-> @[s] + (IF s \in r.scopes THEN 1 ELSE 0)],
        !.money[r.day] = [s \in Scopes |-> @[s] + (IF s \in r.scopes THEN actual ELSE 0)]]

Mark(st, r, status) == [st EXCEPT !.idem[r.day][r.key] = status]

Pop(st, r) == [st EXCEPT !.live = @ \ {r}]

AfterReserve(st, r) == Mark([st EXCEPT !.live = @ \cup {r}], r, "live")

AfterRelease(st, r) == Mark(Pop(st, r), r, "none")

\* Faulty: a rejection that cost money gives its key back too.
GivesKeyBack_Always(actual, outcome) == outcome = "provider_failure"

\* A definitive provider rejection that cost nothing gives its key back; the
\* call is counted all the same.
GivesKeyBack(actual, outcome) == outcome = "provider_failure" /\ actual = 0

AfterSettle(st, r, actual, outcome) ==
    Mark(AddTotals(Pop(st, r), r, actual), r,
         IF GivesKeyBack(actual, outcome) THEN "none" ELSE "settled")

\* Faulty: the reservation stays live.
AfterUnknown_StaysLive(st, r) == Mark(AddTotals(st, r, r.cost), r, "unknown")

AfterUnknown(st, r) == Mark(AddTotals(Pop(st, r), r, r.cost), r, "unknown")

AfterRecoverSettled(st, r, actual) ==
    Mark(AddTotals(Pop(st, r), r, actual), r, "recovered")

AfterOverage(st) == [st EXCEPT !.blocked = TRUE]

\* Faulty: the markers of the current day go too.
Prune_Today(st, today) ==
    [st EXCEPT !.idem = [d \in Days |-> [k \in Keys |->
        IF d <= today /\ @[d][k] # "live" THEN "none" ELSE @[d][k]]]]

\* Faulty: the totals of earlier days go too.
Prune_Totals(st, today) ==
    [st EXCEPT !.calls = [d \in Days |-> IF d < today THEN [s \in Scopes |-> 0] ELSE @[d]],
               !.money = [d \in Days |-> IF d < today THEN [s \in Scopes |-> 0] ELSE @[d]]]

\* compact() drops the terminal markers of earlier days; live markers stay.
Prune(st, today) ==
    [st EXCEPT !.idem = [d \in Days |-> [k \in Keys |->
        IF d < today /\ @[d][k] # "live" THEN "none" ELSE @[d][k]]]]
=============================================================================
