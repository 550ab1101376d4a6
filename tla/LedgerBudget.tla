---------------------------- MODULE LedgerBudget ----------------------------
(***************************************************************************)
(* What the paid ledger promises its callers: one durable state, changed   *)
(* by one event at a time, whatever the number of processes and threads.   *)
(* No files, no lock and no crash: FileLedger.tla has those, and           *)
(* implements this specification.  An operation that is refused            *)
(* (BudgetDenied, IdempotencyConflict, LedgerUnavailable) changes nothing  *)
(* and is not an action here.                                              *)
(***************************************************************************)
EXTENDS LedgerState

CONSTANT MaxActual  \* bound on what a provider charges
ASSUME ActualAssumption == MaxActual \in Nat

VARIABLES
    st,         \* the durable state
    today,      \* the latest budget day an operation has seen
    charged,    \* history: every charge ever journalled, [res, actual]
    freed       \* history: every reservation that ended without a charge

vars == <<st, today, charged, freed>>

Charge == [res : Reservation, actual : Nat]

\* The types of the durable state and of its history.
TypeOK ==
    /\ st \in State
    /\ today \in Days
    /\ charged \subseteq Charge
    /\ freed \subseteq Reservation

\* Every reservation that was ever journalled.
Everything == st.live \cup freed \cup {c.res : c \in charged}

Init ==
    /\ st = EmptyState
    /\ today = 1
    /\ charged = {}
    /\ freed = {}

-----------------------------------------------------------------------------
Reserve(spec, id) ==
    /\ CanReserve(st, today, spec)
    /\ \A r \in Everything : r.id # id
    /\ st' = AfterReserve(st, NewReservation(id, today, spec))
    /\ UNCHANGED <<today, charged, freed>>

\* The SETTLE event.  The charge the provider reports may exceed the one that
\* was reserved.
Settle(r, actual, outcome) ==
    /\ st' = AfterSettle(st, r, actual, outcome)
    /\ IF GivesKeyBack(actual, outcome)
       THEN freed' = freed \cup {r} /\ UNCHANGED charged
       ELSE charged' = charged \cup {[res |-> r, actual |-> actual]} /\ UNCHANGED freed
    /\ UNCHANGED today

\* The OVERAGE event that settle() appends after such a SETTLE.  It is an
\* action of its own because it is an append of its own: a crash between the
\* two leaves it out.
Overage ==
    /\ \E c \in charged : c.actual > c.res.cost
    /\ st' = AfterOverage(st)
    /\ UNCHANGED <<today, charged, freed>>

Release(r) ==
    /\ st' = AfterRelease(st, r)
    /\ freed' = freed \cup {r}
    /\ UNCHANGED <<today, charged>>

SettleUnknown(r) ==
    /\ st' = AfterUnknown(st, r)
    /\ charged' = charged \cup {[res |-> r, actual |-> r.cost]}
    /\ UNCHANGED <<today, freed>>

\* recover(): the operator supplies evidence for a charge, or releases (a
\* release is the same change as Release).  No OVERAGE follows.
Recover(r, actual) ==
    /\ st' = AfterRecoverSettled(st, r, actual)
    /\ charged' = charged \cup {[res |-> r, actual |-> actual]}
    /\ UNCHANGED <<today, freed>>

Compact ==
    /\ st' = Prune(st, today)
    /\ UNCHANGED <<today, charged, freed>>

\* The clock has reached a later budget day.
Tick ==
    /\ today' \in {d \in Days : d > today}
    /\ UNCHANGED <<st, charged, freed>>

Next ==
    \/ \E spec \in Specs, id \in Ids : Reserve(spec, id)
    \/ \E r \in st.live :
          \/ \E actual \in 0 .. MaxActual :
                \/ \E outcome \in {"success", "provider_failure"} : Settle(r, actual, outcome)
                \/ Recover(r, actual)
          \/ Release(r)
          \/ SettleUnknown(r)
    \/ Overage
    \/ Compact
    \/ Tick

Spec == Init /\ [][Next]_vars

-----------------------------------------------------------------------------
(* Properties. *)

\* No day of any scope ever holds more calls, settled and in flight together,
\* than its cap: not even after an overage, a recovery or a late settlement of
\* yesterday's reservation.
CallsWithinCap ==
    \A d \in Days, s \in Scopes : CallsUsed(st, d, s) <= CallCap[s]

Overrun(d, s) ==
    \E c \in charged : c.actual > c.res.cost /\ c.res.day = d /\ s \in c.res.scopes

\* Spent and held money stays within the cap of every scope and day, except
\* where a provider charged more than the reservation of that very day held.
MoneyWithinCap ==
    \A d \in Days, s \in Scopes :
        MoneyUsed(st, d, s) <= MoneyCap[s] \/ Overrun(d, s)

\* One idempotency key pays at most once per budget day: whatever settles,
\* is unknown, is recovered or is still in flight for a key and a day is one
\* reservation, even after compaction dropped markers of earlier days.
OneChargePerKeyAndDay ==
    \A x, y \in st.live \cup {c.res : c \in charged} :
        x.key = y.key /\ x.day = y.day => x = y

\* The markers say the truth: a live reservation is marked live, however old,
\* and whatever was charged today or on a day the ledger has not left behind
\* keeps its key blocked for that day.
MarkersAgree ==
    /\ \A r \in st.live : st.idem[r.day][r.key] = "live"
    /\ \A c \in charged :
          c.res.day >= today => st.idem[c.res.day][c.res.key] \in Terminal

\* Each reservation ends once: it is in flight, charged or freed, never two of
\* these, it is never charged twice, and no two reservations share an id.
EndsOnce ==
    /\ \A x, y \in Everything : x.id = y.id => x = y
    /\ \A c, e \in charged : c.res = e.res => c = e
    /\ \A c \in charged : c.res \notin st.live \cup freed
    /\ st.live \cap freed = {}

\* The maintainers' checklist wants unknown reservations reconciled "with
\* provider evidence via a new RECOVERY event".  recover() accepts live
\* reservations only, so this says: whatever is marked unknown is still live.
UnknownCanBeReconciled ==
    \A c \in charged :
        st.idem[c.res.day][c.res.key] = "unknown" => c.res \in st.live

\* An overage stops the whole spend domain for good: while it is recorded no
\* step adds a reservation, and no step clears it (compaction included).
BlockedForGood ==
    [][st.blocked => st'.blocked /\ st'.live \subseteq st.live]_vars

\* What was charged stays charged: no release, recovery, compaction or change
\* of day takes a call or a micro-USD out of a settled total.
ChargesNeverShrink ==
    [][\A d \in Days, s \in Scopes :
          st'.calls[d][s] >= st.calls[d][s] /\ st'.money[d][s] >= st.money[d][s]]_vars
=============================================================================
