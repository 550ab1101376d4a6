------------------------------- MODULE Router -------------------------------
(***************************************************************************)
(* Router.complete and Router.acomplete (router.py): calls that run at the *)
(* same time, walk their route's free and paid candidates, and reserve,    *)
(* dispatch and settle against one ledger.  The ledger is the promise of   *)
(* LedgerBudget; every operation of it may also raise LedgerUnavailable,   *)
(* with its event written or not.  The synchronous and asynchronous paths  *)
(* take the same steps; only the asynchronous one can be cancelled, and a  *)
(* killed process looks the same.                                          *)
(*                                                                         *)
(* The adapters are taken at their word: a pre-dispatch failure was not    *)
(* sent, a success or a definitive failure reports what the provider       *)
(* charged.  Of an unknown outcome the ledger learns nothing.              *)
(***************************************************************************)
EXTENDS LedgerState, Sequences

CONSTANTS
    Calls,          \* calls of complete(), a client's retries included
    KeyOf,          \* KeyOf[c]: the idempotency key of the call
    Plans,          \* the plans to choose from: a Plan for every call
    ApprovedUntil,  \* ApprovedUntil[a]: last day account a has an approval
    MaxActual,      \* bound on what a provider charges
    NoRes           \* no reservation

\* A paid candidate: its scopes and account, and the adapter's estimate.
Candidate == [scopes : SUBSET Scopes, account : DOMAIN ApprovedUntil, cost : 1 .. MaxCost]

\* exact: an ExactModel selection, whose one candidate is free or paid.
Plan == [free : Nat, paid : Seq(Candidate), substitutions : BOOLEAN, exact : BOOLEAN]

ASSUME RouterAssumption ==
    /\ KeyOf \in [Calls -> Keys]
    /\ MaxActual \in Nat /\ NoRes \notin Reservation
    /\ \A plan \in Plans, c \in Calls :
          /\ DOMAIN plan = Calls /\ plan[c] \in Plan
          /\ plan[c].exact => plan[c].free + Len(plan[c].paid) = 1
          /\ {c} \X DOMAIN plan[c].paid \subseteq Ids

VARIABLES
    st, today, charged, freed,  \* the ledger, as in LedgerBudget
    plan,                       \* plan[c]: the route and selection; it never changes
    call,                       \* call[c]: where c is
    sent                        \* history: what reached a provider, and its bill

L == INSTANCE LedgerBudget

ledger == <<st, today, charged, freed>>
vars == <<st, today, charged, freed, plan, call, sent>>

Results == {"none", "success", "route_unavailable", "paid_not_approved", "budget_denied",
            "provider_failure", "outcome_unknown", "ledger_unavailable", "cancelled"}

Kinds == {"success", "pre_dispatch", "definitive", "unknown"}

Answer == [kind : Kinds, actual : Nat]
NoAnswer == [kind |-> "unknown", actual |-> 0]

\* Without substitutions only the very first candidate of the route is tried.
FreeOf(c) ==
    IF plan[c].substitutions \/ plan[c].free = 0 THEN plan[c].free ELSE 1

PaidOf(c) ==
    CASE plan[c].substitutions \/ plan[c].paid = <<>> -> plan[c].paid
      [] plan[c].free > 0 -> <<>>
      [] OTHER -> <<Head(plan[c].paid)>>

\* Types; a call that dispatches or settles knows its reservation.
TypeOK ==
    /\ plan \in Plans
    /\ call \in [Calls -> [pc : {"free", "paid", "reserve", "dispatch", "settle", "overage", "done"},
                           i : Nat, res : Reservation \cup {NoRes}, answer : Answer,
                           approved : BOOLEAN, denied : BOOLEAN, result : Results]]
    /\ sent \subseteq [call : Calls, i : Nat, res : Reservation, kind : Kinds, bill : Nat]
    /\ \A c \in Calls : call[c].pc \in {"dispatch", "settle", "overage"} => call[c].res # NoRes

Init ==
    /\ L!Init
    /\ plan \in Plans
    /\ call = [c \in Calls |-> [pc |-> "free", i |-> 1, res |-> NoRes, answer |-> NoAnswer,
                                approved |-> FALSE, denied |-> FALSE, result |-> "none"]]
    /\ sent = {}

-----------------------------------------------------------------------------
Finish(c, result) == call' = [call EXCEPT ![c].pc = "done", ![c].result = result]

\* Faulty: the chain starts over.
FailOver_Restarts(c, result) ==
    IF plan[c].exact THEN Finish(c, result)
    ELSE call' = [call EXCEPT ![c].pc = "paid", ![c].i = 1, ![c].res = NoRes]

\* An exact call raises; another one goes on to its next paid candidate.
FailOver(c, result) ==
    IF plan[c].exact THEN Finish(c, result)
    ELSE call' = [call EXCEPT ![c].pc = "paid", ![c].i = @ + 1, ![c].res = NoRes]

\* The same for a BudgetDenied, which the chain remembers.
FailOverDenied(c) ==
    IF plan[c].exact THEN Finish(c, "budget_denied")
    ELSE call' = [call EXCEPT ![c].pc = "paid", ![c].i = @ + 1, ![c].denied = TRUE]

\* _run_free_sync, with its retries: the free candidate answers, ...
FreeAnswers(c) ==
    /\ call[c].pc = "free" /\ call[c].i <= FreeOf(c)
    /\ Finish(c, "success")
    /\ UNCHANGED <<ledger, plan, sent>>

\* ... or is skipped, or fails at every attempt.
FreeFails(c) ==
    /\ call[c].pc = "free" /\ call[c].i <= FreeOf(c)
    /\ IF plan[c].exact THEN Finish(c, "provider_failure")
       ELSE call' = [call EXCEPT ![c].i = @ + 1]
    /\ UNCHANGED <<ledger, plan, sent>>

FreeTierDone(c) ==
    /\ call[c].pc = "free" /\ call[c].i > FreeOf(c)
    /\ IF PaidOf(c) = <<>> THEN Finish(c, "route_unavailable")
       ELSE call' = [call EXCEPT ![c].pc = "paid", ![c].i = 1]
    /\ UNCHANGED <<ledger, plan, sent>>

-----------------------------------------------------------------------------
(* _run_paid_sync up to the reservation. *)

HasTurn(c) == call[c].pc = "paid" /\ call[c].i <= Len(PaidOf(c))
Turn(c) == PaidOf(c)[call[c].i]
Approved(c) == today <= ApprovedUntil[Turn(c).account]
SpecOf(c) == [key |-> KeyOf[c], scopes |-> Turn(c).scopes, cost |-> Turn(c).cost,
              account |-> Turn(c).account]

NotApproved(c) ==
    /\ HasTurn(c) /\ ~Approved(c)
    /\ FailOver(c, "paid_not_approved")
    /\ UNCHANGED <<ledger, plan, sent>>

\* The approval is read before the lock of the ledger is waited for: the call
\* may reserve after it has expired.
Admitted(c) ==
    /\ HasTurn(c) /\ Approved(c)
    /\ call' = [call EXCEPT ![c].pc = "reserve", ![c].approved = TRUE]
    /\ UNCHANGED <<ledger, plan, sent>>

\* validate_capability fails.
NotCapable(c) ==
    /\ call[c].pc = "reserve"
    /\ FailOver(c, "provider_failure")
    /\ UNCHANGED <<ledger, plan, sent>>

\* There is no key, or the adapter gives no positive bound on the charge: this
\* ends the call, an automatic one too.
CannotBound(c) ==
    /\ call[c].pc = "reserve"
    /\ Finish(c, "provider_failure")
    /\ UNCHANGED <<ledger, plan, sent>>

\* The ledger refuses, in the order of reserve()'s checks.
Refused(c) ==
    /\ call[c].pc = "reserve"
    /\ ~CanReserve(st, today, SpecOf(c))
    /\ LET prior == st.idem[today][KeyOf[c]]
       IN CASE Turn(c).account \notin Accounts -> Finish(c, "ledger_unavailable")
            [] Turn(c).account \in Accounts /\ ~st.blocked /\ prior \in {"live", "unknown"} ->
                  Finish(c, "outcome_unknown")
            [] OTHER -> FailOverDenied(c)
    /\ UNCHANGED <<ledger, plan, sent>>

\* reserve() returns, or raises with its RESERVE event written.
Reserves(c) ==
    /\ call[c].pc = "reserve"
    /\ LET id == <<c, call[c].i>>
       IN /\ L!Reserve(SpecOf(c), id)
          /\ \/ call' = [call EXCEPT ![c].pc = "dispatch",
                                     ![c].res = NewReservation(id, today, SpecOf(c))]
             \/ Finish(c, "ledger_unavailable")
    /\ UNCHANGED <<plan, sent>>

ReserveRaises(c) ==
    /\ call[c].pc = "reserve"
    /\ Finish(c, "ledger_unavailable")
    /\ UNCHANGED <<ledger, plan, sent>>

\* The chain is exhausted.
PaidTierDone(c) ==
    /\ call[c].pc = "paid" /\ call[c].i > Len(PaidOf(c))
    /\ Finish(c, IF call[c].denied THEN "budget_denied"
                 ELSE IF ~call[c].approved THEN "paid_not_approved" ELSE "provider_failure")
    /\ UNCHANGED <<ledger, plan, sent>>

-----------------------------------------------------------------------------
(* The dispatch and what follows it. *)

\* adapter.complete: unless it fails before the dispatch, the provider bills
\* something, zero included; an unknown outcome hides the bill.
Dispatch(c, kind, bill) ==
    /\ call[c].pc = "dispatch"
    /\ kind = "pre_dispatch" => bill = 0
    /\ sent' = IF kind = "pre_dispatch" THEN sent
               ELSE sent \cup {[call |-> c, i |-> call[c].i, res |-> call[c].res,
                                kind |-> kind, bill |-> bill]}
    /\ call' = [call EXCEPT ![c].pc = "settle",
                    ![c].answer = [kind |-> kind, actual |-> IF kind = "unknown" THEN 0 ELSE bill]]
    /\ UNCHANGED <<ledger, plan>>

\* Faulty: an unknown outcome is released.
Records_ReleasesUnknown(c) ==
    LET r == call[c].res
        a == call[c].answer
    IN CASE a.kind = "success" -> L!Settle(r, a.actual, "success")
         [] a.kind = "definitive" -> L!Settle(r, a.actual, "provider_failure")
         [] OTHER -> L!Release(r)

\* What the ledger is told of the answer (_settle_success, _handle_paid_failure).
Records(c) ==
    LET r == call[c].res
        a == call[c].answer
    IN CASE a.kind = "success" -> L!Settle(r, a.actual, "success")
         [] a.kind = "definitive" -> L!Settle(r, a.actual, "provider_failure")
         [] a.kind = "pre_dispatch" -> L!Release(r)
         [] a.kind = "unknown" -> L!SettleUnknown(r)

\* Faulty: an unknown outcome goes on to the sibling.
Continue_PastUnknown(c) ==
    IF call[c].answer.kind = "success" THEN Finish(c, "success")
    ELSE FailOver(c, "provider_failure")

\* Where the call goes once the ledger has answered.
Continue(c) ==
    CASE call[c].answer.kind = "success" -> Finish(c, "success")
      [] call[c].answer.kind = "unknown" -> Finish(c, "outcome_unknown")
      [] OTHER -> FailOver(c, "provider_failure")

Settles(c) ==
    /\ call[c].pc = "settle"
    /\ call[c].res \in st.live
    /\ Records(c)
    /\ IF call[c].answer.kind \in {"success", "definitive"} /\ call[c].answer.actual > call[c].res.cost
       THEN call' = [call EXCEPT ![c].pc = "overage"]
       ELSE Continue(c)
    /\ UNCHANGED <<plan, sent>>

\* The OVERAGE event of the same settle().
Overages(c) ==
    /\ call[c].pc = "overage"
    /\ L!Overage
    /\ Continue(c)
    /\ UNCHANGED <<plan, sent>>

\* Faulty: the failed settlement is reported as a provider failure.
SettleRaises_Definite(c) ==
    /\ call[c].pc \in {"settle", "overage"}
    /\ Finish(c, "provider_failure")
    /\ \/ UNCHANGED ledger
       \/ call[c].pc = "settle" /\ call[c].res \in st.live /\ Records(c)
    /\ UNCHANGED <<plan, sent>>

\* The ledger raises while the answer is recorded, with the event written or
\* not: the call ends as unknown.
SettleRaises(c) ==
    /\ call[c].pc \in {"settle", "overage"}
    /\ Finish(c, "outcome_unknown")
    /\ \/ UNCHANGED ledger
       \/ call[c].pc = "settle" /\ call[c].res \in st.live /\ Records(c)
    /\ UNCHANGED <<plan, sent>>

\* A task is cancelled or its process killed, wherever it is; nothing in the
\* code records it.
Cancel(c) ==
    /\ call[c].pc # "done"
    /\ Finish(c, "cancelled")
    /\ UNCHANGED <<ledger, plan, sent>>

-----------------------------------------------------------------------------
\* An operator resolves a reservation nobody works on any more, on true
\* evidence (external: recover() takes the evidence hash on trust).
Reconcile(r) ==
    /\ \A c \in Calls : call[c].res = r => call[c].pc = "done"
    /\ IF \E s \in sent : s.res = r
       THEN \E s \in sent : s.res = r /\ L!Recover(r, s.bill)
       ELSE L!Release(r)
    /\ UNCHANGED <<plan, call, sent>>

Maintenance == (L!Compact \/ L!Tick) /\ UNCHANGED <<plan, call, sent>>

Step(c) ==
    \/ FreeAnswers(c) \/ FreeFails(c) \/ FreeTierDone(c)
    \/ NotApproved(c) \/ Admitted(c) \/ NotCapable(c) \/ CannotBound(c) \/ Refused(c)
    \/ Reserves(c) \/ ReserveRaises(c) \/ PaidTierDone(c)
    \/ (\E kind \in Kinds, bill \in 0 .. MaxActual : Dispatch(c, kind, bill))
    \/ Settles(c) \/ Overages(c) \/ SettleRaises(c)

Next ==
    \/ \E c \in Calls : Step(c) \/ Cancel(c)
    \/ \E r \in st.live : Reconcile(r)
    \/ Maintenance

\* Each call runs on a thread or task that is scheduled, and every adapter
\* call ends by its timeout.
Fairness == \A c \in Calls : WF_vars(Step(c))

Spec == Init /\ [][Next]_vars /\ Fairness

-----------------------------------------------------------------------------
(* Properties. *)

\* Money a provider took is never free in the ledger: the reservation it was
\* dispatched under still holds it, or a charge records it, or, where nobody
\* saw the bill, all that was reserved.  Crash, cancelled task, ledger failure
\* and unknown outcome included.
EveryBillIsHeld ==
    \A s \in sent :
        s.bill > 0 =>
            \/ s.res \in st.live
            \/ \E c \in charged :
                  /\ c.res = s.res
                  /\ c.actual >= s.bill \/ (s.kind = "unknown" /\ c.actual >= s.res.cost)

\* A key is billed by a provider at most once per budget day, over all calls
\* that share it, all candidates of their chains and all retries.
OneBillPerKeyAndDay ==
    \A s, t \in sent :
        s.bill > 0 /\ t.bill > 0 /\ s.res.key = t.res.key /\ s.res.day = t.res.day => s = t

\* A call goes on to another candidate only after an outcome that is known, and
\* only where substitutions are allowed: without them, and for an exact
\* selection, it dispatches at most once, on the first candidate.
GoesOnOnlyWhereItMay ==
    \A s, t \in sent :
        s.call = t.call =>
            /\ s.kind = "unknown" => t.i <= s.i
            /\ ~plan[s.call].substitutions => s = t /\ s.i = 1

\* A call that reports a definite failure has nothing in flight: all it sent
\* was answered, and the ledger has the bill of each answer.
DefiniteFailureIsSettled ==
    \A c \in Calls :
        call[c].result \in {"route_unavailable", "paid_not_approved", "budget_denied",
                            "provider_failure"} =>
            \A s \in sent : s.call = c =>
                /\ s.kind = "definitive"
                /\ s.res \notin st.live
                /\ s.bill > 0 => \E x \in charged : x.res = s.res /\ x.actual = s.bill

\* Every call of complete() returns or raises.
EveryCallEnds == \A c \in Calls : <>(call[c].pc = "done")
=============================================================================
