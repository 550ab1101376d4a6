---------------------------- MODULE Router_proofs ----------------------------
(***************************************************************************)
(* Theorems about Router, for every value of the constants: money a        *)
(* provider took is held, a key is billed once per budget day, a chain     *)
(* goes on only where it may, and a definite failure has all its bills     *)
(* settled.  The ledger's own invariant is that of LedgerBudget_proofs.    *)
(***************************************************************************)
EXTENDS Router, TLAPS

\* What a paid candidate presents to the ledger.
PaidSpecs ==
    [key : Keys, scopes : SUBSET Scopes, cost : 0 .. MaxCost, account : DOMAIN ApprovedUntil]

P == INSTANCE LedgerBudget_proofs WITH Specs <- PaidSpecs

-----------------------------------------------------------------------------
(* The inductive invariant.                                                *)

Definite == {"route_unavailable", "paid_not_approved", "budget_denied", "provider_failure"}

CallState ==
    [pc : {"free", "paid", "reserve", "dispatch", "settle", "overage", "done"},
     i : Nat, res : Reservation \cup {NoRes}, answer : Answer,
     approved : BOOLEAN, denied : BOOLEAN, result : Results]

\* A call that is about to dispatch, or to tell the ledger how that went, holds
\* the reservation it made for the candidate it is at.
CallOK(c) ==
    /\ call[c].i >= 1
    /\ call[c].answer.actual \in 0 .. MaxActual
    /\ call[c].pc \in {"reserve", "dispatch", "settle", "overage"} =>
          call[c].i \in DOMAIN PaidOf(c)
    /\ call[c].pc # "done" => call[c].result = "none"
    /\ call[c].pc \in {"dispatch", "settle", "overage"} => call[c].res.id = <<c, call[c].i>>
    /\ call[c].pc \in {"dispatch", "settle"} => call[c].res \in st.live

\* The ledger has the bill of a request, and nothing of it is in flight.
Recorded(s) ==
    /\ s.res \notin st.live
    /\ s.bill > 0 => \E x \in charged : x.res = s.res /\ x.actual = s.bill

\* A request of an earlier candidate failed for sure and is recorded; the one of
\* the current candidate is what the call still works on, or ended with.
SentOK(s) ==
    LET me == call[s.call]
    IN /\ s.bill \in 0 .. MaxActual /\ s.kind # "pre_dispatch"
       /\ s.res.id = <<s.call, s.i>>
       /\ 1 <= s.i /\ s.i <= me.i
       /\ ~plan[s.call].substitutions => s.i = 1
       /\ me.pc # "free"
       /\ s.i < me.i => s.kind = "definitive" /\ Recorded(s)
       /\ s.i = me.i =>
             /\ me.pc \in {"settle", "overage", "done"}
             /\ me.pc \in {"settle", "overage"} =>
                   /\ s.res = me.res /\ s.kind = me.answer.kind
                   /\ s.kind # "unknown" => s.bill = me.answer.actual
             /\ me.pc = "overage" => s.kind # "unknown" /\ Recorded(s)
             /\ me.pc = "done" /\ me.result \in Definite => s.kind = "definitive" /\ Recorded(s)

\* A candidate is tried once.
OneRequest == \A s, t \in sent : s.call = t.call /\ s.i = t.i => s = t

WalkInv == TypeOK /\ (\A c \in Calls : CallOK(c)) /\ (\A s \in sent : SentOK(s)) /\ OneRequest

RouterInv == P!IInv /\ WalkInv /\ EveryBillIsHeld

-----------------------------------------------------------------------------
(* The operations of the ledger.                                           *)

\* What LedgerBudget assumes of its constants.
LEMMA LedgerConstants ==
    /\ MaxActual \in Nat
    /\ CallCap \in [Scopes -> Nat]
    /\ MoneyCap \in [Scopes -> Nat]
    /\ MaxCost \in Nat
    /\ LastDay \in Nat \ {0}
    /\ \A spec \in PaidSpecs : spec.key \in Keys /\ spec.cost \in 0 .. MaxCost
BY LedgerAssumption, RouterAssumption DEF PaidSpecs

\* The actions of the ledger that Router takes are the ones whose invariant
\* LedgerBudget_proofs has.
LEMMA ReserveIsLedgers ==
    ASSUME NEW spec, NEW id, L!Reserve(spec, id)
    PROVE  P!Reserve(spec, id)
<1>1. \A S : L!Cardinality(S) = P!Cardinality(S)
  BY DEF L!Cardinality, P!Cardinality
<1>2. ASSUME NEW s PROVE L!CallsUsed(st, today, s) = P!CallsUsed(st, today, s)
  BY <1>1 DEF L!CallsUsed, P!CallsUsed, L!LiveIn, P!LiveIn
<1>3. ASSUME NEW s PROVE L!MoneyUsed(st, today, s) = P!MoneyUsed(st, today, s)
  BY <1>1 DEF L!MoneyUsed, P!MoneyUsed, L!Coins, P!Coins, L!LiveIn, P!LiveIn
<1>4. L!CanReserve(st, today, spec) = P!CanReserve(st, today, spec)
  BY <1>2, <1>3 DEF L!CanReserve, P!CanReserve
<1>5. L!Everything = P!Everything
  BY DEF L!Everything, P!Everything
<1> QED
  BY <1>4, <1>5 DEF L!Reserve, P!Reserve, L!AfterReserve, P!AfterReserve,
                    L!NewReservation, P!NewReservation, L!Mark, P!Mark

\* The operations that end a reservation are those of the ledger, too.
LEMMA EndIsLedgers ==
    ASSUME NEW r, NEW actual, NEW outcome
    PROVE  /\ L!Settle(r, actual, outcome) => P!Settle(r, actual, outcome)
           /\ L!SettleUnknown(r) => P!SettleUnknown(r)
           /\ L!Release(r) => P!Release(r)
           /\ L!Recover(r, actual) => P!Recover(r, actual)
<1>1. L!Settle(r, actual, outcome) => P!Settle(r, actual, outcome)
  BY DEF L!Settle, P!Settle, L!AfterSettle, P!AfterSettle, L!Mark, P!Mark, L!AddTotals,
         P!AddTotals, L!Pop, P!Pop, L!GivesKeyBack, P!GivesKeyBack
<1>2. L!SettleUnknown(r) => P!SettleUnknown(r)
  BY DEF L!SettleUnknown, P!SettleUnknown, L!AfterUnknown, P!AfterUnknown, L!Mark, P!Mark,
         L!AddTotals, P!AddTotals, L!Pop, P!Pop
<1>3. L!Release(r) => P!Release(r)
  BY DEF L!Release, P!Release, L!AfterRelease, P!AfterRelease, L!Mark, P!Mark, L!Pop, P!Pop
<1>4. L!Recover(r, actual) => P!Recover(r, actual)
  BY DEF L!Recover, P!Recover, L!AfterRecoverSettled, P!AfterRecoverSettled, L!Mark, P!Mark,
         L!AddTotals, P!AddTotals, L!Pop, P!Pop
<1> QED  BY <1>1, <1>2, <1>3, <1>4

\* So are the overage, the compaction and the clock.
LEMMA RestIsLedgers ==
    /\ L!Overage => P!Overage
    /\ L!Compact => P!Compact
    /\ L!Tick => P!Tick
BY DEF L!Overage, P!Overage, L!AfterOverage, P!AfterOverage, L!Compact, P!Compact,
       L!Prune, P!Prune, L!Tick, P!Tick, L!Days, P!Days

\* A state is what its fields are.
Fields == {"calls", "money", "live", "idem", "blocked"}
IsState(s) == s = [f \in Fields |-> s[f]]

\* The ledger's type says of the state what the proofs below need of it.
LEMMA StateFields ==
    ASSUME P!TypeOK
    PROVE  IsState(st) /\ st.live \subseteq Reservation
BY DEF P!TypeOK, P!State, P!Reservation, P!Days, Reservation, Days, IsState, Fields

\* Which reservations the events leave live.
LEMMA EventEffect ==
    ASSUME NEW s, IsState(s), NEW r, NEW x
    PROVE  /\ L!Pop(s, r).live = s.live \ {r} /\ IsState(L!Pop(s, r))
           /\ L!Mark(s, r, x).live = s.live /\ IsState(L!Mark(s, r, x))
           /\ L!AddTotals(s, r, x).live = s.live /\ IsState(L!AddTotals(s, r, x))
           /\ L!AfterReserve(s, r).live = s.live \cup {r}
           /\ L!AfterOverage(s).live = s.live
           /\ L!Prune(s, x).live = s.live
<1> USE DEF IsState, Fields
<1>1. L!Pop(s, r).live = s.live \ {r} /\ IsState(L!Pop(s, r))
  BY DEF L!Pop
<1>2. ASSUME NEW u, IsState(u)
      PROVE  L!Mark(u, r, x).live = u.live /\ IsState(L!Mark(u, r, x))
  BY <1>2 DEF L!Mark
<1>3. L!AddTotals(s, r, x).live = s.live /\ IsState(L!AddTotals(s, r, x))
  BY DEF L!AddTotals
<1>4. L!AfterReserve(s, r).live = s.live \cup {r}
  BY DEF L!AfterReserve, L!Mark
<1>5. L!AfterOverage(s).live = s.live /\ L!Prune(s, x).live = s.live
  BY DEF L!AfterOverage, L!Prune
<1> QED  BY <1>1, <1>2, <1>3, <1>4, <1>5

\* An operation that ends a reservation takes it, and no other, out of the live
\* ones; a charge is kept.
LEMMA EndEffect ==
    ASSUME P!TypeOK, NEW r, NEW actual, NEW outcome,
           \/ L!Settle(r, actual, outcome)
           \/ L!SettleUnknown(r)
           \/ L!Release(r)
           \/ L!Recover(r, actual)
    PROVE  /\ st'.live = st.live \ {r}
           /\ charged \subseteq charged' /\ today' = today
           /\ L!Recover(r, actual) => [res |-> r, actual |-> actual] \in charged'
           /\ L!SettleUnknown(r) => [res |-> r, actual |-> r.cost] \in charged'
           /\ L!Settle(r, actual, outcome) /\ (outcome = "success" \/ actual # 0)
                 => [res |-> r, actual |-> actual] \in charged'
<1>0. IsState(st)
  BY StateFields
<1>1. ASSUME NEW x, NEW y
      PROVE  /\ L!Mark(L!AddTotals(L!Pop(st, r), r, x), r, y).live = st.live \ {r}
             /\ L!Mark(L!Pop(st, r), r, y).live = st.live \ {r}
  <2> DEFINE p == L!Pop(st, r)
             t == L!AddTotals(p, r, x)
  <2>1. IsState(p) /\ p.live = st.live \ {r}
    BY <1>0, EventEffect
  <2>2. IsState(t) /\ t.live = p.live
    BY <2>1, EventEffect
  <2>3. L!Mark(t, r, y).live = t.live /\ L!Mark(p, r, y).live = p.live
    <3> HIDE DEF p, t
    <3> QED  BY <2>1, <2>2, EventEffect
  <2> QED  BY <2>1, <2>2, <2>3
<1>2. ASSUME L!Settle(r, actual, outcome)
      PROVE  /\ st'.live = st.live \ {r} /\ charged \subseteq charged' /\ today' = today
             /\ outcome = "success" \/ actual # 0 => [res |-> r, actual |-> actual] \in charged'
  BY <1>1, <1>2 DEF L!Settle, L!AfterSettle, L!GivesKeyBack
<1>3. ASSUME L!SettleUnknown(r)
      PROVE  /\ st'.live = st.live \ {r} /\ charged \subseteq charged' /\ today' = today
             /\ [res |-> r, actual |-> r.cost] \in charged'
  BY <1>1, <1>3 DEF L!SettleUnknown, L!AfterUnknown
<1>4. ASSUME L!Release(r)
      PROVE  /\ st'.live = st.live \ {r} /\ charged \subseteq charged' /\ today' = today
  BY <1>1, <1>4 DEF L!Release, L!AfterRelease
<1>5. ASSUME L!Recover(r, actual)
      PROVE  /\ st'.live = st.live \ {r} /\ charged \subseteq charged' /\ today' = today
             /\ [res |-> r, actual |-> actual] \in charged'
  BY <1>1, <1>5 DEF L!Recover, L!AfterRecoverSettled
<1> QED  BY <1>2, <1>3, <1>4, <1>5

-----------------------------------------------------------------------------
(* The moves of a call.                                                    *)

\* The types, without the names of the fields that stay.
Types ==
    /\ plan \in Plans
    /\ call \in [Calls -> CallState]
    /\ sent \subseteq [call : Calls, i : Nat, res : Reservation, kind : Kinds, bill : Nat]

\* TypeOK with its record set named.
LEMMA TypesAre == TypeOK <=> Types /\ \A c \in Calls :
                      call[c].pc \in {"dispatch", "settle", "overage"} => call[c].res # NoRes
BY DEF TypeOK, Types, CallState

\* Call c moves and no other does.
Becomes(c, pc, i, res, answer, result) ==
    /\ call' \in [Calls -> CallState]
    /\ \A d \in Calls \ {c} : call'[d] = call[d]
    /\ call'[c].pc = pc /\ call'[c].i = i /\ call'[c].res = res
    /\ call'[c].answer = answer /\ call'[c].result = result

\* How a call moves when it finishes or fails over.
LEMMA MoveEffect ==
    ASSUME call \in [Calls -> CallState], NEW c \in Calls, NEW result \in Results
    PROVE  LET me == call[c]
           IN /\ Finish(c, result) => Becomes(c, "done", me.i, me.res, me.answer, result)
              /\ FailOver(c, result) =>
                    \/ Becomes(c, "done", me.i, me.res, me.answer, result)
                    \/ Becomes(c, "paid", me.i + 1, NoRes, me.answer, me.result)
              /\ FailOverDenied(c) =>
                    \/ Becomes(c, "done", me.i, me.res, me.answer, "budget_denied")
                    \/ Becomes(c, "paid", me.i + 1, me.res, me.answer, me.result)
<1> USE DEF CallState, Becomes
<1>1. ASSUME NEW x \in Results, Finish(c, x)
      PROVE  Becomes(c, "done", call[c].i, call[c].res, call[c].answer, x)
  BY <1>1 DEF Finish
<1>2. ASSUME FailOver(c, result), ~plan[c].exact
      PROVE  Becomes(c, "paid", call[c].i + 1, NoRes, call[c].answer, call[c].result)
  BY <1>2 DEF FailOver
<1>3. ASSUME FailOverDenied(c), ~plan[c].exact
      PROVE  Becomes(c, "paid", call[c].i + 1, call[c].res, call[c].answer, call[c].result)
  BY <1>3 DEF FailOverDenied
<1>4. "budget_denied" \in Results
  BY DEF Results
<1> HIDE DEF CallState, Becomes
<1> QED  BY <1>1, <1>2, <1>3, <1>4 DEF FailOver, FailOverDenied

\* The candidates that may be tried are among those of the plan.
LEMMA PaidFacts ==
    ASSUME plan \in Plans, NEW c \in Calls
    PROVE  /\ plan[c] \in Plan
           /\ PaidOf(c) \in Seq(Candidate)
           /\ DOMAIN PaidOf(c) \subseteq Nat \ {0}
           /\ ~plan[c].substitutions => DOMAIN PaidOf(c) \subseteq {1}
           /\ \A i \in DOMAIN PaidOf(c) : <<c, i>> \in Ids
           /\ \A i \in Nat \ {0} : i <= Len(PaidOf(c)) => i \in DOMAIN PaidOf(c)
<1>1. /\ plan[c] \in Plan
      /\ {c} \X DOMAIN plan[c].paid \subseteq Ids
  BY RouterAssumption
<1>2. plan[c].paid \in Seq(Candidate)
  BY <1>1 DEF Plan
<1>3. \/ PaidOf(c) = plan[c].paid /\ (plan[c].substitutions \/ plan[c].paid = <<>>)
      \/ PaidOf(c) = <<>>
      \/ PaidOf(c) = <<Head(plan[c].paid)>> /\ plan[c].paid # <<>>
  BY <1>1 DEF PaidOf, Plan
<1>4. CASE PaidOf(c) = plan[c].paid /\ (plan[c].substitutions \/ plan[c].paid = <<>>)
  BY <1>1, <1>2, <1>4
<1>5. CASE PaidOf(c) = <<>>
  BY <1>1, <1>5
<1>6. CASE PaidOf(c) = <<Head(plan[c].paid)>> /\ plan[c].paid # <<>>
  BY <1>1, <1>2, <1>6
<1> QED  BY <1>3, <1>4, <1>5, <1>6

-----------------------------------------------------------------------------
(* What a step of one call leaves alone.                                   *)

\* A step of c changes no reservation but that of c's candidate, and loses no
\* charge.
Gentle(c) ==
    /\ \A r : r.id # <<c, call[c].i>> => (r \in st'.live <=> r \in st.live)
    /\ charged \subseteq charged'

\* What the invariant says of one call and of one request.
LEMMA InvFacts ==
    ASSUME WalkInv
    PROVE  /\ Types /\ plan \in Plans /\ call \in [Calls -> CallState]
           /\ \A c \in Calls :
                 /\ CallOK(c) /\ call[c].i \in Nat
                 /\ call[c].pc \in {"dispatch", "settle", "overage"} => call[c].res \in Reservation
           /\ \A s \in sent :
                 /\ SentOK(s) /\ s.call \in Calls /\ s.i \in Nat /\ s.kind \in Kinds
                 /\ s.res \in Reservation /\ s.bill \in Nat
           /\ OneRequest
<1>1. Types /\ \A c \in Calls :
          call[c].pc \in {"dispatch", "settle", "overage"} => call[c].res # NoRes
  BY TypesAre DEF WalkInv
<1>2. \A c \in Calls : call[c].i \in Nat /\ call[c].res \in Reservation \cup {NoRes}
  BY <1>1 DEF Types, CallState
<1>3. \A s \in sent : /\ s.call \in Calls /\ s.i \in Nat /\ s.kind \in Kinds
                      /\ s.res \in Reservation /\ s.bill \in Nat
  BY <1>1 DEF Types
<1> QED  BY <1>1, <1>2, <1>3 DEF WalkInv, Types

\* A step of c leaves the other calls, their requests, and what c's earlier
\* candidates recorded as they were.
LEMMA OthersKeep ==
    ASSUME WalkInv, NEW c \in Calls, Gentle(c), plan' = plan,
           \A d \in Calls \ {c} : call'[d] = call[d]
    PROVE  /\ \A d \in Calls \ {c} : CallOK(d)'
           /\ \A s \in sent : s.call # c => SentOK(s)'
           /\ \A s \in sent : s.call = c /\ s.i < call[c].i => Recorded(s)'
<1>1. ASSUME NEW d \in Calls \ {c} PROVE CallOK(d)'
  <2>1. CallOK(d) /\ call'[d] = call[d] /\ PaidOf(d)' = PaidOf(d)
    BY InvFacts DEF PaidOf
  <2>2. call[d].res.id = <<d, call[d].i>> => call[d].res.id # <<c, call[c].i>>
    OBVIOUS
  <2> QED  BY <2>1, <2>2 DEF CallOK, Gentle
<1>2. ASSUME NEW s \in sent, s.call # c PROVE SentOK(s)'
  <2>1. SentOK(s) /\ call'[s.call] = call[s.call] /\ s.res.id = <<s.call, s.i>>
    BY <1>2, InvFacts DEF SentOK
  <2>2. s.res.id # <<c, call[c].i>>
    BY <1>2, <2>1
  <2>3. Recorded(s) => Recorded(s)'
    BY <2>2 DEF Recorded, Gentle
  <2> QED  BY <2>1, <2>3 DEF SentOK
<1>3. ASSUME NEW s \in sent, s.call = c, s.i < call[c].i PROVE Recorded(s)'
  <2>1. Recorded(s) /\ s.res.id = <<c, s.i>> /\ s.i # call[c].i
    BY <1>3, InvFacts DEF SentOK
  <2>2. s.res.id # <<c, call[c].i>>
    BY <2>1
  <2> QED  BY <2>1, <2>2 DEF Recorded, Gentle
<1> QED  BY <1>1, <1>2, <1>3

-----------------------------------------------------------------------------
(* A call that walks its chain.                                            *)

Walks(c) ==
    /\ UNCHANGED <<ledger, plan, sent>>
    /\ call[c].pc \in {"free", "paid", "reserve"}
    /\ \E res, result : \E pc \in {"free", "paid", "reserve", "done"}, i \in Nat :
          /\ Becomes(c, pc, i, res, call[c].answer, result)
          /\ i >= call[c].i \/ (call[c].pc = "free" /\ i = 1)
          /\ pc = "free" => call[c].pc = "free"
          /\ pc # "done" => result = call[c].result
          /\ pc = "reserve" => i = call[c].i /\ i \in DOMAIN PaidOf(c)

\* Ten of the steps of a call only walk its chain.
LEMMA WalkShape ==
    ASSUME WalkInv, NEW c \in Calls,
           \/ FreeAnswers(c) \/ FreeFails(c) \/ FreeTierDone(c)
           \/ NotApproved(c) \/ Admitted(c) \/ NotCapable(c) \/ CannotBound(c) \/ Refused(c)
           \/ ReserveRaises(c) \/ PaidTierDone(c)
    PROVE  Walks(c)
<1>0. /\ call \in [Calls -> CallState] /\ plan \in Plans
      /\ call[c].i \in Nat /\ call[c].i >= 1
      /\ call[c].pc = "reserve" => call[c].i \in DOMAIN PaidOf(c)
  BY InvFacts DEF CallOK
<1>1. {"success", "provider_failure", "route_unavailable", "paid_not_approved", "budget_denied",
       "ledger_unavailable", "outcome_unknown"} \subseteq Results
  BY DEF Results
<1> DEFINE Quiet == UNCHANGED <<ledger, plan, sent>> /\ call[c].pc \in {"free", "paid", "reserve"}
<1>a. ASSUME Quiet, NEW result \in Results, Finish(c, result) PROVE Walks(c)
  <2>1. Becomes(c, "done", call[c].i, call[c].res, call[c].answer, result)
    BY <1>0, <1>a, MoveEffect
  <2> QED  BY <1>0, <1>a, <2>1 DEF Walks
<1>b. ASSUME Quiet, NEW result \in Results, FailOver(c, result) PROVE Walks(c)
  <2>1. CASE Becomes(c, "done", call[c].i, call[c].res, call[c].answer, result)
    BY <1>0, <1>b, <2>1 DEF Walks
  <2>2. CASE Becomes(c, "paid", call[c].i + 1, NoRes, call[c].answer, call[c].result)
    <3>1. call[c].i + 1 \in Nat /\ call[c].i + 1 >= call[c].i
      BY <1>0
    <3> QED  BY <1>b, <2>2, <3>1 DEF Walks
  <2> QED  BY <1>0, <1>b, <2>1, <2>2, MoveEffect
<1>c. ASSUME Quiet, FailOverDenied(c) PROVE Walks(c)
  BY <1>0, <1>1, <1>c, MoveEffect DEF Walks
<1>2. CASE FreeAnswers(c)
  BY <1>1, <1>2, <1>a DEF FreeAnswers
<1>3. CASE FreeFails(c)
  <2>1. Quiet /\ call[c].pc = "free"
    BY <1>3 DEF FreeFails
  <2>2. CASE plan[c].exact
    BY <1>1, <1>3, <1>a, <2>1, <2>2 DEF FreeFails
  <2>3. CASE ~plan[c].exact
    <3>1. Becomes(c, "free", call[c].i + 1, call[c].res, call[c].answer, call[c].result)
      BY <1>0, <1>3, <2>1, <2>3 DEF FreeFails, Becomes, CallState
    <3> QED  BY <1>0, <2>1, <3>1 DEF Walks
  <2> QED  BY <2>2, <2>3
<1>4. CASE FreeTierDone(c)
  <2>1. Quiet /\ call[c].pc = "free"
    BY <1>4 DEF FreeTierDone
  <2>2. CASE PaidOf(c) = <<>>
    BY <1>1, <1>4, <1>a, <2>1, <2>2 DEF FreeTierDone
  <2>3. CASE PaidOf(c) # <<>>
    <3>1. Becomes(c, "paid", 1, call[c].res, call[c].answer, call[c].result)
      BY <1>0, <1>4, <2>3 DEF FreeTierDone, Becomes, CallState
    <3> QED  BY <1>0, <2>1, <3>1 DEF Walks
  <2> QED  BY <2>2, <2>3
<1>5. CASE NotApproved(c)
  BY <1>1, <1>5, <1>b DEF NotApproved, HasTurn
<1>6. CASE Admitted(c)
  <2>1. Quiet /\ call[c].pc = "paid" /\ call[c].i \in DOMAIN PaidOf(c)
    BY <1>0, <1>6, PaidFacts DEF Admitted, HasTurn
  <2>2. Becomes(c, "reserve", call[c].i, call[c].res, call[c].answer, call[c].result)
    BY <1>0, <1>6 DEF Admitted, Becomes, CallState
  <2> QED  BY <1>0, <2>1, <2>2 DEF Walks
<1>7. CASE NotCapable(c)
  BY <1>1, <1>7, <1>b DEF NotCapable
<1>8. CASE CannotBound(c)
  BY <1>1, <1>8, <1>a DEF CannotBound
<1>9. CASE Refused(c)
  <2>1. \/ Finish(c, "ledger_unavailable") \/ Finish(c, "outcome_unknown") \/ FailOverDenied(c)
    BY <1>9 DEF Refused
  <2> QED  BY <1>1, <1>9, <1>a, <1>c, <2>1 DEF Refused
<1>10. CASE ReserveRaises(c)
  BY <1>1, <1>10, <1>a DEF ReserveRaises
<1>11. CASE PaidTierDone(c)
  <2>1. PICK result \in {"budget_denied", "paid_not_approved", "provider_failure"} :
            Finish(c, result)
    BY <1>11 DEF PaidTierDone
  <2> QED  BY <1>1, <1>11, <1>a, <2>1 DEF PaidTierDone
<1> QED
  BY <1>2, <1>3, <1>4, <1>5, <1>6, <1>7, <1>8, <1>9, <1>10, <1>11

\* Walking the chain keeps the invariant.
LEMMA WalkStep ==
    ASSUME WalkInv, NEW c \in Calls, Walks(c)
    PROVE  WalkInv'
<1>0. Types /\ CallOK(c) /\ OneRequest /\ call[c].i \in Nat
  BY InvFacts
<1>p. PICK res, result : \E pc \in {"free", "paid", "reserve", "done"}, i \in Nat :
          /\ Becomes(c, pc, i, res, call[c].answer, result)
          /\ i >= call[c].i \/ (call[c].pc = "free" /\ i = 1)
          /\ pc = "free" => call[c].pc = "free"
          /\ pc # "done" => result = call[c].result
          /\ pc = "reserve" => i = call[c].i /\ i \in DOMAIN PaidOf(c)
  BY DEF Walks
<1>1. PICK pc \in {"free", "paid", "reserve", "done"}, i \in Nat :
          /\ Becomes(c, pc, i, res, call[c].answer, result)
          /\ i >= call[c].i \/ (call[c].pc = "free" /\ i = 1)
          /\ pc = "free" => call[c].pc = "free"
          /\ pc # "done" => result = call[c].result
          /\ pc = "reserve" => i = call[c].i /\ i \in DOMAIN PaidOf(c)
  BY <1>p
<1>2. Gentle(c) /\ plan' = plan /\ sent' = sent /\ st' = st /\ charged' = charged
  BY DEF Walks, Gentle, ledger
<1>a. call[c].pc \in {"free", "paid", "reserve"}
  BY DEF Walks
<1>3. /\ \A d \in Calls \ {c} : CallOK(d)'
      /\ \A s \in sent : s.call # c => SentOK(s)'
  BY <1>1, <1>2, OthersKeep DEF Becomes
<1>4. CallOK(c)'
  <2>1. PaidOf(c)' = PaidOf(c)
    BY <1>2 DEF PaidOf
  <2> QED  BY <1>0, <1>1, <1>a, <2>1 DEF CallOK, Becomes
<1>5. ASSUME NEW s \in sent, s.call = c PROVE SentOK(s)'
  <2>1. SentOK(s) /\ s.i \in Nat /\ s.i < call[c].i /\ call[c].pc # "free"
    BY <1>5, InvFacts DEF SentOK, Walks
  <2>2. i >= call[c].i /\ pc # "free" /\ s.i < i /\ s.i # i
    BY <1>0, <1>1, <2>1
  <2>3. Recorded(s) /\ Recorded(s)'
    BY <1>2, <1>5, <2>1 DEF SentOK, Recorded
  <2> QED  BY <1>1, <1>2, <1>5, <2>1, <2>2, <2>3 DEF SentOK, Becomes
<1>6. TypeOK'
  <2>1. Types'
    BY <1>0, <1>1, <1>2 DEF Types, Becomes
  <2>2. \A d \in Calls : call'[d].pc \in {"dispatch", "settle", "overage"} => call'[d].res # NoRes
    BY <1>1, TypesAre DEF Becomes, WalkInv
  <2> QED  BY <2>1, <2>2 DEF TypeOK, Types, CallState
<1> QED
  BY <1>0, <1>2, <1>3, <1>4, <1>5, <1>6 DEF WalkInv, OneRequest

-----------------------------------------------------------------------------
(* A call whose candidate the ledger or a provider has heard of.           *)

\* A call that ends without a definite failure.
LEMMA StopStep ==
    ASSUME WalkInv, NEW c \in Calls, NEW result, result \notin Definite, Gentle(c),
           plan' = plan, sent' = sent,
           Becomes(c, "done", call[c].i, call[c].res, call[c].answer, result)
    PROVE  WalkInv'
<1>0. Types /\ CallOK(c) /\ OneRequest /\ call[c].i \in Nat
  BY InvFacts
<1>1. /\ \A d \in Calls \ {c} : CallOK(d)'
      /\ \A s \in sent : s.call # c => SentOK(s)'
      /\ \A s \in sent : s.call = c /\ s.i < call[c].i => Recorded(s)'
  BY OthersKeep DEF Becomes
<1>2. CallOK(c)'
  BY <1>0 DEF CallOK, Becomes
<1>3. ASSUME NEW s \in sent, s.call = c PROVE SentOK(s)'
  BY <1>1, <1>3, InvFacts DEF SentOK, Becomes
<1>4. TypeOK'
  <2>1. Types'
    BY <1>0 DEF Types, Becomes
  <2>2. \A d \in Calls : call'[d].pc \in {"dispatch", "settle", "overage"} => call'[d].res # NoRes
    BY TypesAre DEF Becomes, WalkInv
  <2> QED  BY <2>1, <2>2 DEF TypeOK, Types, CallState
<1> QED
  BY <1>0, <1>1, <1>2, <1>3, <1>4 DEF WalkInv, OneRequest

\* A call whose candidate failed for sure, or was never sent anything, ends or
\* goes on to the next.
LEMMA NextCandidateStep ==
    ASSUME WalkInv, NEW c \in Calls, call[c].pc \in {"settle", "overage"}, Gentle(c),
           plan' = plan, sent' = sent,
           FailOver(c, "provider_failure"),
           \A s \in sent : s.call = c /\ s.i = call[c].i => s.kind = "definitive" /\ Recorded(s)'
    PROVE  WalkInv'
<1>0. Types /\ CallOK(c) /\ OneRequest /\ call[c].i \in Nat
  BY InvFacts
<1>p. PICK res, result : \E pc \in {"paid", "done"}, i \in Nat :
          /\ Becomes(c, pc, i, res, call[c].answer, result)
          /\ pc = "paid" => i = call[c].i + 1 /\ result = call[c].result
          /\ pc = "done" => i = call[c].i
  <2>1. "provider_failure" \in Results
    BY DEF Results
  <2> QED  BY <1>0, <2>1, MoveEffect DEF Types
<1>1. PICK pc \in {"paid", "done"}, i \in Nat :
          /\ Becomes(c, pc, i, res, call[c].answer, result)
          /\ pc = "paid" => i = call[c].i + 1 /\ result = call[c].result
          /\ pc = "done" => i = call[c].i
  BY <1>p
<1>2. /\ \A d \in Calls \ {c} : CallOK(d)'
      /\ \A s \in sent : s.call # c => SentOK(s)'
      /\ \A s \in sent : s.call = c /\ s.i < call[c].i => Recorded(s)'
  BY <1>1, OthersKeep DEF Becomes
<1>3. CallOK(c)'
  BY <1>0, <1>1 DEF CallOK, Becomes
<1>4. ASSUME NEW s \in sent, s.call = c PROVE SentOK(s)'
  <2>1. SentOK(s) /\ s.i \in Nat /\ s.i <= call[c].i /\ s.kind = "definitive" /\ Recorded(s)'
    BY <1>0, <1>2, <1>4, InvFacts DEF SentOK
  <2> QED  BY <1>0, <1>1, <1>4, <2>1 DEF SentOK, Becomes
<1>5. TypeOK'
  <2>1. Types'
    BY <1>0, <1>1 DEF Types, Becomes
  <2>2. \A d \in Calls : call'[d].pc \in {"dispatch", "settle", "overage"} => call'[d].res # NoRes
    BY <1>1, TypesAre DEF Becomes, WalkInv
  <2> QED  BY <2>1, <2>2 DEF TypeOK, Types, CallState
<1> QED
  BY <1>0, <1>2, <1>3, <1>4, <1>5 DEF WalkInv, OneRequest

\* The reservation for the candidate is made.
LEMMA ReservedStep ==
    ASSUME WalkInv, NEW c \in Calls, call[c].pc = "reserve", Gentle(c),
           plan' = plan, sent' = sent,
           NEW r \in Reservation, r.id = <<c, call[c].i>>, r \in st'.live,
           Becomes(c, "dispatch", call[c].i, r, call[c].answer, call[c].result)
    PROVE  WalkInv'
<1>0. Types /\ CallOK(c) /\ OneRequest /\ call[c].i \in Nat
  BY InvFacts
<1>1. /\ \A d \in Calls \ {c} : CallOK(d)'
      /\ \A s \in sent : s.call # c => SentOK(s)'
      /\ \A s \in sent : s.call = c /\ s.i < call[c].i => Recorded(s)'
  BY OthersKeep DEF Becomes
<1>2. CallOK(c)'
  <2>1. PaidOf(c)' = PaidOf(c)
    BY DEF PaidOf
  <2> QED  BY <1>0, <2>1 DEF CallOK, Becomes
<1>3. ASSUME NEW s \in sent, s.call = c PROVE SentOK(s)'
  BY <1>1, <1>3, InvFacts DEF SentOK, Becomes
<1>4. TypeOK'
  <2>1. Types'
    BY <1>0 DEF Types, Becomes
  <2>2. \A d \in Calls : call'[d].pc \in {"dispatch", "settle", "overage"} => call'[d].res # NoRes
    BY TypesAre, RouterAssumption DEF Becomes, WalkInv
  <2> QED  BY <2>1, <2>2 DEF TypeOK, Types, CallState
<1> QED
  BY <1>0, <1>1, <1>2, <1>3, <1>4 DEF WalkInv, OneRequest

\* The attempt is made.
LEMMA DispatchStep ==
    ASSUME WalkInv, NEW c \in Calls, NEW kind \in Kinds, NEW bill \in 0 .. MaxActual,
           Dispatch(c, kind, bill)
    PROVE  WalkInv'
<1>0. /\ Types /\ CallOK(c) /\ OneRequest /\ call[c].i \in Nat /\ MaxActual \in Nat
      /\ call[c].res \in Reservation /\ call[c].res.id = <<c, call[c].i>>
      /\ call[c].pc = "dispatch" /\ bill \in Nat
  BY InvFacts, RouterAssumption DEF CallOK, Dispatch
<1> DEFINE answer == [kind |-> kind, actual |-> IF kind = "unknown" THEN 0 ELSE bill]
<1>1. /\ Becomes(c, "settle", call[c].i, call[c].res, answer, call[c].result)
      /\ answer.kind = kind /\ answer.actual \in 0 .. MaxActual
      /\ kind # "unknown" => answer.actual = bill
  <2>1. answer \in Answer /\ answer.kind = kind /\ answer.actual \in 0 .. MaxActual
        /\ (kind # "unknown" => answer.actual = bill)
    BY <1>0 DEF Answer
  <2>2. call' = [call EXCEPT ![c].pc = "settle", ![c].answer = answer]
    BY DEF Dispatch
  <2> HIDE DEF answer
  <2> QED  BY <1>0, <2>1, <2>2 DEF Types, Becomes, CallState
<1>2. PICK request \in [call : Calls, i : Nat, res : Reservation, kind : Kinds, bill : Nat] :
          /\ request.call = c /\ request.i = call[c].i /\ request.res = call[c].res
          /\ request.kind = kind /\ request.bill = bill
          /\ sent' = (IF kind = "pre_dispatch" THEN sent ELSE sent \cup {request})
  BY <1>0 DEF Dispatch
<1> HIDE DEF answer
<1>3. Gentle(c) /\ plan' = plan /\ st' = st /\ charged' = charged
  BY DEF Dispatch, ledger, Gentle
<1>4. /\ \A d \in Calls \ {c} : CallOK(d)'
      /\ \A s \in sent : s.call # c => SentOK(s)'
      /\ \A s \in sent : s.call = c /\ s.i < call[c].i => Recorded(s)'
  BY <1>1, <1>3, OthersKeep DEF Becomes
<1>5. CallOK(c)'
  <2>1. PaidOf(c)' = PaidOf(c)
    BY <1>3 DEF PaidOf
  <2> QED  BY <1>0, <1>1, <1>3, <2>1 DEF CallOK, Becomes
<1>6. ASSUME NEW s \in sent, s.call = c PROVE SentOK(s)' /\ s.i # call[c].i
  BY <1>0, <1>1, <1>3, <1>4, <1>6, InvFacts DEF SentOK, Becomes
<1>7. kind # "pre_dispatch" => SentOK(request)'
  <2>1. ~plan[c].substitutions => call[c].i = 1
    BY <1>0, PaidFacts, InvFacts DEF CallOK
  <2> QED  BY <1>0, <1>1, <1>2, <1>3, <2>1 DEF SentOK, Becomes, CallOK
<1>8. TypeOK'
  <2>1. Types'
    BY <1>0, <1>1, <1>2, <1>3 DEF Types, Becomes
  <2>2. \A d \in Calls : call'[d].pc \in {"dispatch", "settle", "overage"} => call'[d].res # NoRes
    BY <1>0, <1>1, TypesAre, RouterAssumption DEF Becomes, WalkInv
  <2> QED  BY <2>1, <2>2 DEF TypeOK, Types, CallState
<1>9. OneRequest'
  BY <1>0, <1>2, <1>6 DEF OneRequest
<1> QED
  BY <1>2, <1>4, <1>5, <1>6, <1>7, <1>8, <1>9 DEF WalkInv

\* What the ledger does when it is told how a request ended.
LEMMA RecordsEffect ==
    ASSUME P!TypeOK, WalkInv, NEW c \in Calls, call[c].pc = "settle", call[c].res \in st.live,
           Records(c)
    PROVE  LET r == call[c].res
               a == call[c].answer
           IN /\ P!Next
              /\ Gentle(c)
              /\ st'.live = st.live \ {r}
              /\ a.kind = "success" \/ (a.kind = "definitive" /\ a.actual > 0)
                    => [res |-> r, actual |-> a.actual] \in charged'
              /\ a.kind = "unknown" => [res |-> r, actual |-> r.cost] \in charged'
<1> DEFINE r == call[c].res
           a == call[c].answer
<1>0. /\ r.id = <<c, call[c].i>> /\ a.actual \in 0 .. MaxActual /\ MaxActual \in Nat
      /\ a.kind \in Kinds /\ r \in st.live
  BY InvFacts, RouterAssumption DEF CallOK, Types, CallState, Answer
<1> HIDE DEF r, a
<1>g. ASSUME st'.live = st.live \ {r}, charged \subseteq charged'
      PROVE  Gentle(c)
  BY <1>0, <1>g DEF Gentle
<1>1. CASE a.kind \in {"success", "definitive"}
  <2>1. PICK outcome \in {"success", "provider_failure"} :
            L!Settle(r, a.actual, outcome) /\ (a.kind = "success" <=> outcome = "success")
    BY <1>1 DEF Records, r, a
  <2>2. P!Next
    BY <1>0, <2>1, EndIsLedgers DEF P!Next
  <2>3. /\ st'.live = st.live \ {r} /\ charged \subseteq charged'
        /\ (outcome = "success" \/ a.actual # 0) => [res |-> r, actual |-> a.actual] \in charged'
    BY <2>1, EndEffect
  <2> QED  BY <1>0, <1>1, <1>g, <2>1, <2>2, <2>3 DEF r, a
<1>2. CASE a.kind = "pre_dispatch"
  <2>1. L!Release(r)
    BY <1>2 DEF Records, r, a
  <2>2. P!Next
    BY <1>0, <2>1, EndIsLedgers DEF P!Next
  <2>3. st'.live = st.live \ {r} /\ charged \subseteq charged'
    BY <2>1, EndEffect
  <2> QED  BY <1>2, <1>g, <2>2, <2>3 DEF r, a
<1>3. CASE a.kind = "unknown"
  <2>1. L!SettleUnknown(r)
    BY <1>3 DEF Records, r, a
  <2>2. P!Next
    BY <1>0, <2>1, EndIsLedgers DEF P!Next
  <2>3. /\ st'.live = st.live \ {r} /\ charged \subseteq charged'
        /\ [res |-> r, actual |-> r.cost] \in charged'
    BY <2>1, EndEffect
  <2> QED  BY <1>3, <1>g, <2>2, <2>3 DEF r, a
<1> QED  BY <1>0, <1>1, <1>2, <1>3 DEF Kinds

\* After it, the request of the candidate is recorded unless nobody saw its bill.
LEMMA RecordsRecords ==
    ASSUME P!TypeOK, WalkInv, NEW c \in Calls, call[c].pc = "settle", call[c].res \in st.live,
           Records(c), NEW s \in sent, s.call = c, s.i = call[c].i, s.kind # "unknown"
    PROVE  Recorded(s)'
<1>1. /\ s.res = call[c].res /\ s.kind = call[c].answer.kind /\ s.bill = call[c].answer.actual
      /\ s.kind \in Kinds /\ s.kind # "pre_dispatch"
  BY InvFacts DEF SentOK
<1>2. /\ st'.live = st.live \ {s.res}
      /\ s.bill > 0 => [res |-> s.res, actual |-> s.bill] \in charged'
  BY <1>1, RecordsEffect DEF Kinds
<1> QED  BY <1>2 DEF Recorded

\* So does going on once the ledger has answered.
LEMMA ContinueStep ==
    ASSUME WalkInv, NEW c \in Calls, call[c].pc \in {"settle", "overage"}, Gentle(c),
           plan' = plan, sent' = sent, Continue(c),
           \A s \in sent : s.call = c /\ s.i = call[c].i /\ s.kind # "unknown" => Recorded(s)'
    PROVE  WalkInv'
<1>0. call \in [Calls -> CallState] /\ call[c].answer.kind \in Kinds
  BY InvFacts DEF CallState, Answer
<1>1. ASSUME NEW result \in {"success", "outcome_unknown"}, Finish(c, result) PROVE WalkInv'
  <2>1. result \in Results /\ result \notin Definite
    BY DEF Results, Definite
  <2> QED  BY <1>0, <1>1, <2>1, MoveEffect, StopStep
<1>2. ASSUME FailOver(c, "provider_failure"), call[c].answer.kind \in {"definitive", "pre_dispatch"}
      PROVE  WalkInv'
  <2>1. \A s \in sent : s.call = c /\ s.i = call[c].i => s.kind = "definitive"
    BY <1>2, InvFacts DEF SentOK
  <2> QED  BY <1>2, <2>1, NextCandidateStep
<1> QED  BY <1>0, <1>1, <1>2 DEF Continue, Kinds

\* So does a settlement, which is a step of the ledger.
LEMMA SettlesStep ==
    ASSUME P!TypeOK, WalkInv, NEW c \in Calls, Settles(c)
    PROVE  WalkInv' /\ P!Next
<1>0. /\ call[c].pc = "settle" /\ call[c].res \in st.live /\ Records(c)
      /\ plan' = plan /\ sent' = sent
  BY DEF Settles
<1>1. /\ Gentle(c) /\ P!Next /\ st'.live = st.live \ {call[c].res}
      /\ Types /\ CallOK(c) /\ OneRequest /\ call[c].i \in Nat
      /\ call \in [Calls -> CallState] /\ call[c].res \in Reservation
  BY <1>0, RecordsEffect, InvFacts
<1>2. \A s \in sent : s.call = c /\ s.i = call[c].i /\ s.kind # "unknown" => Recorded(s)'
  BY <1>0, RecordsRecords
<1>3. CASE Continue(c)
  BY <1>0, <1>1, <1>2, <1>3, ContinueStep
<1>4. ASSUME call[c].answer.kind \in {"success", "definitive"},
             call' = [call EXCEPT ![c].pc = "overage"]
      PROVE  WalkInv'
  <2>1. Becomes(c, "overage", call[c].i, call[c].res, call[c].answer, call[c].result)
    BY <1>1, <1>4 DEF Becomes, CallState
  <2>2. /\ \A d \in Calls \ {c} : CallOK(d)'
        /\ \A s \in sent : s.call # c => SentOK(s)'
        /\ \A s \in sent : s.call = c /\ s.i < call[c].i => Recorded(s)'
    BY <1>0, <1>1, <2>1, OthersKeep DEF Becomes
  <2>3. CallOK(c)'
    <3>1. PaidOf(c)' = PaidOf(c)
      BY <1>0 DEF PaidOf
    <3> QED  BY <1>0, <1>1, <2>1, <3>1 DEF CallOK, Becomes
  <2>4. ASSUME NEW s \in sent, s.call = c PROVE SentOK(s)'
    <3>1. SentOK(s) /\ (s.i = call[c].i => s.kind # "unknown")
      BY <1>0, <1>4, <2>4, InvFacts DEF SentOK
    <3> QED  BY <1>0, <1>1, <1>2, <2>1, <2>2, <2>4, <3>1 DEF SentOK, Becomes
  <2>5. TypeOK'
    <3>1. Types'
      BY <1>0, <1>1, <2>1 DEF Types, Becomes
    <3>2. \A d \in Calls : call'[d].pc \in {"dispatch", "settle", "overage"} => call'[d].res # NoRes
      BY <1>0, <2>1, TypesAre DEF Becomes, WalkInv
    <3> QED  BY <3>1, <3>2 DEF TypeOK, Types, CallState
  <2> QED
    BY <1>0, <1>1, <2>2, <2>3, <2>4, <2>5 DEF WalkInv, OneRequest
<1> QED  BY <1>1, <1>3, <1>4 DEF Settles

\* So does the OVERAGE event.
LEMMA OveragesStep ==
    ASSUME P!TypeOK, WalkInv, NEW c \in Calls, Overages(c)
    PROVE  WalkInv' /\ P!Next
<1>1. P!Next
  BY RestIsLedgers DEF Overages, P!Next
<1>2. st'.live = st.live /\ charged' = charged /\ plan' = plan /\ sent' = sent
  <2>1. L!AfterOverage(st).live = st.live
    BY StateFields, EventEffect
  <2> QED  BY <2>1 DEF Overages, L!Overage
<1>3. call[c].pc = "overage" /\ Continue(c) /\ Gentle(c)
  BY <1>2 DEF Overages, Gentle
<1>4. \A s \in sent : s.call = c /\ s.i = call[c].i /\ s.kind # "unknown" => Recorded(s)'
  BY <1>2, <1>3, InvFacts DEF SentOK, Recorded
<1> QED  BY <1>1, <1>2, <1>3, <1>4, ContinueStep

\* So does a settlement that raises, and a cancellation anywhere.
LEMMA StopsStep ==
    ASSUME P!TypeOK, WalkInv, NEW c \in Calls, SettleRaises(c) \/ Cancel(c)
    PROVE  WalkInv' /\ [P!Next]_(P!vars)
<1>0. call \in [Calls -> CallState]
  BY InvFacts
<1>1. PICK result \in {"outcome_unknown", "cancelled"} : Finish(c, result)
  BY DEF SettleRaises, Cancel
<1>2. result \in Results /\ result \notin Definite
  BY DEF Results, Definite
<1>3. \/ UNCHANGED ledger
      \/ call[c].pc = "settle" /\ call[c].res \in st.live /\ Records(c)
  BY DEF SettleRaises, Cancel
<1>4. Gentle(c) /\ [P!Next]_(P!vars)
  <2>1. CASE UNCHANGED ledger
    BY <2>1 DEF ledger, Gentle, P!vars
  <2> QED  BY <1>3, <2>1, RecordsEffect
<1>5. plan' = plan /\ sent' = sent
  BY DEF SettleRaises, Cancel
<1> QED  BY <1>0, <1>1, <1>2, <1>4, <1>5, MoveEffect, StopStep

\* So does a reservation, made or lost with the exception.
LEMMA ReservesStep ==
    ASSUME P!TypeOK, WalkInv, NEW c \in Calls, Reserves(c)
    PROVE  WalkInv' /\ P!Next
<1>0. /\ call[c].pc = "reserve" /\ plan' = plan /\ sent' = sent
      /\ call \in [Calls -> CallState] /\ plan \in Plans
      /\ CallOK(c) /\ call[c].i \in DOMAIN PaidOf(c)
  BY InvFacts DEF Reserves, CallOK
<1> DEFINE id == <<c, call[c].i>>
           spec == SpecOf(c)
           r == NewReservation(id, today, spec)
<1>1. /\ id \in Ids /\ spec \in PaidSpecs /\ Turn(c) \in Candidate
  <2>1. /\ PaidOf(c) \in Seq(Candidate) /\ id \in Ids
    BY <1>0, PaidFacts
  <2>2. Turn(c) \in Candidate
    BY <1>0, <2>1 DEF Turn
  <2>3. KeyOf[c] \in Keys /\ MaxCost \in Nat
    BY RouterAssumption, LedgerAssumption
  <2> QED  BY <2>1, <2>2, <2>3 DEF PaidSpecs, SpecOf, Candidate
<1>2. r \in Reservation /\ r.id = id
  <2>1. today \in Days
    BY DEF P!TypeOK, P!Days, Days
  <2> QED  BY <1>1, <2>1 DEF NewReservation, Reservation, PaidSpecs
<1>3. L!Reserve(spec, id)
  BY DEF Reserves
<1>4. P!Next
  BY <1>1, <1>3, ReserveIsLedgers DEF P!Next
<1>5. st'.live = st.live \cup {r} /\ charged' = charged
  <2>1. L!AfterReserve(st, r).live = st.live \cup {r}
    BY StateFields, EventEffect
  <2>2. L!NewReservation(id, today, spec) = r
    BY DEF L!NewReservation, NewReservation
  <2> QED  BY <1>3, <2>1, <2>2 DEF L!Reserve
<1>6. Gentle(c)
  BY <1>2, <1>5 DEF Gentle
<1>7. CASE call' = [call EXCEPT ![c].pc = "dispatch", ![c].res = r]
  <2> HIDE DEF r
  <2>1. Becomes(c, "dispatch", call[c].i, r, call[c].answer, call[c].result)
    BY <1>0, <1>2, <1>7 DEF Becomes, CallState
  <2> QED  BY <1>0, <1>2, <1>4, <1>5, <1>6, <2>1, ReservedStep
<1>8. CASE Finish(c, "ledger_unavailable")
  <2>1. "ledger_unavailable" \in Results /\ "ledger_unavailable" \notin Definite
    BY DEF Results, Definite
  <2> QED  BY <1>0, <1>4, <1>6, <1>8, <2>1, MoveEffect, StopStep
<1> QED  BY <1>7, <1>8 DEF Reserves

-----------------------------------------------------------------------------
(* The operator, the compaction and the clock.                             *)

\* A step of the ledger that no call takes: it adds no reservation, and takes
\* none away from a call that still works on it.
LEMMA QuietStep ==
    ASSUME WalkInv, UNCHANGED <<plan, call, sent>>,
           st'.live \subseteq st.live, charged \subseteq charged',
           \A c \in Calls : call[c].pc # "done" /\ call[c].res \in st.live
                                => call[c].res \in st'.live
    PROVE  WalkInv'
<1>1. \A s \in sent : Recorded(s) => Recorded(s)'
  BY DEF Recorded
<1>2. ASSUME NEW s \in sent PROVE SentOK(s)'
  BY <1>1, <1>2, InvFacts DEF SentOK
<1>3. ASSUME NEW c \in Calls PROVE CallOK(c)'
  <2>1. PaidOf(c)' = PaidOf(c)
    BY DEF PaidOf
  <2> QED  BY <2>1, <1>3, InvFacts DEF CallOK
<1>4. TypeOK' /\ OneRequest'
  BY DEF WalkInv, TypeOK, OneRequest
<1> QED  BY <1>2, <1>3, <1>4 DEF WalkInv

\* Equal pairs have equal members.
LEMMA Pairs == \A a, b, x, y : <<a, b>> = <<x, y>> => a = x /\ b = y
OBVIOUS

\* A request is found by its reservation.
LEMMA RequestOf ==
    ASSUME WalkInv, NEW s \in sent, NEW t \in sent, s.res.id = t.res.id
    PROVE  s = t
<1>1. s.res.id = <<s.call, s.i>> /\ t.res.id = <<t.call, t.i>>
  BY InvFacts DEF SentOK
<1>2. <<s.call, s.i>> = <<t.call, t.i>>
  BY <1>1
<1>3. s.call = t.call /\ s.i = t.i
  BY <1>2, Pairs, Zenon
<1> QED  BY <1>3, InvFacts DEF OneRequest

\* The operator's evidence is the bill of the only request there can be.
LEMMA ReconcileStep ==
    ASSUME P!TypeOK, WalkInv, NEW r \in st.live, Reconcile(r)
    PROVE  /\ WalkInv' /\ P!Next
           /\ st'.live = st.live \ {r} /\ charged \subseteq charged' /\ sent' = sent
           /\ \A s \in sent : s.res = r => [res |-> r, actual |-> s.bill] \in charged'
<1>1. CASE \E s \in sent : s.res = r
  <2>1. PICK s \in sent : s.res = r /\ L!Recover(r, s.bill)
    BY <1>1 DEF Reconcile
  <2>2. /\ st'.live = st.live \ {r} /\ charged \subseteq charged'
        /\ [res |-> r, actual |-> s.bill] \in charged'
    BY <2>1, EndEffect
  <2>3. \A t \in sent : t.res = r => t = s
    BY <2>1, RequestOf
  <2>4. s.bill \in 0 .. MaxActual /\ P!Recover(r, s.bill)
    BY <2>1, EndIsLedgers, InvFacts DEF SentOK
  <2>5. P!Next
    BY <2>4 DEF P!Next
  <2>6. WalkInv'
    BY <2>2, QuietStep DEF Reconcile
  <2> QED  BY <2>2, <2>3, <2>5, <2>6 DEF Reconcile
<1>2. CASE ~\E s \in sent : s.res = r
  <2>1. L!Release(r)
    BY <1>2 DEF Reconcile
  <2>2. st'.live = st.live \ {r} /\ charged \subseteq charged'
    BY <2>1, EndEffect
  <2>3. P!Next
    BY <2>1, EndIsLedgers DEF P!Next
  <2>4. WalkInv'
    BY <2>2, QuietStep DEF Reconcile
  <2> QED  BY <1>2, <2>2, <2>3, <2>4 DEF Reconcile
<1> QED  BY <1>1, <1>2

\* Compaction and the clock touch no reservation and no charge.
LEMMA MaintenanceStep ==
    ASSUME P!TypeOK, WalkInv, Maintenance
    PROVE  WalkInv' /\ P!Next /\ st'.live = st.live /\ charged' = charged /\ sent' = sent
<1>1. st'.live = st.live /\ charged' = charged
  <2>1. L!Prune(st, today).live = st.live
    BY StateFields, EventEffect
  <2> QED  BY <2>1 DEF Maintenance, L!Compact, L!Tick
<1>2. P!Next
  BY RestIsLedgers DEF Maintenance, P!Next
<1> QED  BY <1>1, <1>2, QuietStep DEF Maintenance

-----------------------------------------------------------------------------
(* Where the bills are.                                                    *)

Held(s) ==
    \/ s.res \in st.live
    \/ \E c \in charged :
          /\ c.res = s.res
          /\ c.actual >= s.bill \/ (s.kind = "unknown" /\ c.actual >= s.res.cost)

\* A bill that was held stays held where its reservation does not end.
LEMMA StaysHeld ==
    ASSUME EveryBillIsHeld, charged \subseteq charged', NEW s \in sent, s.bill > 0,
           s.res \in st.live => s.res \in st'.live
    PROVE  Held(s)'
BY DEF EveryBillIsHeld, Held

\* A settlement records the bill of the request it ends, or all that was held
\* for it.
LEMMA RecordsHolds ==
    ASSUME P!TypeOK, WalkInv, EveryBillIsHeld, NEW c \in Calls, call[c].pc = "settle",
           call[c].res \in st.live, Records(c), sent' = sent
    PROVE  EveryBillIsHeld'
<1>1. /\ charged \subseteq charged' /\ st'.live = st.live \ {call[c].res}
      /\ call[c].answer.kind = "unknown" =>
            [res |-> call[c].res, actual |-> call[c].res.cost] \in charged'
      /\ call[c].res.id = <<c, call[c].i>> /\ call[c].res \in Reservation
      /\ call[c].i \in Nat /\ call \in [Calls -> CallState]
  BY RecordsEffect, InvFacts DEF Gentle, CallOK
<1>2. ASSUME NEW s \in sent, s.bill > 0 PROVE Held(s)'
  <2>0. /\ s.res.id = <<s.call, s.i>> /\ s.bill \in Nat /\ s.res \in Reservation
        /\ s.call \in Calls /\ SentOK(s)
    BY InvFacts DEF SentOK
  <2>1. CASE s.res # call[c].res
    BY <1>1, <1>2, <2>1, StaysHeld
  <2>2. CASE s.res = call[c].res
    <3>1. s.call = c /\ s.i = call[c].i
      <4>1. <<s.call, s.i>> = <<c, call[c].i>>
        BY <1>1, <2>0, <2>2
      <4> QED  BY <4>1, Pairs, Zenon
    <3>2. s.kind = call[c].answer.kind
      BY <2>0, <3>1 DEF SentOK
    <3>3. CASE s.kind = "unknown"
      <4>1. s.res.cost \in Int
        BY <2>0, LedgerAssumption DEF Reservation
      <4> QED  BY <1>1, <2>2, <3>2, <3>3, <4>1 DEF Held
    <3>4. CASE s.kind # "unknown"
      <4>1. Recorded(s)'
        BY <3>1, <3>4, RecordsRecords
      <4> QED  BY <1>2, <2>0, <4>1 DEF Recorded, Held
    <3> QED  BY <3>3, <3>4
  <2> QED  BY <2>1, <2>2
<1> QED  BY <1>2 DEF EveryBillIsHeld, Held

\* What the provider bills for a new request is held by its reservation.
LEMMA DispatchHolds ==
    ASSUME WalkInv, EveryBillIsHeld, NEW c \in Calls, NEW kind \in Kinds,
           NEW bill \in 0 .. MaxActual, Dispatch(c, kind, bill)
    PROVE  EveryBillIsHeld'
<1>1. call[c].res \in st.live /\ st' = st /\ charged' = charged
  BY InvFacts DEF Dispatch, CallOK, ledger
<1>2. ASSUME NEW s \in sent', s.bill > 0 PROVE Held(s)'
  <2>1. s \in sent \/ s.res = call[c].res
    BY DEF Dispatch
  <2>2. CASE s \in sent
    BY <1>1, <1>2, <2>2, StaysHeld
  <2> QED  BY <1>1, <2>1, <2>2 DEF Held
<1> QED  BY <1>2 DEF EveryBillIsHeld, Held

\* No reservation ends: every bill that was held still is.
LEMMA NoneEnds ==
    ASSUME EveryBillIsHeld, charged \subseteq charged', sent' = sent, st.live \subseteq st'.live
    PROVE  EveryBillIsHeld'
<1>1. ASSUME NEW s \in sent, s.bill > 0 PROVE Held(s)'
  BY <1>1, StaysHeld
<1> QED  BY <1>1 DEF EveryBillIsHeld, Held

-----------------------------------------------------------------------------
(* The invariant and the theorems.                                         *)

\* The ledger is empty, no call has started and nothing was sent.
LEMMA RouterInit == Init => RouterInv
<1> SUFFICES ASSUME Init PROVE RouterInv
  OBVIOUS
<1>1. /\ st = EmptyState /\ today = 1 /\ charged = {} /\ freed = {}
      /\ plan \in Plans /\ sent = {}
      /\ call = [c \in Calls |-> [pc |-> "free", i |-> 1, res |-> NoRes, answer |-> NoAnswer,
                                  approved |-> FALSE, denied |-> FALSE, result |-> "none"]]
  BY DEF Init, L!Init, L!EmptyState, L!Days, EmptyState, Days
<1>2. P!IInv
  BY <1>1, LedgerConstants
     DEF P!IInv, P!TypeOK, P!State, P!Status, P!Terminal, P!Days, P!Charge, P!EndsOnce,
         P!Everything, P!MarkersAgree, P!OneChargePerKeyAndDay, EmptyState, Days
<1>3. /\ NoAnswer \in Answer /\ NoAnswer.actual \in 0 .. MaxActual /\ "none" \in Results
  BY RouterAssumption DEF NoAnswer, Answer, Kinds, Results
<1>4. call \in [Calls -> CallState] /\ \A c \in Calls : call[c].pc = "free" /\ CallOK(c)
  BY <1>1, <1>3 DEF CallState, CallOK
<1>5. WalkInv
  BY <1>1, <1>4 DEF WalkInv, TypeOK, CallState, SentOK, OneRequest
<1> QED  BY <1>1, <1>2, <1>5 DEF RouterInv, EveryBillIsHeld

\* One step of a call: the ledger takes one of its own steps or none.
LEMMA CallStep ==
    ASSUME P!TypeOK, WalkInv, EveryBillIsHeld, NEW c \in Calls, Step(c) \/ Cancel(c)
    PROVE  WalkInv' /\ [P!Next]_(P!vars) /\ EveryBillIsHeld'
<1>1. CASE \/ FreeAnswers(c) \/ FreeFails(c) \/ FreeTierDone(c)
           \/ NotApproved(c) \/ Admitted(c) \/ NotCapable(c) \/ CannotBound(c) \/ Refused(c)
           \/ ReserveRaises(c) \/ PaidTierDone(c)
  <2>1. Walks(c)
    BY <1>1, WalkShape
  <2>2. UNCHANGED <<ledger, sent>>
    BY <2>1 DEF Walks
  <2> QED  BY <2>1, <2>2, WalkStep, NoneEnds DEF ledger, P!vars
<1>2. CASE Reserves(c)
  <2>1. st.live \subseteq st'.live /\ charged' = charged /\ sent' = sent
    <3>1. L!AfterReserve(st, L!NewReservation(<<c, call[c].i>>, today, SpecOf(c))).live
              = st.live \cup {L!NewReservation(<<c, call[c].i>>, today, SpecOf(c))}
      BY StateFields, EventEffect
    <3> QED  BY <1>2, <3>1 DEF Reserves, L!Reserve
  <2> QED  BY <1>2, <2>1, ReservesStep, NoneEnds
<1>3. CASE \E kind \in Kinds, bill \in 0 .. MaxActual : Dispatch(c, kind, bill)
  <2>1. PICK kind \in Kinds, bill \in 0 .. MaxActual : Dispatch(c, kind, bill)
    BY <1>3
  <2>2. UNCHANGED P!vars
    BY <2>1 DEF Dispatch, ledger, P!vars
  <2> QED  BY <2>1, <2>2, DispatchStep, DispatchHolds
<1>4. CASE Settles(c)
  BY <1>4, SettlesStep, RecordsHolds DEF Settles
<1>5. CASE Overages(c)
  <2>1. st'.live = st.live /\ charged' = charged /\ sent' = sent
    <3>1. L!AfterOverage(st).live = st.live
      BY StateFields, EventEffect
    <3> QED  BY <1>5, <3>1 DEF Overages, L!Overage
  <2> QED  BY <1>5, <2>1, OveragesStep, NoneEnds
<1>6. CASE SettleRaises(c) \/ Cancel(c)
  <2>1. EveryBillIsHeld'
    <3>1. sent' = sent
      BY <1>6 DEF SettleRaises, Cancel
    <3>2. CASE UNCHANGED ledger
      BY <3>1, <3>2, NoneEnds DEF ledger
    <3>3. CASE call[c].pc = "settle" /\ call[c].res \in st.live /\ Records(c)
      BY <3>1, <3>3, RecordsHolds
    <3> QED  BY <1>6, <3>2, <3>3 DEF SettleRaises, Cancel
  <2> QED  BY <1>6, <2>1, StopsStep
<1> QED
  BY <1>1, <1>2, <1>3, <1>4, <1>5, <1>6 DEF Step

\* Every step of Router keeps the invariant of the ledger and its own.
LEMMA RouterInvStep ==
    ASSUME RouterInv, [Next]_vars
    PROVE  RouterInv'
<1>0. P!IInv /\ P!TypeOK /\ WalkInv /\ EveryBillIsHeld
  BY DEF RouterInv, P!IInv
<1>1. WalkInv' /\ [P!Next]_(P!vars) /\ EveryBillIsHeld'
  <2>1. ASSUME NEW c \in Calls, Step(c) \/ Cancel(c)
        PROVE  WalkInv' /\ [P!Next]_(P!vars) /\ EveryBillIsHeld'
    BY <1>0, <2>1, CallStep
  <2>2. ASSUME NEW r \in st.live, Reconcile(r)
        PROVE  WalkInv' /\ P!Next /\ EveryBillIsHeld'
    <3>1. /\ WalkInv' /\ P!Next
          /\ st'.live = st.live \ {r} /\ charged \subseteq charged' /\ sent' = sent
          /\ \A s \in sent : s.res = r => [res |-> r, actual |-> s.bill] \in charged'
      BY <1>0, <2>2, ReconcileStep
    <3>2. ASSUME NEW s \in sent, s.bill > 0 PROVE Held(s)'
      <4>1. CASE s.res = r
        <5>1. s.bill \in Nat
          BY <1>0, InvFacts
        <5>2. [res |-> s.res, actual |-> s.bill] \in charged'
          BY <3>1, <4>1
        <5> QED  BY <5>1, <5>2 DEF Held
      <4>2. CASE s.res # r
        BY <1>0, <3>1, <3>2, <4>2, StaysHeld
      <4> QED  BY <4>1, <4>2
    <3> QED  BY <3>1, <3>2 DEF EveryBillIsHeld, Held
  <2>3. CASE Maintenance
    BY <1>0, <2>3, MaintenanceStep, NoneEnds
  <2>4. CASE UNCHANGED vars
    <3>1. UNCHANGED <<st, today, charged, freed, plan, call, sent>>
      BY <2>4 DEF vars
    <3> QED  BY <1>0, <3>1, QuietStep, NoneEnds DEF P!vars
  <2> QED  BY <2>1, <2>2, <2>3, <2>4 DEF Next
<1>2. P!IInv'
  BY <1>0, <1>1, LedgerConstants, P!IInvStep
<1> QED  BY <1>1, <1>2 DEF RouterInv

\* The invariant holds always.
THEOREM RouterInvAlways == Spec => []RouterInv
<1>1. RouterInv /\ [Next]_vars => RouterInv'
  BY RouterInvStep
<1> QED  BY <1>1, RouterInit, PTL DEF Spec

\* Money a provider took is held or charged, whatever the call, the ledger or
\* the operator did since (the dispatch and settlement of router.py).
THEOREM BillsHeld == Spec => []EveryBillIsHeld
BY RouterInvAlways, PTL DEF RouterInv

\* A key is billed at most once per budget day: two bills would be two
\* reservations of the key, and the ledger has one.
THEOREM KeysBilledOnce == Spec => []OneBillPerKeyAndDay
<1>1. RouterInv => OneBillPerKeyAndDay
  <2> SUFFICES ASSUME RouterInv, NEW s \in sent, NEW t \in sent, s.bill > 0, t.bill > 0,
                      s.res.key = t.res.key, s.res.day = t.res.day
               PROVE  s = t
    BY DEF OneBillPerKeyAndDay
  <2>1. {s.res, t.res} \subseteq st.live \cup {c.res : c \in charged}
    BY DEF RouterInv, EveryBillIsHeld
  <2>2. s.res = t.res
    BY <2>1 DEF RouterInv, P!IInv, P!OneChargePerKeyAndDay
  <2> QED  BY <2>2, RequestOf DEF RouterInv
<1> QED  BY <1>1, RouterInvAlways, PTL

\* A chain goes past no unknown outcome, and without substitutions it stays on
\* its first candidate.
THEOREM ChainsGoOnWhereTheyMay == Spec => []GoesOnOnlyWhereItMay
<1>1. RouterInv => GoesOnOnlyWhereItMay
  <2> SUFFICES ASSUME RouterInv, NEW s \in sent, NEW t \in sent, s.call = t.call
               PROVE  /\ s.kind = "unknown" => t.i <= s.i
                      /\ ~plan[s.call].substitutions => s = t /\ s.i = 1
    BY DEF GoesOnOnlyWhereItMay
  <2>1. /\ SentOK(s) /\ SentOK(t) /\ s.i \in Nat /\ t.i \in Nat /\ s.call \in Calls
        /\ call[s.call].i \in Nat /\ OneRequest
    BY InvFacts DEF RouterInv
  <2>2. s.kind = "unknown" => s.i = call[s.call].i /\ t.i <= call[s.call].i
    BY <2>1 DEF SentOK
  <2>3. ~plan[s.call].substitutions => s.i = 1 /\ t.i = 1
    BY <2>1 DEF SentOK
  <2> QED  BY <2>1, <2>2, <2>3 DEF OneRequest
<1> QED  BY <1>1, RouterInvAlways, PTL

\* A call that reports a definite failure has every bill in the ledger.
THEOREM DefiniteFailuresSettled == Spec => []DefiniteFailureIsSettled
<1>1. RouterInv => DefiniteFailureIsSettled
  <2> SUFFICES ASSUME RouterInv, NEW c \in Calls, call[c].result \in Definite,
                      NEW s \in sent, s.call = c
               PROVE  s.kind = "definitive" /\ Recorded(s)
    BY DEF DefiniteFailureIsSettled, Definite, Recorded
  <2>1. SentOK(s) /\ CallOK(c) /\ s.i \in Nat /\ call[c].i \in Nat
    BY InvFacts DEF RouterInv
  <2>2. call[c].pc = "done"
    BY <2>1 DEF CallOK, Definite
  <2> QED  BY <2>1, <2>2 DEF SentOK
<1> QED  BY <1>1, RouterInvAlways, PTL
=============================================================================
