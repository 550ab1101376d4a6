------------------------- MODULE LedgerBudget_proofs -------------------------
(***************************************************************************)
(* Theorems about LedgerBudget, for every value of the constants: type     *)
(* correctness, one charge per key and day, the call cap, the money cap.   *)
(***************************************************************************)
EXTENDS LedgerBudget, TLAPS, FiniteSetTheorems

-----------------------------------------------------------------------------
(* The helpers keep the type of the state. *)

\* Mark() sets one marker and leaves the rest of the state alone.
LEMMA MarkType ==
    ASSUME NEW s \in State, NEW r \in Reservation, NEW x \in Status
    PROVE  /\ Mark(s, r, x) \in State
           /\ Mark(s, r, x).calls = s.calls
           /\ Mark(s, r, x).money = s.money
           /\ Mark(s, r, x).live = s.live
           /\ Mark(s, r, x).blocked = s.blocked
           /\ Mark(s, r, x).idem = [s.idem EXCEPT ![r.day][r.key] = x]
BY DEF Mark, State, Reservation

\* Pop() takes one reservation out of the live ones, no more.
LEMMA PopType ==
    ASSUME NEW s \in State, NEW r \in Reservation
    PROVE  /\ Pop(s, r) \in State
           /\ Pop(s, r).live = s.live \ {r}
           /\ Pop(s, r).calls = s.calls
           /\ Pop(s, r).money = s.money
           /\ Pop(s, r).idem = s.idem
           /\ Pop(s, r).blocked = s.blocked
BY DEF Pop, State

\* _add_totals raises the two counters of the scopes of the reservation, on its
\* own day.
LEMMA AddTotalsType ==
    ASSUME NEW s \in State, NEW r \in Reservation, NEW actual \in Nat
    PROVE  /\ AddTotals(s, r, actual) \in State
           /\ AddTotals(s, r, actual).live = s.live
           /\ AddTotals(s, r, actual).idem = s.idem
           /\ AddTotals(s, r, actual).blocked = s.blocked
           /\ \A d \in Days, c \in Scopes :
                AddTotals(s, r, actual).calls[d][c] =
                    IF d = r.day /\ c \in r.scopes THEN s.calls[d][c] + 1 ELSE s.calls[d][c]
           /\ \A d \in Days, c \in Scopes :
                AddTotals(s, r, actual).money[d][c] =
                    IF d = r.day /\ c \in r.scopes THEN s.money[d][c] + actual ELSE s.money[d][c]
<1> DEFINE cRow == [c \in Scopes |-> s.calls[r.day][c] + (IF c \in r.scopes THEN 1 ELSE 0)]
           mRow == [c \in Scopes |-> s.money[r.day][c] + (IF c \in r.scopes THEN actual ELSE 0)]
           calls == [s.calls EXCEPT ![r.day] = cRow]
           money == [s.money EXCEPT ![r.day] = mRow]
<1>1. /\ r.day \in Days
      /\ s.calls \in [Days -> [Scopes -> Nat]]
      /\ s.money \in [Days -> [Scopes -> Nat]]
  BY DEF State, Reservation
<1>2. cRow \in [Scopes -> Nat] /\ mRow \in [Scopes -> Nat]
  BY <1>1
<1>3. calls \in [Days -> [Scopes -> Nat]] /\ money \in [Days -> [Scopes -> Nat]]
  BY <1>1, <1>2
<1>4. AddTotals(s, r, actual) = [s EXCEPT !.calls = calls, !.money = money]
  BY DEF AddTotals, State
<1>5. AddTotals(s, r, actual).calls = calls /\ AddTotals(s, r, actual).money = money
  BY <1>4 DEF State
<1>6. /\ AddTotals(s, r, actual) \in State
      /\ AddTotals(s, r, actual).live = s.live
      /\ AddTotals(s, r, actual).idem = s.idem
      /\ AddTotals(s, r, actual).blocked = s.blocked
  <2> HIDE DEF calls, money
  <2> QED  BY <1>3, <1>4 DEF State
<1>7. ASSUME NEW d \in Days, NEW c \in Scopes
      PROVE  /\ calls[d][c] = IF d = r.day /\ c \in r.scopes THEN s.calls[d][c] + 1 ELSE s.calls[d][c]
             /\ money[d][c] = IF d = r.day /\ c \in r.scopes THEN s.money[d][c] + actual ELSE s.money[d][c]
  <2>1. CASE d = r.day
    <3>1. calls[d] = cRow /\ money[d] = mRow
      BY <1>1, <2>1
    <3>2. s.calls[d][c] \in Nat /\ s.money[d][c] \in Nat
      BY <1>1
    <3> QED  BY <2>1, <3>1, <3>2
  <2>2. CASE d # r.day
    BY <1>1, <2>2
  <2> QED  BY <2>1, <2>2
<1> QED
  <2> HIDE DEF calls, money
  <2> QED  BY <1>5, <1>6, <1>7

\* The three ways a charge is recorded (SETTLE, SETTLE_UNKNOWN, RECOVERY) are
\* one change: out of the live ones, into the totals, marker rewritten.
LEMMA ChargeEffect ==
    ASSUME NEW s \in State, NEW r \in Reservation, NEW actual \in Nat, NEW x \in Status,
           NEW n, n = Mark(AddTotals(Pop(s, r), r, actual), r, x)
    PROVE  /\ n \in State
           /\ n.live = s.live \ {r}
           /\ n.blocked = s.blocked
           /\ n.idem = [s.idem EXCEPT ![r.day][r.key] = x]
           /\ \A d \in Days, c \in Scopes :
                n.calls[d][c] =
                    IF d = r.day /\ c \in r.scopes THEN s.calls[d][c] + 1 ELSE s.calls[d][c]
           /\ \A d \in Days, c \in Scopes :
                n.money[d][c] =
                    IF d = r.day /\ c \in r.scopes THEN s.money[d][c] + actual ELSE s.money[d][c]
<1> DEFINE p == Pop(s, r)
           t == AddTotals(p, r, actual)
<1>1. p \in State /\ p.live = s.live \ {r} /\ p.calls = s.calls /\ p.money = s.money
      /\ p.idem = s.idem /\ p.blocked = s.blocked
  BY PopType
<1> HIDE DEF p
<1>2. /\ t \in State /\ t.live = p.live /\ t.idem = p.idem /\ t.blocked = p.blocked
      /\ \A d \in Days, c \in Scopes :
            t.calls[d][c] = IF d = r.day /\ c \in r.scopes THEN p.calls[d][c] + 1 ELSE p.calls[d][c]
      /\ \A d \in Days, c \in Scopes :
            t.money[d][c] = IF d = r.day /\ c \in r.scopes THEN p.money[d][c] + actual ELSE p.money[d][c]
  BY <1>1, AddTotalsType
<1>3. n = Mark(t, r, x)
  BY DEF p
<1> HIDE DEF t
<1>4. /\ n \in State /\ n.calls = t.calls /\ n.money = t.money /\ n.live = t.live
      /\ n.blocked = t.blocked /\ n.idem = [t.idem EXCEPT ![r.day][r.key] = x]
  BY <1>2, <1>3, MarkType
<1> QED
  BY <1>1, <1>2, <1>4

-----------------------------------------------------------------------------
(* Every step has one of four shapes; the proofs below go by shape.        *)

MarkedAs(r, x) == st'.idem = [st.idem EXCEPT ![r.day][r.key] = x]

TotalsPlus(r, calls, money) ==
    \A d \in Days, c \in Scopes :
        /\ st'.calls[d][c] =
              IF d = r.day /\ c \in r.scopes THEN st.calls[d][c] + calls ELSE st.calls[d][c]
        /\ st'.money[d][c] =
              IF d = r.day /\ c \in r.scopes THEN st.money[d][c] + money ELSE st.money[d][c]

\* r was reserved.
Opens(r) ==
    /\ r \in Reservation /\ r.day = today
    /\ ~st.blocked
    /\ st.idem[r.day][r.key] = "none"
    /\ \A x \in Everything : x.id # r.id
    /\ \A c \in r.scopes : /\ CallsUsed(st, r.day, c) + 1 <= CallCap[c]
                          /\ MoneyUsed(st, r.day, c) + r.cost <= MoneyCap[c]
    /\ st'.live = st.live \cup {r}
    /\ st'.calls = st.calls /\ st'.money = st.money /\ st'.blocked = st.blocked
    /\ MarkedAs(r, "live")
    /\ UNCHANGED <<today, charged, freed>>

\* r ended with a charge.
Closes(r, actual, x) ==
    /\ r \in st.live /\ actual \in Nat /\ x \in Terminal
    /\ st'.live = st.live \ {r}
    /\ st'.blocked = st.blocked
    /\ MarkedAs(r, x)
    /\ TotalsPlus(r, 1, actual)
    /\ charged' = charged \cup {[res |-> r, actual |-> actual]}
    /\ UNCHANGED <<today, freed>>

\* r ended without one; a rejected call is still a call.
Frees(r, calls) ==
    /\ r \in st.live /\ calls \in {0, 1}
    /\ st'.live = st.live \ {r}
    /\ st'.blocked = st.blocked
    /\ MarkedAs(r, "none")
    /\ TotalsPlus(r, calls, 0)
    /\ freed' = freed \cup {r}
    /\ UNCHANGED <<today, charged>>

\* No reservation changed: an overage, a compaction, a new day, or nothing.
Keeps ==
    /\ st'.live = st.live /\ st'.calls = st.calls /\ st'.money = st.money
    /\ st.blocked => st'.blocked
    /\ \A d \in Days, k \in Keys :
          d >= today \/ st.idem[d][k] = "live" => st'.idem[d][k] = st.idem[d][k]
    /\ today' >= today
    /\ UNCHANGED <<charged, freed>>

\* Every step opens one reservation, ends one, or leaves the reservations alone.
LEMMA StepShape ==
    ASSUME TypeOK, [Next]_vars
    PROVE  /\ TypeOK'
           /\ \/ \E r \in Reservation : Opens(r)
              \/ \E r \in st.live, actual \in Nat, x \in Terminal : Closes(r, actual, x)
              \/ \E r \in st.live, calls \in {0, 1} : Frees(r, calls)
              \/ Keeps
<1> USE DEF Charge
<1>0. st \in State /\ today \in Days /\ charged \subseteq Charge /\ freed \subseteq Reservation
      /\ st.live \subseteq Reservation
  BY DEF TypeOK, State
<1>a. ASSUME NEW r \in st.live, NEW actual \in Nat, NEW x \in Terminal,
             st' = Mark(AddTotals(Pop(st, r), r, actual), r, x),
             charged' = charged \cup {[res |-> r, actual |-> actual]},
             UNCHANGED <<today, freed>>
      PROVE  TypeOK' /\ Closes(r, actual, x)
  <2>1. r \in Reservation /\ x \in Status
    BY <1>0 DEF Status
  <2>2. /\ st' \in State /\ st'.live = st.live \ {r} /\ st'.blocked = st.blocked
        /\ MarkedAs(r, x) /\ TotalsPlus(r, 1, actual)
    BY <1>0, <1>a, <2>1, ChargeEffect DEF MarkedAs, TotalsPlus
  <2> QED
    BY <1>0, <1>a, <2>1, <2>2 DEF TypeOK, Closes
<1>1. ASSUME NEW spec \in Specs, NEW id \in Ids, Reserve(spec, id)
      PROVE  TypeOK' /\ \E r \in Reservation : Opens(r)
  <2> DEFINE r == NewReservation(id, today, spec)
             s == [st EXCEPT !.live = @ \cup {r}]
  <2>1. /\ r \in Reservation /\ r.id = id /\ r.day = today /\ r.key = spec.key
        /\ r.scopes = spec.scopes /\ r.cost = spec.cost
    BY <1>0, <1>1, LedgerAssumption DEF Reserve, CanReserve, NewReservation, Reservation
  <2> HIDE DEF r
  <2>2. /\ s \in State /\ s.live = st.live \cup {r} /\ s.calls = st.calls
        /\ s.money = st.money /\ s.blocked = st.blocked /\ s.idem = st.idem
    BY <1>0, <2>1 DEF State
  <2>3. st' = Mark(s, r, "live") /\ "live" \in Status
    BY <1>1 DEF Reserve, AfterReserve, r, Status
  <2> HIDE DEF s
  <2>4. /\ st' \in State /\ st'.live = st.live \cup {r} /\ st'.calls = st.calls
        /\ st'.money = st.money /\ st'.blocked = st.blocked /\ MarkedAs(r, "live")
    <3>1. /\ st' \in State /\ st'.live = s.live /\ st'.calls = s.calls /\ st'.money = s.money
          /\ st'.blocked = s.blocked /\ st'.idem = [s.idem EXCEPT ![r.day][r.key] = "live"]
      BY <2>1, <2>2, <2>3, MarkType
    <3> QED  BY <2>2, <3>1 DEF MarkedAs
  <2>5. Opens(r)
    BY <1>1, <2>1, <2>4 DEF Opens, Reserve, CanReserve
  <2> QED
    BY <1>0, <1>1, <2>1, <2>4, <2>5 DEF TypeOK, Reserve
<1>2. ASSUME NEW r \in st.live, NEW actual \in Nat, NEW outcome, Settle(r, actual, outcome)
      PROVE  TypeOK' /\ (Closes(r, actual, "settled") \/ Frees(r, 1))
  <2>1. CASE ~GivesKeyBack(actual, outcome)
    BY <1>a, <1>2, <2>1 DEF Settle, AfterSettle, Terminal
  <2>2. CASE GivesKeyBack(actual, outcome)
    <3>1. r \in Reservation /\ "none" \in Status /\ actual = 0
      BY <1>0, <2>2 DEF Status, GivesKeyBack
    <3>2. /\ st' \in State /\ st'.live = st.live \ {r} /\ st'.blocked = st.blocked
          /\ MarkedAs(r, "none") /\ TotalsPlus(r, 1, 0)
      BY <1>0, <1>2, <2>2, <3>1, ChargeEffect DEF MarkedAs, TotalsPlus, Settle, AfterSettle
    <3> QED
      BY <1>0, <1>2, <2>2, <3>1, <3>2 DEF TypeOK, Frees, Settle
  <2> QED  BY <2>1, <2>2
<1>3. ASSUME NEW r \in st.live, NEW actual \in Nat, Recover(r, actual)
      PROVE  TypeOK' /\ Closes(r, actual, "recovered")
  BY <1>a, <1>3 DEF Recover, AfterRecoverSettled, Terminal
<1>4. ASSUME NEW r \in st.live, Release(r)
      PROVE  TypeOK' /\ Frees(r, 0)
  <2>1. r \in Reservation /\ "none" \in Status
    BY <1>0 DEF Status
  <2>2. /\ Pop(st, r) \in State /\ Pop(st, r).live = st.live \ {r}
        /\ Pop(st, r).calls = st.calls /\ Pop(st, r).money = st.money
        /\ Pop(st, r).idem = st.idem /\ Pop(st, r).blocked = st.blocked
    BY <1>0, <2>1, PopType
  <2>3. /\ st' \in State /\ st'.live = st.live \ {r} /\ st'.blocked = st.blocked
        /\ st'.calls = st.calls /\ st'.money = st.money /\ MarkedAs(r, "none")
    BY <1>4, <2>1, <2>2, MarkType DEF Release, AfterRelease, MarkedAs
  <2>4. TotalsPlus(r, 0, 0)
    BY <1>0, <2>3 DEF TotalsPlus, State
  <2> QED
    BY <1>0, <1>4, <2>1, <2>3, <2>4 DEF TypeOK, Frees, Release
<1>5. ASSUME NEW r \in st.live, SettleUnknown(r)
      PROVE  TypeOK' /\ Closes(r, r.cost, "unknown")
  <2>1. r.cost \in Nat
    BY <1>0 DEF Reservation
  <2> QED
    BY <1>a, <1>5, <2>1 DEF SettleUnknown, AfterUnknown, Terminal
<1>6. CASE Overage
  <2>1. st' \in State /\ st'.live = st.live /\ st'.calls = st.calls /\ st'.money = st.money
        /\ st'.idem = st.idem /\ st'.blocked
    BY <1>0, <1>6 DEF Overage, AfterOverage, State
  <2> QED
    BY <1>0, <1>6, <2>1 DEF TypeOK, Keeps, Overage, Days
<1>7. CASE Compact
  <2>1. /\ st' \in State /\ st'.live = st.live /\ st'.calls = st.calls
        /\ st'.money = st.money /\ st'.blocked = st.blocked
        /\ \A d \in Days, k \in Keys :
              st'.idem[d][k] = IF d < today /\ st.idem[d][k] # "live" THEN "none" ELSE st.idem[d][k]
    BY <1>0, <1>7 DEF Compact, Prune, State, Status
  <2> QED
    BY <1>0, <1>7, <2>1 DEF TypeOK, Keeps, Compact, Days
<1>8. CASE Tick
  BY <1>0, <1>8 DEF Tick, TypeOK, Keeps, Days
<1>9. CASE UNCHANGED vars
  BY <1>0, <1>9 DEF vars, TypeOK, Keeps, Days
<1> HIDE DEF Charge
<1>10. ASSUME NEW r \in st.live, NEW actual \in 0 .. MaxActual
       PROVE  actual \in Nat
  BY ActualAssumption
<1>11. "settled" \in Terminal /\ "recovered" \in Terminal /\ "unknown" \in Terminal
  BY DEF Terminal
<1>12. ASSUME NEW r \in st.live PROVE r.cost \in Nat
  BY <1>0 DEF Reservation
<1> QED
  <2>1. CASE \E spec \in Specs, id \in Ids : Reserve(spec, id)
    BY <1>1, <2>1
  <2>2. CASE \E r \in st.live, actual \in 0 .. MaxActual :
                \/ \E outcome \in {"success", "provider_failure"} : Settle(r, actual, outcome)
                \/ Recover(r, actual)
    <3> PICK r \in st.live, actual \in 0 .. MaxActual :
                \/ \E outcome \in {"success", "provider_failure"} : Settle(r, actual, outcome)
                \/ Recover(r, actual)
      BY <2>2
    <3> QED
      BY <1>2, <1>3, <1>10, <1>11
  <2>3. CASE \E r \in st.live : Release(r) \/ SettleUnknown(r)
    BY <1>4, <1>5, <1>11, <1>12, <2>3
  <2> QED
    BY <2>1, <2>2, <2>3, <1>6, <1>7, <1>8, <1>9 DEF Next

-----------------------------------------------------------------------------
\* Type correctness: totals stay counters, and every marker, reservation and
\* charge is one the ledger could have written.
THEOREM TypeCorrect == Spec => []TypeOK
<1>1. Init => TypeOK
  BY LedgerAssumption DEF Init, TypeOK, EmptyState, State, Status, Terminal, Days, Charge
<1>2. TypeOK /\ [Next]_vars => TypeOK'
  BY StepShape
<1> QED  BY <1>1, <1>2, PTL DEF Spec

-----------------------------------------------------------------------------
\* An overage blocks the spend domain for good: nothing is reserved under it
\* and no step lifts it.
THEOREM OverageIsForGood == Spec => BlockedForGood
<1>1. TypeOK /\ [Next]_vars => [st.blocked => st'.blocked /\ st'.live \subseteq st.live]_vars
  <2> SUFFICES ASSUME TypeOK, [Next]_vars, st.blocked
               PROVE  st'.blocked /\ st'.live \subseteq st.live
    OBVIOUS
  <2> QED
    BY StepShape DEF Opens, Closes, Frees, Keeps
<1> QED
  BY <1>1, TypeCorrect, PTL DEF Spec, BlockedForGood

\* Settled totals only grow.
THEOREM ChargesStay == Spec => ChargesNeverShrink
<1> DEFINE Grows == \A d \in Days, s \in Scopes :
                       st'.calls[d][s] >= st.calls[d][s] /\ st'.money[d][s] >= st.money[d][s]
<1>1. TypeOK /\ [Next]_vars => Grows
  <2> SUFFICES ASSUME TypeOK, [Next]_vars, NEW d \in Days, NEW s \in Scopes
               PROVE  st'.calls[d][s] >= st.calls[d][s] /\ st'.money[d][s] >= st.money[d][s]
    OBVIOUS
  <2>1. st.calls[d][s] \in Nat /\ st.money[d][s] \in Nat
    BY DEF TypeOK, State
  <2> QED
    BY <2>1, StepShape DEF Opens, Closes, Frees, Keeps, TotalsPlus
<1>2. TypeOK /\ [Next]_vars => [Grows]_vars
  BY <1>1
<1> QED
  BY <1>2, TypeCorrect, PTL DEF Spec, ChargesNeverShrink

-----------------------------------------------------------------------------
(* One charge per key and day.  The strengthening says that the markers    *)
(* agree with what is live and charged, and that reservations end once:    *)
(* a new reservation passes the marker test, so nothing of its key and day *)
(* is live or charged; one that ends rewrites only its own marker.         *)

IInv == TypeOK /\ EndsOnce /\ MarkersAgree /\ OneChargePerKeyAndDay

\* No step ends a reservation a second time.
LEMMA EndsOnceStep ==
    ASSUME TypeOK, EndsOnce, [Next]_vars
    PROVE  EndsOnce'
<1> USE DEF EndsOnce, Everything
<1>1. ASSUME NEW r \in Reservation, Opens(r) PROVE EndsOnce'
  BY <1>1 DEF Opens
<1>2. ASSUME NEW r \in st.live, NEW actual \in Nat, NEW x \in Terminal, Closes(r, actual, x)
      PROVE  EndsOnce'
  <2>1. Everything' = Everything
    <3>1. {c.res : c \in charged'} = {c.res : c \in charged} \cup {r}
      <4> DEFINE n == [res |-> r, actual |-> actual]
      <4>1. charged' = charged \cup {n} /\ n.res = r
        BY <1>2 DEF Closes
      <4> HIDE DEF n
      <4> QED  BY <4>1
    <3> QED
      BY <1>2, <3>1 DEF Closes
  <2>2. \A s, u \in Everything' : s.id = u.id => s = u
    BY <2>1
  <2>3. \A c \in charged : c.res # r
    OBVIOUS
  <2>4. \A c, e \in charged' : c.res = e.res => c = e
    BY <1>2, <2>3 DEF Closes
  <2>5. \A c \in charged' : c.res \notin st'.live \cup freed'
    BY <1>2 DEF Closes
  <2>6. st'.live \cap freed' = {}
    BY <1>2 DEF Closes
  <2> QED
    BY <2>2, <2>4, <2>5, <2>6
<1>3. ASSUME NEW r \in st.live, NEW calls \in {0, 1}, Frees(r, calls) PROVE EndsOnce'
  BY <1>3 DEF Frees
<1>4. CASE Keeps
  BY <1>4 DEF Keeps
<1> QED
  BY <1>1, <1>2, <1>3, <1>4, StepShape

\* A step that marks r changes the marker of r's key and day only.
LEMMA MarkedAsLookup ==
    ASSUME TypeOK, NEW r \in Reservation, NEW x \in Status, MarkedAs(r, x),
           NEW d \in Days, NEW k \in Keys
    PROVE  st'.idem[d][k] = IF d = r.day /\ k = r.key THEN x ELSE st.idem[d][k]
BY DEF MarkedAs, TypeOK, State, Reservation

\* A step keeps markers, charges and live reservations in agreement.
LEMMA IInvStep ==
    ASSUME IInv, [Next]_vars
    PROVE  IInv'
<1> DEFINE resOf == {c.res : c \in charged}
<1>0. /\ TypeOK /\ TypeOK' /\ EndsOnce /\ EndsOnce'
      /\ st.live \subseteq Reservation /\ resOf \subseteq Reservation
      /\ \A r \in Reservation : r.day \in Days /\ r.key \in Keys
      /\ "live" \in Status /\ "none" \in Status /\ Terminal \subseteq Status
      /\ "live" \notin Terminal /\ "none" \notin Terminal
      /\ today \in Int /\ today' \in Int /\ Days \subseteq Int
  BY EndsOnceStep, StepShape
     DEF IInv, TypeOK, State, Reservation, Charge, Status, Terminal, Days
<1>1. ASSUME NEW r \in Reservation, Opens(r)
      PROVE  MarkersAgree' /\ OneChargePerKeyAndDay'
  <2>1. \A d \in Days, k \in Keys :
            st'.idem[d][k] = IF d = r.day /\ k = r.key THEN "live" ELSE st.idem[d][k]
    BY <1>0, <1>1, MarkedAsLookup DEF Opens
  <2>2. \A x \in st.live \cup resOf : x.key = r.key /\ x.day = r.day => FALSE
    BY <1>0, <1>1 DEF IInv, MarkersAgree, Opens
  <2> QED
    BY <1>0, <1>1, <2>1, <2>2 DEF IInv, MarkersAgree, OneChargePerKeyAndDay, Opens
<1>2. ASSUME NEW r \in st.live, NEW actual \in Nat, NEW x \in Terminal, Closes(r, actual, x)
      PROVE  MarkersAgree' /\ OneChargePerKeyAndDay'
  <2>1. \A d \in Days, k \in Keys :
            st'.idem[d][k] = IF d = r.day /\ k = r.key THEN x ELSE st.idem[d][k]
    BY <1>0, <1>2, MarkedAsLookup DEF Closes
  <2>2. \A y \in st.live \cup resOf : y.key = r.key /\ y.day = r.day => y = r
    BY DEF IInv, OneChargePerKeyAndDay
  <2>3. OneChargePerKeyAndDay'
    BY <1>2 DEF IInv, OneChargePerKeyAndDay, Closes
  <2>4. MarkersAgree'
    BY <1>0, <1>2, <2>1, <2>2 DEF IInv, MarkersAgree, Closes
  <2> QED  BY <2>3, <2>4
<1>3. ASSUME NEW r \in st.live, NEW calls \in {0, 1}, Frees(r, calls)
      PROVE  MarkersAgree' /\ OneChargePerKeyAndDay'
  <2>1. \A d \in Days, k \in Keys :
            st'.idem[d][k] = IF d = r.day /\ k = r.key THEN "none" ELSE st.idem[d][k]
    BY <1>0, <1>3, MarkedAsLookup DEF Frees
  <2>2. \A y \in st.live \cup resOf : y.key = r.key /\ y.day = r.day => y = r
    BY DEF IInv, OneChargePerKeyAndDay
  <2>3. r \notin resOf
    BY DEF IInv, EndsOnce
  <2>4. OneChargePerKeyAndDay'
    BY <1>3 DEF IInv, OneChargePerKeyAndDay, Frees
  <2>5. ASSUME NEW y \in st'.live
        PROVE  st'.idem[y.day][y.key] = "live"
    <3>1. y \in st.live /\ y # r /\ y \in Reservation
      BY <1>0, <1>3 DEF Frees
    <3>2. ~(y.day = r.day /\ y.key = r.key)
      BY <2>2, <3>1
    <3> QED
      BY <1>0, <2>1, <3>1, <3>2 DEF IInv, MarkersAgree
  <2>6. ASSUME NEW c \in charged', c.res.day >= today'
        PROVE  st'.idem[c.res.day][c.res.key] \in Terminal
    <3>1. c.res \in resOf /\ c.res \in Reservation /\ c \in charged /\ c.res.day >= today
      BY <1>0, <1>3, <2>6 DEF Frees
    <3>2. ~(c.res.day = r.day /\ c.res.key = r.key)
      BY <2>2, <2>3, <3>1
    <3> QED
      BY <1>0, <2>1, <3>1, <3>2 DEF IInv, MarkersAgree
  <2>7. MarkersAgree'
    BY <2>5, <2>6 DEF MarkersAgree
  <2> QED  BY <2>4, <2>7
<1>4. ASSUME Keeps
      PROVE  MarkersAgree' /\ OneChargePerKeyAndDay'
  <2>1. OneChargePerKeyAndDay'
    BY <1>4 DEF IInv, OneChargePerKeyAndDay, Keeps
  <2>2. ASSUME NEW r \in st.live
        PROVE  st'.idem[r.day][r.key] = "live"
    BY <1>0, <1>4, <2>2 DEF IInv, MarkersAgree, Keeps
  <2>3. ASSUME NEW c \in charged, c.res.day >= today'
        PROVE  st'.idem[c.res.day][c.res.key] \in Terminal
    <3>1. c.res \in Reservation /\ c.res.day >= today
      <4>1. c \in charged /\ today' >= today
        BY <1>4, <2>3 DEF Keeps
      <4>2. c.res \in resOf
        BY <4>1
      <4>3. c.res \in Reservation /\ c.res.day \in Int
        BY <1>0, <4>2
      <4> QED  BY <1>0, <2>3, <4>1, <4>3
    <3> QED
      BY <1>0, <1>4, <2>3, <3>1 DEF IInv, MarkersAgree, Keeps
  <2>4. MarkersAgree'
    BY <1>4, <2>2, <2>3 DEF MarkersAgree, Keeps
  <2> QED  BY <2>1, <2>4
<1> QED
  BY <1>0, <1>1, <1>2, <1>3, <1>4, StepShape DEF IInv

\* The inductive invariant of the reservations and their markers.
THEOREM IInvAlways == Spec => []IInv
<1>1. Init => IInv
  <2> SUFFICES ASSUME Init PROVE EndsOnce /\ MarkersAgree /\ OneChargePerKeyAndDay
    BY LedgerAssumption
       DEF IInv, Init, TypeOK, EmptyState, State, Status, Terminal, Days, Charge
  <2> QED
    BY DEF Init, EmptyState, EndsOnce, Everything, MarkersAgree, OneChargePerKeyAndDay
<1>2. IInv /\ [Next]_vars => IInv'
  BY IInvStep
<1> QED  BY <1>1, <1>2, PTL DEF Spec

\* Whatever the interleaving of reservations, endings, compactions and days,
\* a key is charged or in flight at most once per budget day.
THEOREM OneChargePerKey == Spec => []OneChargePerKeyAndDay
BY IInvAlways, PTL DEF IInv

\* A reservation ends once.
THEOREM ReservationsEndOnce == Spec => []EndsOnce
BY IInvAlways, PTL DEF IInv

\* Markers agree with the reservations they stand for.
THEOREM MarkersAgreeAlways == Spec => []MarkersAgree
BY IInvAlways, PTL DEF IInv

-----------------------------------------------------------------------------
(* The caps.  A reservation adds its own hold to each of its scopes, after *)
(* the test that there is room; an ending takes that hold away and adds    *)
(* the charge.  The sums are cardinalities, so the live set must be finite.*)

LiveFinite == IsFiniteSet(st.live)

\* The live reservations stay finitely many.
LEMMA LiveFiniteStep ==
    ASSUME TypeOK, LiveFinite, [Next]_vars
    PROVE  LiveFinite'
<1>1. ASSUME NEW r \in Reservation, Opens(r) PROVE LiveFinite'
  BY <1>1, FS_AddElement DEF Opens, LiveFinite
<1>2. ASSUME NEW r, st'.live = st.live \ {r} PROVE LiveFinite'
  BY <1>2, FS_RemoveElement DEF LiveFinite
<1> QED
  BY <1>1, <1>2, StepShape DEF Closes, Frees, Keeps, LiveFinite

\* So do those of a scope and a day ...
LEMMA LiveInFinite ==
    ASSUME LiveFinite, NEW d, NEW s
    PROVE  IsFiniteSet(LiveIn(st, d, s)) /\ Cardinality(LiveIn(st, d, s)) \in Nat
<1>1. LiveIn(st, d, s) \in SUBSET st.live
  BY DEF LiveIn
<1> QED  BY <1>1, FS_Subset, FS_CardinalityType DEF LiveFinite

\* ... and the micro-USD they hold.
LEMMA CoinsFinite ==
    ASSUME LiveFinite, NEW d, NEW s
    PROVE  IsFiniteSet(Coins(st, d, s)) /\ Cardinality(Coins(st, d, s)) \in Nat
<1>1. IsFiniteSet(1 .. MaxCost)
  BY LedgerAssumption, FS_Interval
<1>2. IsFiniteSet(LiveIn(st, d, s) \X (1 .. MaxCost))
  BY <1>1, LiveInFinite, FS_Product
<1>3. Coins(st, d, s) \in SUBSET (LiveIn(st, d, s) \X (1 .. MaxCost))
  BY DEF Coins
<1> QED  BY <1>2, <1>3, FS_Subset, FS_CardinalityType

\* The coins a reservation holds are as many as it reserved micro-USD.
Hold(r) == {r} \X (1 .. r.cost)

\* A reservation holds as many coins as it costs.
LEMMA HoldSize ==
    ASSUME NEW r \in Reservation
    PROVE  IsFiniteSet(Hold(r)) /\ Cardinality(Hold(r)) = r.cost
<1>1. r.cost \in Nat
  BY LedgerAssumption DEF Reservation
<1>2. IsFiniteSet(1 .. r.cost) /\ Cardinality(1 .. r.cost) = r.cost
  <2>1. 1 \in Int /\ r.cost \in Int
    BY <1>1
  <2>2. /\ IsFiniteSet(1 .. r.cost)
        /\ Cardinality(1 .. r.cost) = IF 1 > r.cost THEN 0 ELSE r.cost - 1 + 1
    BY <2>1, FS_Interval
  <2> QED  BY <1>1, <2>2
<1>3. IsFiniteSet({r}) /\ Cardinality({r}) = 1
  BY FS_Singleton
<1> QED  BY <1>1, <1>2, <1>3, FS_Product DEF Hold

\* A reservation that comes or goes changes the calls of its own day and
\* scopes by one, and the coins there by its hold.
LEMMA OpensUsage ==
    ASSUME TypeOK, LiveFinite, NEW r \in Reservation, Opens(r), NEW d \in Days, NEW s \in Scopes
    PROVE  /\ Cardinality(LiveIn(st', d, s)) =
                  Cardinality(LiveIn(st, d, s)) + (IF d = r.day /\ s \in r.scopes THEN 1 ELSE 0)
           /\ Cardinality(Coins(st', d, s)) =
                  Cardinality(Coins(st, d, s)) + (IF d = r.day /\ s \in r.scopes THEN r.cost ELSE 0)
<1>1. r \notin st.live /\ st'.live = st.live \cup {r}
  BY DEF Opens, Everything
<1>2. CASE d = r.day /\ s \in r.scopes
  <2>1. LiveIn(st', d, s) = LiveIn(st, d, s) \cup {r} /\ r \notin LiveIn(st, d, s)
    BY <1>1, <1>2 DEF LiveIn
  <2>2. r.cost \in Nat /\ r.cost <= MaxCost /\ MaxCost \in Nat
    BY LedgerAssumption DEF Reservation
  <2>3. Coins(st', d, s) = Coins(st, d, s) \cup Hold(r)
    BY <2>1, <2>2 DEF Coins, Hold
  <2>4. Coins(st, d, s) \cap Hold(r) = {}
    BY <2>1 DEF Coins, Hold
  <2>5. Cardinality(Coins(st', d, s)) = Cardinality(Coins(st, d, s)) + r.cost
    <3> DEFINE A == Coins(st, d, s)
               B == Hold(r)
    <3>1. IsFiniteSet(A) /\ IsFiniteSet(B) /\ Cardinality(A) \in Nat /\ Cardinality(B) = r.cost
      BY CoinsFinite, HoldSize
    <3>2. Cardinality(A \cap B) = 0
      BY <2>4, FS_EmptySet
    <3> HIDE DEF A, B
    <3>3. Cardinality(A \cup B) = Cardinality(A) + Cardinality(B) - Cardinality(A \cap B)
      BY <3>1, FS_Union
    <3>4. Cardinality(A \cup B) = Cardinality(A) + r.cost
      BY <2>2, <3>1, <3>2, <3>3
    <3> QED  BY <2>3, <3>4 DEF A, B
  <2>6. Cardinality(LiveIn(st', d, s)) = Cardinality(LiveIn(st, d, s)) + 1
    BY <2>1, LiveInFinite, FS_AddElement
  <2> QED  BY <1>2, <2>5, <2>6
<1>3. CASE ~(d = r.day /\ s \in r.scopes)
  <2>1. LiveIn(st', d, s) = LiveIn(st, d, s)
    BY <1>1, <1>3 DEF LiveIn
  <2>2. Coins(st', d, s) = Coins(st, d, s)
    BY <2>1 DEF Coins
  <2> QED  BY <1>3, <2>1, <2>2, LiveInFinite, CoinsFinite
<1> QED  BY <1>2, <1>3

\* A reservation that ends gives its call and its coins back, on its own day and
\* in its own scopes.
LEMMA EndsUsage ==
    ASSUME TypeOK, LiveFinite, NEW r \in st.live, st'.live = st.live \ {r},
           NEW d \in Days, NEW s \in Scopes
    PROVE  /\ Cardinality(LiveIn(st', d, s)) =
                  Cardinality(LiveIn(st, d, s)) - (IF d = r.day /\ s \in r.scopes THEN 1 ELSE 0)
           /\ Cardinality(Coins(st', d, s)) =
                  Cardinality(Coins(st, d, s)) - (IF d = r.day /\ s \in r.scopes THEN r.cost ELSE 0)
<1>0. r \in Reservation
  BY DEF TypeOK, State
<1>1. CASE d = r.day /\ s \in r.scopes
  <2>1. LiveIn(st', d, s) = LiveIn(st, d, s) \ {r} /\ r \in LiveIn(st, d, s)
    BY <1>1 DEF LiveIn
  <2>2. r.cost \in Nat /\ r.cost <= MaxCost /\ MaxCost \in Nat
    BY <1>0, LedgerAssumption DEF Reservation
  <2>3. Coins(st', d, s) = Coins(st, d, s) \ Hold(r)
    BY <2>1, <2>2 DEF Coins, Hold
  <2>4. Coins(st, d, s) \cap Hold(r) = Hold(r)
    BY <2>1, <2>2 DEF Coins, Hold
  <2>5. Cardinality(Coins(st', d, s)) = Cardinality(Coins(st, d, s)) - r.cost
    <3> DEFINE A == Coins(st, d, s)
               B == Hold(r)
    <3>1. IsFiniteSet(A) /\ Cardinality(A) \in Nat /\ Cardinality(B) = r.cost
      BY <1>0, CoinsFinite, HoldSize
    <3>2. Cardinality(A \cap B) = r.cost
      BY <2>4, <3>1
    <3> HIDE DEF A, B
    <3>3. Cardinality(A \ B) = Cardinality(A) - Cardinality(A \cap B)
      BY <3>1, FS_Difference
    <3>4. Cardinality(A \ B) = Cardinality(A) - r.cost
      BY <3>2, <3>3
    <3> QED  BY <2>3, <3>4 DEF A, B
  <2>6. Cardinality(LiveIn(st', d, s)) = Cardinality(LiveIn(st, d, s)) - 1
    BY <2>1, LiveInFinite, FS_RemoveElement
  <2> QED  BY <1>1, <2>5, <2>6
<1>2. CASE ~(d = r.day /\ s \in r.scopes)
  <2>1. LiveIn(st', d, s) = LiveIn(st, d, s)
    BY <1>2 DEF LiveIn
  <2>2. Coins(st', d, s) = Coins(st, d, s)
    BY <2>1 DEF Coins
  <2> QED  BY <1>2, <2>1, <2>2, LiveInFinite, CoinsFinite
<1> QED  BY <1>1, <1>2

CapInv == TypeOK /\ LiveFinite /\ CallsWithinCap /\ MoneyWithinCap

\* No step takes the usage of a scope past its caps.
LEMMA CapStep ==
    ASSUME CapInv, [Next]_vars
    PROVE  CapInv'
<1>0. TypeOK /\ TypeOK' /\ LiveFinite /\ LiveFinite'
  BY StepShape, LiveFiniteStep DEF CapInv
<1> SUFFICES ASSUME NEW d \in Days, NEW s \in Scopes
             PROVE  /\ CallsUsed(st', d, s) <= CallCap[s]
                    /\ MoneyUsed(st', d, s) <= MoneyCap[s] \/ Overrun(d, s)'
  BY <1>0 DEF CapInv, CallsWithinCap, MoneyWithinCap
<1> DEFINE here(r) == d = r.day /\ s \in r.scopes
           n == Cardinality(LiveIn(st, d, s))
           m == Cardinality(Coins(st, d, s))
           n2 == Cardinality(LiveIn(st', d, s))
           m2 == Cardinality(Coins(st', d, s))
<1>1. /\ st.calls[d][s] \in Nat /\ st.money[d][s] \in Nat
      /\ CallCap[s] \in Nat /\ MoneyCap[s] \in Nat /\ n \in Nat /\ m \in Nat
  BY <1>0, LedgerAssumption, LiveInFinite, CoinsFinite DEF TypeOK, State
<1>2. /\ st.calls[d][s] + n <= CallCap[s]
      /\ st.money[d][s] + m <= MoneyCap[s] \/ Overrun(d, s)
  BY DEF CapInv, CallsWithinCap, MoneyWithinCap, CallsUsed, MoneyUsed
<1>3. charged \subseteq charged' => (Overrun(d, s) => Overrun(d, s)')
  BY DEF Overrun
<1>4. SUFFICES /\ st'.calls[d][s] + n2 <= CallCap[s]
               /\ st'.money[d][s] + m2 <= MoneyCap[s] \/ Overrun(d, s)'
  BY DEF CallsUsed, MoneyUsed
<1>5. ASSUME NEW r \in Reservation, Opens(r)
      PROVE  /\ st'.calls[d][s] + n2 <= CallCap[s]
             /\ st'.money[d][s] + m2 <= MoneyCap[s] \/ Overrun(d, s)'
  <2>1. /\ n2 = n + (IF here(r) THEN 1 ELSE 0)
        /\ m2 = m + (IF here(r) THEN r.cost ELSE 0)
    BY <1>0, <1>5, OpensUsage
  <2>2. here(r) => /\ st.calls[d][s] + n + 1 <= CallCap[s]
                   /\ st.money[d][s] + m + r.cost <= MoneyCap[s]
    BY <1>5 DEF Opens, CallsUsed, MoneyUsed
  <2>3. st'.calls = st.calls /\ st'.money = st.money /\ charged' = charged /\ r.cost \in Nat
    BY <1>5, LedgerAssumption DEF Opens, Reservation
  <2> HIDE DEF n, m, n2, m2
  <2> QED  BY <1>1, <1>2, <1>3, <2>1, <2>2, <2>3
<1>6. ASSUME NEW r \in st.live, NEW actual \in Nat, NEW x \in Terminal, Closes(r, actual, x)
      PROVE  /\ st'.calls[d][s] + n2 <= CallCap[s]
             /\ st'.money[d][s] + m2 <= MoneyCap[s] \/ Overrun(d, s)'
  <2>1. /\ n2 = n - (IF here(r) THEN 1 ELSE 0)
        /\ m2 = m - (IF here(r) THEN r.cost ELSE 0)
    BY <1>0, <1>6, EndsUsage DEF Closes
  <2>2. /\ st'.calls[d][s] = st.calls[d][s] + (IF here(r) THEN 1 ELSE 0)
        /\ st'.money[d][s] = st.money[d][s] + (IF here(r) THEN actual ELSE 0)
    BY <1>1, <1>6 DEF Closes, TotalsPlus
  <2>3. r.cost \in Nat /\ charged \subseteq charged'
    BY <1>0, <1>6, LedgerAssumption DEF Closes, TypeOK, State, Reservation
  <2>4. here(r) /\ actual > r.cost => Overrun(d, s)'
    <3> DEFINE c == [res |-> r, actual |-> actual]
    <3>1. c \in charged' /\ c.res = r /\ c.actual = actual
      BY <1>6 DEF Closes
    <3> HIDE DEF c
    <3> QED  BY <3>1 DEF Overrun
  <2> HIDE DEF n, m, n2, m2
  <2> QED  BY <1>1, <1>2, <1>3, <2>1, <2>2, <2>3, <2>4
<1>7. ASSUME NEW r \in st.live, NEW calls \in {0, 1}, Frees(r, calls)
      PROVE  /\ st'.calls[d][s] + n2 <= CallCap[s]
             /\ st'.money[d][s] + m2 <= MoneyCap[s] \/ Overrun(d, s)'
  <2>1. /\ n2 = n - (IF here(r) THEN 1 ELSE 0)
        /\ m2 = m - (IF here(r) THEN r.cost ELSE 0)
    BY <1>0, <1>7, EndsUsage DEF Frees
  <2>2. /\ st'.calls[d][s] = st.calls[d][s] + (IF here(r) THEN calls ELSE 0)
        /\ st'.money[d][s] = st.money[d][s]
    BY <1>1, <1>7 DEF Frees, TotalsPlus
  <2>3. r.cost \in Nat /\ charged \subseteq charged'
    BY <1>0, <1>7, LedgerAssumption DEF Frees, TypeOK, State, Reservation
  <2> HIDE DEF n, m, n2, m2
  <2> QED  BY <1>1, <1>2, <1>3, <2>1, <2>2, <2>3
<1>8. ASSUME Keeps
      PROVE  /\ st'.calls[d][s] + n2 <= CallCap[s]
             /\ st'.money[d][s] + m2 <= MoneyCap[s] \/ Overrun(d, s)'
  <2>1. LiveIn(st', d, s) = LiveIn(st, d, s)
    BY <1>8 DEF Keeps, LiveIn
  <2>2. Coins(st', d, s) = Coins(st, d, s)
    BY <2>1 DEF Coins
  <2> QED  BY <1>2, <1>3, <1>8, <2>1, <2>2 DEF Keeps
<1> QED
  BY <1>0, <1>5, <1>6, <1>7, <1>8, StepShape

\* The inductive invariant of the caps.
THEOREM CapInvAlways == Spec => []CapInv
<1>1. Init => CapInv
  <2> SUFFICES ASSUME Init PROVE CapInv
    OBVIOUS
  <2>1. TypeOK
    BY LedgerAssumption DEF Init, TypeOK, EmptyState, State, Status, Terminal, Days, Charge
  <2>2. LiveFinite
    BY FS_EmptySet DEF Init, EmptyState, LiveFinite
  <2>3. ASSUME NEW d \in Days, NEW s \in Scopes
        PROVE  CallsUsed(st, d, s) = 0 /\ MoneyUsed(st, d, s) = 0
    <3>1. LiveIn(st, d, s) = {} /\ Coins(st, d, s) = {}
      BY DEF Init, EmptyState, LiveIn, Coins
    <3>2. st.calls[d][s] = 0 /\ st.money[d][s] = 0
      BY DEF Init, EmptyState
    <3>3. Cardinality(LiveIn(st, d, s)) = 0 /\ Cardinality(Coins(st, d, s)) = 0
      BY <3>1, FS_EmptySet
    <3> QED  BY <3>2, <3>3 DEF CallsUsed, MoneyUsed
  <2> QED
    BY <2>1, <2>2, <2>3, LedgerAssumption DEF CapInv, CallsWithinCap, MoneyWithinCap
<1>2. CapInv /\ [Next]_vars => CapInv'
  BY CapStep
<1> QED  BY <1>1, <1>2, PTL DEF Spec

\* No scope ever holds more calls on a day than its cap, settled and in
\* flight together.
THEOREM CallCapHolds == Spec => []CallsWithinCap
BY CapInvAlways, PTL DEF CapInv

\* Nor more money, unless a provider charged more than was reserved for it on
\* that very day and scope.
THEOREM MoneyCapHolds == Spec => []MoneyWithinCap
BY CapInvAlways, PTL DEF CapInv
=============================================================================
