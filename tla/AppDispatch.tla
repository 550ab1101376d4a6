----------------------------- MODULE AppDispatch -----------------------------
(***************************************************************************)
(* complete_chat (app_chat.py) and decide (app_decide.py): application     *)
(* calls of one lane that run at the same time, in threads or processes.   *)
(* A call walks its lane's backends; at each it reserves in AppSpend,      *)
(* sends, ends the reservation by what came back, and raises the budget    *)
(* alerts that have come due.  Unlike Router, it goes on to the next       *)
(* backend after an ambiguous failure, with a new reservation.             *)
(*                                                                         *)
(* The two functions share this walk; where they differ, lane.decision     *)
(* tells which one the lane is for.  A provider is taken at its word on    *)
(* the cost of an answer.  The file of the day is not damaged here:        *)
(* AppSpend.tla has that.  A call whose process is killed takes no further *)
(* step.                                                                   *)
(***************************************************************************)
EXTENDS Integers, Sequences, FiniteSets

CONSTANTS
    Calls,          \* the application calls
    Lanes,          \* the lanes to choose from, see Lane
    Threshold,      \* Threshold[name]: the spend at which an alert comes due
    NoRes,          \* no reservation
    Ids, Cap, MaxCost, MaxActual, TTL, LastTime, DayOf, Names  \* see AppSpend

\* chain: the backends, the key of each set or not, and the estimate for it.
\* Times in ticks: the deadline of a call, the share of it for the first usable
\* backend of a chat lane, and _MIN_FALLBACK_SECONDS.
Lane == [decision : BOOLEAN, chain : Seq([key : BOOLEAN, usd : 1 .. MaxCost]),
         deadline : Nat, share : Nat, floor : Nat]

ASSUME DispatchAssumption ==
    /\ Cap \in Nat \ {0} /\ {MaxCost, MaxActual, TTL, LastTime} \subseteq Nat
    /\ DayOf \in [0 .. LastTime -> Nat]
    /\ \A t, u \in 0 .. LastTime : t <= u => DayOf[t] <= DayOf[u]
    /\ Threshold \in [DOMAIN Threshold -> Nat \ {0}]
    /\ DOMAIN Threshold \cup {"credit"} \subseteq Names
    /\ NoRes \notin [id : Ids, usd : 1 .. MaxCost, ts : 0 .. LastTime, day : Nat]
    /\ \A lane \in Lanes :
          /\ lane \in Lane
          /\ lane.share <= lane.deadline
          /\ Calls \X DOMAIN lane.chain \subseteq Ids

VARIABLES
    disk, now, granted, counted, released, damaged, stopped,    \* see AppSpend
    lane,                                               \* the lane; it never changes
    call,                                               \* call[c]: where c is
    sent                                                \* history: the requests sent

S == INSTANCE AppSpend

store == <<disk, now, granted, counted, released, damaged, stopped>>
vars == <<disk, now, granted, counted, released, damaged, stopped, lane, call, sent>>

Kinds == {"none", "pre_dispatch", "ambiguous", "credit", "malformed", "mismatch", "success"}

Results == {"none", "success", "route_unavailable", "budget_exhausted", "malformed", "mismatch",
            "raised"}

Request == [call : Calls, i : DOMAIN lane.chain, res : S!Reservation, bill : Nat, at : S!Times]

\* Types; a call that sends or ends an attempt knows its reservation.
TypeOK ==
    /\ S!TypeOK
    /\ lane \in Lanes
    /\ call \in [Calls -> [pc : {"idle", "next", "reserve", "send", "wait", "end", "measure",
                                 "mark", "done"},
                           i : Nat, started : S!Times, until : Nat, day : S!Days,
                           res : S!Reservation \cup {NoRes}, kind : Kinds,
                           due : SUBSET Names, silent : BOOLEAN, result : Results]]
    /\ sent \subseteq Request
    /\ \A c \in Calls : call[c].pc \in {"send", "wait", "end"} => call[c].res # NoRes

Init ==
    /\ S!Init
    /\ lane \in Lanes
    /\ call = [c \in Calls |-> [pc |-> "idle", i |-> 1, started |-> 0, until |-> 0, day |-> DayOf[0],
                                res |-> NoRes, kind |-> "none", due |-> {}, silent |-> FALSE,
                                result |-> "none"]]
    /\ sent = {}

-----------------------------------------------------------------------------
(* Choosing a backend. *)

Usable == {i \in DOMAIN lane.chain : lane.chain[i].key}
HasTurn(c) == call[c].pc = "next" /\ call[c].i \in DOMAIN lane.chain
IsFirst(c) == \A i \in Usable : call[c].i <= i
Overall(c) == call[c].started + lane.deadline

\* When the attempt must end: a chat lane's first usable backend leaves a
\* share of the deadline to the others, if there is one.
Until(c) ==
    IF ~lane.decision /\ IsFirst(c) /\ \E i \in Usable : i > call[c].i
    THEN call[c].started + lane.share
    ELSE Overall(c)

\* Enough time is left to try the backend.
InTime(c) ==
    /\ now < Until(c)
    /\ lane.decision \/ IsFirst(c) \/ Overall(c) - now >= lane.floor

Begin(c) ==
    /\ call[c].pc = "idle"
    /\ call' = [call EXCEPT ![c].pc = "next", ![c].started = now]
    /\ UNCHANGED <<store, lane, sent>>

\* No key, or too little time.
Skip(c) ==
    /\ HasTurn(c)
    /\ ~(call[c].i \in Usable /\ InTime(c))
    /\ call' = [call EXCEPT ![c].i = @ + 1]
    /\ UNCHANGED <<store, lane, sent>>

\* The budget day is read, and the lock of its file waited for.
Ask(c) ==
    /\ HasTurn(c)
    /\ call[c].i \in Usable /\ InTime(c)
    /\ call' = [call EXCEPT ![c].pc = "reserve", ![c].day = S!Today, ![c].until = Until(c)]
    /\ UNCHANGED <<store, lane, sent>>

Finish(c, result) == call' = [call EXCEPT ![c].pc = "done", ![c].result = result]

Exhausted(c) ==
    /\ call[c].pc = "next" /\ call[c].i > Len(lane.chain)
    /\ Finish(c, "route_unavailable")
    /\ UNCHANGED <<store, lane, sent>>

Granted(c) ==
    /\ call[c].pc = "reserve"
    /\ LET i == call[c].i
       IN /\ S!Reserve(<<c, i>>, lane.chain[i].usd, call[c].day)
          /\ call' = [call EXCEPT ![c].pc = "send",
                        ![c].res = [id |-> <<c, i>>, usd |-> lane.chain[i].usd, ts |-> now,
                                    day |-> call[c].day]]
    /\ UNCHANGED <<lane, sent>>

\* BudgetExhausted: the alerts of a refusal, then it is raised.
Refused(c) ==
    /\ call[c].pc = "reserve"
    /\ ~S!Fits(call[c].day, lane.chain[call[c].i].usd)
    /\ S!Touch(call[c].day)
    /\ call' = [call EXCEPT ![c].pc = "measure", ![c].result = "budget_exhausted"]
    /\ UNCHANGED <<lane, sent>>

ReserveRaises(c) ==
    /\ call[c].pc = "reserve"
    /\ Finish(c, "route_unavailable")
    /\ UNCHANGED <<store, lane, sent>>

-----------------------------------------------------------------------------
(* _perform_request. *)

\* Faulty: the deadline is not looked at again after the wait for the lock.
Send_Late(c, bill) ==
    /\ call[c].pc = "send"
    /\ sent' = sent \cup {[call |-> c, i |-> call[c].i, res |-> call[c].res, bill |-> bill,
                           at |-> now]}
    /\ call' = [call EXCEPT ![c].pc = "wait"]
    /\ UNCHANGED <<store, lane>>

\* bill is what the provider takes for the request, whatever comes back.
Send(c, bill) ==
    /\ call[c].pc = "send" /\ now < call[c].until
    /\ sent' = sent \cup {[call |-> c, i |-> call[c].i, res |-> call[c].res, bill |-> bill,
                           at |-> now]}
    /\ call' = [call EXCEPT ![c].pc = "wait"]
    /\ UNCHANGED <<store, lane>>

Comes(c, kind) == call' = [call EXCEPT ![c].pc = "end", ![c].kind = kind]

\* The connection was refused, or no name or certificate: nothing was sent.
\* A deadline that has passed by now counts as ambiguous all the same.
NotSent(c) ==
    /\ call[c].pc = "send"
    /\ IF now < call[c].until THEN Comes(c, "pre_dispatch") ELSE Comes(c, "ambiguous")
    /\ UNCHANGED <<store, lane, sent>>

Bill(c) == (CHOOSE s \in sent : s.call = c /\ s.i = call[c].i).bill

\* Status 402, which only decide() knows, took no money; an answer is good,
\* unusable, or from another model than the declared one.
Answered(c, kind) ==
    /\ call[c].pc = "wait"
    /\ kind \in {"credit", "malformed", "mismatch"} => lane.decision
    /\ kind = "credit" => Bill(c) = 0
    /\ kind \in {"success", "mismatch", "malformed"} => now < call[c].until
    /\ kind \notin {"none", "pre_dispatch"}
    /\ Comes(c, kind)
    /\ UNCHANGED <<store, lane, sent>>

-----------------------------------------------------------------------------
(* Ending the reservation. *)

\* Faulty: an ambiguous failure is released.
EndsWith_ReleasesAmbiguous(c) ==
    CASE call[c].kind \in {"success", "mismatch"} -> S!Settle(call[c].res, Bill(c))
      [] call[c].kind = "malformed" -> S!SettleUnknown(call[c].res)
      [] OTHER -> S!Release(call[c].res)

\* Faulty: nothing is ended after an unusable answer.
EndsWith_ForgetsMalformed(c) ==
    CASE call[c].kind \in {"success", "mismatch"} -> S!Settle(call[c].res, Bill(c))
      [] call[c].kind = "ambiguous" -> S!SettleUnknown(call[c].res)
      [] call[c].kind \in {"pre_dispatch", "credit"} -> S!Release(call[c].res)
      [] call[c].kind = "malformed" -> UNCHANGED store

\* What the store is told.
EndsWith(c) ==
    CASE call[c].kind \in {"success", "mismatch"} -> S!Settle(call[c].res, Bill(c))
      [] call[c].kind \in {"ambiguous", "malformed"} -> S!SettleUnknown(call[c].res)
      [] call[c].kind \in {"pre_dispatch", "credit"} -> S!Release(call[c].res)

\* Where the call goes.  An unusable decision answer is raised at once; an
\* exhausted credit raises its own alert first.
GoesOn(c) ==
    CASE call[c].kind \in {"success", "mismatch"} ->
            call' = [call EXCEPT ![c].pc = "measure", ![c].result = call[c].kind]
      [] call[c].kind = "malformed" ->
            call' = [call EXCEPT ![c].pc = "done", ![c].silent = TRUE, ![c].result = "malformed"]
      [] call[c].kind = "credit" ->
            call' = [call EXCEPT ![c].pc = "mark", ![c].due = {"credit"},
                                 ![c].result = "route_unavailable"]
      [] OTHER -> call' = [call EXCEPT ![c].pc = "measure"]

End(c) ==
    /\ call[c].pc = "end"
    /\ EndsWith(c)
    /\ GoesOn(c)
    /\ UNCHANGED <<lane, sent>>

\* The store raises; the call raises too, whatever it had got.
EndRaises(c) ==
    /\ call[c].pc = "end"
    /\ Finish(c, "raised")
    /\ UNCHANGED <<store, lane, sent>>

-----------------------------------------------------------------------------
(* _budget_alerts: the spend of today is read, then the names that are due *)
(* are marked one by one.                                                  *)

\* The call ends if its result is known, else it tries the next backend.
Resumed(c) ==
    IF call[c].result # "none" THEN [call[c] EXCEPT !.pc = "done", !.due = {}]
    ELSE [call[c] EXCEPT !.pc = "next", !.i = @ + 1, !.res = NoRes, !.due = {}]

DueNames(c) ==
    {name \in DOMAIN Threshold :
        \/ S!Loaded(S!Today).spent >= Threshold[name]
        \/ call[c].result = "budget_exhausted" /\ Threshold[name] = Cap}

\* Faulty: no alert is raised for an answer.
Measure_NotOnSuccess(c) ==
    /\ call[c].pc = "measure"
    /\ S!Touch(S!Today)
    /\ call' = [call EXCEPT ![c] =
                    IF DueNames(c) = {} \/ call[c].kind = "success" THEN Resumed(c)
                    ELSE [@ EXCEPT !.pc = "mark", !.due = DueNames(c)]]
    /\ UNCHANGED <<lane, sent>>

Measure(c) ==
    /\ call[c].pc = "measure"
    /\ S!Touch(S!Today)
    /\ call' = [call EXCEPT ![c] = IF DueNames(c) = {} THEN Resumed(c)
                                   ELSE [@ EXCEPT !.pc = "mark", !.due = DueNames(c)]]
    /\ UNCHANGED <<lane, sent>>

Mark(c, name) ==
    /\ call[c].pc = "mark" /\ name \in call[c].due
    /\ S!AlertOnce(name) \/ (name \in S!Loaded(S!Today).alerts /\ S!Touch(S!Today))
    /\ call' = [call EXCEPT ![c] = IF call[c].due = {name} THEN Resumed(c)
                                   ELSE [call[c] EXCEPT !.due = call[c].due \ {name}]]
    /\ UNCHANGED <<lane, sent>>

\* An exception out of the alerts is swallowed, and the rest of them with it.
AlertsFail(c) ==
    /\ call[c].pc \in {"measure", "mark"}
    /\ call' = [call EXCEPT ![c] = [Resumed(c) EXCEPT !.silent = TRUE]]
    /\ UNCHANGED <<store, lane, sent>>

-----------------------------------------------------------------------------
Step(c) ==
    \/ Skip(c) \/ Ask(c) \/ Exhausted(c)
    \/ Granted(c) \/ Refused(c) \/ ReserveRaises(c)
    \/ (\E bill \in 0 .. MaxActual : Send(c, bill)) \/ NotSent(c)
    \/ (\E kind \in Kinds : Answered(c, kind))
    \/ End(c) \/ EndRaises(c)
    \/ Measure(c) \/ (\E name \in call[c].due : Mark(c, name)) \/ AlertsFail(c)

Next ==
    \/ \E c \in Calls : Begin(c) \/ Step(c)
    \/ S!Tick /\ UNCHANGED <<lane, call, sent>>

Spec == Init /\ [][Next]_vars

-----------------------------------------------------------------------------
(* Properties. *)

\* Money a provider took is accounted for on the day it was reserved: still
\* held, or counted, or, where nobody saw the bill, counted as reserved.  Only
\* a reservation that outlived its TTL, as that of a killed call does, may go.
EveryBillIsHeld ==
    \A s \in sent :
        s.bill > 0 =>
            \/ s.res \in S!Opened(s.res.day).open
            \/ \E x \in counted : x.res = s.res /\ (x.actual >= s.bill \/ x.actual >= s.res.usd)
            \/ S!Expired(s.res)

\* What calls may cost together on one day is bounded by the cap: the
\* requests sent under reservations that have not expired never reserved more.
SentWithinCap ==
    \A d \in S!Days :
        LET live == {s \in sent : s.res.day = d /\ ~S!Expired(s.res) /\ s.bill <= s.res.usd}
            coins == {x \in live \X (1 .. MaxCost) : x[2] <= x[1].bill}
        IN Cardinality(coins) <= Cap

\* A call that ends in order, by an answer, a refusal or for want of a backend,
\* leaves no reservation behind: each of its attempts was counted or released,
\* or the reservation expired.
NothingLeftBehind ==
    \A c \in Calls :
        call[c].pc = "done" /\ call[c].result # "raised" =>
            \A r \in granted :
                r.id[1] = c => r \in released \cup {x.res : x \in counted} \/ S!Expired(r)

\* Nothing is sent once the deadline of the call has passed, however long its
\* reservation waited; and the first backend of a chat lane leaves the others
\* their share.
NothingSentLate ==
    \A s \in sent :
        /\ s.at < call[s.call].started + lane.deadline
        /\ ~lane.decision /\ (\E i \in Usable : i > s.i) /\ (\A i \in Usable : s.i <= i) =>
              s.at < call[s.call].started + lane.share

\* Once the calls have ended, a threshold that today's spend has reached has
\* been told: no charge slips past the alerts.  The exceptions are the calls
\* whose alerts raised, and the unusable answers of a decision lane, after
\* which decide() raises no alert: "silent" marks both.
NoSilentThreshold ==
    (\A c \in Calls : call[c].pc \in {"idle", "done"} /\ ~call[c].silent) =>
    \A name \in DOMAIN Threshold :
        S!Opened(S!Today).spent >= Threshold[name] => name \in S!Opened(S!Today).alerts
=============================================================================
