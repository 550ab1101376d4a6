-------------------------- MODULE AppDispatch_proofs --------------------------
(***************************************************************************)
(* Theorems about AppDispatch, for every value of the constants: money a   *)
(* provider took is held, what calls may cost together stays within the    *)
(* cap, no call leaves a reservation behind or sends late, and no          *)
(* threshold is passed in silence.  What the store itself keeps is the     *)
(* matter of AppSpend_proofs.                                              *)
(***************************************************************************)
EXTENDS AppDispatch, TLAPS, FiniteSetTheorems

Q == INSTANCE AppSpend_proofs

-----------------------------------------------------------------------------
(* The inductive invariant.                                                *)

CallState ==
    [pc : {"idle", "next", "reserve", "send", "wait", "end", "measure", "mark", "done"},
     i : Nat, started : S!Times, until : Nat, day : S!Days,
     res : S!Reservation \cup {NoRes}, kind : Kinds,
     due : SUBSET Names, silent : BOOLEAN, result : Results]

\* A reservation that nobody needs to end any more.
Over(r) == r \in released \cup {x.res : x \in counted} \/ S!Expired(r)

\* A call that works on a reservation has made it for the backend it is at; one
\* that waits for an answer has sent its request.
CallOK(c) ==
    /\ call[c].i >= 1 /\ call[c].started <= now
    /\ call[c].pc \in {"reserve", "send", "wait", "end"} =>
          call[c].i \in DOMAIN lane.chain /\ call[c].until = Until(c)
    /\ call[c].pc = "reserve" => call[c].day <= S!Today
    /\ call[c].pc \in {"send", "wait", "end"} =>
          call[c].res \in granted /\ call[c].res.id = <<c, call[c].i>>
    /\ call[c].pc = "send" =>
          call[c].res \notin released /\ \A x \in counted : x.res # call[c].res
    /\ call[c].pc = "wait" \/ (call[c].pc = "end" /\ call[c].kind \in {"success", "mismatch"}) =>
          \E s \in sent : s.call = c /\ s.i = call[c].i
    /\ call[c].pc = "end" => call[c].kind # "none"

\* A reservation belongs to a backend its call has reached; it is over, or the
\* call works on it, or the store raised when it was to be ended.
GrantOK(r) ==
    \E c \in Calls, i \in DOMAIN lane.chain :
        /\ r.id = <<c, i>>
        /\ r.day <= S!Today
        /\ call[c].pc # "idle" /\ i <= call[c].i
        /\ call[c].pc \in {"next", "reserve"} => i < call[c].i
        /\ \/ Over(r)
           \/ i = call[c].i /\ call[c].pc \in {"send", "wait", "end"}
           \/ i = call[c].i /\ call[c].pc = "done" /\ call[c].result = "raised"

\* A request was sent in time, under a reservation of its own; one that was
\* released took no money, one that was counted no more than was counted.
SentOK(s) ==
    LET me == call[s.call]
    IN /\ s.res \in granted /\ s.res.id = <<s.call, s.i>> /\ s.i <= me.i
       /\ me.pc # "idle"
       /\ s.i = me.i =>
             /\ me.pc \notin {"next", "reserve", "send"}
             /\ me.pc = "end" => me.kind # "pre_dispatch"
             /\ me.pc = "end" /\ me.kind = "credit" => s.bill = 0
       /\ s.at < me.started + lane.deadline
       /\ ~lane.decision /\ (\E i \in Usable : i > s.i) /\ (\A i \in Usable : s.i <= i) =>
             s.at < me.started + lane.share
       /\ s.bill \in 0 .. MaxActual
       /\ s.res \in released => s.bill = 0
       /\ \A x \in counted : x.res = s.res => x.actual >= s.bill \/ x.actual >= s.res.usd

\* Every backend is tried once, under one reservation.
OneOfEach ==
    /\ \A r, q \in granted : r.id = q.id => r = q
    /\ \A s, t \in sent : s.call = t.call /\ s.i = t.i => s = t

\* Whoever passes a threshold has yet to tell, or will never.
AlertOK(name) ==
    \/ S!Opened(S!Today).spent < Threshold[name]
    \/ name \in S!Opened(S!Today).alerts
    \/ \E c \in Calls : \/ call[c].silent
                        \/ call[c].pc = "measure"
                        \/ call[c].pc = "mark" /\ name \in call[c].due

Types == lane \in Lanes /\ call \in [Calls -> CallState] /\ sent \subseteq Request

DispatchInv ==
    /\ Q!ClaimInv /\ damaged = {}
    /\ Types /\ OneOfEach
    /\ \A c \in Calls : CallOK(c)
    /\ \A r \in granted : GrantOK(r)
    /\ \A s \in sent : SentOK(s)
    /\ \A name \in DOMAIN Threshold : AlertOK(name)

-----------------------------------------------------------------------------
(* The store.                                                              *)

\* What AppSpend assumes of its constants.
LEMMA SpendConstants ==
    /\ Cap \in Nat \ {0}
    /\ MaxCost \in Nat /\ MaxActual \in Nat /\ TTL \in Nat /\ LastTime \in Nat
    /\ DayOf \in [S!Times -> Nat]
    /\ \A t, u \in S!Times : t <= u => DayOf[t] <= DayOf[u]
BY DispatchAssumption DEF S!Times

\* The store of AppDispatch is the one AppSpend_proofs speaks of.
LEMMA SameStore ==
    /\ Q!TypeOK <=> S!TypeOK
    /\ Q!Days = S!Days /\ Q!Times = S!Times /\ Q!Reservation = S!Reservation
    /\ \A d : Q!Opened(d) = S!Opened(d)
    /\ \A r : Q!Expired(r) <=> S!Expired(r)
    /\ Q!Ended = released \cup {x.res : x \in counted}
BY DEF Q!TypeOK, S!TypeOK, Q!Days, S!Days, Q!Times, S!Times, Q!Reservation, S!Reservation,
       Q!Opened, S!Opened, Q!Expired, S!Expired, Q!Ended, Q!EmptyFile, S!EmptyFile,
       Q!File, S!File, Q!Missing, S!Missing, Q!Damaged, S!Damaged

\* Its operations are the same.
LEMMA SameOperations ==
    ASSUME NEW r, NEW id, NEW usd, NEW d
    PROVE  /\ S!Reserve(id, usd, d) => Q!Reserve(id, usd, d)
           /\ S!Touch(d) => Q!Touch(d)
           /\ S!Settle(r, usd) => Q!Settle(r, usd)
           /\ S!SettleUnknown(r) => Q!SettleUnknown(r)
           /\ S!Release(r) => Q!Release(r)
           /\ S!AlertOnce(id) => Q!AlertOnce(id)
           /\ S!Tick => Q!Tick
<1>1. \A e : S!Loaded(e) = Q!Loaded(e)
  BY DEF S!Loaded, Q!Loaded, S!Opened, Q!Opened, S!EmptyFile, Q!EmptyFile, S!Expired, Q!Expired
<1>2. \A X : S!Cardinality(X) = Q!Cardinality(X)
  BY DEF S!Cardinality, Q!Cardinality
<1>3. \A f : S!Held(f) = Q!Held(f)
  BY <1>2 DEF S!Held, Q!Held
<1>4. \A e, f : S!Save(e, f) <=> Q!Save(e, f)
  BY DEF S!Save, Q!Save
<1>5. S!Today = Q!Today
  BY DEF S!Today, Q!Today
<1>6. S!Reserve(id, usd, d) => Q!Reserve(id, usd, d)
  BY <1>1, <1>3, <1>4, <1>5 DEF S!Reserve, Q!Reserve, S!Fits, Q!Fits
<1>7. S!Touch(d) => Q!Touch(d)
  BY <1>1, <1>4 DEF S!Touch, Q!Touch
<1>8. ASSUME NEW n PROVE S!Count(r, n) => Q!Count(r, n)
  BY <1>1, <1>4 DEF S!Count, Q!Count
<1>9. S!Gone(r) => Q!Gone(r)
  BY <1>1, <1>4 DEF S!Gone, Q!Gone, S!Touch, Q!Touch
<1>10. S!Settle(r, usd) => Q!Settle(r, usd)
  BY <1>8, <1>9 DEF S!Settle, Q!Settle
<1>11. S!SettleUnknown(r) => Q!SettleUnknown(r)
  BY <1>8, <1>9 DEF S!SettleUnknown, Q!SettleUnknown
<1>12. S!Release(r) => Q!Release(r)
  BY <1>1, <1>4, <1>9 DEF S!Release, Q!Release
<1>13. S!AlertOnce(id) => Q!AlertOnce(id)
  BY <1>1, <1>4, <1>5 DEF S!AlertOnce, Q!AlertOnce
<1>14. S!Tick => Q!Tick
  BY DEF S!Tick, Q!Tick
<1> QED
  BY <1>6, <1>7, <1>10, <1>11, <1>12, <1>13, <1>14

\* Reading a file gives a valid one: what has expired is dropped, the rest stays.
LEMMA FileRead ==
    ASSUME S!TypeOK, NEW d \in S!Days
    PROVE  /\ S!Opened(d) \in S!File
           /\ S!Loaded(d) \in S!File
           /\ S!Loaded(d).spent = S!Opened(d).spent /\ S!Opened(d).spent \in Nat
           /\ S!Loaded(d).alerts = S!Opened(d).alerts
           /\ S!Loaded(d).open = {r \in S!Opened(d).open : ~S!Expired(r)}
<1>1. disk[d] \in S!File \cup {S!Missing, S!Damaged}
  BY DEF S!TypeOK
<1>2. S!EmptyFile \in S!File /\ [S!EmptyFile EXCEPT !.spent = Cap] \in S!File
  BY SpendConstants DEF S!EmptyFile, S!File
<1>3. S!Opened(d) \in S!File
  <2>1. CASE disk[d] \in S!File
    BY <2>1 DEF S!Opened, S!File
  <2>2. CASE disk[d] = S!Missing
    BY <1>2, <2>2 DEF S!Opened, S!Missing
  <2>3. CASE disk[d] = S!Damaged
    BY <1>2, <2>3 DEF S!Opened, S!Damaged
  <2> QED  BY <1>1, <2>1, <2>2, <2>3
<1>4. S!Loaded(d) = [S!Opened(d) EXCEPT !.open = {r \in S!Opened(d).open : ~S!Expired(r)}]
  BY DEF S!Loaded
<1> QED  BY <1>3, <1>4 DEF S!File

\* The next operation on a day reads what was written there last.
LEMMA FileWritten ==
    ASSUME S!TypeOK, NEW d \in S!Days, NEW f \in S!File, S!Save(d, f)
    PROVE  /\ S!Opened(d)' = f
           /\ \A e \in S!Days \ {d} : S!Opened(e)' = S!Opened(e)
<1>1. disk'[d] = f /\ \A e \in S!Days \ {d} : disk'[e] = disk[e]
  BY DEF S!Save, S!TypeOK
<1>2. f.kind = "file"
  BY DEF S!File
<1> QED  BY <1>1, <1>2 DEF S!Opened

\* Nothing of the money changes; an alert may be added.
StoreKept ==
    /\ UNCHANGED <<now, granted, counted, released, damaged>>
    /\ \A d \in S!Days : /\ S!Opened(d)'.spent = S!Opened(d).spent
                         /\ S!Opened(d).alerts \subseteq S!Opened(d)'.alerts

\* Such are the operations that end nothing.
LEMMA KeptByAll ==
    ASSUME S!TypeOK, NEW d \in S!Days, NEW name \in Names, S!Today \in S!Days
    PROVE  /\ UNCHANGED store => StoreKept
           /\ S!Touch(d) => StoreKept
           /\ S!AlertOnce(name) => StoreKept /\ name \in S!Opened(S!Today)'.alerts
<1>1. UNCHANGED store => StoreKept
  BY DEF store, StoreKept, S!Opened
<1>2. ASSUME S!Touch(d) PROVE StoreKept
  <2>1. S!Save(d, S!Loaded(d)) /\ UNCHANGED <<now, granted, counted, released, damaged>>
    BY <1>2 DEF S!Touch
  <2>2. /\ S!Opened(d)' = S!Loaded(d)
        /\ \A e \in S!Days \ {d} : S!Opened(e)' = S!Opened(e)
    BY <2>1, FileRead, FileWritten
  <2> QED  BY <2>1, <2>2, FileRead DEF StoreKept
<1>3. ASSUME S!AlertOnce(name) PROVE StoreKept /\ name \in S!Opened(S!Today)'.alerts
  <2>1. PICK t \in S!Days : t = S!Today
    OBVIOUS
  <2>2. PICK f : f = [S!Loaded(t) EXCEPT !.alerts = S!Loaded(t).alerts \cup {name}]
    OBVIOUS
  <2>3. S!Save(t, f) /\ UNCHANGED <<now, granted, counted, released, damaged>>
    BY <1>3, <2>1, <2>2 DEF S!AlertOnce
  <2>4. /\ f \in S!File /\ f.spent = S!Loaded(t).spent
        /\ f.alerts = S!Loaded(t).alerts \cup {name}
    <3>1. S!Loaded(t) \in S!File
      BY FileRead
    <3> QED  BY <2>2, <3>1 DEF S!File
  <2>5. /\ S!Opened(t)' = f
        /\ \A e \in S!Days \ {t} : S!Opened(e)' = S!Opened(e)
    BY <2>3, <2>4, FileWritten
  <2>6. StoreKept
    BY <2>3, <2>4, <2>5, FileRead DEF StoreKept
  <2>7. S!Today' = t
    BY <2>1, <2>3 DEF S!Today
  <2> QED  BY <2>4, <2>5, <2>6, <2>7
<1> QED  BY <1>1, <1>2, <1>3

\* No operation takes an alert back.
AlertsKept == \A d \in S!Days : S!Opened(d).alerts \subseteq S!Opened(d)'.alerts

\* A charge is counted once for all.
LEMMA CountEffect ==
    ASSUME S!TypeOK, NEW r \in S!Reservation, NEW n \in Nat, S!Count(r, n)
    PROVE  /\ UNCHANGED <<now, granted, released, damaged>>
           /\ counted' = counted \cup {[res |-> r, actual |-> n]}
           /\ AlertsKept
<1>0. r.day \in S!Days
  BY DEF S!Reservation
<1>1. PICK f : f = [S!Loaded(r.day) EXCEPT !.open = S!Loaded(r.day).open \ {r},
                                           !.spent = S!Loaded(r.day).spent + n]
  OBVIOUS
<1>2. /\ S!Save(r.day, f)
      /\ UNCHANGED <<now, granted, released, damaged>>
      /\ counted' = counted \cup {[res |-> r, actual |-> n]}
  BY <1>1 DEF S!Count
<1>3. f \in S!File /\ f.alerts = S!Loaded(r.day).alerts
  <2>1. S!Loaded(r.day) \in S!File
    BY <1>0, FileRead
  <2>2. /\ S!Loaded(r.day).open \ {r} \in SUBSET S!Reservation
        /\ S!Loaded(r.day).spent + n \in Nat
    BY <2>1 DEF S!File
  <2> QED  BY <1>1, <2>1, <2>2 DEF S!File
<1>4. /\ S!Opened(r.day)' = f
      /\ \A e \in S!Days \ {r.day} : S!Opened(e)' = S!Opened(e)
  BY <1>0, <1>2, <1>3, FileWritten
<1> QED  BY <1>0, <1>2, <1>3, <1>4, FileRead DEF AlertsKept

\* A release costs nothing.
LEMMA FreeEffect ==
    ASSUME S!TypeOK, NEW r \in S!Reservation,
           S!Save(r.day, [S!Loaded(r.day) EXCEPT !.open = S!Loaded(r.day).open \ {r}])
    PROVE  /\ AlertsKept
           /\ \A d \in S!Days : S!Opened(d)'.spent = S!Opened(d).spent
<1>0. r.day \in S!Days
  BY DEF S!Reservation
<1>1. PICK f : f = [S!Loaded(r.day) EXCEPT !.open = S!Loaded(r.day).open \ {r}]
  OBVIOUS
<1>2. S!Save(r.day, f)
  BY <1>1
<1>3. f \in S!File /\ f.alerts = S!Loaded(r.day).alerts /\ f.spent = S!Loaded(r.day).spent
  <2>1. S!Loaded(r.day) \in S!File
    BY <1>0, FileRead
  <2> QED  BY <1>1, <2>1 DEF S!File
<1>4. /\ S!Opened(r.day)' = f
      /\ \A e \in S!Days \ {r.day} : S!Opened(e)' = S!Opened(e)
  BY <1>0, <1>2, <1>3, FileWritten
<1> QED  BY <1>0, <1>3, <1>4, FileRead DEF AlertsKept

\* What is no longer there is over.
LEMMA GoneEffect ==
    ASSUME S!TypeOK, Q!HoldInv, damaged = {}, NEW r \in granted, S!Gone(r),
           \E name : name \in Names, S!Today \in S!Days
    PROVE  StoreKept /\ Over(r)
<1>0. r.day \in S!Days /\ r \in S!Reservation
  BY DEF S!TypeOK, S!Reservation
<1>1. r \notin S!Loaded(r.day).open /\ S!Touch(r.day)
  BY DEF S!Gone
<1>2. StoreKept
  BY <1>0, <1>1, KeptByAll
<1>3. ~S!Expired(r) => r \in S!Opened(r.day).open \cup Q!Ended
  BY <1>0, SameStore DEF Q!HoldInv, Q!HeldUntilTTL, Q!Ended
<1>4. S!Expired(r) \/ r \in Q!Ended
  BY <1>0, <1>1, <1>3, FileRead
<1> QED  BY <1>2, <1>4, SameStore DEF Over

-----------------------------------------------------------------------------
(* What the invariant says.                                                *)

\* The facts about states, calls, reservations and requests that the steps cite.
LEMMA InvFacts ==
    ASSUME DispatchInv
    PROVE  /\ S!TypeOK /\ Q!TypeOK /\ Q!HoldInv /\ Q!ClaimInv /\ damaged = {}
           /\ granted \subseteq S!Reservation /\ S!Today \in S!Days /\ now \in Nat
           /\ "credit" \in Names
           /\ lane \in Lane /\ lane.deadline \in Nat /\ lane.share \in Nat
           /\ lane.share <= lane.deadline
           /\ DOMAIN lane.chain \subseteq Nat \ {0} /\ Usable \subseteq DOMAIN lane.chain
           /\ \A c \in Calls, i \in DOMAIN lane.chain :
                 <<c, i>> \in Ids /\ lane.chain[i].usd \in 1 .. MaxCost
           /\ call \in [Calls -> CallState]
           /\ \A c \in Calls : CallOK(c) /\ call[c] \in CallState /\ call[c].i \in Nat
           /\ \A r \in granted : GrantOK(r)
           /\ \A s \in sent : /\ SentOK(s) /\ s \in Request /\ s.call \in Calls
                              /\ s.i \in DOMAIN lane.chain
           /\ OneOfEach /\ sent \subseteq Request
<1>1. Q!ClaimInv /\ Q!HoldInv /\ Q!TypeOK /\ S!TypeOK /\ damaged = {}
  BY SameStore DEF DispatchInv, Q!ClaimInv, Q!SumInv, Q!HoldInv, Q!WellFormed
<1>2. granted \subseteq S!Reservation /\ S!Today \in S!Days /\ now \in Nat
  BY <1>1, SpendConstants DEF S!TypeOK, S!Today, S!Days, S!Times
<1>3. /\ lane \in Lane /\ lane.share <= lane.deadline /\ "credit" \in Names
      /\ Calls \X DOMAIN lane.chain \subseteq Ids
  BY DispatchAssumption DEF DispatchInv, Types
<1>4. lane.chain \in Seq([key : BOOLEAN, usd : 1 .. MaxCost])
      /\ lane.deadline \in Nat /\ lane.share \in Nat
  BY <1>3 DEF Lane
<1>5. /\ DOMAIN lane.chain \subseteq Nat \ {0}
      /\ \A i \in DOMAIN lane.chain : lane.chain[i].usd \in 1 .. MaxCost
  <2> DEFINE backends == [key : BOOLEAN, usd : 1 .. MaxCost]
  <2>1. lane.chain \in Seq(backends)
    BY <1>4
  <2> HIDE DEF backends
  <2>2. DOMAIN lane.chain = 1 .. Len(lane.chain) /\ Len(lane.chain) \in Nat
    BY <2>1
  <2>3. \A i \in DOMAIN lane.chain : lane.chain[i] \in backends
    BY <2>1
  <2> QED  BY <2>2, <2>3 DEF backends
<1>6. call \in [Calls -> CallState] /\ sent \subseteq Request
  BY DEF DispatchInv, Types
<1>7. \A c \in Calls : call[c] \in CallState /\ call[c].i \in Nat
  BY <1>6 DEF CallState
<1>8. \A s \in sent : s \in Request /\ s.call \in Calls /\ s.i \in DOMAIN lane.chain
  BY <1>6 DEF Request
<1> QED
  BY <1>1, <1>2, <1>3, <1>4, <1>5, <1>6, <1>7, <1>8 DEF DispatchInv, Usable

-----------------------------------------------------------------------------
(* The walk of one call, and what it leaves alone.                         *)

WalkInv ==
    /\ Types /\ OneOfEach
    /\ \A c \in Calls : CallOK(c)
    /\ \A r \in granted : GrantOK(r)
    /\ \A s \in sent : SentOK(s)

\* A step of c: what it grants, sends or ends is its current backend's.
Moves(c) ==
    /\ now' = now /\ lane' = lane
    /\ call' \in [Calls -> CallState] /\ \A d \in Calls \ {c} : call'[d] = call[d]
    /\ granted \subseteq granted'
    /\ \A r \in granted' \ granted :
          r.id = <<c, call[c].i>> /\ call[c].i \in DOMAIN lane.chain
    /\ sent \subseteq sent' /\ \A s \in sent' \ sent : s.call = c
    /\ released \subseteq released' /\ \A r \in released' \ released : r.id = <<c, call[c].i>>
    /\ counted \subseteq counted' /\ \A x \in counted' \ counted : x.res.id = <<c, call[c].i>>

\* Equal pairs have equal members.
LEMMA Pairs == \A a, b, x, y : <<a, b>> = <<x, y>> => a = x /\ b = y
OBVIOUS

\* The other calls, their reservations and their requests are as they were.
LEMMA OthersKeep ==
    ASSUME DispatchInv, NEW c \in Calls, Moves(c)
    PROVE  /\ \A d \in Calls \ {c} : CallOK(d)'
           /\ \A r \in granted : Over(r) => Over(r)'
           /\ \A r \in granted : r.id[1] # c => GrantOK(r)'
           /\ \A s \in sent : s.call # c => SentOK(s)'
           /\ \A r \in granted : \E d \in Calls, i \in DOMAIN lane.chain : r.id = <<d, i>>
<1>0. S!Today' = S!Today /\ \A r : S!Expired(r)' <=> S!Expired(r)
  BY DEF Moves, S!Today, S!Expired
<1>1. ASSUME NEW d \in Calls \ {c} PROVE CallOK(d)'
  <2>1. Until(d)' = Until(d)
    BY DEF Until, IsFirst, Usable, Overall, Moves
  <2>2. call[d].pc = "send" => call[d].res.id # <<c, call[c].i>>
    BY InvFacts DEF CallOK
  <2> QED  BY <1>0, <2>1, <2>2, InvFacts DEF CallOK, Moves
<1>2. ASSUME NEW r \in granted PROVE Over(r) => Over(r)'
  BY <1>0 DEF Over, Moves
<1>3. ASSUME NEW r \in granted, r.id[1] # c PROVE GrantOK(r)'
  <2>1. PICK d \in Calls, i \in DOMAIN lane.chain :
            /\ r.id = <<d, i>>
            /\ r.day <= S!Today
            /\ call[d].pc # "idle" /\ i <= call[d].i
            /\ call[d].pc \in {"next", "reserve"} => i < call[d].i
            /\ \/ Over(r)
               \/ i = call[d].i /\ call[d].pc \in {"send", "wait", "end"}
               \/ i = call[d].i /\ call[d].pc = "done" /\ call[d].result = "raised"
    BY InvFacts DEF GrantOK
  <2>2. d # c /\ call'[d] = call[d] /\ lane' = lane
    BY <1>3, <2>1 DEF Moves
  <2> QED  BY <1>0, <1>2, <2>1, <2>2 DEF GrantOK
<1>4. ASSUME NEW s \in sent, s.call # c PROVE SentOK(s)'
  <2>1. /\ SentOK(s) /\ s.res.id = <<s.call, s.i>> /\ s.call \in Calls
        /\ call'[s.call] = call[s.call] /\ lane' = lane
    BY <1>4, InvFacts DEF SentOK, Moves
  <2>2. s.res.id # <<c, call[c].i>>
    BY <1>4, <2>1
  <2>3. /\ s.res \in granted => s.res \in granted'
        /\ s.res \in released' => s.res \in released
        /\ \A x \in counted' : x.res = s.res => x \in counted
    BY <2>2 DEF Moves
  <2> QED  BY <2>1, <2>3 DEF SentOK, Usable
<1>5. ASSUME NEW r \in granted
      PROVE  \E d \in Calls, i \in DOMAIN lane.chain : r.id = <<d, i>>
  BY InvFacts DEF GrantOK
<1> QED  BY <1>1, <1>2, <1>3, <1>4, <1>5

\* The reservation of c for backend i.
Mine(c, r, i) == r \in granted /\ i \in DOMAIN lane.chain /\ r.id = <<c, i>>

\* The call a reservation belongs to is the one its id names.
LEMMA MineFacts ==
    ASSUME DispatchInv, NEW c \in Calls, NEW r, NEW i, Mine(c, r, i)
    PROVE  /\ r.day <= S!Today
           /\ call[c].pc # "idle" /\ i <= call[c].i
           /\ call[c].pc \in {"next", "reserve"} => i < call[c].i
           /\ \/ Over(r)
              \/ i = call[c].i /\ call[c].pc \in {"send", "wait", "end"}
              \/ i = call[c].i /\ call[c].pc = "done" /\ call[c].result = "raised"
<1>1. PICK d \in Calls, j \in DOMAIN lane.chain :
            /\ r.id = <<d, j>>
            /\ r.day <= S!Today
            /\ call[d].pc # "idle" /\ j <= call[d].i
            /\ call[d].pc \in {"next", "reserve"} => j < call[d].i
            /\ \/ Over(r)
               \/ j = call[d].i /\ call[d].pc \in {"send", "wait", "end"}
               \/ j = call[d].i /\ call[d].pc = "done" /\ call[d].result = "raised"
  BY InvFacts DEF GrantOK, Mine
<1>2. <<c, i>> = <<d, j>>
  BY <1>1 DEF Mine
<1>3. c = d /\ i = j
  BY <1>2, Pairs, Zenon
<1> QED  BY <1>1, <1>3

\* To keep the invariant, a step of c has to see to what is its own.
LEMMA OwnSuffices ==
    ASSUME DispatchInv, NEW c \in Calls, Moves(c), OneOfEach', sent' \subseteq Request', CallOK(c)',
           \A r, i : Mine(c, r, i)' => GrantOK(r)',
           \A s \in sent' : s.call = c => SentOK(s)'
    PROVE  WalkInv'
<1>1. ASSUME NEW r \in granted' PROVE GrantOK(r)'
  <2>1. CASE r \notin granted
    <3>1. PICK i \in DOMAIN lane.chain : r.id = <<c, i>>
      BY <2>1 DEF Moves
    <3> QED  BY <1>1, <3>1 DEF Mine, Moves
  <2>2. CASE r \in granted
    <3>1. PICK d \in Calls, i \in DOMAIN lane.chain : r.id = <<d, i>>
      BY <2>2, OthersKeep
    <3>2. CASE d = c
      BY <1>1, <3>1, <3>2 DEF Mine, Moves
    <3>3. CASE d # c
      BY <2>2, <3>1, <3>3, OthersKeep
    <3> QED  BY <3>2, <3>3
  <2> QED  BY <2>1, <2>2
<1>2. ASSUME NEW s \in sent' PROVE SentOK(s)'
  BY <1>2, OthersKeep DEF Moves
<1>3. ASSUME NEW d \in Calls PROVE CallOK(d)'
  BY <1>3, OthersKeep
<1>4. Types'
  BY DEF Types, DispatchInv, Moves
<1> QED  BY <1>1, <1>2, <1>3, <1>4 DEF WalkInv

-----------------------------------------------------------------------------
(* The steps of a call.                                                    *)

\* No reservation is made or ended, and nothing sent: a call goes on to another
\* backend, waits for the store, raises alerts or ends.
LEMMA RestStep ==
    ASSUME DispatchInv, NEW c \in Calls, Moves(c),
           UNCHANGED <<granted, sent, released, counted>>,
           call[c].pc \in {"idle", "next", "reserve", "measure", "mark"},
           call'[c].pc \in {"next", "reserve", "measure", "mark", "done"},
           call'[c].i >= call[c].i,
           call'[c].started = call[c].started \/ (call[c].pc = "idle" /\ call'[c].started = now),
           call'[c].pc \in {"next", "reserve"} =>
               call[c].pc \in {"idle", "next", "reserve"} \/ call'[c].i > call[c].i,
           call'[c].pc = "reserve" =>
               call'[c].i \in DOMAIN lane.chain /\ call'[c].until = Until(c)'
               /\ call'[c].day <= S!Today
    PROVE  WalkInv'
<1>0. /\ call[c].i \in Nat /\ call'[c].i \in Nat /\ CallOK(c) /\ now \in Nat
      /\ DOMAIN lane.chain \subseteq Nat \ {0}
      /\ S!Today' = S!Today /\ lane' = lane /\ now' = now
      /\ \A r \in granted : Over(r) => Over(r)'
  BY InvFacts, OthersKeep DEF Moves, CallState, S!Today
<1>1. CallOK(c)'
  BY <1>0 DEF CallOK
<1>2. ASSUME NEW r, NEW i, Mine(c, r, i)' PROVE GrantOK(r)'
  <2>1. Mine(c, r, i) /\ r \in granted /\ r.id = <<c, i>> /\ i \in DOMAIN lane.chain /\ i \in Nat
    BY <1>0, <1>2 DEF Mine
  <2>2. /\ r.day <= S!Today /\ call[c].pc # "idle" /\ i <= call[c].i /\ Over(r)
        /\ call[c].pc \in {"next", "reserve"} => i < call[c].i
    BY <2>1, MineFacts
  <2>3. i <= call'[c].i /\ (call'[c].pc \in {"next", "reserve"} => i < call'[c].i)
    BY <1>0, <2>1, <2>2
  <2> QED  BY <1>0, <2>1, <2>2, <2>3 DEF GrantOK
<1>3. ASSUME NEW s \in sent', s.call = c PROVE SentOK(s)'
  <2>1. SentOK(s) /\ s.i \in Nat /\ call[c].pc # "idle"
    BY <1>0, <1>3, InvFacts DEF SentOK
  <2>2. /\ s.i <= call'[c].i
        /\ s.i = call'[c].i => call'[c].pc \notin {"next", "reserve", "send", "end"}
    BY <1>0, <1>3, <2>1 DEF SentOK
  <2> QED  BY <1>0, <1>3, <2>1, <2>2 DEF SentOK, Usable
<1>4. OneOfEach' /\ sent' \subseteq Request'
  BY <1>0, InvFacts DEF OneOfEach, Request
<1> QED  BY <1>1, <1>2, <1>3, <1>4, OwnSuffices

\* The store grants a reservation for the backend.
LEMMA GrantedStep ==
    ASSUME DispatchInv, NEW c \in Calls, Moves(c), call[c].pc = "reserve",
           UNCHANGED <<sent, released, counted>>,
           NEW r, granted' = granted \cup {r}, r.id = <<c, call[c].i>>, r.day <= S!Today,
           \A q \in granted : q.id # r.id,
           call'[c].pc = "send", call'[c].i = call[c].i, call'[c].started = call[c].started,
           call'[c].until = call[c].until, call'[c].res = r
    PROVE  WalkInv'
<1>0. /\ call[c].i \in Nat /\ CallOK(c)
      /\ DOMAIN lane.chain \subseteq Nat \ {0}
      /\ S!Today' = S!Today /\ lane' = lane /\ now' = now
      /\ \A q \in granted : Over(q) => Over(q)'
  BY InvFacts, OthersKeep DEF Moves, S!Today
<1>1. CallOK(c)'
  <2>1. Until(c)' = Until(c)
    BY <1>0 DEF Until, IsFirst, Usable, Overall
  <2>2. r \notin granted
    OBVIOUS
  <2>3. r \notin released /\ \A x \in counted : x.res # r
    BY <2>2, InvFacts, SameStore DEF Q!HoldInv, Q!EndedOnce
  <2> QED  BY <1>0, <2>1, <2>3 DEF CallOK
<1>2. ASSUME NEW q, NEW i, Mine(c, q, i)' PROVE GrantOK(q)'
  <2>1. CASE q = r
    BY <1>0, <2>1 DEF GrantOK, CallOK
  <2>2. CASE q # r
    <3>1. Mine(c, q, i) /\ q \in granted /\ q.id = <<c, i>> /\ i \in DOMAIN lane.chain /\ i \in Nat
      BY <1>0, <1>2, <2>2 DEF Mine
    <3>2. q.day <= S!Today /\ i < call[c].i /\ Over(q)
      BY <3>1, MineFacts
    <3> QED  BY <1>0, <3>1, <3>2 DEF GrantOK
  <2> QED  BY <2>1, <2>2
<1>3. ASSUME NEW s \in sent', s.call = c PROVE SentOK(s)'
  <2>1. SentOK(s) /\ s.i \in Nat /\ s.i < call[c].i
    BY <1>0, <1>3, InvFacts DEF SentOK
  <2> QED  BY <1>0, <1>3, <2>1 DEF SentOK, Usable
<1>4. OneOfEach' /\ sent' \subseteq Request'
  BY <1>0, InvFacts DEF OneOfEach, Request
<1> QED  BY <1>1, <1>2, <1>3, <1>4, OwnSuffices

\* The request is sent, in time.
LEMMA SendStep ==
    ASSUME DispatchInv, NEW c \in Calls, NEW bill \in 0 .. MaxActual, Send(c, bill)
    PROVE  WalkInv' /\ Moves(c)
<1>0. /\ call[c].pc = "send" /\ now < call[c].until /\ CallOK(c) /\ call[c] \in CallState
      /\ call[c].i \in DOMAIN lane.chain /\ call[c].i \in Nat
      /\ call[c].until = Until(c)
      /\ call[c].res \in granted /\ call[c].res.id = <<c, call[c].i>>
      /\ granted \subseteq S!Reservation /\ bill \in Nat
      /\ UNCHANGED <<disk, now, granted, counted, released, damaged, lane>>
      /\ call \in [Calls -> CallState]
  BY InvFacts, SpendConstants DEF CallOK, Send, store
<1>1. PICK s : /\ s = [call |-> c, i |-> call[c].i, res |-> call[c].res, bill |-> bill, at |-> now]
               /\ sent' = sent \cup {s}
  BY DEF Send
<1>2. /\ s.call = c /\ s.i = call[c].i /\ s.res = call[c].res /\ s.bill = bill /\ s.at = now
      /\ s \in Request
  BY <1>0, <1>1, InvFacts DEF Request, S!TypeOK
<1>3. /\ call' \in [Calls -> CallState] /\ \A d \in Calls \ {c} : call'[d] = call[d]
      /\ call'[c].pc = "wait" /\ call'[c].i = call[c].i /\ call'[c].started = call[c].started
      /\ call'[c].until = call[c].until /\ call'[c].res = call[c].res
  BY <1>0 DEF Send, CallState
<1>4. Moves(c)
  BY <1>0, <1>1, <1>2, <1>3 DEF Moves
<1>5. CallOK(c)'
  <2>1. Until(c)' = Until(c)
    BY <1>0, <1>3 DEF Until, IsFirst, Usable, Overall
  <2> QED  BY <1>0, <1>1, <1>2, <1>3, <2>1 DEF CallOK
<1>6. ASSUME NEW r, NEW i, Mine(c, r, i)' PROVE GrantOK(r)'
  <2>1. Mine(c, r, i) /\ r \in granted /\ r.id = <<c, i>> /\ i \in DOMAIN lane.chain
    BY <1>0, <1>6 DEF Mine
  <2>2. /\ r.day <= S!Today /\ i <= call[c].i
        /\ Over(r) \/ i = call[c].i
    BY <1>0, <2>1, MineFacts
  <2>3. S!Today' = S!Today /\ (Over(r) => Over(r)')
    BY <1>4, <2>1, OthersKeep DEF Moves, S!Today
  <2> QED  BY <1>0, <1>3, <2>1, <2>2, <2>3 DEF GrantOK
<1>7. s.res \notin released /\ \A x \in counted : x.res # s.res
  BY <1>0, <1>2 DEF CallOK
<1>8. ASSUME NEW t \in sent', t.call = c PROVE SentOK(t)' /\ (t \in sent => t.i # call[c].i)
  <2>1. CASE t = s
    <3>1. /\ s.at < call[c].started + lane.deadline
          /\ ~lane.decision /\ (\E i \in Usable : i > s.i) /\ (\A i \in Usable : s.i <= i) =>
                s.at < call[c].started + lane.share
      <4>1. CASE ~lane.decision /\ (\E i \in Usable : i > s.i) /\ (\A i \in Usable : s.i <= i)
        <5>1. Until(c) = call[c].started + lane.share
          BY <1>2, <4>1 DEF Until, IsFirst
        <5>2. /\ now \in Int /\ call[c].started \in Int /\ lane.share \in Int
              /\ lane.deadline \in Int /\ lane.share <= lane.deadline
          BY <1>0, InvFacts, SpendConstants DEF CallState, S!Times
        <5> QED  BY <1>0, <1>2, <5>1, <5>2
      <4>2. CASE ~(~lane.decision /\ (\E i \in Usable : i > s.i) /\ (\A i \in Usable : s.i <= i))
        <5>1. Until(c) = call[c].started + lane.deadline
          BY <1>2, <4>2 DEF Until, IsFirst, Overall
        <5> QED  BY <1>0, <1>2, <4>2, <5>1
      <4> QED  BY <4>1, <4>2
    <3>2. Usable' = Usable
      BY <1>0 DEF Usable
    <3>3. s \notin sent
      BY <1>0, <1>2, InvFacts DEF SentOK
    <3> QED  BY <1>0, <1>2, <1>3, <1>7, <2>1, <3>1, <3>2, <3>3 DEF SentOK
  <2>2. CASE t # s
    <3>1. SentOK(t) /\ t \in sent
      BY <1>1, <1>8, <2>2, InvFacts
    <3>2. t.i # call[c].i
      BY <1>0, <1>8, <3>1 DEF SentOK
    <3> QED  BY <1>0, <1>3, <1>8, <3>1, <3>2 DEF SentOK, Usable
  <2> QED  BY <2>1, <2>2
<1>9. OneOfEach' /\ sent' \subseteq Request'
  <2>1. \A t, u \in sent' : t.call = u.call /\ t.i = u.i => t = u
    BY <1>1, <1>2, <1>8, InvFacts DEF OneOfEach
  <2> QED  BY <1>0, <1>1, <1>2, <2>1, InvFacts DEF OneOfEach, Request
<1> QED  BY <1>4, <1>5, <1>6, <1>8, <1>9, OwnSuffices

\* The attempt fails before it is sent, or something comes back.
LEMMA ComesStep ==
    ASSUME DispatchInv, NEW c \in Calls, NEW kind \in Kinds, kind # "none", Comes(c, kind),
           UNCHANGED <<store, lane, sent>>,
           \/ call[c].pc = "send" /\ kind \in {"pre_dispatch", "ambiguous"}
           \/ call[c].pc = "wait" /\ kind # "pre_dispatch" /\ (kind = "credit" => Bill(c) = 0)
    PROVE  WalkInv' /\ Moves(c)
<1>0. /\ CallOK(c) /\ call[c] \in CallState
      /\ call[c].i \in DOMAIN lane.chain /\ call[c].i \in Nat
      /\ UNCHANGED <<disk, now, granted, counted, released, damaged, lane>>
      /\ call \in [Calls -> CallState]
  BY InvFacts DEF CallOK, store
<1>1. /\ call' \in [Calls -> CallState] /\ \A d \in Calls \ {c} : call'[d] = call[d]
      /\ call'[c].pc = "end" /\ call'[c].i = call[c].i /\ call'[c].started = call[c].started
      /\ call'[c].until = call[c].until /\ call'[c].res = call[c].res /\ call'[c].kind = kind
  BY <1>0 DEF Comes, CallState
<1>2. Moves(c)
  BY <1>0, <1>1 DEF Moves
<1>3. CallOK(c)'
  <2>1. Until(c)' = Until(c)
    BY <1>0, <1>1 DEF Until, IsFirst, Usable, Overall
  <2> QED  BY <1>0, <1>1, <2>1 DEF CallOK
<1>4. ASSUME NEW r, NEW i, Mine(c, r, i)' PROVE GrantOK(r)'
  <2>1. Mine(c, r, i) /\ r \in granted /\ r.id = <<c, i>> /\ i \in DOMAIN lane.chain
    BY <1>0, <1>4 DEF Mine
  <2>2. /\ r.day <= S!Today /\ i <= call[c].i
        /\ Over(r) \/ i = call[c].i
    BY <1>0, <2>1, MineFacts
  <2>3. S!Today' = S!Today /\ (Over(r) => Over(r)')
    BY <1>2, <2>1, OthersKeep DEF Moves, S!Today
  <2> QED  BY <1>0, <1>1, <2>1, <2>2, <2>3 DEF GrantOK
<1>5. ASSUME NEW s \in sent', s.call = c PROVE SentOK(s)'
  <2>1. SentOK(s) /\ s \in sent
    BY <1>5, InvFacts
  <2>2. s.i = call[c].i => call[c].pc = "wait" /\ Bill(c) = s.bill
    <3>1. ASSUME s.i = call[c].i, NEW t \in sent, t.call = c, t.i = call[c].i PROVE t = s
      BY <1>5, <2>1, <3>1, InvFacts DEF OneOfEach
    <3> QED  BY <1>0, <1>5, <2>1, <3>1 DEF SentOK, Bill
  <2> QED  BY <1>0, <1>1, <1>5, <2>1, <2>2 DEF SentOK, Usable
<1>6. OneOfEach' /\ sent' \subseteq Request'
  BY <1>0, InvFacts DEF OneOfEach, Request
<1> QED  BY <1>2, <1>3, <1>4, <1>5, <1>6, OwnSuffices

\* The reservation is over, or the store raised.
LEMMA EndStep ==
    ASSUME DispatchInv, NEW c \in Calls, Moves(c), call[c].pc = "end",
           UNCHANGED <<granted, sent>>,
           call'[c].pc \in {"measure", "mark", "done"}, call'[c].i = call[c].i,
           call'[c].started = call[c].started,
           NEW g, g = call[c].res, Over(g)' \/ (call'[c].pc = "done" /\ call'[c].result = "raised"),
           \A s \in sent : s.call = c /\ s.i = call[c].i =>
               /\ s.res \in released' \ released => s.bill = 0
               /\ \A x \in counted' \ counted : x.actual >= s.bill \/ x.actual >= s.res.usd
    PROVE  WalkInv'
<1>0. /\ call[c].i \in Nat /\ CallOK(c) /\ call[c].i \in DOMAIN lane.chain
      /\ call[c].res \in granted /\ call[c].res.id = <<c, call[c].i>>
      /\ DOMAIN lane.chain \subseteq Nat \ {0}
      /\ S!Today' = S!Today /\ lane' = lane /\ now' = now
      /\ \A q \in granted : Over(q) => Over(q)'
  BY InvFacts, OthersKeep DEF Moves, S!Today, CallOK
<1>1. CallOK(c)'
  BY <1>0 DEF CallOK
<1>2. ASSUME NEW r, NEW i, Mine(c, r, i)' PROVE GrantOK(r)'
  <2>1. Mine(c, r, i) /\ r \in granted /\ r.id = <<c, i>> /\ i \in DOMAIN lane.chain /\ i \in Nat
    BY <1>0, <1>2 DEF Mine
  <2>2. /\ r.day <= S!Today /\ i <= call[c].i
        /\ Over(r) \/ i = call[c].i
    BY <2>1, MineFacts
  <2>3. i = call[c].i => r = g
    BY <1>0, <2>1, InvFacts DEF OneOfEach
  <2>4. Over(r)' \/ (i = call'[c].i /\ call'[c].pc = "done" /\ call'[c].result = "raised")
    BY <1>0, <2>1, <2>2, <2>3
  <2> QED  BY <1>0, <2>1, <2>2, <2>4 DEF GrantOK
<1>3. ASSUME NEW s \in sent', s.call = c PROVE SentOK(s)'
  <2>1. SentOK(s) /\ s \in sent /\ s.i \in Nat
    BY <1>0, <1>3, InvFacts
  <2>2. CASE s.i = call[c].i
    <3>1. /\ s.res \in released' => s.bill = 0
          /\ \A x \in counted' : x.res = s.res => x.actual >= s.bill \/ x.actual >= s.res.usd
      BY <1>3, <2>1, <2>2 DEF SentOK
    <3> QED  BY <1>0, <1>3, <2>1, <2>2, <3>1 DEF SentOK, Usable
  <2>3. CASE s.i # call[c].i
    <3>1. s.res.id # <<c, call[c].i>>
      <4>1. s.res.id = <<c, s.i>>
        BY <1>3, <2>1 DEF SentOK
      <4> QED  BY <2>3, <4>1
    <3>2. /\ s.res \in released' => s.res \in released
          /\ \A x \in counted' : x.res = s.res => x \in counted
      BY <3>1 DEF Moves
    <3> QED  BY <1>0, <1>3, <2>1, <2>3, <3>2 DEF SentOK, Usable
  <2> QED  BY <2>2, <2>3
<1>4. OneOfEach' /\ sent' \subseteq Request'
  BY <1>0, InvFacts DEF OneOfEach, Request
<1> QED  BY <1>1, <1>2, <1>3, <1>4, OwnSuffices

\* The call as one of its steps leaves it; the money of the store stays as it is.
Rests(c, new) ==
    /\ call' = [call EXCEPT ![c] = new]
    /\ UNCHANGED <<lane, sent>>
    /\ StoreKept

\* Such a step is a move of the call.
LEMMA RestsMoves ==
    ASSUME DispatchInv, NEW c \in Calls, NEW new \in CallState, Rests(c, new)
    PROVE  /\ Moves(c) /\ call'[c] = new
           /\ UNCHANGED <<granted, sent, released, counted, damaged>>
<1>1. call \in [Calls -> CallState]
  BY InvFacts
<1>2. call'[c] = new /\ call' \in [Calls -> CallState] /\ \A d \in Calls \ {c} : call'[d] = call[d]
  BY <1>1 DEF Rests
<1> QED  BY <1>2 DEF Rests, StoreKept, Moves

\* A call that goes back to its walk, or ends.
LEMMA ResumedFacts ==
    ASSUME DispatchInv, NEW c \in Calls
    PROVE  /\ Resumed(c) \in CallState /\ [Resumed(c) EXCEPT !.silent = TRUE] \in CallState
           /\ \A new \in {Resumed(c), [Resumed(c) EXCEPT !.silent = TRUE]} :
                 /\ new.started = call[c].started
                 /\ \/ new.pc = "done" /\ new.i = call[c].i
                    \/ new.pc = "next" /\ new.i = call[c].i + 1
                 /\ call[c].silent => new.silent
           /\ [Resumed(c) EXCEPT !.silent = TRUE].silent
<1>1. call[c] \in CallState
  BY InvFacts
<1>2. Resumed(c) \in CallState
  <2>1. PICK g \in CallState : g = call[c]
    BY <1>1
  <2>2. {} \in SUBSET Names /\ g.i + 1 \in Nat
    BY <2>1 DEF CallState
  <2>3. /\ [g EXCEPT !.pc = "done", !.due = {}] \in CallState
        /\ [g EXCEPT !.pc = "next", !.i = @ + 1, !.res = NoRes, !.due = {}] \in CallState
    BY <2>2 DEF CallState
  <2> QED  BY <2>1, <2>3 DEF Resumed
<1>3. /\ Resumed(c).started = call[c].started /\ Resumed(c).silent = call[c].silent
      /\ \/ Resumed(c).pc = "done" /\ Resumed(c).i = call[c].i
         \/ Resumed(c).pc = "next" /\ Resumed(c).i = call[c].i + 1
  BY <1>1 DEF Resumed, CallState
<1> DEFINE f == Resumed(c)
<1> HIDE DEF f
<1>4. [f EXCEPT !.silent = TRUE] \in CallState
  BY <1>2 DEF CallState, f
<1>5. /\ [f EXCEPT !.silent = TRUE].started = f.started
      /\ [f EXCEPT !.silent = TRUE].pc = f.pc
      /\ [f EXCEPT !.silent = TRUE].i = f.i
      /\ [f EXCEPT !.silent = TRUE].silent = TRUE
  BY <1>2 DEF CallState, f
<1> QED  BY <1>2, <1>3, <1>4, <1>5 DEF f

AlertsInv == \A name \in DOMAIN Threshold : AlertOK(name)

\* No threshold is passed in silence as long as the spend of today is what it
\* was, and the call still has to tell what it had to, or has told it.
LEMMA AlertsStay ==
    ASSUME DispatchInv, NEW c \in Calls, now' = now,
           \A d \in Calls \ {c} : call'[d] = call[d],
           \A d \in S!Days : /\ S!Opened(d)'.spent = S!Opened(d).spent
                             /\ S!Opened(d).alerts \subseteq S!Opened(d)'.alerts,
           call[c].silent => call'[c].silent,
           \A name \in DOMAIN Threshold :
               call[c].pc = "measure" \/ (call[c].pc = "mark" /\ name \in call[c].due) => AlertOK(name)'
    PROVE  AlertsInv'
<1>1. PICK t \in S!Days : t = S!Today
  BY InvFacts
<1>2. S!Today' = t
  BY <1>1 DEF S!Today
<1>3. /\ S!Opened(t)'.spent = S!Opened(t).spent
      /\ S!Opened(t).alerts \subseteq S!Opened(t)'.alerts
  OBVIOUS
<1>4. S!Opened(S!Today)' = S!Opened(t)'
  BY <1>2
<1>5. ASSUME NEW name \in DOMAIN Threshold PROVE AlertOK(name)'
  <2>1. AlertOK(name)
    BY DEF DispatchInv
  <2> QED  BY <1>1, <1>3, <1>4, <2>1 DEF AlertOK
<1> QED  BY <1>5 DEF AlertsInv

\* A call that walks its chain, before it has a reservation.
LEMMA WalkStep ==
    ASSUME DispatchInv, NEW c \in Calls,
           Begin(c) \/ Skip(c) \/ Ask(c) \/ Exhausted(c) \/ Refused(c) \/ ReserveRaises(c)
    PROVE  WalkInv' /\ AlertsInv'
<1>0. /\ call[c] \in CallState /\ CallOK(c) /\ call \in [Calls -> CallState] /\ S!TypeOK
      /\ S!Today \in S!Days /\ now \in Nat /\ now \in S!Times /\ "credit" \in Names
  BY InvFacts DEF S!TypeOK
<1>1. call[c].pc \in {"idle", "next", "reserve"}
  BY DEF Begin, Skip, Ask, Exhausted, Refused, ReserveRaises, HasTurn
<1>2. Until(c) \in Nat
  BY <1>0, InvFacts, SpendConstants DEF Until, Overall, CallState, S!Times
<1>3. PICK new \in CallState :
          /\ Rests(c, new)
          /\ new.pc \in {"next", "reserve", "measure", "done"} /\ new.silent = call[c].silent
          /\ new.i = call[c].i \/ (call[c].pc = "next" /\ new.i = call[c].i + 1)
          /\ new.started = call[c].started \/ (call[c].pc = "idle" /\ new.started = now)
          /\ new.pc = "reserve" => /\ new.i = call[c].i /\ new.i \in DOMAIN lane.chain
                                   /\ new.started = call[c].started
                                   /\ new.until = Until(c) /\ new.day = S!Today
  <2> DEFINE g == call[c]
  <2>0. g \in CallState /\ g.i + 1 \in Nat
    BY <1>0 DEF CallState
  <2>1. CASE Begin(c)
    <3> DEFINE new == [g EXCEPT !.pc = "next", !.started = now]
    <3>1. new \in CallState /\ new.pc = "next" /\ new.i = g.i /\ new.started = now
          /\ new.silent = g.silent
      BY <1>0, <2>0 DEF CallState
    <3>2. StoreKept
      BY <1>0, <2>1, KeptByAll DEF Begin
    <3>3. call' = [call EXCEPT ![c] = new]
      BY <1>0, <2>1 DEF Begin
    <3> QED  BY <2>1, <3>1, <3>2, <3>3 DEF Begin, Rests
  <2>2. CASE Skip(c)
    <3> DEFINE new == [g EXCEPT !.i = @ + 1]
    <3>1. new \in CallState /\ new.pc = g.pc /\ new.i = g.i + 1 /\ new.started = g.started
          /\ new.silent = g.silent
      BY <2>0 DEF CallState
    <3>2. StoreKept
      BY <1>0, <2>2, KeptByAll DEF Skip
    <3>3. call' = [call EXCEPT ![c] = new]
      BY <1>0, <2>2 DEF Skip
    <3> QED  BY <2>2, <3>1, <3>2, <3>3 DEF Skip, HasTurn, Rests
  <2>3. CASE Ask(c)
    <3> DEFINE new == [g EXCEPT !.pc = "reserve", !.day = S!Today, !.until = Until(c)]
    <3>1. new \in CallState /\ new.pc = "reserve" /\ new.i = g.i /\ new.started = g.started
          /\ new.silent = g.silent /\ new.until = Until(c) /\ new.day = S!Today
      BY <1>0, <1>2, <2>0 DEF CallState
    <3>2. StoreKept
      BY <1>0, <2>3, KeptByAll DEF Ask
    <3>3. call' = [call EXCEPT ![c] = new]
      BY <1>0, <2>3 DEF Ask
    <3> QED  BY <2>3, <3>1, <3>2, <3>3 DEF Ask, HasTurn, Rests
  <2>4. CASE Exhausted(c) \/ ReserveRaises(c)
    <3> DEFINE new == [g EXCEPT !.pc = "done", !.result = "route_unavailable"]
    <3>1. new \in CallState /\ new.pc = "done" /\ new.i = g.i /\ new.started = g.started
          /\ new.silent = g.silent
      BY <2>0 DEF CallState, Results
    <3>2. StoreKept
      BY <1>0, <2>4, KeptByAll DEF Exhausted, ReserveRaises
    <3>3. call' = [call EXCEPT ![c] = new]
      BY <1>0, <2>4 DEF Exhausted, ReserveRaises, Finish
    <3> QED  BY <2>4, <3>1, <3>2, <3>3 DEF Exhausted, ReserveRaises, Rests
  <2>5. CASE Refused(c)
    <3> DEFINE new == [g EXCEPT !.pc = "measure", !.result = "budget_exhausted"]
    <3>1. new \in CallState /\ new.pc = "measure" /\ new.i = g.i /\ new.started = g.started
          /\ new.silent = g.silent
      BY <2>0 DEF CallState, Results
    <3>2. g.day \in S!Days
      BY <2>0 DEF CallState
    <3>3. StoreKept
      BY <1>0, <2>5, <3>2, KeptByAll DEF Refused
    <3>4. call' = [call EXCEPT ![c] = new]
      BY <1>0, <2>5 DEF Refused
    <3> QED  BY <2>5, <3>1, <3>3, <3>4 DEF Refused, Rests
  <2> QED  BY <2>1, <2>2, <2>3, <2>4, <2>5
<1>4. /\ Moves(c) /\ call'[c] = new
      /\ UNCHANGED <<granted, sent, released, counted, damaged, lane, now>>
  BY <1>3, RestsMoves DEF Moves
<1>5. new.pc = "reserve" => Until(c)' = Until(c)
  BY <1>3, <1>4 DEF Until, IsFirst, Usable, Overall
<1>6. WalkInv'
  <2>1. new.i >= call[c].i
    BY <1>0, <1>3 DEF CallState
  <2>2. /\ call'[c].pc \in {"next", "reserve", "measure", "mark", "done"}
        /\ call'[c].i >= call[c].i
        /\ call'[c].started = call[c].started \/ (call[c].pc = "idle" /\ call'[c].started = now)
    BY <1>3, <1>4, <2>1
  <2>3. call'[c].pc = "reserve" => /\ call'[c].i \in DOMAIN lane.chain
                                   /\ call'[c].until = Until(c)' /\ call'[c].day <= S!Today
    BY <1>0, <1>3, <1>4, <1>5, SpendConstants DEF S!Today, S!Days
  <2> QED  BY <1>1, <1>4, <2>2, <2>3, RestStep
<1>7. AlertsInv'
  BY <1>0, <1>1, <1>3, <1>4, AlertsStay DEF Rests, StoreKept, Moves
<1> QED  BY <1>6, <1>7

\* The spend of today is measured: what is due is told, or nothing is.
LEMMA MeasureStep ==
    ASSUME DispatchInv, NEW c \in Calls, Measure(c)
    PROVE  WalkInv' /\ AlertsInv'
<1>0. /\ call[c] \in CallState /\ CallOK(c) /\ call \in [Calls -> CallState] /\ S!TypeOK
      /\ S!Today \in S!Days /\ call[c].pc = "measure" /\ "credit" \in Names
  BY InvFacts DEF Measure
<1>1. StoreKept
  BY <1>0, KeptByAll DEF Measure
<1>2. PICK new \in CallState :
          /\ Rests(c, new)
          /\ \/ new \in {Resumed(c), [Resumed(c) EXCEPT !.silent = TRUE]}
             \/ new.pc = "mark" /\ new.i = call[c].i /\ new.started = call[c].started
          /\ call[c].silent => new.silent
          /\ \A name \in DueNames(c) : new.pc = "mark" /\ name \in new.due
  <2>1. CASE DueNames(c) = {}
    <3>1. Rests(c, Resumed(c))
      BY <1>1, <2>1 DEF Measure, Rests
    <3> QED  BY <2>1, <3>1, ResumedFacts
  <2>2. CASE DueNames(c) # {}
    <3> DEFINE g == call[c]
               new == [g EXCEPT !.pc = "mark", !.due = DueNames(c)]
    <3>1. DueNames(c) \in SUBSET Names
      BY DispatchAssumption DEF DueNames
    <3>2. g \in CallState
      BY <1>0
    <3>3. /\ new \in CallState /\ new.pc = "mark" /\ new.i = g.i /\ new.started = g.started
          /\ new.silent = g.silent /\ new.due = DueNames(c)
      BY <3>1, <3>2 DEF CallState
    <3>4. Rests(c, new)
      BY <1>1, <2>2 DEF Measure, Rests
    <3> QED  BY <3>3, <3>4
  <2> QED  BY <2>1, <2>2
<1>3. /\ Moves(c) /\ call'[c] = new
      /\ UNCHANGED <<granted, sent, released, counted, damaged, lane, now>>
  BY <1>2, RestsMoves DEF Moves
<1>4. WalkInv'
  <2>1. /\ new.started = call[c].started
        /\ \/ new.pc \in {"mark", "done"} /\ new.i = call[c].i
           \/ new.pc = "next" /\ new.i = call[c].i + 1
    BY <1>2, ResumedFacts
  <2> HIDE <1>1, <1>2
  <2>2. call[c].i \in Nat
    BY <1>0 DEF CallState
  <2> QED  BY <1>0, <1>3, <2>1, <2>2, RestStep
<1>5. ASSUME NEW name \in DOMAIN Threshold PROVE AlertOK(name)'
  <2>1. PICK t \in S!Days : t = S!Today
    BY <1>0
  <2>2. S!Today' = t /\ S!Opened(S!Today)' = S!Opened(t)'
    BY <1>3, <2>1 DEF S!Today
  <2>3. S!Opened(t)'.spent = S!Opened(t).spent /\ S!Opened(t).spent \in Nat
        /\ S!Loaded(t).spent = S!Opened(t).spent
    BY <1>0, <1>1, FileRead DEF StoreKept
  <2>4. Threshold[name] \in Nat
    BY DispatchAssumption
  <2>5. CASE S!Opened(t).spent >= Threshold[name]
    BY <1>2, <1>3, <2>1, <2>3, <2>5 DEF AlertOK, DueNames
  <2>6. CASE S!Opened(t).spent < Threshold[name]
    BY <2>2, <2>3, <2>6 DEF AlertOK
  <2> QED  BY <2>3, <2>4, <2>5, <2>6
<1>6. AlertsInv'
  BY <1>5 DEF AlertsInv
<1> QED  BY <1>4, <1>6

\* A name is marked, or the alerts fail.
LEMMA MarkStep ==
    ASSUME DispatchInv, NEW c \in Calls,
           (\E name \in call[c].due : Mark(c, name)) \/ AlertsFail(c)
    PROVE  WalkInv' /\ AlertsInv'
<1>0. /\ call[c] \in CallState /\ CallOK(c) /\ call \in [Calls -> CallState] /\ S!TypeOK
      /\ S!Today \in S!Days /\ call[c].pc \in {"measure", "mark"} /\ "credit" \in Names
      /\ call[c].due \subseteq Names
  BY InvFacts DEF Mark, AlertsFail, CallState
<1>1. StoreKept
  BY <1>0, KeptByAll DEF Mark, AlertsFail
<1>2. PICK new \in CallState :
          /\ Rests(c, new)
          /\ \/ new \in {Resumed(c), [Resumed(c) EXCEPT !.silent = TRUE]}
             \/ new.pc = "mark" /\ new.i = call[c].i /\ new.started = call[c].started
          /\ call[c].silent => new.silent
          /\ \/ new.silent
             \/ /\ call[c].pc = "mark"
                /\ \A name \in call[c].due : \/ new.pc = "mark" /\ name \in new.due
                                             \/ name \in S!Opened(S!Today)'.alerts
  <2>1. CASE AlertsFail(c)
    <3>1. Rests(c, [Resumed(c) EXCEPT !.silent = TRUE])
      BY <1>1, <2>1 DEF AlertsFail, Rests
    <3> QED  BY <3>1, ResumedFacts
  <2>2. ASSUME NEW name \in call[c].due, Mark(c, name)
        PROVE  \E new \in CallState :
                  /\ Rests(c, new)
                  /\ \/ new \in {Resumed(c), [Resumed(c) EXCEPT !.silent = TRUE]}
                     \/ new.pc = "mark" /\ new.i = call[c].i /\ new.started = call[c].started
                  /\ call[c].silent => new.silent
                  /\ \/ new.silent
                     \/ /\ call[c].pc = "mark"
                        /\ \A n \in call[c].due : \/ new.pc = "mark" /\ n \in new.due
                                                  \/ n \in S!Opened(S!Today)'.alerts
    <3>1. name \in S!Opened(S!Today)'.alerts
      <4>1. CASE S!AlertOnce(name)
        BY <1>0, <4>1, KeptByAll
      <4>2. CASE name \in S!Loaded(S!Today).alerts
        <5>1. PICK t \in S!Days : t = S!Today
          BY <1>0
        <5>2. S!Loaded(t).alerts = S!Opened(t).alerts /\ S!Opened(t).alerts \subseteq S!Opened(t)'.alerts
          BY <1>0, <1>1, FileRead DEF StoreKept
        <5>3. S!Today' = t
          BY <1>1, <5>1 DEF StoreKept, S!Today
        <5> QED  BY <4>2, <5>1, <5>2, <5>3
      <4> QED  BY <2>2, <4>1, <4>2 DEF Mark
    <3>2. CASE call[c].due = {name}
      <4>1. Rests(c, Resumed(c))
        BY <1>1, <2>2, <3>2 DEF Mark, Rests
      <4> QED  BY <2>2, <3>1, <3>2, <4>1, ResumedFacts DEF Mark
    <3>3. CASE call[c].due # {name}
      <4> DEFINE g == call[c]
                 new == [g EXCEPT !.due = g.due \ {name}]
      <4>1. g.due \ {name} \in SUBSET Names /\ g \in CallState
        BY <1>0
      <4>2. /\ new \in CallState /\ new.pc = g.pc /\ new.i = g.i /\ new.started = g.started
            /\ new.silent = g.silent /\ new.due = g.due \ {name}
        BY <4>1 DEF CallState
      <4>3. Rests(c, new)
        BY <1>1, <2>2, <3>3 DEF Mark, Rests
      <4> QED  BY <2>2, <3>1, <4>2, <4>3 DEF Mark
    <3> QED  BY <3>2, <3>3
  <2> QED  BY <2>1, <2>2
<1>3. /\ Moves(c) /\ call'[c] = new
      /\ UNCHANGED <<granted, sent, released, counted, damaged, lane, now>>
  BY <1>2, RestsMoves DEF Moves
<1>4. WalkInv'
  <2>1. /\ new.started = call[c].started
        /\ \/ new.pc \in {"mark", "done"} /\ new.i = call[c].i
           \/ new.pc = "next" /\ new.i = call[c].i + 1
    BY <1>2, ResumedFacts
  <2>2. call[c].i \in Nat
    BY <1>0 DEF CallState
  <2> QED  BY <1>0, <1>3, <2>1, <2>2, RestStep
<1>5. ASSUME NEW name \in DOMAIN Threshold,
             call[c].pc = "measure" \/ (call[c].pc = "mark" /\ name \in call[c].due)
      PROVE  AlertOK(name)'
  <2>1. new.silent \/ (new.pc = "mark" /\ name \in new.due) \/ name \in S!Opened(S!Today)'.alerts
    BY <1>2, <1>5
  <2>2. S!Opened(S!Today)' = (S!Opened(S!Today))'
    OBVIOUS
  <2> QED  BY <1>3, <2>1 DEF AlertOK
<1>6. AlertsInv'
  BY <1>1, <1>2, <1>3, <1>5, AlertsStay DEF StoreKept, Moves
<1> QED  BY <1>4, <1>6

\* A grant takes nothing from what was spent or told.
LEMMA GrantEffect ==
    ASSUME S!TypeOK, NEW d \in S!Days, NEW r \in S!Reservation,
           S!Save(d, [S!Loaded(d) EXCEPT !.open = S!Loaded(d).open \cup {r}])
    PROVE  \A e \in S!Days : /\ S!Opened(e)'.spent = S!Opened(e).spent
                             /\ S!Opened(e).alerts \subseteq S!Opened(e)'.alerts
<1>1. PICK f : f = [S!Loaded(d) EXCEPT !.open = S!Loaded(d).open \cup {r}]
  OBVIOUS
<1>2. f \in S!File /\ f.alerts = S!Loaded(d).alerts /\ f.spent = S!Loaded(d).spent
  <2>1. S!Loaded(d) \in S!File
    BY FileRead
  <2>2. S!Loaded(d).open \cup {r} \in SUBSET S!Reservation
    BY <2>1 DEF S!File
  <2> QED  BY <1>1, <2>1, <2>2 DEF S!File
<1>3. /\ S!Opened(d)' = f
      /\ \A e \in S!Days \ {d} : S!Opened(e)' = S!Opened(e)
  BY <1>1, <1>2, FileWritten
<1> QED  BY <1>2, <1>3, FileRead

\* The call has its reservation.
LEMMA GrantStep ==
    ASSUME DispatchInv, NEW c \in Calls, Granted(c)
    PROVE  WalkInv' /\ AlertsInv'
<1>0. /\ call[c] \in CallState /\ CallOK(c) /\ call \in [Calls -> CallState] /\ S!TypeOK
      /\ call[c].pc = "reserve" /\ call[c].i \in DOMAIN lane.chain
      /\ call[c].day \in S!Days /\ call[c].day <= S!Today /\ now \in S!Times
      /\ <<c, call[c].i>> \in Ids /\ lane.chain[call[c].i].usd \in 1 .. MaxCost
  BY InvFacts DEF Granted, CallOK, CallState, S!TypeOK
<1>1. PICK r : r = [id |-> <<c, call[c].i>>, usd |-> lane.chain[call[c].i].usd, ts |-> now,
                    day |-> call[c].day]
  OBVIOUS
<1>2. r \in S!Reservation /\ r.id = <<c, call[c].i>> /\ r.day = call[c].day
  BY <1>0, <1>1 DEF S!Reservation
<1>3. /\ \A q \in granted : q.id # r.id
      /\ S!Save(r.day, [S!Loaded(r.day) EXCEPT !.open = S!Loaded(r.day).open \cup {r}])
      /\ granted' = granted \cup {r}
      /\ UNCHANGED <<now, counted, released, lane, sent>>
  BY <1>1, <1>2 DEF Granted, S!Reserve
<1>4. PICK new \in CallState :
          /\ call' = [call EXCEPT ![c] = new]
          /\ new.pc = "send" /\ new.res = r /\ new.i = call[c].i /\ new.started = call[c].started
          /\ new.until = call[c].until /\ new.silent = call[c].silent
  <2> DEFINE g == call[c]
             new == [g EXCEPT !.pc = "send", !.res = r]
  <2>1. g \in CallState
    BY <1>0
  <2>2. /\ new \in CallState /\ new.pc = "send" /\ new.res = r /\ new.i = g.i
        /\ new.started = g.started /\ new.until = g.until /\ new.silent = g.silent
    BY <1>2, <2>1 DEF CallState
  <2>3. call' = [call EXCEPT ![c] = new]
    BY <1>0, <1>1 DEF Granted
  <2> QED  BY <2>2, <2>3
<1>5. call'[c] = new /\ call' \in [Calls -> CallState] /\ \A d \in Calls \ {c} : call'[d] = call[d]
  BY <1>0, <1>4
<1>6. Moves(c)
  BY <1>0, <1>2, <1>3, <1>5 DEF Moves
<1>7. WalkInv'
  BY <1>0, <1>2, <1>3, <1>4, <1>5, <1>6, GrantedStep
<1>8. AlertsInv'
  <2>1. \A e \in S!Days : /\ S!Opened(e)'.spent = S!Opened(e).spent
                          /\ S!Opened(e).alerts \subseteq S!Opened(e)'.alerts
    BY <1>0, <1>2, <1>3, GrantEffect
  <2> QED  BY <1>0, <1>3, <1>4, <1>5, <2>1, AlertsStay
<1> QED  BY <1>7, <1>8

\* The request goes out, and something comes back.
LEMMA TripStep ==
    ASSUME DispatchInv, NEW c \in Calls,
           \/ \E bill \in 0 .. MaxActual : Send(c, bill)
           \/ NotSent(c)
           \/ \E kind \in Kinds : Answered(c, kind)
    PROVE  WalkInv' /\ AlertsInv'
<1>1. /\ call \in [Calls -> CallState] /\ S!TypeOK /\ UNCHANGED store
      /\ S!Today \in S!Days /\ "credit" \in Names /\ call[c].pc \in {"send", "wait"}
  BY InvFacts DEF Send, NotSent, Answered
<1>2. WalkInv' /\ Moves(c)
  <2>1. CASE NotSent(c)
    BY <2>1, ComesStep DEF NotSent, Kinds
  <2>2. ASSUME NEW kind \in Kinds, Answered(c, kind) PROVE WalkInv' /\ Moves(c)
    BY <2>2, ComesStep DEF Answered
  <2> QED  BY <2>1, <2>2, SendStep
<1>3. call'[c].silent = call[c].silent
  <2>1. \/ call' = [call EXCEPT ![c].pc = "wait"]
        \/ \E kind \in Kinds : call' = [call EXCEPT ![c].pc = "end", ![c].kind = kind]
    BY DEF Send, NotSent, Answered, Comes, Kinds
  <2> QED  BY <1>1, <2>1 DEF CallState
<1>4. StoreKept
  BY <1>1, KeptByAll
<1>5. AlertsInv'
  BY <1>1, <1>2, <1>3, <1>4, AlertsStay DEF StoreKept, Moves
<1> QED  BY <1>2, <1>5

\* What the end of a reservation does to the store.
LEMMA EndStore ==
    ASSUME DispatchInv, NEW c \in Calls, call[c].pc = "end", EndsWith(c),
           NEW g, g = call[c].res
    PROVE  /\ UNCHANGED <<now, granted, damaged>> /\ AlertsKept
           /\ counted \subseteq counted' /\ \A x \in counted' \ counted : x.res = g
           /\ released \subseteq released' /\ released' \ released \subseteq {g}
           /\ Over(g)'
           /\ \A s \in sent : s.call = c /\ s.i = call[c].i =>
                  /\ s.res \in released' \ released => s.bill = 0
                  /\ \A x \in counted' \ counted : x.actual >= s.bill \/ x.actual >= s.res.usd
           /\ \/ call[c].kind \in {"success", "mismatch", "ambiguous", "malformed"}
              \/ \A d \in S!Days : S!Opened(d)'.spent = S!Opened(d).spent
<1>0. /\ S!TypeOK /\ Q!HoldInv /\ damaged = {} /\ CallOK(c) /\ call[c] \in CallState
      /\ g \in granted /\ g \in S!Reservation /\ g.day \in S!Days /\ g.usd \in Nat
      /\ S!Today \in S!Days /\ "credit" \in Names /\ g.id = <<c, call[c].i>>
  BY InvFacts, SpendConstants DEF CallOK, S!Reservation
<1>1. ASSUME NEW s \in sent, s.call = c, s.i = call[c].i
      PROVE  /\ s.res = g /\ s.bill \in Nat /\ call[c].kind # "pre_dispatch"
             /\ call[c].kind = "credit" => s.bill = 0
             /\ Bill(c) = s.bill
  <2>1. SentOK(s) /\ s.call \in Calls /\ OneOfEach
    BY InvFacts
  <2>2. \A t \in sent : t.call = c /\ t.i = call[c].i => t = s
    BY <1>1, <2>1 DEF OneOfEach
  <2>3. s.res \in granted /\ s.res.id = g.id
    BY <1>0, <1>1, <2>1 DEF SentOK
  <2> QED  BY <1>0, <1>1, <2>1, <2>2, <2>3, SpendConstants DEF SentOK, OneOfEach, Bill
<1> DEFINE Effect ==
        /\ UNCHANGED <<now, granted, damaged>> /\ AlertsKept
        /\ counted \subseteq counted' /\ \A x \in counted' \ counted : x.res = g
        /\ released \subseteq released' /\ released' \ released \subseteq {g}
        /\ Over(g)'
        /\ \A s \in sent : s.call = c /\ s.i = call[c].i =>
               /\ s.res \in released' \ released => s.bill = 0
               /\ \A x \in counted' \ counted : x.actual >= s.bill \/ x.actual >= s.res.usd
        /\ \/ call[c].kind \in {"success", "mismatch", "ambiguous", "malformed"}
           \/ \A d \in S!Days : S!Opened(d)'.spent = S!Opened(d).spent
<1>2. ASSUME NEW n \in Nat, S!Count(g, n),
             \A s \in sent : s.call = c /\ s.i = call[c].i => n >= s.bill \/ n >= s.res.usd,
             call[c].kind \in {"success", "mismatch", "ambiguous", "malformed"}
      PROVE  Effect
  <2> DEFINE x == [res |-> g, actual |-> n]
  <2>1. /\ UNCHANGED <<now, granted, released, damaged>>
        /\ counted' = counted \cup {x} /\ AlertsKept
    BY <1>0, <1>2, CountEffect
  <2>2. x.res = g /\ x.actual = n
    OBVIOUS
  <2> HIDE DEF x
  <2>3. Over(g)'
    BY <2>1, <2>2 DEF Over
  <2> QED  BY <1>2, <2>1, <2>2, <2>3
<1>3. ASSUME S!Gone(g) PROVE Effect
  <2>1. StoreKept /\ Over(g)
    BY <1>0, <1>3, GoneEffect
  <2>2. released' = released /\ counted' = counted /\ now' = now
    BY <2>1 DEF StoreKept
  <2>3. Over(g)'
    BY <2>1, <2>2 DEF Over, S!Expired
  <2> QED  BY <2>1, <2>2, <2>3 DEF StoreKept, AlertsKept
<1>4. CASE call[c].kind \in {"success", "mismatch"}
  <2>1. S!Settle(g, Bill(c))
    BY <1>4 DEF EndsWith
  <2>2. PICK s \in sent : s.call = c /\ s.i = call[c].i
    BY <1>0, <1>4 DEF CallOK
  <2>3. Bill(c) \in Nat /\ Bill(c) = s.bill
    BY <1>1, <2>2
  <2>4. \A t \in sent : t.call = c /\ t.i = call[c].i => Bill(c) >= t.bill
    BY <1>1, <2>3
  <2> QED  BY <1>2, <1>3, <1>4, <2>1, <2>3, <2>4 DEF S!Settle
<1>5. CASE call[c].kind \in {"ambiguous", "malformed"}
  <2>1. S!SettleUnknown(g)
    BY <1>5 DEF EndsWith
  <2>2. \A s \in sent : s.call = c /\ s.i = call[c].i => g.usd >= s.res.usd
    BY <1>0, <1>1
  <2> QED  BY <1>0, <1>2, <1>3, <1>5, <2>1, <2>2 DEF S!SettleUnknown
<1>6. CASE call[c].kind \in {"pre_dispatch", "credit"}
  <2>1. S!Release(g)
    BY <1>6 DEF EndsWith
  <2>2. \A s \in sent : s.call = c /\ s.i = call[c].i => s.bill = 0
    BY <1>1, <1>6
  <2>3. ASSUME S!Save(g.day, [S!Loaded(g.day) EXCEPT !.open = S!Loaded(g.day).open \ {g}]),
               released' = released \cup {g}, UNCHANGED <<now, granted, counted, damaged>>
        PROVE  Effect
    <3>1. AlertsKept /\ \A d \in S!Days : S!Opened(d)'.spent = S!Opened(d).spent
      BY <1>0, <2>3, FreeEffect
    <3>2. Over(g)'
      BY <2>3 DEF Over
    <3> QED  BY <2>2, <2>3, <3>1, <3>2
  <2> QED  BY <1>3, <2>1, <2>3 DEF S!Release
<1>7. call[c].kind \in {"success", "mismatch", "ambiguous", "malformed", "pre_dispatch", "credit"}
  BY <1>0 DEF CallOK, CallState, Kinds
<1> QED  BY <1>4, <1>5, <1>6, <1>7

\* The attempt ends.
LEMMA FinalStep ==
    ASSUME DispatchInv, NEW c \in Calls, End(c) \/ EndRaises(c)
    PROVE  WalkInv' /\ AlertsInv'
<1>0. /\ call[c] \in CallState /\ CallOK(c) /\ call \in [Calls -> CallState] /\ S!TypeOK
      /\ call[c].pc = "end" /\ call[c].res.id = <<c, call[c].i>> /\ "credit" \in Names
      /\ S!Today \in S!Days /\ UNCHANGED <<lane, sent>>
  BY InvFacts DEF End, EndRaises, CallOK
<1>1. CASE End(c)
  <2>1. PICK g : g = call[c].res
    OBVIOUS
  <2>2. PICK new \in CallState :
            /\ call' = [call EXCEPT ![c] = new]
            /\ new.pc \in {"measure", "mark", "done"} /\ new.i = call[c].i
            /\ new.started = call[c].started /\ (call[c].silent => new.silent)
            /\ call[c].kind \in {"success", "mismatch", "ambiguous", "malformed"} =>
                  new.pc = "measure" \/ new.silent
    <3> DEFINE f == call[c]
    <3>0. f \in CallState /\ {"credit"} \in SUBSET Names
      BY <1>0
    <3>1. CASE f.kind \in {"success", "mismatch"}
      <4> DEFINE new == [f EXCEPT !.pc = "measure", !.result = f.kind]
      <4>1. /\ new \in CallState /\ new.pc = "measure" /\ new.i = f.i /\ new.started = f.started
            /\ new.silent = f.silent
        BY <3>0, <3>1 DEF CallState, Results
      <4>2. call' = [call EXCEPT ![c] = new]
        BY <1>0, <1>1, <3>1 DEF End, GoesOn
      <4> QED  BY <4>1, <4>2
    <3>2. CASE f.kind = "malformed"
      <4> DEFINE new == [f EXCEPT !.pc = "done", !.silent = TRUE, !.result = "malformed"]
      <4>1. /\ new \in CallState /\ new.pc = "done" /\ new.i = f.i /\ new.started = f.started
            /\ new.silent
        BY <3>0, <3>2 DEF CallState, Results
      <4>2. call' = [call EXCEPT ![c] = new]
        BY <1>0, <1>1, <3>2 DEF End, GoesOn
      <4> QED  BY <4>1, <4>2
    <3>3. CASE f.kind = "credit"
      <4> DEFINE new == [f EXCEPT !.pc = "mark", !.due = {"credit"}, !.result = "route_unavailable"]
      <4>1. /\ new \in CallState /\ new.pc = "mark" /\ new.i = f.i /\ new.started = f.started
            /\ new.silent = f.silent
        BY <3>0, <3>3 DEF CallState, Results
      <4>2. call' = [call EXCEPT ![c] = new]
        BY <1>0, <1>1, <3>3 DEF End, GoesOn
      <4> QED  BY <3>3, <4>1, <4>2
    <3>4. CASE f.kind \notin {"success", "mismatch", "malformed", "credit"}
      <4> DEFINE new == [f EXCEPT !.pc = "measure"]
      <4>1. /\ new \in CallState /\ new.pc = "measure" /\ new.i = f.i /\ new.started = f.started
            /\ new.silent = f.silent
        BY <3>0 DEF CallState
      <4>2. call' = [call EXCEPT ![c] = new]
        BY <1>0, <1>1, <3>4 DEF End, GoesOn
      <4> QED  BY <4>1, <4>2
    <3> QED  BY <3>1, <3>2, <3>3, <3>4
  <2>3. call'[c] = new /\ call' \in [Calls -> CallState] /\ \A d \in Calls \ {c} : call'[d] = call[d]
    BY <1>0, <2>2
  <2>4. EndsWith(c)
    BY <1>1 DEF End
  <2>5. Moves(c)
    BY <1>0, <2>1, <2>3, <2>4, EndStore DEF Moves
  <2>6. WalkInv'
    <3>1. call'[c].pc \in {"measure", "mark", "done"} /\ call'[c].i = call[c].i
          /\ call'[c].started = call[c].started
      BY <2>2, <2>3
    <3>2. /\ UNCHANGED <<granted, sent>> /\ Over(g)'
          /\ \A s \in sent : s.call = c /\ s.i = call[c].i =>
                 /\ s.res \in released' \ released => s.bill = 0
                 /\ \A x \in counted' \ counted : x.actual >= s.bill \/ x.actual >= s.res.usd
      BY <1>0, <2>1, <2>4, EndStore
    <3> QED  BY <1>0, <2>1, <2>5, <3>1, <3>2, EndStep
  <2>7. AlertsInv'
    <3>1. CASE new.pc = "measure" \/ new.silent
      BY <2>3, <3>1 DEF AlertsInv, AlertOK
    <3>2. CASE ~(new.pc = "measure" \/ new.silent)
      <4>1. /\ \A d \in S!Days : /\ S!Opened(d)'.spent = S!Opened(d).spent
                                 /\ S!Opened(d).alerts \subseteq S!Opened(d)'.alerts
            /\ now' = now
        BY <1>0, <2>1, <2>2, <2>4, <3>2, EndStore DEF AlertsKept
      <4> QED  BY <1>0, <2>2, <2>3, <4>1, AlertsStay
    <3> QED  BY <3>1, <3>2
  <2> QED  BY <2>6, <2>7
<1>2. CASE EndRaises(c)
  <2>1. PICK g : g = call[c].res
    OBVIOUS
  <2>2. UNCHANGED store /\ StoreKept
    BY <1>0, <1>2, KeptByAll DEF EndRaises
  <2>3. /\ call' \in [Calls -> CallState] /\ \A d \in Calls \ {c} : call'[d] = call[d]
        /\ call'[c].pc = "done" /\ call'[c].result = "raised" /\ call'[c].i = call[c].i
        /\ call'[c].started = call[c].started /\ call'[c].silent = call[c].silent
    BY <1>0, <1>2 DEF EndRaises, Finish, CallState, Results
  <2>4. Moves(c)
    BY <1>0, <2>2, <2>3 DEF Moves, store
  <2>5. WalkInv'
    BY <1>0, <2>1, <2>2, <2>3, <2>4, EndStep DEF store
  <2>6. AlertsInv'
    BY <1>0, <2>2, <2>3, AlertsStay DEF StoreKept
  <2> QED  BY <2>5, <2>6
<1> QED  BY <1>0, <1>1, <1>2 DEF End, EndRaises

\* On a day that has not come nothing was spent.
LEMMA NothingSpentAhead ==
    ASSUME DispatchInv, NEW d \in S!Days, d > S!Today
    PROVE  S!Opened(d).spent = 0
<1>1. Q!SumInv /\ Q!HoldInv /\ damaged = {} /\ granted \subseteq S!Reservation /\ S!Today \in S!Days
  BY InvFacts DEF Q!ClaimInv
<1>2. ASSUME NEW x \in counted PROVE x.res.day # d
  <2>1. x.res \in granted
    BY <1>1 DEF Q!HoldInv, Q!EndedOnce, Q!Ended
  <2>2. GrantOK(x.res)
    BY <2>1, InvFacts
  <2>3. x.res.day <= S!Today
    BY <2>2 DEF GrantOK
  <2>4. S!Days \subseteq Nat
    BY SpendConstants DEF S!Days
  <2> QED  BY <1>1, <2>3, <2>4
<1>3. Q!Charged(d) = {}
  BY <1>2 DEF Q!Charged
<1>4. Q!Opened(d).spent = Q!Cardinality({})
  BY <1>1, <1>3, SameStore DEF Q!SumInv
<1>5. Q!Cardinality({}) = Cardinality({})
  BY DEF Q!Cardinality, Cardinality
<1> QED  BY <1>4, <1>5, FS_EmptySet, SameStore

\* Time passes, perhaps to another day.
LEMMA TickStep ==
    ASSUME DispatchInv, S!Tick, UNCHANGED <<lane, call, sent>>
    PROVE  WalkInv' /\ AlertsInv'
<1>0. /\ now \in S!Times /\ now' \in S!Times /\ now' = now + 1 /\ now \in Nat
      /\ UNCHANGED <<disk, granted, counted, released, damaged, lane, call, sent>>
      /\ granted \subseteq S!Reservation /\ TTL \in Nat
      /\ \A r \in S!Reservation : r.ts \in Nat
      /\ Types /\ OneOfEach
  BY InvFacts, SpendConstants DEF S!Tick, S!TypeOK, S!Times, S!Reservation, DispatchInv
<1>1. /\ S!Today \in Nat /\ S!Today' \in Nat /\ S!Today <= S!Today'
      /\ S!Today \in S!Days /\ S!Today' \in S!Days /\ S!Days \subseteq Nat
  BY <1>0, SpendConstants DEF S!Today, S!Days
<1>2. ASSUME NEW r \in granted, Over(r) PROVE Over(r)'
  BY <1>0, <1>2 DEF Over, S!Expired
<1>3. ASSUME NEW c \in Calls PROVE CallOK(c)'
  <2>1. CallOK(c) /\ call[c] \in CallState
    BY InvFacts
  <2>2. Until(c)' = Until(c)
    BY <1>0 DEF Until, IsFirst, Usable, Overall
  <2>3. call[c].started \in Nat /\ call[c].day \in Nat
    <3>1. call[c].started \in S!Times /\ call[c].day \in S!Days
      BY <2>1 DEF CallState
    <3>2. S!Times \subseteq Nat
      BY DEF S!Times
    <3> QED  BY <1>1, <3>1, <3>2
  <2> QED  BY <1>0, <1>1, <2>1, <2>2, <2>3 DEF CallOK
<1>4. ASSUME NEW r \in granted PROVE GrantOK(r)'
  <2>1. GrantOK(r) /\ r.day \in Nat
    BY <1>0, <1>1, InvFacts DEF S!Reservation
  <2> QED  BY <1>0, <1>1, <1>2, <2>1 DEF GrantOK
<1>5. ASSUME NEW s \in sent PROVE SentOK(s)'
  <2>1. SentOK(s)
    BY InvFacts
  <2> QED  BY <1>0, <2>1 DEF SentOK, Usable
<1>6. OneOfEach' /\ Types'
  BY <1>0 DEF OneOfEach, Types, CallState, Request
<1>7. ASSUME NEW name \in DOMAIN Threshold PROVE AlertOK(name)'
  <2>1. AlertOK(name) /\ Threshold[name] \in Nat \ {0}
    BY DispatchAssumption DEF DispatchInv
  <2>2. PICK t \in S!Days : t = S!Today'
    BY <1>1
  <2>3. S!Opened(t)' = S!Opened(t) /\ (S!Opened(S!Today))' = S!Opened(t)'
    BY <1>0, <2>2 DEF S!Opened
  <2>4. CASE t = S!Today
    BY <1>0, <2>1, <2>3, <2>4 DEF AlertOK
  <2>5. CASE t # S!Today
    <3>1. t > S!Today
      BY <1>1, <2>2, <2>5
    <3>2. S!Opened(t).spent = 0
      BY <3>1, NothingSpentAhead
    <3> QED  BY <2>1, <2>3, <3>2 DEF AlertOK
  <2> QED  BY <2>4, <2>5
<1> QED  BY <1>0, <1>3, <1>4, <1>5, <1>6, <1>7 DEF WalkInv, AlertsInv

\* Whatever a call does to the store is an operation of AppSpend.
LEMMA StoreStep ==
    ASSUME DispatchInv, [Next]_vars
    PROVE  Q!ClaimInv' /\ damaged' = {}
<1>0. /\ Q!ClaimInv /\ damaged = {} /\ S!Today \in S!Days /\ "credit" \in Names
      /\ Q!Today = S!Today /\ Q!Days = S!Days
  BY InvFacts, SameStore DEF Q!Today, S!Today
<1>1. [Q!Next]_(Q!vars) /\ damaged' = {}
  <2>1. ASSUME UNCHANGED store PROVE [Q!Next]_(Q!vars) /\ damaged' = {}
    BY <1>0, <2>1 DEF store, Q!vars
  <2>2. ASSUME NEW d \in S!Days, d <= S!Today, S!Touch(d)
        PROVE  [Q!Next]_(Q!vars) /\ damaged' = {}
    <3>1. Q!Touch(d)
      BY <2>2, SameOperations
    <3>2. damaged' = damaged
      BY <2>2 DEF S!Touch
    <3> QED  BY <1>0, <2>2, <3>1, <3>2 DEF Q!Next
  <2>3. S!Today <= S!Today
    BY <1>0, SpendConstants DEF S!Days
  <2>4. ASSUME NEW c \in Calls, Begin(c) \/ Step(c) PROVE [Q!Next]_(Q!vars) /\ damaged' = {}
    <3>0. CallOK(c) /\ call[c] \in CallState /\ granted \subseteq S!Reservation
      BY InvFacts
    <3>1. CASE \/ Begin(c) \/ Skip(c) \/ Ask(c) \/ Exhausted(c) \/ ReserveRaises(c) \/ NotSent(c)
               \/ EndRaises(c) \/ AlertsFail(c)
               \/ (\E bill \in 0 .. MaxActual : Send(c, bill))
               \/ (\E kind \in Kinds : Answered(c, kind))
      BY <2>1, <3>1 DEF Begin, Skip, Ask, Exhausted, ReserveRaises, NotSent, EndRaises, AlertsFail,
                        Send, Answered
    <3>2. CASE Granted(c)
      <4>1. /\ <<c, call[c].i>> \in Ids /\ lane.chain[call[c].i].usd \in 1 .. MaxCost
            /\ call[c].day \in S!Days
            /\ S!Reserve(<<c, call[c].i>>, lane.chain[call[c].i].usd, call[c].day)
        BY <3>0, <3>2, InvFacts DEF Granted, CallOK, CallState
      <4>2. Q!Reserve(<<c, call[c].i>>, lane.chain[call[c].i].usd, call[c].day)
        BY <4>1, SameOperations
      <4>3. damaged' = damaged
        BY <4>1 DEF S!Reserve
      <4> QED  BY <1>0, <4>1, <4>2, <4>3 DEF Q!Next
    <3>3. CASE Refused(c)
      BY <2>2, <3>0, <3>3 DEF Refused, CallOK, CallState
    <3>4. CASE End(c)
      <4>1. PICK r \in granted : r = call[c].res
        BY <3>0, <3>4 DEF End, CallOK
      <4>2. call[c].kind \in {"success", "mismatch"} => Bill(c) \in 0 .. MaxActual
        <5>1. ASSUME call[c].kind \in {"success", "mismatch"} PROVE Bill(c) \in 0 .. MaxActual
          <6>1. PICK s \in sent : s.call = c /\ s.i = call[c].i
            BY <3>0, <3>4, <5>1 DEF CallOK, End
          <6>2. \A t \in sent : t.call = c /\ t.i = call[c].i => t = s
            BY <6>1, InvFacts DEF OneOfEach
          <6>3. Bill(c) = s.bill
            BY <6>1, <6>2 DEF Bill
          <6> QED  BY <6>3, InvFacts DEF SentOK
        <5> QED  BY <5>1
      <4>3. \/ \E actual \in 0 .. MaxActual : S!Settle(r, actual)
            \/ S!SettleUnknown(r)
            \/ S!Release(r)
        <5>1. call[c].kind \in {"success", "mismatch", "ambiguous", "malformed", "pre_dispatch",
                                "credit"}
          BY <3>0, <3>4 DEF CallOK, CallState, Kinds, End
        <5> QED  BY <3>4, <4>1, <4>2, <5>1 DEF End, EndsWith
      <4>4. damaged' = damaged
        BY <4>3 DEF S!Settle, S!SettleUnknown, S!Release, S!Count, S!Gone, S!Touch
      <4>5. \/ \E actual \in 0 .. MaxActual : Q!Settle(r, actual)
            \/ Q!SettleUnknown(r)
            \/ Q!Release(r)
        BY <4>3, SameOperations
      <4> QED  BY <1>0, <4>4, <4>5 DEF Q!Next
    <3>5. CASE Measure(c)
      BY <1>0, <2>2, <2>3, <3>5 DEF Measure
    <3>6. ASSUME NEW name \in call[c].due, Mark(c, name)
          PROVE  [Q!Next]_(Q!vars) /\ damaged' = {}
      <4>1. name \in Names
        BY <3>0 DEF CallState
      <4>2. CASE S!AlertOnce(name)
        <5>1. Q!AlertOnce(name)
          BY <4>2, SameOperations
        <5>2. damaged' = damaged
          BY <4>2 DEF S!AlertOnce
        <5> QED  BY <1>0, <4>1, <5>1, <5>2 DEF Q!Next
      <4>3. CASE S!Touch(S!Today)
        BY <1>0, <2>2, <2>3, <4>3
      <4> QED  BY <3>6, <4>2, <4>3 DEF Mark
    <3> QED  BY <2>4, <3>1, <3>2, <3>3, <3>4, <3>5, <3>6 DEF Step
  <2>5. CASE S!Tick
    <3>1. Q!Tick
      BY <2>5, SameOperations
    <3>2. damaged' = damaged
      BY <2>5 DEF S!Tick
    <3> QED  BY <1>0, <3>1, <3>2 DEF Q!Next
  <2>6. CASE UNCHANGED vars
    BY <2>1, <2>6 DEF vars, store
  <2> QED  BY <2>4, <2>5, <2>6 DEF Next
<1>2. Q!ClaimInv'
  BY <1>0, <1>1, SpendConstants, SameStore, Q!ClaimStep
<1> QED  BY <1>1, <1>2

\* Every step keeps the invariant.
LEMMA DispatchStep ==
    ASSUME DispatchInv, [Next]_vars
    PROVE  DispatchInv'
<1>1. Q!ClaimInv' /\ damaged' = {}
  BY StoreStep
<1>2. WalkInv' /\ AlertsInv'
  <2>1. ASSUME NEW c \in Calls, Begin(c) \/ Step(c) PROVE WalkInv' /\ AlertsInv'
    BY <2>1, WalkStep, GrantStep, TripStep, FinalStep, MeasureStep, MarkStep DEF Step
  <2>2. CASE UNCHANGED vars
    <3>1. UNCHANGED <<disk, now, granted, counted, released, damaged, lane, call, sent>>
      BY <2>2 DEF vars
    <3>2. \A r : Over(r)' <=> Over(r)
      BY <3>1 DEF Over, S!Expired
    <3>3. S!Today' = S!Today /\ Usable' = Usable
      BY <3>1 DEF S!Today, Usable
    <3>4. \A c \in Calls : CallOK(c)'
      <4>1. \A c : Until(c)' = Until(c)
        BY <3>1 DEF Until, IsFirst, Usable, Overall
      <4> QED  BY <3>1, <3>3, <4>1 DEF CallOK, DispatchInv
    <3>5. \A r \in granted' : GrantOK(r)'
      BY <3>1, <3>2, <3>3 DEF GrantOK, DispatchInv
    <3>6. \A s \in sent' : SentOK(s)'
      BY <3>1, <3>3 DEF SentOK, DispatchInv
    <3>7. Types' /\ OneOfEach'
      BY <3>1 DEF Types, OneOfEach, CallState, Request, DispatchInv
    <3>8. S!Opened(S!Today)' = S!Opened(S!Today)
      BY <3>1, <3>3 DEF S!Opened
    <3>9. AlertsInv'
      BY <3>1, <3>8 DEF AlertsInv, AlertOK, DispatchInv
    <3> QED  BY <3>4, <3>5, <3>6, <3>7, <3>9 DEF WalkInv
  <2> QED  BY <2>1, <2>2, TickStep DEF Next
<1> QED  BY <1>1, <1>2 DEF DispatchInv, WalkInv, AlertsInv

\* At the start no call has begun.
LEMMA DispatchInit ==
    ASSUME Init
    PROVE  DispatchInv
<1>1. Q!Init
  BY DEF Init, S!Init, Q!Init, S!Missing, Q!Missing, S!Days, Q!Days, S!Times, Q!Times
<1>2. Q!ClaimInv
  BY <1>1, SpendConstants, SameStore, Q!ClaimInit
<1>3. /\ now = 0 /\ granted = {} /\ counted = {} /\ released = {} /\ damaged = {} /\ sent = {}
      /\ lane \in Lanes
  BY DEF Init, S!Init
<1>4. 0 \in S!Times /\ DayOf[0] \in S!Days
  BY SpendConstants DEF S!Times, S!Days
<1>5. call \in [Calls -> CallState]
      /\ \A c \in Calls : call[c].pc = "idle" /\ call[c].i = 1 /\ call[c].started = 0
  BY <1>4 DEF Init, CallState, Kinds, Results
<1>6. \A c \in Calls : CallOK(c)
  BY <1>3, <1>5 DEF CallOK
<1>7. ASSUME NEW name \in DOMAIN Threshold PROVE AlertOK(name)
  <2>1. S!Today \in S!Days /\ disk[S!Today] = S!Missing
    BY <1>3, <1>4 DEF Init, S!Init, S!Today
  <2>2. S!Opened(S!Today).spent = 0
    BY <2>1 DEF S!Opened, S!Missing, S!EmptyFile
  <2> QED  BY <2>2, DispatchAssumption DEF AlertOK
<1> QED  BY <1>2, <1>3, <1>5, <1>6, <1>7 DEF DispatchInv, Types, OneOfEach, Request

\* The invariant holds of every behaviour.
THEOREM DispatchInvAlways == Spec => []DispatchInv
<1>1. Init => DispatchInv
  BY DispatchInit
<1>2. DispatchInv /\ [Next]_vars => DispatchInv'
  BY DispatchStep
<1> QED  BY <1>1, <1>2, PTL DEF Spec

-----------------------------------------------------------------------------
(* What the invariant is for.                                              *)

\* Money a provider took is still held, or was counted, unless its reservation
\* outlived its TTL: however calls interleave, and whichever of them are killed.
THEOREM BillsHeld == Spec => []EveryBillIsHeld
<1>1. ASSUME DispatchInv PROVE EveryBillIsHeld
  <2>1. ASSUME NEW s \in sent, s.bill > 0, ~S!Expired(s.res), s.res \notin S!Opened(s.res.day).open
        PROVE  \E x \in counted : x.res = s.res /\ (x.actual >= s.bill \/ x.actual >= s.res.usd)
    <3>1. /\ SentOK(s) /\ s.res \in granted /\ s.res \notin released
          /\ Q!HeldUntilTTL /\ damaged = {}
      BY <1>1, <2>1, InvFacts DEF SentOK, Q!HoldInv
    <3>2. s.res \in released \cup {x.res : x \in counted}
      BY <2>1, <3>1, SameStore DEF Q!HeldUntilTTL
    <3>3. PICK x \in counted : x.res = s.res
      BY <3>1, <3>2
    <3> QED  BY <3>1, <3>3 DEF SentOK
  <2> QED  BY <2>1 DEF EveryBillIsHeld
<1> QED  BY <1>1, DispatchInvAlways, PTL

\* A call that ends in order leaves no reservation behind.
THEOREM NoneLeftBehind == Spec => []NothingLeftBehind
<1>1. ASSUME DispatchInv PROVE NothingLeftBehind
  <2>1. ASSUME NEW c \in Calls, call[c].pc = "done", call[c].result # "raised",
               NEW r \in granted, r.id[1] = c
        PROVE  Over(r)
    <3>1. GrantOK(r)
      BY <1>1, InvFacts
    <3> QED  BY <2>1, <3>1 DEF GrantOK
  <2> QED  BY <2>1 DEF NothingLeftBehind, Over
<1> QED  BY <1>1, DispatchInvAlways, PTL

\* Nothing is sent after the deadline of its call, nor by the first backend of a
\* chat lane out of the share of the others.
THEOREM SentInTime == Spec => []NothingSentLate
<1>1. ASSUME DispatchInv PROVE NothingSentLate
  BY <1>1, InvFacts DEF SentOK, NothingSentLate
<1> QED  BY <1>1, DispatchInvAlways, PTL

\* A threshold that today's spend has reached was told, once the calls have ended.
THEOREM ThresholdsAreTold == Spec => []NoSilentThreshold
<1>1. ASSUME DispatchInv PROVE NoSilentThreshold
  <2>1. ASSUME \A c \in Calls : call[c].pc \in {"idle", "done"} /\ ~call[c].silent,
               NEW name \in DOMAIN Threshold, S!Opened(S!Today).spent >= Threshold[name]
        PROVE  name \in S!Opened(S!Today).alerts
    <3>1. AlertOK(name) /\ Threshold[name] \in Nat
      BY <1>1, DispatchAssumption DEF DispatchInv
    <3>2. S!Opened(S!Today).spent \in Nat
      BY <1>1, InvFacts, FileRead
    <3> QED  BY <2>1, <3>1, <3>2 DEF AlertOK
  <2> QED  BY <2>1 DEF NoSilentThreshold
<1> QED  BY <1>1, DispatchInvAlways, PTL

-----------------------------------------------------------------------------
(* The cap.  The coins of what was sent are matched with the coins that    *)
(* the store holds or has charged.                                         *)

Live(d) == {s \in sent : s.res.day = d /\ ~S!Expired(s.res) /\ s.bill <= s.res.usd}

Taken(d) == {x \in Live(d) \X (1 .. MaxCost) : x[2] <= x[1].bill}

Open(d) == {x \in Taken(d) : x[1].res \in S!Opened(d).open}

\* A set that is mapped one to one into a finite set is no larger.
LEMMA OneToOne ==
    ASSUME NEW A, NEW B, IsFiniteSet(B), NEW g \in [A -> B],
           \A x, y \in A : g[x] = g[y] => x = y
    PROVE  /\ IsFiniteSet(A) /\ Cardinality(A) \in Nat /\ Cardinality(B) \in Nat
           /\ Cardinality(A) <= Cardinality(B)
<1>1. g \in Injection(A, B)
  BY DEF Injection, IsInjective
<1> QED  BY <1>1, FS_Injection, FS_CardinalityType

\* A reservation pays for one request.
LEMMA OneRequest ==
    ASSUME DispatchInv, NEW s \in sent, NEW t \in sent, s.res = t.res
    PROVE  s = t
<1>1. SentOK(s) /\ SentOK(t) /\ OneOfEach
  BY InvFacts
<1>2. <<s.call, s.i>> = <<t.call, t.i>>
  BY <1>1 DEF SentOK
<1>3. s.call = t.call /\ s.i = t.i
  BY <1>2, Pairs, Zenon
<1> QED  BY <1>1, <1>3 DEF OneOfEach

\* What the live requests of a day cost is held by the store, or was charged.
LEMMA TakenFits ==
    ASSUME DispatchInv, NEW d \in S!Days
    PROVE  Cardinality(Taken(d)) <= Cap
<1>0. /\ Q!ClaimInv /\ Q!HeldUntilTTL /\ Q!EndedOnce /\ damaged = {} /\ Cap \in Nat
      /\ \A s \in sent : SentOK(s) /\ s.res \in granted
  BY InvFacts, SpendConstants DEF Q!HoldInv, SentOK
<1> DEFINE H == Q!Coins(S!Opened(d).open)
           W == Q!Within(d)
<1>1. /\ IsFiniteSet(H) /\ IsFiniteSet(W)
      /\ Cardinality(H) \in Nat /\ Cardinality(W) \in Nat
      /\ Cardinality(H) + Cardinality(W) <= Cap
  <2>1. /\ Q!IsFiniteSet(Q!Coins(Q!Opened(d).open)) /\ Q!IsFiniteSet(Q!Within(d))
        /\ Q!Cardinality(Q!Coins(Q!Opened(d).open)) \in Nat /\ Q!Cardinality(Q!Within(d)) \in Nat
        /\ Q!Cardinality(Q!Coins(Q!Opened(d).open)) + Q!Cardinality(Q!Within(d)) <= Cap
    <3>1. d \in Q!Days \ damaged
      BY <1>0, SameStore
    <3> QED  BY <1>0, <3>1, SpendConstants, SameStore, Q!ClaimSize
  <2>2. \A X : (Q!IsFiniteSet(X) <=> IsFiniteSet(X)) /\ Q!Cardinality(X) = Cardinality(X)
    BY DEF Q!IsFiniteSet, IsFiniteSet, Q!Cardinality, Cardinality
  <2> QED  BY <2>1, <2>2, SameStore
<1>2. ASSUME NEW x \in Taken(d)
      PROVE  /\ x = <<x[1], x[2]>> /\ x[1] \in sent /\ x[2] \in 1 .. MaxCost
             /\ x[1].res.day = d /\ ~S!Expired(x[1].res)
             /\ x[2] <= x[1].bill /\ x[1].bill <= x[1].res.usd
             /\ x[1].bill \in Nat /\ x[1].res.usd \in Nat
  <2>1. /\ x = <<x[1], x[2]>> /\ x[1] \in sent /\ x[2] \in 1 .. MaxCost
        /\ x[1].res.day = d /\ ~S!Expired(x[1].res)
        /\ x[2] <= x[1].bill /\ x[1].bill <= x[1].res.usd
    BY <1>2 DEF Taken, Live
  <2>2. x[1].bill \in Nat /\ x[1].res \in S!Reservation
    BY <1>0, <2>1, InvFacts, SpendConstants DEF SentOK
  <2> QED  BY <2>1, <2>2, SpendConstants DEF S!Reservation
<1>3. /\ IsFiniteSet(Open(d)) /\ Cardinality(Open(d)) \in Nat
      /\ Cardinality(Open(d)) <= Cardinality(H)
  <2> DEFINE f(x) == <<x[1].res, x[2]>>
  <2>1. \A x \in Open(d) : f(x) \in H
    BY <1>2, SpendConstants DEF Open, Q!Coins
  <2>2. ASSUME NEW x \in Open(d), NEW y \in Open(d), f(x) = f(y) PROVE x = y
    <3>1. x[1].res = y[1].res /\ x[2] = y[2]
      BY <2>2, Pairs, Zenon
    <3>2. x \in Taken(d) /\ y \in Taken(d)
      BY DEF Open
    <3>3. x[1] = y[1]
      BY <1>2, <3>1, <3>2, OneRequest
    <3> QED  BY <1>2, <3>1, <3>2, <3>3
  <2> HIDE DEF f, H
  <2> DEFINE g == [x \in Open(d) |-> f(x)]
  <2>3. g \in [Open(d) -> H] /\ \A x, y \in Open(d) : g[x] = g[y] => x = y
    BY <2>1, <2>2
  <2> HIDE DEF g
  <2> QED  BY <1>1, <2>3, OneToOne
<1>4. /\ IsFiniteSet(Taken(d) \ Open(d)) /\ Cardinality(Taken(d) \ Open(d)) \in Nat
      /\ Cardinality(Taken(d) \ Open(d)) <= Cardinality(W)
  <2> DEFINE charge(x) == CHOOSE y \in counted : y.res = x[1].res
             f(x) == <<charge(x), x[2]>>
  <2>1. ASSUME NEW x \in Taken(d) \ Open(d)
        PROVE  /\ charge(x) \in counted /\ charge(x).res = x[1].res
               /\ f(x) \in W
    <3>1. /\ x[1] \in sent /\ x[1].res \in granted /\ x[1].res \notin S!Opened(d).open
          /\ x[1].res.day = d /\ ~S!Expired(x[1].res) /\ SentOK(x[1])
      BY <1>0, <1>2, <2>1 DEF Open
    <3>2. x[1].res \in released \cup {y.res : y \in counted}
      BY <1>0, <3>1, SameStore DEF Q!HeldUntilTTL
    <3>3. x[1].res \notin released
      BY <1>2, <3>1 DEF SentOK
    <3>4. \E y \in counted : y.res = x[1].res
      BY <3>2, <3>3
    <3>5. charge(x) \in counted /\ charge(x).res = x[1].res
      BY <3>4
    <3> HIDE DEF charge
    <3>6. charge(x).actual >= x[1].bill \/ charge(x).actual >= x[1].res.usd
      BY <3>1, <3>5 DEF SentOK
    <3>7. charge(x).actual \in Nat
      BY <3>5, InvFacts DEF S!TypeOK
    <3>8. x[2] <= charge(x).actual /\ x[2] <= charge(x).res.usd
      BY <1>2, <3>5, <3>6, <3>7
    <3> QED  BY <1>2, <3>1, <3>5, <3>8 DEF Q!Within
  <2> HIDE DEF charge
  <2>2. ASSUME NEW x \in Taken(d) \ Open(d), NEW y \in Taken(d) \ Open(d), f(x) = f(y) PROVE x = y
    <3>1. charge(x) = charge(y) /\ x[2] = y[2]
      BY <2>2, Pairs, Zenon
    <3>2. x[1].res = y[1].res
      BY <2>1, <3>1
    <3>3. x[1] = y[1]
      BY <1>2, <3>2, OneRequest
    <3> QED  BY <1>2, <3>1, <3>3
  <2> HIDE DEF f, W
  <2> DEFINE rest == Taken(d) \ Open(d)
             g == [x \in rest |-> f(x)]
  <2>3. g \in [rest -> W] /\ \A x, y \in rest : g[x] = g[y] => x = y
    BY <2>1, <2>2
  <2> HIDE DEF g
  <2> QED  BY <1>1, <2>3, OneToOne
<1>5. Taken(d) = Open(d) \cup (Taken(d) \ Open(d)) /\ Open(d) \cap (Taken(d) \ Open(d)) = {}
  BY DEF Open
<1>6. Cardinality(Taken(d)) = Cardinality(Open(d)) + Cardinality(Taken(d) \ Open(d))
  BY <1>3, <1>4, <1>5, FS_Union, FS_EmptySet
<1> HIDE DEF H, W
<1> QED  BY <1>0, <1>1, <1>3, <1>4, <1>6

\* Calls cannot cost together, on one day, more than the cap of the lane, as long
\* as each keeps within its estimate.
THEOREM SentFits == Spec => []SentWithinCap
<1>1. ASSUME DispatchInv PROVE SentWithinCap
  BY <1>1, TakenFits DEF SentWithinCap, Taken, Live
<1> QED  BY <1>1, DispatchInvAlways, PTL
=============================================================================
