------------------------------ MODULE AppSpend ------------------------------
(***************************************************************************)
(* AppSpend (app_spend.py): the daily accounting of one paid application   *)
(* lane.  Each budget day has a JSON file of its own, read and replaced    *)
(* under a file lock, so that an operation is one step.  A reservation     *)
(* that outlives its TTL is dropped by the next operation on its file.     *)
(*                                                                         *)
(* A file that cannot be read, or does not validate, is renamed away and   *)
(* replaced by one whose spend is the whole cap; these are two steps, and  *)
(* the operation may fail between them.  Money is counted in units, time   *)
(* in ticks of the wall clock.                                             *)
(***************************************************************************)
EXTENDS Integers, FiniteSets

CONSTANTS
    Ids,        \* reservation ids (uuid4: never drawn twice)
    Cap,        \* cap_usd
    MaxCost,    \* bound on an estimate
    MaxActual,  \* bound on what a provider charges
    TTL,        \* _RESERVATION_TTL_SECONDS
    LastTime,   \* bound on the clock
    DayOf,      \* DayOf[t]: the budget day of an instant
    Names       \* alert names

Times == 0 .. LastTime
Days == {DayOf[t] : t \in Times}

ASSUME SpendAssumption ==
    /\ Cap \in Nat \ {0}
    /\ MaxCost \in Nat /\ MaxActual \in Nat /\ TTL \in Nat /\ LastTime \in Nat
    /\ DayOf \in [Times -> Nat]
    /\ \A t, u \in Times : t <= u => DayOf[t] <= DayOf[u]

VARIABLES
    disk,       \* disk[d]: the file of day d
    now,        \* the wall clock
    granted,    \* history: every reservation reserve() has returned
    counted,    \* history: every charge added to a file, [res, actual]
    released,   \* history: every reservation released in time
    damaged,    \* history: the days whose file was ever damaged
    stopped     \* history: those on which an operation failed after its rename

vars == <<disk, now, granted, counted, released, damaged, stopped>>

Reservation == [id : Ids, usd : 1 .. MaxCost, ts : Times, day : Days]

File == [kind : {"file"}, spent : Nat, open : SUBSET Reservation, alerts : SUBSET Names]
Missing == [kind |-> "missing"]
Damaged == [kind |-> "damaged"]

\* Types; a day's file is missing, damaged or valid, its spend never negative.
TypeOK ==
    /\ disk \in [Days -> File \cup {Missing, Damaged}]
    /\ now \in Times
    /\ granted \subseteq Reservation /\ released \subseteq Reservation
    /\ counted \subseteq [res : Reservation, actual : Nat]
    /\ damaged \subseteq Days /\ stopped \subseteq damaged

Init ==
    /\ disk = [d \in Days |-> Missing]
    /\ now = 0
    /\ granted = {} /\ counted = {} /\ released = {} /\ damaged = {} /\ stopped = {}

Today == DayOf[now]

-----------------------------------------------------------------------------
(* Reading a file. *)

EmptyFile == [kind |-> "file", spent |-> 0, open |-> {}, alerts |-> {}]

\* Faulty: a damaged file is replaced by an empty one.
Opened_Fresh(d) == IF disk[d].kind = "file" THEN disk[d] ELSE EmptyFile

Opened(d) ==
    CASE disk[d].kind = "missing" -> EmptyFile
      [] disk[d].kind = "damaged" -> [EmptyFile EXCEPT !.spent = Cap]
      [] disk[d].kind = "file" -> disk[d]

Expired(r) == now - r.ts > TTL

\* Faulty: a reservation is dropped when its day is over.
Loaded_DropsYesterday(d) == [Opened(d) EXCEPT !.open = {r \in @ : r.day = Today}]

\* What an operation on day d's file finds (_locked_state).
Loaded(d) == [Opened(d) EXCEPT !.open = {r \in @ : ~Expired(r)}]

\* One coin per unit of money held.
Held(file) == Cardinality({c \in file.open \X (1 .. MaxCost) : c[2] <= c[1].usd})

Save(d, file) == disk' = [disk EXCEPT ![d] = file]

-----------------------------------------------------------------------------
(* The operations. *)

\* Faulty: only what was spent counts.
Fits_ForgetsOpen(d, usd) == Loaded(d).spent + usd <= Cap

Fits(d, usd) == Loaded(d).spent + Held(Loaded(d)) + usd <= Cap

\* The day d was read before the lock was waited for; it may be over.
Reserve(id, usd, d) ==
    /\ d <= Today
    /\ \A r \in granted : r.id # id
    /\ Fits(d, usd)
    /\ LET r == [id |-> id, usd |-> usd, ts |-> now, day |-> d]
       IN /\ Save(d, [Loaded(d) EXCEPT !.open = @ \cup {r}])
          /\ granted' = granted \cup {r}
    /\ UNCHANGED <<now, counted, released, damaged, stopped>>

\* An operation that changes nothing still saves what it loaded: a refused
\* reserve(), an alert already sent, spent_today(), the end of a reservation
\* that has expired.
Touch(d) ==
    /\ Save(d, Loaded(d))
    /\ UNCHANGED <<now, granted, counted, released, damaged, stopped>>

\* Faulty: the charge goes to today's file.
Count_Today(r, actual) ==
    /\ r \in Loaded(r.day).open
    /\ disk' = [disk EXCEPT ![r.day] = [Loaded(r.day) EXCEPT !.open = @ \ {r}],
                            ![Today] = [Loaded(Today) EXCEPT !.open = @ \ {r},
                                                             !.spent = @ + actual]]
    /\ counted' = counted \cup {[res |-> r, actual |-> actual]}
    /\ UNCHANGED <<now, granted, released, damaged, stopped>>

\* The end of a reservation goes to the day in its id, not to today.
Count(r, actual) ==
    /\ r \in Loaded(r.day).open
    /\ Save(r.day, [Loaded(r.day) EXCEPT !.open = @ \ {r}, !.spent = @ + actual])
    /\ counted' = counted \cup {[res |-> r, actual |-> actual]}
    /\ UNCHANGED <<now, granted, released, damaged, stopped>>

\* settle(), settle_unknown() and release() find nothing to end.
Gone(r) == r \notin Loaded(r.day).open /\ Touch(r.day)

Settle(r, actual) == Count(r, actual) \/ Gone(r)

SettleUnknown(r) == Count(r, r.usd) \/ Gone(r)

Release(r) ==
    \/ /\ r \in Loaded(r.day).open
       /\ Save(r.day, [Loaded(r.day) EXCEPT !.open = @ \ {r}])
       /\ released' = released \cup {r}
       /\ UNCHANGED <<now, granted, counted, damaged, stopped>>
    \/ Gone(r)

\* alert_once() returns TRUE; where the name is there already it is Touch.
AlertOnce(name) ==
    /\ name \notin Loaded(Today).alerts
    /\ Save(Today, [Loaded(Today) EXCEPT !.alerts = @ \cup {name}])
    /\ UNCHANGED <<now, granted, counted, released, damaged, stopped>>

\* The file of day d can no longer be read, or no longer validates (external:
\* a failing disk, an edit by hand, an OSError of the read).
Damage(d) ==
    /\ disk[d].kind = "file"
    /\ Save(d, Damaged)
    /\ damaged' = damaged \cup {d}
    /\ UNCHANGED <<now, granted, counted, released, stopped>>

\* An operation that renamed a damaged file is killed, or its write raises
\* OSError, before the replacement is there.
Stop(d) ==
    /\ disk[d].kind = "damaged"
    /\ Save(d, Missing)
    /\ stopped' = stopped \cup {d}
    /\ UNCHANGED <<now, granted, counted, released, damaged>>

Tick ==
    /\ now < LastTime
    /\ now' = now + 1
    /\ UNCHANGED <<disk, granted, counted, released, damaged, stopped>>

Next ==
    \/ \E id \in Ids, usd \in 1 .. MaxCost, d \in Days : Reserve(id, usd, d)
    \/ \E r \in granted :
          \/ \E actual \in 0 .. MaxActual : Settle(r, actual)
          \/ SettleUnknown(r)
          \/ Release(r)
    \/ \E name \in Names : AlertOnce(name)
    \/ \E d \in Days : (d <= Today /\ Touch(d)) \/ Damage(d) \/ Stop(d)
    \/ Tick

Spec == Init /\ [][Next]_vars

-----------------------------------------------------------------------------
(* Properties. *)

Overrun(d) == \E c \in counted : c.res.day = d /\ c.actual > c.res.usd

\* What a day's file holds, spent and reserved together, stays within the cap
\* unless a provider charged more than was reserved on that day: across
\* expiries, settlements after midnight, and files replaced after damage.
WithinCap ==
    \A d \in Days :
        disk[d].kind = "file" => disk[d].spent + Held(disk[d]) <= Cap \/ Overrun(d)

\* A day's spend is exactly the charges of that day's reservations, each once and
\* none that was released, however late they settle and whatever expired.
SpendIsTheSumOfCharges ==
    /\ \A c, e \in counted : c.res = e.res => c = e
    /\ \A c \in counted : c.res \notin released
    /\ \A d \in Days \ damaged :
          LET coins == {c \in counted \X (1 .. MaxActual + MaxCost) :
                           c[1].res.day = d /\ c[2] <= c[1].actual}
          IN Opened(d).spent = Cardinality(coins)

\* A reservation holds its money until it ends or outlives its TTL, and no longer
\* than it ends: also over midnight, and whatever the other callers of the lane do.
HeldUntilTTL ==
    LET ended == released \cup {c.res : c \in counted}
    IN /\ \A r \in ended : r \notin Opened(r.day).open
       /\ \A r \in granted :
             r.day \notin damaged /\ ~Expired(r) => r \in Opened(r.day).open \cup ended

\* A lane whose file was damaged grants nothing more on that day
\* (test_corrupt_spend_file_is_quarantined_alerted_and_blocks_for_day).
DamageBlocksTheDay ==
    [][\A r \in granted' \ granted : r.day \notin damaged]_vars

\* It does so where no operation failed between the rename of the file and its
\* replacement: through expiries, late settlements and a second damage.
ReplacedFileBlocksTheDay ==
    [][\A r \in granted' \ granted : r.day \in damaged => r.day \in stopped]_vars
=============================================================================
