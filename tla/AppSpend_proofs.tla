--------------------------- MODULE AppSpend_proofs ---------------------------
(***************************************************************************)
(* Theorems about AppSpend, for every value of the constants: the money of *)
(* a day stays within the cap, is held as long as it must be, and is what  *)
(* was charged; a damaged file that has been replaced grants nothing.      *)
(***************************************************************************)
EXTENDS AppSpend, TLAPS, FiniteSetTheorems

-----------------------------------------------------------------------------
(* What an operation reads, and what its write does. *)

\* Reading a file, damaged or not, gives a valid one; expiry takes reservations
\* out of it and leaves the spend.
LEMMA LoadedType ==
    ASSUME TypeOK, NEW d \in Days
    PROVE  /\ Opened(d) \in File
           /\ Loaded(d) = [Opened(d) EXCEPT !.open = {r \in Opened(d).open : ~Expired(r)}]
           /\ Loaded(d) \in File
           /\ Loaded(d).spent = Opened(d).spent
           /\ Loaded(d).open = {r \in Opened(d).open : ~Expired(r)}
<1>1. Cap \in Nat
  BY SpendAssumption
<1>2. disk[d] \in File \cup {Missing, Damaged}
  BY DEF TypeOK
<1>3. EmptyFile \in File
  BY DEF EmptyFile, File
<1>4. [EmptyFile EXCEPT !.spent = Cap] \in File
  BY <1>1 DEF EmptyFile, File
<1>5. Opened(d) \in File
  <2>1. CASE disk[d] \in File
    BY <2>1 DEF Opened, File
  <2>2. CASE disk[d] = Missing
    BY <1>3, <2>2 DEF Opened, Missing
  <2>3. CASE disk[d] = Damaged
    BY <1>4, <2>3 DEF Opened, Damaged
  <2> QED  BY <1>2, <2>1, <2>2, <2>3
<1>6. Loaded(d) = [Opened(d) EXCEPT !.open = {r \in Opened(d).open : ~Expired(r)}]
  BY DEF Loaded
<1> HIDE DEF Opened
<1>7. {r \in Opened(d).open : ~Expired(r)} \in SUBSET Reservation
  BY <1>5 DEF File
<1>8. /\ Loaded(d) \in File
      /\ Loaded(d).spent = Opened(d).spent
      /\ Loaded(d).open = {r \in Opened(d).open : ~Expired(r)}
  BY <1>5, <1>6, <1>7 DEF File
<1> QED  BY <1>5, <1>6, <1>8

\* A valid file with another spend and other reservations is valid.
LEMMA FileEdit ==
    ASSUME NEW f \in File, NEW open \in SUBSET Reservation, NEW spent \in Nat
    PROVE  LET both == [f EXCEPT !.open = open, !.spent = spent]
               one == [f EXCEPT !.open = open]
           IN /\ both \in File /\ both.open = open /\ both.spent = spent
              /\ one \in File /\ one.open = open /\ one.spent = f.spent
BY DEF File

\* The file of day d is replaced by f.
Writes(d, f) == d \in Days /\ f \in File /\ Save(d, f)

\* The next operation on that day reads f, one on another day what was there.
LEMMA WritesEffect ==
    ASSUME TypeOK, NEW d, NEW f, Writes(d, f)
    PROVE  /\ disk' \in [Days -> File \cup {Missing, Damaged}]
           /\ disk'[d] = f
           /\ \A e \in Days \ {d} : disk'[e] = disk[e]
           /\ Opened(d)' = f
           /\ \A e \in Days \ {d} : Opened(e)' = Opened(e)
<1>1. /\ disk' \in [Days -> File \cup {Missing, Damaged}]
      /\ disk'[d] = f
      /\ \A e \in Days \ {d} : disk'[e] = disk[e]
  BY DEF Writes, Save, TypeOK
<1>2. f.kind = "file"
  BY DEF Writes, File
<1> QED  BY <1>1, <1>2 DEF Opened

-----------------------------------------------------------------------------
(* The shapes of a step. *)

HistoryKept == UNCHANGED <<granted, counted, released, damaged, stopped>>

\* The file of day d is replaced by one with that spend and those reservations.
WritesBack(d, spent, open) ==
    \E f \in File : Writes(d, f) /\ f.spent = spent /\ f.open = open

\* r is reserved on its day, where there is room for it.
Opens(r) ==
    /\ r \in Reservation \ granted
    /\ Fits(r.day, r.usd)
    /\ WritesBack(r.day, Opened(r.day).spent, Loaded(r.day).open \cup {r})
    /\ granted' = granted \cup {r}
    /\ UNCHANGED <<now, counted, released, damaged, stopped>>

\* r is taken off its day and its charge added to it.
Counts(r, actual) ==
    /\ r \in granted /\ r \in Loaded(r.day).open
    /\ WritesBack(r.day, Opened(r.day).spent + actual, Loaded(r.day).open \ {r})
    /\ counted' = counted \cup {[res |-> r, actual |-> actual]}
    /\ UNCHANGED <<now, granted, released, damaged, stopped>>

\* r is taken off its day without a charge.
Frees(r) ==
    /\ r \in granted /\ r \in Loaded(r.day).open
    /\ WritesBack(r.day, Opened(r.day).spent, Loaded(r.day).open \ {r})
    /\ released' = released \cup {r}
    /\ UNCHANGED <<now, granted, counted, damaged, stopped>>

\* The file of day d is written back, without what has expired.
Keeps(d) ==
    /\ WritesBack(d, Opened(d).spent, Loaded(d).open)
    /\ now' = now /\ HistoryKept

\* Files are left alone; time may pass.
Waits ==
    /\ disk' = disk /\ now' \in Times /\ now' >= now /\ HistoryKept

\* What an operation may charge for a reservation.
Charges == 0 .. MaxActual + MaxCost

\* Every step has one of these shapes, or damages a file, or loses one.
LEMMA StepShape ==
    ASSUME TypeOK, [Next]_vars
    PROVE  \/ \E r \in Reservation : Opens(r)
           \/ \E r \in granted, actual \in Charges : Counts(r, actual)
           \/ \E r \in granted : Frees(r)
           \/ \E d \in Days : Keeps(d) \/ Damage(d) \/ Stop(d)
           \/ Waits
<1>0. /\ MaxCost \in Nat /\ MaxActual \in Nat /\ LastTime \in Nat
      /\ now \in Times /\ Today \in Days
      /\ granted \subseteq Reservation
  BY SpendAssumption DEF TypeOK, Today, Days
<1>1. ASSUME NEW d \in Days, Touch(d)
      PROVE  Keeps(d)
  BY <1>1, LoadedType DEF Touch, Keeps, WritesBack, Writes, HistoryKept
<1>2. ASSUME NEW id \in Ids, NEW usd \in 1 .. MaxCost, NEW d \in Days, Reserve(id, usd, d)
      PROVE  \E r \in Reservation : Opens(r)
  <2> DEFINE r == [id |-> id, usd |-> usd, ts |-> now, day |-> d]
             f == [Loaded(d) EXCEPT !.open = Loaded(d).open \cup {r}]
  <2>1. r \in Reservation /\ r.day = d /\ r.usd = usd /\ r.id = id
    BY <1>0 DEF Reservation
  <2>2. r \notin granted
    BY <1>2, <2>1 DEF Reserve
  <2>3. /\ f \in File
        /\ f.spent = Opened(d).spent
        /\ f.open = Loaded(d).open \cup {r}
    <3>1. Loaded(d).open \cup {r} \in SUBSET Reservation /\ Loaded(d) \in File
      BY LoadedType, <2>1 DEF File
    <3>2. Loaded(d).spent = Opened(d).spent
      BY LoadedType
    <3> HIDE DEF r
    <3> QED  BY <3>1, <3>2 DEF File
  <2>4. Save(d, f) /\ Fits(d, usd)
    BY <1>2 DEF Reserve
  <2>5. granted' = granted \cup {r} /\ UNCHANGED <<now, counted, released, damaged, stopped>>
    BY <1>2 DEF Reserve
  <2> HIDE DEF r, f
  <2> QED
    BY <2>1, <2>2, <2>3, <2>4, <2>5 DEF Opens, WritesBack, Writes
<1>3. ASSUME NEW r \in granted, NEW actual \in Nat, r \in Loaded(r.day).open
      PROVE  LET f == [Loaded(r.day) EXCEPT !.open = Loaded(r.day).open \ {r},
                                            !.spent = Loaded(r.day).spent + actual]
                 g == [Loaded(r.day) EXCEPT !.open = Loaded(r.day).open \ {r}]
             IN /\ r.day \in Days
                /\ f \in File /\ f.spent = Opened(r.day).spent + actual
                /\ f.open = Loaded(r.day).open \ {r}
                /\ g \in File /\ g.spent = Opened(r.day).spent
                /\ g.open = Loaded(r.day).open \ {r}
  <2>1. r.day \in Days
    BY <1>0 DEF Reservation
  <2>2. Loaded(r.day) \in File /\ Loaded(r.day).spent = Opened(r.day).spent
    BY <2>1, LoadedType
  <2>3. /\ Loaded(r.day).open \ {r} \in SUBSET Reservation
        /\ Loaded(r.day).spent \in Nat /\ Loaded(r.day).spent + actual \in Nat
    BY <2>2 DEF File
  <2> DEFINE file == Loaded(r.day)
             open == Loaded(r.day).open \ {r}
             spent == Loaded(r.day).spent + actual
  <2>4. file \in File /\ open \in SUBSET Reservation /\ spent \in Nat
    BY <2>2, <2>3
  <2> HIDE DEF file, open, spent
  <2>5. LET both == [file EXCEPT !.open = open, !.spent = spent]
            one == [file EXCEPT !.open = open]
        IN /\ both \in File /\ both.open = open /\ both.spent = spent
           /\ one \in File /\ one.open = open /\ one.spent = file.spent
    BY <2>4, FileEdit
  <2> QED  BY <2>1, <2>2, <2>5 DEF file, open, spent
<1>4. ASSUME NEW r \in granted, NEW actual \in Charges, Count(r, actual)
      PROVE  Counts(r, actual)
  <2>1. r \in Loaded(r.day).open /\ actual \in Nat
    BY <1>0, <1>4 DEF Count, Charges
  <2>2. /\ Save(r.day, [Loaded(r.day) EXCEPT !.open = Loaded(r.day).open \ {r},
                                             !.spent = Loaded(r.day).spent + actual])
        /\ counted' = counted \cup {[res |-> r, actual |-> actual]}
        /\ UNCHANGED <<now, granted, released, damaged, stopped>>
    BY <1>4 DEF Count
  <2> QED
    BY <1>3, <2>1, <2>2 DEF Counts, WritesBack, Writes
<1>5. ASSUME NEW r \in granted, Release(r)
      PROVE  Frees(r) \/ \E d \in Days : Keeps(d)
  <2>1. CASE Gone(r)
    <3>1. r.day \in Days
      BY <1>0 DEF Reservation
    <3> QED  BY <1>1, <2>1, <3>1 DEF Gone
  <2>2. CASE /\ r \in Loaded(r.day).open
             /\ Save(r.day, [Loaded(r.day) EXCEPT !.open = Loaded(r.day).open \ {r}])
             /\ released' = released \cup {r}
             /\ UNCHANGED <<now, granted, counted, damaged, stopped>>
    <3>1. 0 \in Nat
      OBVIOUS
    <3> QED  BY <1>3, <2>2, <3>1 DEF Frees, WritesBack, Writes
  <2> QED  BY <1>5, <2>1, <2>2 DEF Release
<1>6. ASSUME NEW r \in granted, Gone(r)
      PROVE  \E d \in Days : Keeps(d)
  <2>1. r.day \in Days
    BY <1>0 DEF Reservation
  <2> QED  BY <1>1, <1>6, <2>1 DEF Gone
<1>7. ASSUME NEW r \in granted, NEW actual \in 0 .. MaxActual, Settle(r, actual)
      PROVE  (\E x \in Charges : Counts(r, x)) \/ \E d \in Days : Keeps(d)
  <2>1. actual \in Charges
    BY <1>0 DEF Charges
  <2> QED  BY <1>4, <1>6, <1>7, <2>1 DEF Settle
<1>8. ASSUME NEW r \in granted, SettleUnknown(r)
      PROVE  (\E x \in Charges : Counts(r, x)) \/ \E d \in Days : Keeps(d)
  <2>1. r.usd \in Charges
    BY <1>0 DEF Charges, Reservation
  <2> QED  BY <1>4, <1>6, <1>8, <2>1 DEF SettleUnknown
<1>9. ASSUME NEW name \in Names, AlertOnce(name)
      PROVE  Keeps(Today)
  <2> DEFINE f == [Loaded(Today) EXCEPT !.alerts = Loaded(Today).alerts \cup {name}]
  <2>1. Loaded(Today) \in File /\ Loaded(Today).spent = Opened(Today).spent
    BY <1>0, LoadedType
  <2>2. f \in File /\ f.spent = Opened(Today).spent /\ f.open = Loaded(Today).open
    BY <2>1 DEF File
  <2>3. Save(Today, f) /\ now' = now /\ HistoryKept
    BY <1>9 DEF AlertOnce, HistoryKept
  <2> QED  BY <1>0, <2>2, <2>3 DEF Keeps, WritesBack, Writes
<1>10. CASE Tick
  BY <1>0, <1>10 DEF Tick, Waits, HistoryKept, Times
<1>11. CASE UNCHANGED vars
  BY <1>0, <1>11 DEF vars, Waits, HistoryKept, Times
<1> QED
  BY <1>1, <1>2, <1>5, <1>7, <1>8, <1>9, <1>10, <1>11, <1>0 DEF Next

-----------------------------------------------------------------------------
(* Types.  That only damaged days have a damaged file is needed for those  *)
(* on which an operation stopped.                                          *)

DamageIsKnown == \A d \in Days : disk[d].kind = "damaged" => d \in damaged

WellFormed == TypeOK /\ DamageIsKnown

\* What a file that is written back does to the types.
LEMMA WritesBackType ==
    ASSUME WellFormed, NEW d, NEW spent, NEW open, WritesBack(d, spent, open)
    PROVE  /\ disk' \in [Days -> File \cup {Missing, Damaged}]
           /\ d \in Days /\ spent \in Nat /\ open \subseteq Reservation
           /\ \A e \in Days : disk'[e].kind = "damaged" => disk[e].kind = "damaged"
           /\ Opened(d)' \in File
           /\ Opened(d)'.spent = spent /\ Opened(d)'.open = open
           /\ \A e \in Days \ {d} : Opened(e)' = Opened(e)
<1>1. PICK f \in File : Writes(d, f) /\ f.spent = spent /\ f.open = open
  BY DEF WritesBack
<1>2. /\ disk' \in [Days -> File \cup {Missing, Damaged}]
      /\ disk'[d] = f
      /\ \A e \in Days \ {d} : disk'[e] = disk[e]
      /\ Opened(d)' = f
      /\ \A e \in Days \ {d} : Opened(e)' = Opened(e)
  BY <1>1, WritesEffect DEF WellFormed
<1>3. f.kind = "file" /\ spent \in Nat /\ open \subseteq Reservation
  BY <1>1 DEF File
<1>4. d \in Days
  BY <1>1 DEF Writes
<1>5. \A e \in Days : disk'[e].kind = "damaged" => disk[e].kind = "damaged"
  BY <1>2, <1>3
<1> QED  BY <1>1, <1>2, <1>3, <1>4, <1>5

\* A file that is damaged, or lost, is read as a spent day, or as a new one.
LEMMA DamageEffect ==
    ASSUME WellFormed, NEW d \in Days, Damage(d) \/ Stop(d)
    PROVE  /\ disk' \in [Days -> File \cup {Missing, Damaged}]
           /\ Opened(d)'.spent = (IF Damage(d) THEN Cap ELSE 0)
           /\ Opened(d)'.open = {}
           /\ \A e \in Days \ {d} : Opened(e)' = Opened(e) /\ disk'[e] = disk[e]
           /\ Damage(d) => disk'[d] = Damaged
           /\ Stop(d) => disk'[d] = Missing
           /\ Stop(d) => d \in damaged
<1>0. disk \in [Days -> File \cup {Missing, Damaged}]
  BY DEF WellFormed, TypeOK
<1>1. CASE Damage(d)
  <2>1. /\ disk' \in [Days -> File \cup {Missing, Damaged}]
        /\ disk'[d] = Damaged
        /\ \A e \in Days \ {d} : disk'[e] = disk[e]
        /\ ~ Stop(d)
    BY <1>0, <1>1 DEF Damage, Stop, Save
  <2>2. disk'[d].kind = "damaged"
    BY <2>1 DEF Damaged
  <2>3. Opened(d)' = [EmptyFile EXCEPT !.spent = Cap]
    BY <2>2 DEF Opened
  <2>4. Opened(d)'.spent = Cap /\ Opened(d)'.open = {}
    BY <2>3 DEF EmptyFile
  <2>5. \A e \in Days \ {d} : Opened(e)' = Opened(e)
    BY <2>1 DEF Opened
  <2> QED  BY <1>1, <2>1, <2>4, <2>5
<1>2. CASE Stop(d)
  <2>1. /\ disk' \in [Days -> File \cup {Missing, Damaged}]
        /\ disk'[d] = Missing
        /\ \A e \in Days \ {d} : disk'[e] = disk[e]
        /\ ~ Damage(d)
        /\ d \in damaged
    BY <1>0, <1>2 DEF Damage, Stop, Save, WellFormed, DamageIsKnown
  <2>2. disk'[d].kind = "missing"
    BY <2>1 DEF Missing
  <2>3. Opened(d)' = EmptyFile
    BY <2>2 DEF Opened
  <2>4. Opened(d)'.spent = 0 /\ Opened(d)'.open = {}
    BY <2>3 DEF EmptyFile
  <2>5. \A e \in Days \ {d} : Opened(e)' = Opened(e)
    BY <2>1 DEF Opened
  <2> QED  BY <1>2, <2>1, <2>4, <2>5
<1> QED  BY <1>1, <1>2

\* Every step keeps the types.
LEMMA WellFormedStep ==
    ASSUME WellFormed, [Next]_vars
    PROVE  WellFormed'
<1>0. /\ TypeOK /\ DamageIsKnown
      /\ MaxCost \in Nat /\ MaxActual \in Nat
  BY SpendAssumption DEF WellFormed
<1>1. ASSUME NEW r \in Reservation, Opens(r) PROVE WellFormed'
  <2>1. /\ disk' \in [Days -> File \cup {Missing, Damaged}]
        /\ \A e \in Days : disk'[e].kind = "damaged" => disk[e].kind = "damaged"
    BY <1>1, WritesBackType DEF Opens
  <2> QED  BY <1>0, <1>1, <2>1 DEF Opens, WellFormed, TypeOK, DamageIsKnown
<1>2. ASSUME NEW r \in granted, NEW actual \in Charges, Counts(r, actual) PROVE WellFormed'
  <2>1. /\ disk' \in [Days -> File \cup {Missing, Damaged}]
        /\ \A e \in Days : disk'[e].kind = "damaged" => disk[e].kind = "damaged"
    BY <1>2, WritesBackType DEF Counts
  <2>2. actual \in Nat /\ r \in Reservation
    BY <1>0 DEF Charges, TypeOK
  <2> QED  BY <1>0, <1>2, <2>1, <2>2 DEF Counts, WellFormed, TypeOK, DamageIsKnown
<1>3. ASSUME NEW r \in granted, Frees(r) PROVE WellFormed'
  <2>1. /\ disk' \in [Days -> File \cup {Missing, Damaged}]
        /\ \A e \in Days : disk'[e].kind = "damaged" => disk[e].kind = "damaged"
    BY <1>3, WritesBackType DEF Frees
  <2> QED  BY <1>0, <1>3, <2>1 DEF Frees, WellFormed, TypeOK, DamageIsKnown
<1>4. ASSUME NEW d \in Days, Keeps(d) PROVE WellFormed'
  <2>1. /\ disk' \in [Days -> File \cup {Missing, Damaged}]
        /\ \A e \in Days : disk'[e].kind = "damaged" => disk[e].kind = "damaged"
    BY <1>4, WritesBackType DEF Keeps
  <2> QED  BY <1>0, <1>4, <2>1 DEF Keeps, HistoryKept, WellFormed, TypeOK, DamageIsKnown
<1>5. ASSUME NEW d \in Days, Damage(d) PROVE WellFormed'
  <2>1. /\ disk' \in [Days -> File \cup {Missing, Damaged}]
        /\ \A e \in Days \ {d} : disk'[e] = disk[e]
    BY <1>5, DamageEffect
  <2> QED  BY <1>0, <1>5, <2>1 DEF Damage, WellFormed, TypeOK, DamageIsKnown
<1>6. ASSUME NEW d \in Days, Stop(d) PROVE WellFormed'
  <2>1. /\ disk' \in [Days -> File \cup {Missing, Damaged}]
        /\ \A e \in Days \ {d} : disk'[e] = disk[e]
        /\ disk'[d] = Missing /\ d \in damaged
    BY <1>6, DamageEffect
  <2>2. disk'[d].kind # "damaged"
    BY <2>1 DEF Missing
  <2> QED  BY <1>0, <1>6, <2>1, <2>2 DEF Stop, WellFormed, TypeOK, DamageIsKnown
<1>7. CASE Waits
  BY <1>0, <1>7 DEF Waits, HistoryKept, WellFormed, TypeOK, DamageIsKnown
<1> QED
  BY <1>0, <1>1, <1>2, <1>3, <1>4, <1>5, <1>6, <1>7, StepShape

\* The types hold in every behaviour.
THEOREM WellFormedAlways == Spec => []WellFormed
<1>1. Init => WellFormed
  BY SpendAssumption DEF Init, WellFormed, TypeOK, DamageIsKnown, Missing, Times
<1>2. WellFormed /\ [Next]_vars => WellFormed'
  BY WellFormedStep
<1> QED  BY <1>1, <1>2, PTL DEF Spec

-----------------------------------------------------------------------------
(* Reservations end once and hold their money until then or their TTL.     *)

Ended == released \cup {c.res : c \in counted}

\* What ended had been granted, and was charged once or released, never both.
EndedOnce ==
    /\ Ended \subseteq granted
    /\ \A c, e \in counted : c.res = e.res => c = e
    /\ \A c \in counted : c.res \notin released

HoldInv == WellFormed /\ EndedOnce /\ HeldUntilTTL

\* What has expired stays so.
LEMMA ExpiryStays ==
    ASSUME TypeOK, now' \in Times, now' >= now, NEW r \in Reservation, Expired(r)
    PROVE  Expired(r)'
<1>1. /\ TTL \in Nat /\ LastTime \in Nat
      /\ now \in Int /\ now' \in Int /\ r.ts \in Int
  BY SpendAssumption DEF TypeOK, Times, Reservation
<1> QED  BY <1>1 DEF Expired

\* Every step keeps it.
LEMMA HoldStep ==
    ASSUME HoldInv, [Next]_vars
    PROVE  HoldInv'
<1>0. /\ WellFormed /\ WellFormed' /\ TypeOK /\ EndedOnce /\ HeldUntilTTL
      /\ granted \subseteq Reservation
      /\ \A r \in granted : r.day \in Days
  BY WellFormedStep DEF HoldInv, WellFormed, TypeOK, Reservation
<1>l. \A d \in Days : Loaded(d).open = {r \in Opened(d).open : ~Expired(r)}
  BY <1>0, LoadedType
<1>1. ASSUME NEW r \in Reservation, Opens(r) PROVE EndedOnce' /\ HeldUntilTTL'
  <2>1. /\ r.day \in Days /\ Opened(r.day)'.open = Loaded(r.day).open \cup {r}
        /\ \A e \in Days \ {r.day} : Opened(e)' = Opened(e)
    BY <1>0, <1>1, WritesBackType DEF Opens
  <2>2. /\ Ended' = Ended /\ r \notin Ended /\ granted' = granted \cup {r}
        /\ now' = now /\ damaged' = damaged
    BY <1>0, <1>1 DEF Opens, Ended, EndedOnce
  <2>3. EndedOnce'
    BY <1>0, <1>1, <2>2 DEF Opens, EndedOnce
  <2>4. ASSUME NEW y \in Ended PROVE y \notin Opened(y.day)'.open
    <3>1. y \in granted /\ y.day \in Days /\ y # r
      BY <1>0, <2>2 DEF EndedOnce
    <3>2. y \notin Opened(y.day).open
      BY <1>0 DEF HeldUntilTTL, Ended
    <3> QED  BY <1>l, <2>1, <3>1, <3>2
  <2>5. ASSUME NEW y \in granted', y.day \notin damaged, ~Expired(y)
        PROVE  y \in Opened(y.day)'.open \cup Ended
    <3>1. CASE y = r
      BY <2>1, <3>1
    <3>2. CASE y # r
      <4>1. y \in granted /\ y.day \in Days /\ y \in Opened(y.day).open \cup Ended
        BY <1>0, <2>2, <2>5, <3>2 DEF HeldUntilTTL, Ended
      <4> QED  BY <1>l, <2>1, <2>5, <4>1
    <3> QED  BY <3>1, <3>2
  <2>6. HeldUntilTTL'
    BY <2>2, <2>4, <2>5 DEF HeldUntilTTL, Ended, Expired
  <2> QED  BY <2>3, <2>6
<1>2. ASSUME NEW r \in granted, r \in Loaded(r.day).open, NEW s,
             WritesBack(r.day, s, Loaded(r.day).open \ {r}),
             Ended' = Ended \cup {r}, granted' = granted, now' = now, damaged' = damaged
      PROVE  r \notin Ended /\ HeldUntilTTL'
  <2>1. /\ r.day \in Days /\ Opened(r.day)'.open = Loaded(r.day).open \ {r}
        /\ \A e \in Days \ {r.day} : Opened(e)' = Opened(e)
    BY <1>0, <1>2, WritesBackType
  <2>2. r \in Opened(r.day).open
    BY <1>2, <1>l, <2>1
  <2>3. r \notin Ended
    BY <1>0, <2>2 DEF HeldUntilTTL, Ended
  <2>4. ASSUME NEW y \in Ended' PROVE y \notin Opened(y.day)'.open
    <3>1. CASE y = r
      BY <2>1, <3>1
    <3>2. CASE y # r
      <4>1. y \in granted /\ y.day \in Days /\ y \notin Opened(y.day).open
        BY <1>0, <1>2, <2>4, <3>2 DEF EndedOnce, HeldUntilTTL, Ended
      <4> QED  BY <1>l, <2>1, <4>1
    <3> QED  BY <3>1, <3>2
  <2>5. ASSUME NEW y \in granted, y.day \notin damaged, ~Expired(y)
        PROVE  y \in Opened(y.day)'.open \cup Ended'
    <3>1. y.day \in Days /\ y \in Opened(y.day).open \cup Ended
      BY <1>0, <2>5 DEF HeldUntilTTL, Ended
    <3> QED  BY <1>2, <1>l, <2>1, <2>5, <3>1
  <2> QED
    BY <1>2, <2>3, <2>4, <2>5 DEF HeldUntilTTL, Ended, Expired
<1>3. ASSUME NEW r \in granted, NEW actual \in Charges, Counts(r, actual)
      PROVE  EndedOnce' /\ HeldUntilTTL'
  <2>1. counted' = counted \cup {[res |-> r, actual |-> actual]} /\ released' = released
    BY <1>3 DEF Counts
  <2>2. Ended' = Ended \cup {r}
    <3> DEFINE x == [res |-> r, actual |-> actual]
    <3>1. x.res = r /\ counted' = counted \cup {x}
      BY <2>1
    <3> HIDE DEF x
    <3> QED  BY <2>1, <3>1 DEF Ended
  <2>3. r \notin Ended /\ HeldUntilTTL'
    BY <1>2, <1>3, <2>2 DEF Counts
  <2>4. granted' = granted
    BY <1>3 DEF Counts
  <2>5. Ended' \subseteq granted'
    BY <1>0, <2>2, <2>4 DEF EndedOnce
  <2>6. \A c, e \in counted' : c.res = e.res => c = e
    BY <1>0, <2>1, <2>3 DEF EndedOnce, Ended
  <2>7. \A c \in counted' : c.res \notin released'
    BY <1>0, <2>1, <2>3 DEF EndedOnce, Ended
  <2> QED
    BY <2>3, <2>5, <2>6, <2>7 DEF EndedOnce
<1>4. ASSUME NEW r \in granted, Frees(r) PROVE EndedOnce' /\ HeldUntilTTL'
  <2>1. counted' = counted /\ released' = released \cup {r}
    BY <1>4 DEF Frees
  <2>2. Ended' = Ended \cup {r}
    BY <2>1 DEF Ended
  <2>3. r \notin Ended /\ HeldUntilTTL'
    BY <1>2, <1>4, <2>2 DEF Frees
  <2>4. granted' = granted
    BY <1>4 DEF Frees
  <2> QED
    BY <1>0, <2>1, <2>2, <2>3, <2>4 DEF EndedOnce, Ended
<1>5. ASSUME NEW d \in Days, Keeps(d) PROVE EndedOnce' /\ HeldUntilTTL'
  <2>1. /\ Opened(d)'.open = Loaded(d).open
        /\ \A e \in Days \ {d} : Opened(e)' = Opened(e)
    BY <1>0, <1>5, WritesBackType DEF Keeps
  <2>2. now' = now /\ granted' = granted /\ released' = released /\ counted' = counted
        /\ damaged' = damaged
    BY <1>5 DEF Keeps, HistoryKept
  <2>3. ASSUME NEW y \in granted, ~Expired(y)
        PROVE  y \in Opened(y.day).open <=> y \in Opened(y.day)'.open
    BY <1>0, <1>l, <2>1, <2>3
  <2>4. ASSUME NEW y \in Ended PROVE y \notin Opened(y.day)'.open
    <3>1. y \in granted /\ y.day \in Days /\ y \notin Opened(y.day).open
      BY <1>0 DEF EndedOnce, HeldUntilTTL, Ended
    <3> QED  BY <1>l, <2>1, <3>1
  <2> QED
    BY <1>0, <2>2, <2>3, <2>4 DEF EndedOnce, HeldUntilTTL, Ended, Expired
<1>6. ASSUME NEW d \in Days, Damage(d) \/ Stop(d) PROVE EndedOnce' /\ HeldUntilTTL'
  <2>1. /\ Opened(d)'.open = {}
        /\ \A e \in Days \ {d} : Opened(e)' = Opened(e)
        /\ d \in damaged'
    BY <1>0, <1>6, DamageEffect DEF Damage, Stop
  <2>2. now' = now /\ granted' = granted /\ released' = released /\ counted' = counted
        /\ damaged \subseteq damaged'
    BY <1>6 DEF Damage, Stop
  <2>3. ASSUME NEW y \in Ended PROVE y \notin Opened(y.day)'.open
    <3>1. y \in granted /\ y.day \in Days /\ y \notin Opened(y.day).open
      BY <1>0 DEF EndedOnce, HeldUntilTTL, Ended
    <3> QED  BY <2>1, <3>1
  <2>4. ASSUME NEW y \in granted, y.day \notin damaged', ~Expired(y)
        PROVE  y \in Opened(y.day)'.open \cup Ended
    <3>1. y.day \in Days \ {d} /\ y \in Opened(y.day).open \cup Ended
      BY <1>0, <2>1, <2>2, <2>4 DEF HeldUntilTTL, Ended
    <3> QED  BY <2>1, <3>1
  <2> QED
    BY <1>0, <2>2, <2>3, <2>4 DEF EndedOnce, HeldUntilTTL, Ended, Expired
<1>7. CASE Waits
  <2>1. /\ granted' = granted /\ released' = released /\ counted' = counted
        /\ damaged' = damaged /\ \A d \in Days : Opened(d)' = Opened(d)
        /\ now' \in Times /\ now' >= now
    BY <1>7 DEF Waits, HistoryKept, Opened
  <2>2. \A y \in granted : ~Expired(y)' => ~Expired(y)
    BY <1>0, <2>1, ExpiryStays
  <2>3. Ended' = Ended
    BY <2>1 DEF Ended
  <2>4. EndedOnce'
    BY <1>0, <2>1, <2>3 DEF EndedOnce
  <2>5. ASSUME NEW y \in Ended PROVE y \notin Opened(y.day)'.open
    <3>1. y \in granted /\ y.day \in Days /\ y \notin Opened(y.day).open
      BY <1>0 DEF EndedOnce, HeldUntilTTL, Ended
    <3> QED  BY <2>1, <3>1
  <2>6. ASSUME NEW y \in granted, y.day \notin damaged, ~Expired(y)'
        PROVE  y \in Opened(y.day)'.open \cup Ended
    <3>1. y.day \in Days /\ y \in Opened(y.day).open \cup Ended
      BY <1>0, <2>2, <2>6 DEF HeldUntilTTL, Ended
    <3> QED  BY <2>1, <3>1
  <2>7. HeldUntilTTL'
    BY <2>1, <2>3, <2>5, <2>6 DEF HeldUntilTTL, Ended
  <2> QED  BY <1>0, <2>4, <2>7 DEF HoldInv
<1> QED
  BY <1>0, <1>1, <1>3, <1>4, <1>5, <1>6, <1>7, StepShape DEF HoldInv

\* It holds of the first state.
LEMMA HoldInit ==
    ASSUME Init
    PROVE  HoldInv
<1>1. WellFormed
  BY SpendAssumption DEF Init, WellFormed, TypeOK, DamageIsKnown, Missing, Times
<1>2. granted = {} /\ counted = {} /\ released = {}
  BY DEF Init
<1>3. Ended = {}
  BY <1>2 DEF Ended
<1>4. EndedOnce
  BY <1>2, <1>3 DEF EndedOnce
<1>5. HeldUntilTTL
  BY <1>2, <1>3 DEF HeldUntilTTL, Ended
<1> QED  BY <1>1, <1>4, <1>5 DEF HoldInv

\* The inductive invariant of the reservations.
THEOREM HoldInvAlways == Spec => []HoldInv
<1>1. Init => HoldInv
  BY HoldInit
<1>2. HoldInv /\ [Next]_vars => HoldInv'
  BY HoldStep
<1> QED  BY <1>1, <1>2, PTL DEF Spec

\* A reservation of a lane holds its money on its own day until it is settled,
\* released or outlives its TTL, and not after it ended.
THEOREM MoneyIsHeld == Spec => []HeldUntilTTL
BY HoldInvAlways, PTL DEF HoldInv

-----------------------------------------------------------------------------
(* Money.  What a set of reservations holds is counted in coins, one per   *)
(* unit, so that sums are sizes of sets.                                   *)

Coins(open) == {c \in open \X (1 .. MaxCost) : c[2] <= c[1].usd}

Holding(open) == Cardinality(Coins(open))

Coin(r) == {r} \X (1 .. r.usd)

\* Finitely many reservations hold a number of coins.
LEMMA CoinsFinite ==
    ASSUME NEW open, IsFiniteSet(open)
    PROVE  IsFiniteSet(Coins(open)) /\ Holding(open) \in Nat
<1>1. IsFiniteSet(1 .. MaxCost)
  BY SpendAssumption, FS_Interval
<1>2. IsFiniteSet(open \X (1 .. MaxCost))
  BY <1>1, FS_Product
<1>3. Coins(open) \in SUBSET (open \X (1 .. MaxCost))
  BY DEF Coins
<1>4. IsFiniteSet(Coins(open))
  BY <1>2, <1>3, FS_Subset
<1> QED  BY <1>4, FS_CardinalityType DEF Holding

\* Fewer reservations hold no more.
LEMMA CoinsShrink ==
    ASSUME NEW open, IsFiniteSet(open), NEW rest \in SUBSET open
    PROVE  IsFiniteSet(rest) /\ Holding(rest) \in Nat /\ Holding(rest) <= Holding(open)
<1>1. IsFiniteSet(rest)
  BY FS_Subset
<1>2. Coins(rest) \in SUBSET Coins(open)
  BY DEF Coins
<1>3. IsFiniteSet(Coins(open))
  BY CoinsFinite
<1>4. Cardinality(Coins(rest)) <= Cardinality(Coins(open))
  BY <1>2, <1>3, FS_Subset
<1> QED  BY <1>1, <1>4, CoinsFinite DEF Holding

\* A row of n coins is n coins.
LEMMA RowSize ==
    ASSUME NEW x, NEW n \in Nat
    PROVE  IsFiniteSet({x} \X (1 .. n)) /\ Cardinality({x} \X (1 .. n)) = n
<1> DEFINE I == 1 .. n
<1>1. IsFiniteSet(I) /\ Cardinality(I) = n
  <2>1. 1 \in Int /\ n \in Int
    OBVIOUS
  <2>2. /\ IsFiniteSet(1 .. n)
        /\ Cardinality(1 .. n) = IF 1 > n THEN 0 ELSE n - 1 + 1
    BY <2>1, FS_Interval
  <2> QED  BY <2>2
<1>2. IsFiniteSet({x}) /\ Cardinality({x}) = 1
  BY FS_Singleton
<1> HIDE DEF I
<1>3. /\ IsFiniteSet({x} \X I)
      /\ Cardinality({x} \X I) = Cardinality({x}) * Cardinality(I)
  BY <1>1, <1>2, FS_Product
<1>4. Cardinality({x} \X I) = n
  BY <1>1, <1>2, <1>3
<1> QED  BY <1>3, <1>4 DEF I

\* A reservation holds as many coins as its estimate is worth.
LEMMA CoinSize ==
    ASSUME NEW r \in Reservation
    PROVE  /\ r.usd \in Nat /\ r.usd >= 1 /\ r.usd <= MaxCost /\ MaxCost \in Nat
           /\ IsFiniteSet(Coin(r)) /\ Cardinality(Coin(r)) = r.usd
<1>1. r.usd \in Nat /\ r.usd >= 1 /\ r.usd <= MaxCost /\ MaxCost \in Nat
  BY SpendAssumption DEF Reservation
<1>2. IsFiniteSet(Coin(r)) /\ Cardinality(Coin(r)) = r.usd
  BY <1>1, RowSize DEF Coin
<1> QED  BY <1>1, <1>2

\* One more reservation holds at most its own coins more, one less holds them less.
LEMMA CoinsChange ==
    ASSUME NEW open, IsFiniteSet(open), NEW r \in Reservation
    PROVE  /\ IsFiniteSet(open \cup {r}) /\ IsFiniteSet(open \ {r})
           /\ Holding(open \cup {r}) <= Holding(open) + r.usd
           /\ r \in open => Holding(open \ {r}) = Holding(open) - r.usd
<1> DEFINE A == Coins(open)
           B == Coin(r)
<1>0. r.usd \in Nat /\ r.usd >= 1 /\ r.usd <= MaxCost /\ MaxCost \in Nat
  BY CoinSize
<1>1. IsFiniteSet(A) /\ Cardinality(A) \in Nat
  BY CoinsFinite DEF Holding
<1>2. IsFiniteSet(B) /\ Cardinality(B) = r.usd /\ r.usd \in Nat
  BY CoinSize
<1>3. Coins(open \cup {r}) = A \cup B
  BY <1>0 DEF Coins, Coin
<1>4. Coins(open \ {r}) = A \ B
  BY <1>0 DEF Coins, Coin
<1>5. r \in open => A \cap B = B
  BY <1>0 DEF Coins, Coin
<1> HIDE DEF A, B
<1>6. IsFiniteSet(A \cap B) /\ Cardinality(A \cap B) \in Nat
  <2>1. A \cap B \in SUBSET A
    OBVIOUS
  <2> QED  BY <1>1, <2>1, FS_Subset, FS_CardinalityType
<1>7. Cardinality(A \cup B) = Cardinality(A) + Cardinality(B) - Cardinality(A \cap B)
  BY <1>1, <1>2, FS_Union
<1>8. Cardinality(A \cup B) <= Cardinality(A) + r.usd
  BY <1>1, <1>2, <1>6, <1>7
<1>9. Cardinality(A \ B) = Cardinality(A) - Cardinality(A \cap B)
  BY <1>1, FS_Difference
<1>10. r \in open => Cardinality(A \ B) = Cardinality(A) - r.usd
  BY <1>2, <1>5, <1>9
<1>11. IsFiniteSet(open \cup {r}) /\ IsFiniteSet(open \ {r})
  BY FS_AddElement, FS_RemoveElement
<1> QED
  BY <1>3, <1>4, <1>8, <1>10, <1>11 DEF Holding, A

\* What a file holds, in these terms.
LEMMA HeldIsHolding ==
    ASSUME NEW file
    PROVE  Held(file) = Holding(file.open)
BY DEF Held, Holding, Coins

-----------------------------------------------------------------------------
(* The cap.  A charge above its reservation excuses the day it belongs to. *)

OpenFinite == \A d \in Days : IsFiniteSet(Opened(d).open)

Total(d) == Opened(d).spent + Holding(Opened(d).open)

CapInv == WellFormed /\ OpenFinite /\ \A d \in Days : Total(d) <= Cap \/ Overrun(d)

\* What is left of a file when the expired reservations are gone.
LEMMA LoadedHolds ==
    ASSUME WellFormed, OpenFinite, NEW d \in Days
    PROVE  /\ IsFiniteSet(Opened(d).open) /\ IsFiniteSet(Loaded(d).open)
           /\ Loaded(d).open \subseteq Opened(d).open
           /\ Opened(d).open \subseteq Reservation
           /\ Opened(d).spent \in Nat /\ Loaded(d).spent = Opened(d).spent
           /\ Holding(Loaded(d).open) \in Nat /\ Holding(Opened(d).open) \in Nat
           /\ Holding(Loaded(d).open) <= Holding(Opened(d).open)
<1>1. /\ Loaded(d).open \in SUBSET Opened(d).open
      /\ Loaded(d).spent = Opened(d).spent
      /\ Opened(d).spent \in Nat
      /\ Opened(d).open \subseteq Reservation
  BY LoadedType DEF WellFormed, File
<1>2. IsFiniteSet(Opened(d).open)
  BY DEF OpenFinite
<1> QED  BY <1>1, <1>2, CoinsShrink, CoinsFinite

\* A day that was excused stays so.
LEMMA OverrunStays ==
    ASSUME counted \subseteq counted', NEW d \in Days, Overrun(d)
    PROVE  Overrun(d)'
BY DEF Overrun

\* No step takes a day past the cap without such a charge.
LEMMA CapStep ==
    ASSUME CapInv, [Next]_vars
    PROVE  CapInv'
<1>0. /\ WellFormed /\ WellFormed' /\ OpenFinite
      /\ granted \subseteq Reservation
      /\ \A r \in Reservation : r.day \in Days
      /\ Cap \in Nat /\ MaxCost \in Nat /\ MaxActual \in Nat
      /\ \A d \in Days : Total(d) <= Cap \/ Overrun(d)
  BY WellFormedStep, SpendAssumption DEF CapInv, WellFormed, TypeOK, Reservation
<1> DEFINE Good(d) == IsFiniteSet(Opened(d)'.open) /\ (Total(d)' <= Cap \/ Overrun(d)')
<1> SUFFICES \A d \in Days : Good(d)
  BY <1>0 DEF CapInv, OpenFinite
<1>a. ASSUME NEW d \in Days, Opened(d)' = Opened(d), counted \subseteq counted'
      PROVE  Good(d)
  <2>1. IsFiniteSet(Opened(d)'.open)
    BY <1>0, <1>a DEF OpenFinite
  <2>2. Total(d)' = Total(d)
    BY <1>a DEF Total, Holding, Coins
  <2> QED  BY <1>0, <1>a, <2>1, <2>2, OverrunStays
<1>b. ASSUME NEW d \in Days, NEW spent, NEW open, WritesBack(d, spent, open)
      PROVE  /\ Total(d)' = spent + Holding(open)
             /\ Opened(d)'.open = open
             /\ \A e \in Days \ {d} : Opened(e)' = Opened(e)
  <2>1. /\ Opened(d)'.open = open /\ Opened(d)'.spent = spent
        /\ \A e \in Days \ {d} : Opened(e)' = Opened(e)
    BY <1>0, <1>b, WritesBackType
  <2> QED  BY <2>1 DEF Total, Holding, Coins
<1>1. ASSUME NEW r \in Reservation, Opens(r) PROVE \A d \in Days : Good(d)
  <2>0. r.day \in Days /\ counted' = counted
    BY <1>0, <1>1 DEF Opens
  <2>1. /\ Total(r.day)' = Opened(r.day).spent + Holding(Loaded(r.day).open \cup {r})
        /\ Opened(r.day)'.open = Loaded(r.day).open \cup {r}
        /\ \A e \in Days \ {r.day} : Opened(e)' = Opened(e)
    BY <1>1, <1>b, <2>0 DEF Opens
  <2>2. /\ IsFiniteSet(Loaded(r.day).open) /\ Holding(Loaded(r.day).open) \in Nat
        /\ Opened(r.day).spent \in Nat /\ Loaded(r.day).spent = Opened(r.day).spent
    BY <1>0, <2>0, LoadedHolds
  <2>3. Opened(r.day).spent + Holding(Loaded(r.day).open) + r.usd <= Cap
    BY <1>1, <2>2, HeldIsHolding DEF Opens, Fits
  <2>4. /\ IsFiniteSet(Loaded(r.day).open \cup {r})
        /\ Holding(Loaded(r.day).open \cup {r}) <= Holding(Loaded(r.day).open) + r.usd
        /\ r.usd \in Nat
    BY <2>2, CoinsChange, CoinSize
  <2>5. Holding(Loaded(r.day).open \cup {r}) \in Nat
    BY <2>4, CoinsFinite
  <2>6. Total(r.day)' <= Cap
    BY <1>0, <2>1, <2>2, <2>3, <2>4, <2>5
  <2>7. Good(r.day)
    BY <2>1, <2>4, <2>6
  <2> QED  BY <1>a, <2>0, <2>1, <2>7
<1>2. ASSUME NEW r \in granted, NEW actual \in Charges, Counts(r, actual)
      PROVE  \A d \in Days : Good(d)
  <2>0. /\ r \in Reservation /\ r.day \in Days /\ r \in Loaded(r.day).open
        /\ counted' = counted \cup {[res |-> r, actual |-> actual]}
        /\ actual \in Nat
    BY <1>0, <1>2 DEF Counts, Charges
  <2>1. /\ Total(r.day)' = Opened(r.day).spent + actual + Holding(Loaded(r.day).open \ {r})
        /\ Opened(r.day)'.open = Loaded(r.day).open \ {r}
        /\ \A e \in Days \ {r.day} : Opened(e)' = Opened(e)
    BY <1>2, <1>b, <2>0 DEF Counts
  <2>2. /\ IsFiniteSet(Loaded(r.day).open) /\ Holding(Loaded(r.day).open) \in Nat
        /\ Opened(r.day).spent \in Nat /\ Holding(Opened(r.day).open) \in Nat
        /\ Holding(Loaded(r.day).open) <= Holding(Opened(r.day).open)
    BY <1>0, <2>0, LoadedHolds
  <2>3. /\ IsFiniteSet(Loaded(r.day).open \ {r})
        /\ Holding(Loaded(r.day).open \ {r}) = Holding(Loaded(r.day).open) - r.usd
        /\ r.usd \in Nat
    BY <2>0, <2>2, CoinsChange, CoinSize
  <2>4. Total(r.day)' <= Cap \/ Overrun(r.day)'
    <3>1. CASE actual > r.usd
      <4> DEFINE c == [res |-> r, actual |-> actual]
      <4>1. c \in counted' /\ c.res = r /\ c.actual = actual
        BY <2>0
      <4> HIDE DEF c
      <4>2. Overrun(r.day)'
        BY <3>1, <4>1 DEF Overrun
      <4> QED  BY <4>2
    <3>2. CASE actual <= r.usd
      <4>1. CASE Overrun(r.day)
        BY <2>0, <4>1, OverrunStays
      <4>2. CASE Total(r.day) <= Cap
        <5>1. Opened(r.day).spent + Holding(Opened(r.day).open) <= Cap
          BY <4>2 DEF Total
        <5>2. Total(r.day)' <= Cap
          BY <1>0, <2>0, <2>1, <2>2, <2>3, <3>2, <5>1
        <5> QED  BY <5>2
      <4> QED  BY <1>0, <2>0, <4>1, <4>2
    <3> QED  BY <2>0, <2>3, <3>1, <3>2
  <2>5. Good(r.day)
    BY <2>1, <2>3, <2>4
  <2> QED  BY <1>a, <2>0, <2>1, <2>5
<1>3. ASSUME NEW d \in Days, NEW open \in SUBSET Loaded(d).open,
             WritesBack(d, Opened(d).spent, open), counted' = counted
      PROVE  \A e \in Days : Good(e)
  <2>1. /\ Total(d)' = Opened(d).spent + Holding(open)
        /\ Opened(d)'.open = open
        /\ \A e \in Days \ {d} : Opened(e)' = Opened(e)
    BY <1>3, <1>b
  <2>2. /\ IsFiniteSet(Opened(d).open) /\ open \in SUBSET Opened(d).open
        /\ Opened(d).spent \in Nat /\ Holding(Opened(d).open) \in Nat
    BY <1>0, LoadedHolds
  <2>3. IsFiniteSet(open) /\ Holding(open) \in Nat /\ Holding(open) <= Holding(Opened(d).open)
    BY <2>2, CoinsShrink
  <2>4. Total(d)' <= Total(d) /\ Total(d) \in Nat /\ Total(d)' \in Nat
    BY <2>1, <2>2, <2>3 DEF Total
  <2>5. Total(d)' <= Cap \/ Overrun(d)'
    BY <1>0, <1>3, <2>4, OverrunStays
  <2> QED  BY <1>3, <1>a, <2>1, <2>3, <2>5
<1>4. ASSUME NEW r \in granted, Frees(r) PROVE \A d \in Days : Good(d)
  <2>1. Loaded(r.day).open \ {r} \in SUBSET Loaded(r.day).open /\ r.day \in Days
    BY <1>0
  <2> QED  BY <1>3, <1>4, <2>1 DEF Frees
<1>5. ASSUME NEW d \in Days, Keeps(d) PROVE \A e \in Days : Good(e)
  <2>1. Loaded(d).open \in SUBSET Loaded(d).open
    OBVIOUS
  <2> QED  BY <1>3, <1>5, <2>1 DEF Keeps, HistoryKept
<1>6. ASSUME NEW d \in Days, Damage(d) \/ Stop(d) PROVE \A e \in Days : Good(e)
  <2>1. /\ Opened(d)'.spent \in {0, Cap} /\ Opened(d)'.open = {}
        /\ \A e \in Days \ {d} : Opened(e)' = Opened(e)
        /\ counted' = counted
    BY <1>0, <1>6, DamageEffect DEF Damage, Stop
  <2>2. Total(d)' = Opened(d)'.spent + Holding({})
    BY <2>1 DEF Total, Holding, Coins
  <2>3. Holding({}) = 0 /\ IsFiniteSet({})
    BY FS_EmptySet DEF Holding, Coins
  <2>4. Good(d)
    BY <1>0, <2>1, <2>2, <2>3
  <2> QED  BY <1>a, <2>1, <2>4
<1>7. CASE Waits
  BY <1>7, <1>a DEF Waits, HistoryKept, Opened
<1> QED
  BY <1>0, <1>1, <1>2, <1>4, <1>5, <1>6, <1>7, StepShape DEF WellFormed

\* It holds of the first state.
LEMMA CapInit ==
    ASSUME Init
    PROVE  CapInv
<1>1. WellFormed
  BY SpendAssumption DEF Init, WellFormed, TypeOK, DamageIsKnown, Missing, Times
<1>2. ASSUME NEW d \in Days
      PROVE  Opened(d).spent = 0 /\ Opened(d).open = {}
  BY DEF Init, Missing, Opened, EmptyFile
<1>3. Holding({}) = 0 /\ IsFiniteSet({})
  BY FS_EmptySet DEF Holding, Coins
<1>4. OpenFinite
  BY <1>2, <1>3 DEF OpenFinite
<1>5. ASSUME NEW d \in Days PROVE Total(d) <= Cap
  <2>1. Total(d) = 0 + Holding({})
    BY <1>2 DEF Total
  <2> QED  BY <1>3, <2>1, SpendAssumption
<1> QED
  BY <1>1, <1>4, <1>5 DEF CapInv

\* The inductive invariant of the cap.
THEOREM CapInvAlways == Spec => []CapInv
<1>1. Init => CapInv
  BY CapInit
<1>2. CapInv /\ [Next]_vars => CapInv'
  BY CapStep
<1> QED  BY <1>1, <1>2, PTL DEF Spec

\* The file of a lane's day never holds more than its cap, whatever expires,
\* settles late or is replaced, unless a provider charged more than was reserved.
THEOREM CapHolds == Spec => []WithinCap
<1>1. CapInv => WithinCap
  <2> SUFFICES ASSUME CapInv, NEW d \in Days, disk[d].kind = "file"
               PROVE  disk[d].spent + Held(disk[d]) <= Cap \/ Overrun(d)
    BY DEF WithinCap
  <2>1. Opened(d) = disk[d]
    BY DEF Opened
  <2> QED  BY <2>1, HeldIsHolding DEF CapInv, Total
<1> QED  BY <1>1, CapInvAlways, PTL

-----------------------------------------------------------------------------
(* Damage.  The file that replaces a damaged one has the whole cap spent,  *)
(* and a day's spend never falls while its file is there.                  *)

BlockInv ==
    /\ WellFormed /\ OpenFinite
    /\ \A d \in damaged \ stopped : Opened(d).spent >= Cap

\* Files stay finite, and spent days spent.
LEMMA BlockStep ==
    ASSUME CapInv, BlockInv, [Next]_vars
    PROVE  BlockInv'
<1>0. /\ WellFormed /\ WellFormed' /\ OpenFinite' /\ damaged \subseteq Days
      /\ granted \subseteq Reservation
      /\ \A r \in Reservation : r.day \in Days
      /\ Cap \in Nat /\ MaxCost \in Nat /\ MaxActual \in Nat
      /\ \A d \in damaged \ stopped : Opened(d).spent >= Cap
  BY CapStep, SpendAssumption DEF CapInv, BlockInv, WellFormed, TypeOK, Reservation
<1> SUFFICES \A d \in damaged' \ stopped' : Opened(d)'.spent >= Cap
  BY <1>0 DEF BlockInv
<1>1. ASSUME NEW d \in Days, NEW spent \in Nat, NEW open, WritesBack(d, spent, open),
             spent >= Opened(d).spent, damaged' = damaged, stopped' = stopped
      PROVE  \A e \in damaged' \ stopped' : Opened(e)'.spent >= Cap
  <2>1. /\ Opened(d)'.spent = spent
        /\ \A e \in Days \ {d} : Opened(e)' = Opened(e)
        /\ Opened(d).spent \in Nat
    BY <1>0, <1>1, WritesBackType, LoadedType DEF WellFormed, File
  <2> QED  BY <1>0, <1>1, <2>1
<1>2. \A d \in Days : Opened(d).spent \in Nat
  BY LoadedType DEF BlockInv, WellFormed, File
<1>3. ASSUME NEW r \in Reservation, Opens(r)
      PROVE  \A d \in damaged' \ stopped' : Opened(d)'.spent >= Cap
  BY <1>0, <1>1, <1>2, <1>3 DEF Opens
<1>4. ASSUME NEW r \in granted, NEW actual \in Charges, Counts(r, actual)
      PROVE  \A d \in damaged' \ stopped' : Opened(d)'.spent >= Cap
  <2>1. actual \in Nat /\ r.day \in Days
    BY <1>0 DEF Charges
  <2>2. Opened(r.day).spent + actual \in Nat /\ Opened(r.day).spent + actual >= Opened(r.day).spent
    BY <1>2, <2>1
  <2> QED  BY <1>1, <1>4, <2>1, <2>2 DEF Counts
<1>5. ASSUME NEW r \in granted, Frees(r)
      PROVE  \A d \in damaged' \ stopped' : Opened(d)'.spent >= Cap
  BY <1>0, <1>1, <1>2, <1>5 DEF Frees
<1>6. ASSUME NEW d \in Days, Keeps(d)
      PROVE  \A e \in damaged' \ stopped' : Opened(e)'.spent >= Cap
  BY <1>1, <1>2, <1>6 DEF Keeps, HistoryKept
<1>7. ASSUME NEW d \in Days, Damage(d)
      PROVE  \A e \in damaged' \ stopped' : Opened(e)'.spent >= Cap
  <2>1. /\ Opened(d)'.spent = Cap /\ \A e \in Days \ {d} : Opened(e)' = Opened(e)
        /\ damaged' = damaged \cup {d} /\ stopped' = stopped
    BY <1>0, <1>7, DamageEffect DEF Damage
  <2> QED  BY <1>0, <2>1
<1>8. ASSUME NEW d \in Days, Stop(d)
      PROVE  \A e \in damaged' \ stopped' : Opened(e)'.spent >= Cap
  <2>1. /\ \A e \in Days \ {d} : Opened(e)' = Opened(e)
        /\ damaged' = damaged /\ stopped' = stopped \cup {d}
    BY <1>0, <1>8, DamageEffect DEF Stop
  <2> QED  BY <1>0, <2>1
<1>9. CASE Waits
  BY <1>0, <1>9 DEF Waits, HistoryKept, Opened
<1> QED
  BY <1>3, <1>4, <1>5, <1>6, <1>7, <1>8, <1>9, StepShape DEF BlockInv, WellFormed

\* A day whose file was damaged, and replaced with its cap spent, grants nothing
\* more: no operation on it makes room.
THEOREM ReplacedFileBlocks == Spec => ReplacedFileBlocksTheDay
<1>1. Init => BlockInv
  BY CapInit DEF Init, CapInv, BlockInv
<1>2. CapInv /\ BlockInv /\ [Next]_vars => BlockInv'
  BY BlockStep
<1>3. BlockInv /\ [Next]_vars
        => [\A r \in granted' \ granted : r.day \in damaged => r.day \in stopped]_vars
  <2> SUFFICES ASSUME BlockInv, [Next]_vars, NEW r \in granted' \ granted, r.day \in damaged
               PROVE  r.day \in stopped
    OBVIOUS
  <2>1. /\ WellFormed /\ OpenFinite /\ TypeOK /\ damaged \subseteq Days
        /\ Cap \in Nat
    BY SpendAssumption DEF BlockInv, WellFormed, TypeOK
  <2>2. r \in Reservation /\ Opens(r)
    <3>1. PICK q \in Reservation : Opens(q)
      BY <2>1, StepShape DEF Counts, Frees, Keeps, HistoryKept, Damage, Stop, Waits
    <3>2. r = q
      BY <3>1 DEF Opens
    <3> QED  BY <3>1, <3>2
  <2>3. /\ Opened(r.day).spent \in Nat /\ Loaded(r.day).spent = Opened(r.day).spent
        /\ Holding(Loaded(r.day).open) \in Nat
        /\ r.usd \in Nat /\ r.usd >= 1
    BY <2>1, <2>2, LoadedHolds, CoinSize
  <2>4. Opened(r.day).spent + Holding(Loaded(r.day).open) + r.usd <= Cap
    BY <2>2, <2>3, HeldIsHolding DEF Opens, Fits
  <2>5. Opened(r.day).spent < Cap
    BY <2>1, <2>3, <2>4
  <2> QED  BY <2>1, <2>3, <2>5 DEF BlockInv
<1> QED
  BY <1>1, <1>2, <1>3, CapInvAlways, PTL DEF Spec, ReplacedFileBlocksTheDay

-----------------------------------------------------------------------------
(* The sum.  The charges of a day are counted in coins as well.            *)

Charged(d) ==
    {x \in counted \X (1 .. MaxActual + MaxCost) : x[1].res.day = d /\ x[2] <= x[1].actual}

SumInv ==
    /\ HoldInv
    /\ IsFiniteSet(counted)
    /\ \A c \in counted : c.actual \in Charges
    /\ \A d \in Days \ damaged : Opened(d).spent = Cardinality(Charged(d))

\* A charge that is new adds its amount to its own day's, and nothing elsewhere.
LEMMA ChargedGrows ==
    ASSUME IsFiniteSet(counted), NEW c, c \notin counted, counted' = counted \cup {c},
           c.actual \in Charges, NEW d
    PROVE  Cardinality(Charged(d)') =
               Cardinality(Charged(d)) + (IF c.res.day = d THEN c.actual ELSE 0)
<1> DEFINE amounts == 1 .. MaxActual + MaxCost
           A == Charged(d)
           B == {c} \X (1 .. c.actual)
<1>0. /\ MaxActual \in Nat /\ MaxCost \in Nat /\ MaxActual + MaxCost \in Nat
      /\ c.actual \in Nat /\ c.actual <= MaxActual + MaxCost
  BY SpendAssumption DEF Charges
<1>1. IsFiniteSet(amounts)
  BY <1>0, FS_Interval
<1>2. IsFiniteSet(A) /\ Cardinality(A) \in Nat
  <2>1. IsFiniteSet(counted \X amounts)
    BY <1>1, FS_Product
  <2>2. A \in SUBSET (counted \X amounts)
    BY DEF Charged
  <2> QED  BY <2>1, <2>2, FS_Subset, FS_CardinalityType
<1>3. CASE c.res.day = d
  <2>1. IsFiniteSet(B) /\ Cardinality(B) = c.actual
    BY <1>0, RowSize
  <2>2. Charged(d)' = A \cup B
    BY <1>0, <1>3 DEF Charged
  <2>3. A \cap B = {}
    BY DEF Charged
  <2> HIDE DEF A, B
  <2>4. Cardinality(A \cap B) = 0
    BY <2>3, FS_EmptySet
  <2>5. Cardinality(A \cup B) = Cardinality(A) + Cardinality(B) - Cardinality(A \cap B)
    BY <1>2, <2>1, FS_Union
  <2>6. Cardinality(A \cup B) = Cardinality(A) + c.actual
    BY <1>0, <1>2, <2>1, <2>4, <2>5
  <2> QED  BY <1>3, <2>2, <2>6 DEF A
<1>4. CASE c.res.day # d
  <2>1. Charged(d)' = A
    BY <1>4 DEF Charged
  <2> QED  BY <1>2, <1>4, <2>1
<1> QED  BY <1>3, <1>4

\* Every step keeps the sum of every day whose file was never damaged.
LEMMA SumStep ==
    ASSUME SumInv, [Next]_vars
    PROVE  SumInv'
<1>0. /\ HoldInv /\ HoldInv' /\ WellFormed /\ TypeOK
      /\ granted \subseteq Reservation
      /\ \A r \in Reservation : r.day \in Days
      /\ IsFiniteSet(counted)
      /\ \A c \in counted : c.actual \in Charges
      /\ \A d \in Days \ damaged : Opened(d).spent = Cardinality(Charged(d))
  BY HoldStep DEF SumInv, HoldInv, WellFormed, TypeOK, Reservation
<1> DEFINE Sums == \A d \in Days \ damaged' : Opened(d)'.spent = Cardinality(Charged(d)')
<1>a. ASSUME counted' = counted, damaged \subseteq damaged',
             \A d \in Days \ damaged' : Opened(d)'.spent = Opened(d).spent
      PROVE  SumInv'
  <2>1. \A d \in Days : Charged(d)' = Charged(d)
    BY <1>a DEF Charged
  <2>2. Sums
    BY <1>0, <1>a, <2>1
  <2> QED  BY <1>0, <1>a, <2>2 DEF SumInv
<1>b. ASSUME NEW d \in Days, NEW open, WritesBack(d, Opened(d).spent, open),
             counted' = counted, damaged' = damaged
      PROVE  SumInv'
  <2>1. /\ Opened(d)'.spent = Opened(d).spent
        /\ \A e \in Days \ {d} : Opened(e)' = Opened(e)
    BY <1>0, <1>b, WritesBackType
  <2> QED  BY <1>a, <1>b, <2>1
<1>1. ASSUME NEW r \in Reservation, Opens(r) PROVE SumInv'
  BY <1>0, <1>1, <1>b DEF Opens
<1>2. ASSUME NEW r \in granted, NEW actual \in Charges, Counts(r, actual) PROVE SumInv'
  <2> DEFINE c == [res |-> r, actual |-> actual]
  <2>1. c.res = r /\ c.actual = actual /\ counted' = counted \cup {c} /\ damaged' = damaged
    BY <1>2 DEF Counts
  <2>2. c \notin counted
    <3>1. r \in Opened(r.day).open
      BY <1>0, <1>2, LoadedType DEF Counts
    <3>2. r \notin Ended
      BY <1>0, <3>1 DEF HoldInv, HeldUntilTTL, Ended
    <3> QED  BY <2>1, <3>2 DEF Ended
  <2>3. /\ r.day \in Days
        /\ Opened(r.day)'.spent = Opened(r.day).spent + actual
        /\ \A e \in Days \ {r.day} : Opened(e)' = Opened(e)
    BY <1>0, <1>2, WritesBackType DEF Counts
  <2>4. \A d \in Days : Opened(d).spent \in Nat
    BY <1>0, LoadedType DEF File
  <2> HIDE DEF c
  <2>5. \A d \in Days : Cardinality(Charged(d)') =
                            Cardinality(Charged(d)) + (IF r.day = d THEN actual ELSE 0)
    BY <1>0, <2>1, <2>2, ChargedGrows
  <2>6. Sums
    BY <1>0, <2>1, <2>3, <2>4, <2>5
  <2>7. IsFiniteSet(counted')
    BY <1>0, <2>1, FS_AddElement
  <2>8. \A x \in counted' : x.actual \in Charges
    BY <1>0, <2>1
  <2> QED  BY <1>0, <2>6, <2>7, <2>8 DEF SumInv, Charges
<1>3. ASSUME NEW r \in granted, Frees(r) PROVE SumInv'
  BY <1>0, <1>3, <1>b DEF Frees
<1>4. ASSUME NEW d \in Days, Keeps(d) PROVE SumInv'
  BY <1>4, <1>b DEF Keeps, HistoryKept
<1>5. ASSUME NEW d \in Days, Damage(d) \/ Stop(d) PROVE SumInv'
  <2>1. /\ \A e \in Days \ {d} : Opened(e)' = Opened(e)
        /\ counted' = counted /\ damaged \subseteq damaged' /\ d \in damaged'
    BY <1>0, <1>5, DamageEffect DEF Damage, Stop
  <2> QED  BY <1>a, <2>1
<1>6. CASE Waits
  BY <1>6, <1>a DEF Waits, HistoryKept, Opened
<1> QED
  BY <1>0, <1>1, <1>2, <1>3, <1>4, <1>5, <1>6, StepShape

\* It holds of the first state.
LEMMA SumInit ==
    ASSUME Init
    PROVE  SumInv
<1>1. HoldInv /\ counted = {}
  BY HoldInit DEF Init
<1>2. ASSUME NEW d \in Days
      PROVE  Opened(d).spent = 0
  BY DEF Init, Missing, Opened, EmptyFile
<1>3. ASSUME NEW d \in Days
      PROVE  Cardinality(Charged(d)) = 0
  <2>1. Charged(d) = {}
    BY <1>1 DEF Charged
  <2> QED  BY <2>1, FS_EmptySet
<1> QED  BY <1>1, <1>2, <1>3, FS_EmptySet DEF SumInv

\* The spend of a day is what was charged for its own reservations, each once, none
\* of them released, and nothing else, unless its file was damaged.
THEOREM SpendIsTheSum == Spec => []SpendIsTheSumOfCharges
<1>1. Init => SumInv
  BY SumInit
<1>2. SumInv /\ [Next]_vars => SumInv'
  BY SumStep
<1>3. SumInv => SpendIsTheSumOfCharges
  BY DEF SumInv, HoldInv, EndedOnce, Charged, SpendIsTheSumOfCharges
<1> QED  BY <1>1, <1>2, <1>3, PTL DEF Spec

-----------------------------------------------------------------------------
(* What reservations were granted for.  Of a charge only the part counts   *)
(* that its reservation held: then no overrun takes a day past the cap.    *)

Within(d) ==
    {x \in counted \X (1 .. MaxCost) :
        x[1].res.day = d /\ x[2] <= x[1].actual /\ x[2] <= x[1].res.usd}

ClaimInv ==
    /\ CapInv /\ SumInv
    /\ \A d \in Days \ damaged : Holding(Opened(d).open) + Cardinality(Within(d)) <= Cap

\* The part of the charges that was reserved is no more than the charges.
LEMMA WithinSize ==
    ASSUME SumInv, NEW d \in Days
    PROVE  /\ IsFiniteSet(Within(d)) /\ Cardinality(Within(d)) \in Nat
           /\ d \notin damaged => Cardinality(Within(d)) <= Opened(d).spent
<1>0. MaxActual \in Nat /\ MaxCost \in Nat /\ IsFiniteSet(counted)
  BY SpendAssumption DEF SumInv
<1>1. IsFiniteSet(Charged(d)) /\ Cardinality(Charged(d)) \in Nat
  <2>1. IsFiniteSet(1 .. MaxActual + MaxCost)
    BY <1>0, FS_Interval
  <2>2. IsFiniteSet(counted \X (1 .. MaxActual + MaxCost))
    BY <1>0, <2>1, FS_Product
  <2>3. Charged(d) \in SUBSET (counted \X (1 .. MaxActual + MaxCost))
    BY DEF Charged
  <2> QED  BY <2>2, <2>3, FS_Subset, FS_CardinalityType
<1>2. Within(d) \in SUBSET Charged(d)
  BY <1>0 DEF Within, Charged
<1>3. IsFiniteSet(Within(d)) /\ Cardinality(Within(d)) <= Cardinality(Charged(d))
  BY <1>1, <1>2, FS_Subset
<1> QED  BY <1>1, <1>3, FS_CardinalityType DEF SumInv

\* A charge adds to it at most what its reservation held.
LEMMA WithinGrows ==
    ASSUME SumInv, NEW c, counted' = counted \cup {c}, c.res \in Reservation, NEW d \in Days
    PROVE  /\ c.res.day # d => Within(d)' = Within(d)
           /\ Cardinality(Within(d)') \in Nat
           /\ Cardinality(Within(d)') <= Cardinality(Within(d)) + c.res.usd
<1>1. IsFiniteSet(Within(d)) /\ Cardinality(Within(d)) \in Nat
  BY WithinSize
<1> DEFINE B == {c} \X (1 .. c.res.usd)
<1>2. /\ IsFiniteSet(B) /\ Cardinality(B) = c.res.usd /\ c.res.usd \in Nat
  BY CoinSize, RowSize
<1>3. Within(d)' \in SUBSET (Within(d) \cup B)
  BY <1>2 DEF Within
<1>4. c.res.day # d => Within(d)' = Within(d)
  BY DEF Within
<1> HIDE DEF B
<1>5. /\ IsFiniteSet(Within(d) \cup B)
      /\ Cardinality(Within(d) \cup B) =
            Cardinality(Within(d)) + Cardinality(B) - Cardinality(Within(d) \cap B)
  BY <1>1, <1>2, FS_Union
<1>6. Cardinality(Within(d) \cap B) \in Nat
  BY <1>1, FS_Intersection, FS_CardinalityType
<1>7. /\ IsFiniteSet(Within(d)') /\ Cardinality(Within(d)') \in Nat
      /\ Cardinality(Within(d)') <= Cardinality(Within(d) \cup B)
  BY <1>3, <1>5, FS_Subset, FS_CardinalityType
<1>8. Cardinality(Within(d) \cup B) <= Cardinality(Within(d)) + c.res.usd
      /\ Cardinality(Within(d) \cup B) \in Nat
  BY <1>1, <1>2, <1>5, <1>6, FS_CardinalityType
<1> QED  BY <1>1, <1>2, <1>4, <1>7, <1>8

\* Every step keeps the claims of a day within the cap.
LEMMA ClaimStep ==
    ASSUME ClaimInv, [Next]_vars
    PROVE  ClaimInv'
<1>0. /\ CapInv /\ CapInv' /\ SumInv /\ SumInv' /\ WellFormed /\ OpenFinite /\ TypeOK
      /\ granted \subseteq Reservation
      /\ \A r \in Reservation : r.day \in Days
      /\ Cap \in Nat
      /\ \A d \in Days \ damaged : Holding(Opened(d).open) + Cardinality(Within(d)) <= Cap
  BY CapStep, SumStep, SpendAssumption DEF ClaimInv, CapInv, WellFormed, TypeOK, Reservation
<1> DEFINE Good(d) == d \notin damaged' => Holding(Opened(d).open)' + Cardinality(Within(d)') <= Cap
<1> SUFFICES \A d \in Days : Good(d)
  BY <1>0 DEF ClaimInv
<1>h. ASSUME NEW d \in Days PROVE Holding(Opened(d).open)' = Holding(Opened(d)'.open)
  BY DEF Holding, Coins
<1>a. ASSUME NEW d \in Days, Opened(d)' = Opened(d), Within(d)' = Within(d),
             damaged \subseteq damaged'
      PROVE  Good(d)
  BY <1>0, <1>a, <1>h
<1>b. ASSUME NEW d \in Days, NEW open \in SUBSET Loaded(d).open,
             WritesBack(d, Opened(d).spent, open), counted' = counted, damaged' = damaged
      PROVE  \A e \in Days : Good(e)
  <2>1. /\ Opened(d)'.open = open
        /\ \A e \in Days \ {d} : Opened(e)' = Opened(e)
    BY <1>0, <1>b, WritesBackType
  <2>2. \A e \in Days : Within(e)' = Within(e)
    BY <1>b DEF Within
  <2>3. Loaded(d).open \subseteq Opened(d).open /\ IsFiniteSet(Opened(d).open)
        /\ Holding(Opened(d).open) \in Nat
    BY <1>0, LoadedHolds
  <2>4. open \in SUBSET Opened(d).open
    BY <2>3
  <2>5. Holding(open) \in Nat /\ Holding(open) <= Holding(Opened(d).open)
    BY <2>3, <2>4, CoinsShrink
  <2>6. Cardinality(Within(d)) \in Nat
    BY <1>0, WithinSize
  <2>7. Good(d)
    <3>1. Holding(Opened(d).open)' = Holding(open) /\ Within(d)' = Within(d)
      BY <1>h, <2>1, <2>2
    <3> QED  BY <1>0, <1>b, <2>3, <2>5, <2>6, <3>1
  <2> QED  BY <1>a, <1>b, <2>1, <2>2, <2>7
<1>1. ASSUME NEW r \in Reservation, Opens(r) PROVE \A d \in Days : Good(d)
  <2>0. r.day \in Days /\ counted' = counted /\ damaged' = damaged
    BY <1>0, <1>1 DEF Opens
  <2>1. /\ Opened(r.day)'.open = Loaded(r.day).open \cup {r}
        /\ \A e \in Days \ {r.day} : Opened(e)' = Opened(e)
    BY <1>0, <1>1, WritesBackType DEF Opens
  <2>2. \A e \in Days : Within(e)' = Within(e)
    BY <2>0 DEF Within
  <2>3. /\ IsFiniteSet(Loaded(r.day).open) /\ Holding(Loaded(r.day).open) \in Nat
        /\ Opened(r.day).spent \in Nat /\ Loaded(r.day).spent = Opened(r.day).spent
    BY <1>0, <2>0, LoadedHolds
  <2>4. Opened(r.day).spent + Holding(Loaded(r.day).open) + r.usd <= Cap
    BY <1>1, <2>3, HeldIsHolding DEF Opens, Fits
  <2>5. /\ IsFiniteSet(Loaded(r.day).open \cup {r}) /\ r.usd \in Nat
        /\ Holding(Loaded(r.day).open \cup {r}) <= Holding(Loaded(r.day).open) + r.usd
    BY <2>3, CoinsChange, CoinSize
  <2>6. Holding(Loaded(r.day).open \cup {r}) \in Nat
    BY <2>5, CoinsFinite
  <2>7. /\ Cardinality(Within(r.day)) \in Nat
        /\ r.day \notin damaged => Cardinality(Within(r.day)) <= Opened(r.day).spent
    BY <1>0, <2>0, WithinSize
  <2>8. Good(r.day)
    <3>1. Holding(Opened(r.day).open)' = Holding(Loaded(r.day).open \cup {r})
      BY <1>h, <2>0, <2>1
    <3>2. Within(r.day)' = Within(r.day)
      BY <2>0, <2>2
    <3> QED  BY <1>0, <2>0, <2>3, <2>4, <2>5, <2>6, <2>7, <3>1, <3>2
  <2> QED  BY <1>a, <2>0, <2>1, <2>2, <2>8
<1>2. ASSUME NEW r \in granted, NEW actual \in Charges, Counts(r, actual)
      PROVE  \A d \in Days : Good(d)
  <2> DEFINE c == [res |-> r, actual |-> actual]
  <2>0. /\ r \in Reservation /\ r.day \in Days /\ r \in Loaded(r.day).open
        /\ c.res = r /\ counted' = counted \cup {c} /\ damaged' = damaged
    BY <1>0, <1>2 DEF Counts
  <2> HIDE DEF c
  <2>1. /\ Opened(r.day)'.open = Loaded(r.day).open \ {r}
        /\ \A e \in Days \ {r.day} : Opened(e)' = Opened(e)
    BY <1>0, <1>2, <2>0, WritesBackType DEF Counts
  <2>2. /\ IsFiniteSet(Loaded(r.day).open) /\ Holding(Loaded(r.day).open) \in Nat
        /\ Holding(Opened(r.day).open) \in Nat
        /\ Holding(Loaded(r.day).open) <= Holding(Opened(r.day).open)
    BY <1>0, <2>0, LoadedHolds
  <2>3. /\ IsFiniteSet(Loaded(r.day).open \ {r})
        /\ Holding(Loaded(r.day).open \ {r}) = Holding(Loaded(r.day).open) - r.usd
        /\ r.usd \in Nat
    BY <2>0, <2>2, CoinsChange, CoinSize
  <2>4. /\ \A d \in Days : r.day # d => Within(d)' = Within(d)
        /\ Cardinality(Within(r.day)') \in Nat
        /\ Cardinality(Within(r.day)') <= Cardinality(Within(r.day)) + r.usd
        /\ Cardinality(Within(r.day)) \in Nat
    BY <1>0, <2>0, WithinGrows, WithinSize
  <2>5. Good(r.day)
    <3>1. Holding(Opened(r.day).open)' = Holding(Loaded(r.day).open \ {r})
      BY <1>h, <2>0, <2>1
    <3> QED  BY <1>0, <2>0, <2>2, <2>3, <2>4, <3>1
  <2> QED  BY <1>a, <2>0, <2>1, <2>4, <2>5
<1>3. ASSUME NEW r \in granted, Frees(r) PROVE \A d \in Days : Good(d)
  <2>1. Loaded(r.day).open \ {r} \in SUBSET Loaded(r.day).open /\ r.day \in Days
    BY <1>0
  <2> QED  BY <1>3, <1>b, <2>1 DEF Frees
<1>4. ASSUME NEW d \in Days, Keeps(d) PROVE \A e \in Days : Good(e)
  BY <1>4, <1>b DEF Keeps, HistoryKept
<1>5. ASSUME NEW d \in Days, Damage(d) \/ Stop(d) PROVE \A e \in Days : Good(e)
  <2>1. /\ \A e \in Days \ {d} : Opened(e)' = Opened(e)
        /\ counted' = counted /\ damaged \subseteq damaged' /\ d \in damaged'
    BY <1>0, <1>5, DamageEffect DEF Damage, Stop
  <2>2. \A e \in Days : Within(e)' = Within(e)
    BY <2>1 DEF Within
  <2> QED  BY <1>a, <2>1, <2>2
<1>6. CASE Waits
  BY <1>6, <1>a DEF Waits, HistoryKept, Opened, Within
<1> QED
  BY <1>0, <1>1, <1>2, <1>3, <1>4, <1>5, <1>6, StepShape

\* It holds of the first state.
LEMMA ClaimInit ==
    ASSUME Init
    PROVE  ClaimInv
<1>1. CapInv /\ SumInv /\ counted = {}
  BY CapInit, SumInit DEF Init
<1>2. ASSUME NEW d \in Days PROVE Holding(Opened(d).open) + Cardinality(Within(d)) <= Cap
  <2>1. Opened(d).open = {} /\ Within(d) = {}
    BY <1>1 DEF Init, Missing, Opened, EmptyFile, Within
  <2>2. Coins({}) = {}
    BY DEF Coins
  <2> QED  BY <2>1, <2>2, FS_EmptySet, SpendAssumption DEF Holding
<1> QED  BY <1>1, <1>2 DEF ClaimInv

\* What a day holds and what it was charged are two numbers within the cap.
LEMMA ClaimSize ==
    ASSUME ClaimInv
    PROVE  \A d \in Days \ damaged :
               /\ IsFiniteSet(Coins(Opened(d).open)) /\ IsFiniteSet(Within(d))
               /\ Cardinality(Coins(Opened(d).open)) \in Nat /\ Cardinality(Within(d)) \in Nat
               /\ Cardinality(Coins(Opened(d).open)) + Cardinality(Within(d)) <= Cap
<1>1. ASSUME NEW d \in Days \ damaged
      PROVE  /\ IsFiniteSet(Coins(Opened(d).open)) /\ IsFiniteSet(Within(d))
             /\ Cardinality(Coins(Opened(d).open)) \in Nat /\ Cardinality(Within(d)) \in Nat
             /\ Cardinality(Coins(Opened(d).open)) + Cardinality(Within(d)) <= Cap
  <2>1. IsFiniteSet(Opened(d).open)
    BY DEF ClaimInv, CapInv, OpenFinite
  <2>2. IsFiniteSet(Coins(Opened(d).open)) /\ Holding(Opened(d).open) \in Nat
    BY <2>1, CoinsFinite
  <2>3. IsFiniteSet(Within(d)) /\ Cardinality(Within(d)) \in Nat
    BY WithinSize DEF ClaimInv
  <2> QED  BY <2>2, <2>3 DEF ClaimInv, Holding
<1> QED  BY <1>1
=============================================================================
