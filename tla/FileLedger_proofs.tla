-------------------------- MODULE FileLedger_proofs --------------------------
(***************************************************************************)
(* Theorems about FileLedger, for every value of the constants: a refused  *)
(* disk has a reason, nothing told is lost, and without a power loss the   *)
(* files keep what LedgerBudget promises.                                  *)
(***************************************************************************)
EXTENDS FileLedger, TLAPS, WellFoundedInduction, SequenceTheorems

P == INSTANCE LedgerBudget_proofs WITH st <- Durable, today <- seen

-----------------------------------------------------------------------------
(* Reading a journal, line by line.                                        *)

\* Induction over the naturals, for a set of them.
LEMMA Naturals_Set ==
    ASSUME NEW S, 0 \in S, \A n \in Nat : n \in S => n + 1 \in S
    PROVE  \A n \in Nat : n \in S
<1> DEFINE Less == {x \in Nat \X Nat : x[1] < x[2]}
<1>1. IsWellFoundedOn(Less, Nat)
  BY NatLessThanWellFounded DEF OpToRel
<1> SUFFICES ASSUME Nat \ S # {} PROVE FALSE
  OBVIOUS
<1> HIDE DEF Less
<1>2. PICK x \in Nat \ S : \A y \in Nat \ S : ~(<<y, x>> \in Less)
  BY <1>1, WFMin
<1>3. \A y \in Nat \ S : ~(y < x)
  BY <1>2 DEF Less
<1>4. x # 0 /\ x - 1 \in Nat /\ x - 1 < x /\ x = (x - 1) + 1
  OBVIOUS
<1> QED  BY <1>3, <1>4

\* The same up to a bound.
LEMMA UpTo ==
    ASSUME NEW m \in Nat, NEW S, 0 \in S,
           \A n \in 0 .. m : n < m /\ n \in S => n + 1 \in S
    PROVE  \A n \in 0 .. m : n \in S
<1> DEFINE T == {n \in Nat : n <= m => n \in S}
<1>1. 0 \in T
  OBVIOUS
<1>2. ASSUME NEW n \in Nat, n \in T PROVE n + 1 \in T
  BY <1>2
<1> HIDE DEF T
<1>3. \A n \in Nat : n \in T
  BY <1>1, <1>2, Naturals_Set
<1> QED  BY <1>3 DEF T

\* A function defined by its first value and a step from each value to the next
\* exists, whatever the step.
Steps(f, journal, acc, m) ==
    f = [n \in 0 .. m |-> IF n = 0 THEN acc ELSE ReadLine(f[n - 1], journal[n])]

\* What Reading is: the accumulator, and each line read after the lines before.
LEMMA ReadingIs ==
    ASSUME NEW journal, NEW acc, Len(journal) \in Nat
    PROVE  /\ Reading(journal, acc)[0] = acc
           /\ \A n \in 1 .. Len(journal) :
                 Reading(journal, acc)[n] = ReadLine(Reading(journal, acc)[n - 1], journal[n])
<1> DEFINE N == Len(journal)
           S == {m \in Nat : \E f : Steps(f, journal, acc, m)}
<1>1. 0 \in S
  <2> DEFINE f == [n \in 0 .. 0 |-> acc]
  <2>1. f = [n \in 0 .. 0 |-> IF n = 0 THEN acc ELSE ReadLine(f[n - 1], journal[n])]
    OBVIOUS
  <2> HIDE DEF f
  <2> QED  BY <2>1 DEF Steps
<1>2. ASSUME NEW m \in Nat, m \in S PROVE m + 1 \in S
  <2>1. PICK f : Steps(f, journal, acc, m)
    BY <1>2
  <2> DEFINE g == [n \in 0 .. m + 1 |-> IF n <= m THEN f[n] ELSE ReadLine(f[m], journal[m + 1])]
  <2>2. \A n \in 0 .. m + 1 :
           g[n] = IF n = 0 THEN acc ELSE ReadLine(g[n - 1], journal[n])
    <3> SUFFICES ASSUME NEW n \in 0 .. m + 1
                 PROVE  g[n] = IF n = 0 THEN acc ELSE ReadLine(g[n - 1], journal[n])
      OBVIOUS
    <3>1. CASE n = 0
      BY <2>1, <3>1 DEF Steps
    <3>2. CASE n # 0 /\ n <= m
      BY <2>1, <3>2 DEF Steps
    <3>3. CASE n = m + 1
      BY <3>3
    <3> QED  BY <3>1, <3>2, <3>3
  <2>3. g = [n \in 0 .. m + 1 |-> g[n]]
    OBVIOUS
  <2> HIDE DEF g
  <2>4. g = [n \in 0 .. m + 1 |-> IF n = 0 THEN acc ELSE ReadLine(g[n - 1], journal[n])]
    BY <2>2, <2>3
  <2> QED  BY <2>4 DEF Steps
<1> HIDE DEF S
<1>3. N \in S
  BY <1>1, <1>2, Naturals_Set
<1>4. \E f : Steps(f, journal, acc, N)
  BY <1>3 DEF S
<1>5. Reading(journal, acc) = CHOOSE f : Steps(f, journal, acc, N)
  BY DEF Reading, Steps
<1>6. Steps(Reading(journal, acc), journal, acc, N)
  BY <1>4, <1>5
<1> QED  BY <1>6 DEF Steps

\* The same of the state that is kept.
Keeps(f, snapshot, journal, m) ==
    f = [n \in 0 .. m |-> IF n = 0 THEN snapshot.st ELSE KeepLine(snapshot, f[n - 1], journal[n])]

\* What Kept is: the snapshot's state, and each line applied after the lines before.
LEMMA KeptIs ==
    ASSUME NEW snapshot, NEW journal, Len(journal) \in Nat
    PROVE  /\ Kept(snapshot, journal)[0] = snapshot.st
           /\ \A n \in 1 .. Len(journal) :
                 Kept(snapshot, journal)[n]
                 = KeepLine(snapshot, Kept(snapshot, journal)[n - 1], journal[n])
<1> DEFINE N == Len(journal)
           S == {m \in Nat : \E f : Keeps(f, snapshot, journal, m)}
<1>1. 0 \in S
  <2> DEFINE f == [n \in 0 .. 0 |-> snapshot.st]
  <2>1. f = [n \in 0 .. 0 |->
               IF n = 0 THEN snapshot.st ELSE KeepLine(snapshot, f[n - 1], journal[n])]
    OBVIOUS
  <2> HIDE DEF f
  <2> QED  BY <2>1 DEF Keeps
<1>2. ASSUME NEW m \in Nat, m \in S PROVE m + 1 \in S
  <2>1. PICK f : Keeps(f, snapshot, journal, m)
    BY <1>2
  <2> DEFINE g == [n \in 0 .. m + 1 |->
                     IF n <= m THEN f[n] ELSE KeepLine(snapshot, f[m], journal[m + 1])]
  <2>2. \A n \in 0 .. m + 1 :
           g[n] = IF n = 0 THEN snapshot.st ELSE KeepLine(snapshot, g[n - 1], journal[n])
    <3> SUFFICES ASSUME NEW n \in 0 .. m + 1
                 PROVE  g[n] = IF n = 0 THEN snapshot.st
                               ELSE KeepLine(snapshot, g[n - 1], journal[n])
      OBVIOUS
    <3>1. CASE n = 0
      BY <2>1, <3>1 DEF Keeps
    <3>2. CASE n # 0 /\ n <= m
      BY <2>1, <3>2 DEF Keeps
    <3>3. CASE n = m + 1
      BY <3>3
    <3> QED  BY <3>1, <3>2, <3>3
  <2>3. g = [n \in 0 .. m + 1 |-> g[n]]
    OBVIOUS
  <2> HIDE DEF g
  <2>4. g = [n \in 0 .. m + 1 |->
               IF n = 0 THEN snapshot.st ELSE KeepLine(snapshot, g[n - 1], journal[n])]
    BY <2>2, <2>3
  <2> QED  BY <2>4 DEF Keeps
<1> HIDE DEF S
<1>3. N \in S
  BY <1>1, <1>2, Naturals_Set
<1>4. \E f : Keeps(f, snapshot, journal, N)
  BY <1>3 DEF S
<1>5. Kept(snapshot, journal) = CHOOSE f : Keeps(f, snapshot, journal, N)
  BY DEF Kept, Keeps
<1>6. Keeps(Kept(snapshot, journal), snapshot, journal, N)
  BY <1>4, <1>5
<1> QED  BY <1>6 DEF Keeps

-----------------------------------------------------------------------------
(* A journal that goes on from its snapshot, and one the snapshot contains. *)

StartOf(snapshot) == [ok |-> TRUE, seq |-> snapshot.seq, st |-> snapshot.st]

Chain(snapshot, journal) == Reading(journal, StartOf(snapshot))

\* The journal continues the snapshot to its end.
Continues(snapshot, journal) == Chain(snapshot, journal)[Len(journal)].ok

\* The snapshot contains every line of the journal.
Contains(snapshot, journal) == \A i \in DOMAIN journal : journal[i].seq <= snapshot.seq

Snapshot == [st : State, seq : Nat]

\* The types of the disk.
Disk == [snapshot : Snapshot, journal : Seq(Event), synced : Nat, torn : BOOLEAN,
         present : BOOLEAN, archive : SUBSET {MonthOf[d] : d \in Days}]

-----------------------------------------------------------------------------
(* The inductive invariant.                                                *)

\* A line names a reservation where it needs one.
LineOK(e) ==
    /\ e.type # "CHECKPOINT" => e.res \in Reservation
    /\ e.type = "RECOVERY" => e.outcome \in {"released", "settled"}
LinesOK(lines) == \A i \in 1 .. Len(lines) : LineOK(lines[i])

\* The journal goes on from the snapshot, or a compaction that was broken off has
\* left a snapshot that contains all of it.
DiskOK ==
    /\ disk \in Disk
    /\ disk.synced <= Len(disk.journal)
    /\ LinesOK(disk.journal)
    /\ ~disk.present => disk.journal = <<>>
    /\ \/ Continues(disk.snapshot, disk.journal)
       \/ Contains(disk.snapshot, disk.journal)

\* The sequence of the last line.
LastSeq == disk.snapshot.seq + Len(disk.journal)

Checkpoint == NewEvent("CHECKPOINT", NoRes, 0, "checkpoint")

\* The process that holds the lock, and the line it writes.
Holder == proc[lock]
Line == Holder.todo[1]

\* The line of a reservation the durable state has room for.
OpensOne ==
    \E spec \in Specs, id \in Ids :
        /\ Line = NewEvent("RESERVE", NewReservation(id, seen, spec), 0, "reserved")
        /\ CanReserve(Durable, seen, spec)
        /\ \A r \in Durable.live \cup Ended : r.id # id

\* The line that ends the reservation r.
Ends(e, r) ==
    /\ e.res = r
    /\ \/ \E actual \in 0 .. MaxActual, outcome \in {"success", "provider_failure"} :
             e = NewEvent("SETTLE", r, actual, outcome)
       \/ \E actual \in 0 .. MaxActual : e = NewEvent("RECOVERY", r, actual, "settled")
       \/ e = NewEvent("RECOVERY", r, 0, "released")
       \/ e = NewEvent("RELEASE", r, 0, "released")
       \/ e = NewEvent("SETTLE_UNKNOWN", r, r.cost, "unknown")

\* The line about the charge c, which is above its reservation.
TellsOverage(e, c) ==
    e.type = "OVERAGE" /\ e.res \in Reservation /\ c.res = e.res /\ c.actual > c.res.cost

\* Such a line follows a SETTLE that charges more than was reserved.
Follows(o, e) ==
    /\ o = NewEvent("OVERAGE", e.res, e.actual, e.outcome)
    /\ e.type = "SETTLE" /\ e.actual > e.res.cost

\* A compaction at work on what is durable.
Compacting == Holder.op = "compact" /\ Holder.st = Prune(Durable, seen)

\* About to write a line.
Writing ==
    /\ Holder.seq = LastSeq
    /\ \/ Len(Holder.todo) = 1 /\ Holder.op = "reserve" /\ OpensOne
       \/ /\ Len(Holder.todo) = 1 /\ Holder.op = "end"
          /\ \E r \in Durable.live : Ends(Line, r)
       \/ /\ Len(Holder.todo) = 2 /\ Holder.op = "end"
          /\ \E r \in Durable.live : Ends(Line, r)
          /\ Follows(Holder.todo[2], Line)
       \/ /\ Len(Holder.todo) = 1 /\ Holder.op = "end" /\ Line.res \notin Durable.live
          /\ \E c \in charged : TellsOverage(Line, c)
       \/ Len(Holder.todo) = 1 /\ (Holder.op = "reopen" \/ Compacting) /\ Line = Checkpoint

\* The line is written; what will be told of it is so.
Syncing ==
    /\ Holder.seq + 1 = LastSeq
    /\ \/ Len(Holder.todo) = 1 /\ Holder.op = "reserve" /\ Line.res \in Durable.live
       \/ Len(Holder.todo) = 1 /\ Holder.op = "end" /\ Line.res \in Ended \ Durable.live
       \/ /\ Len(Holder.todo) = 2 /\ Holder.op = "end" /\ Line.res \in Ended \ Durable.live
          /\ Holder.todo[2].res \notin Durable.live
          /\ \E c \in charged : TellsOverage(Holder.todo[2], c)
       \/ Len(Holder.todo) = 1 /\ (Holder.op = "reopen" \/ Compacting) /\ Line = Checkpoint

\* The types of a process at work.
Working ==
    [pc : {"write", "sync", "snapshot", "archive", "rotate", "create", "reopen"},
     op : {"reserve", "end", "compact", "reopen"}, st : State, seq : Nat, todo : Seq(Event)]

\* The holder of the lock, and the disk it finds.
AtWork ==
    /\ Holder \in Working /\ LinesOK(Holder.todo)
    /\ ~disk.torn
    /\ disk.present <=> Holder.pc # "create"
    /\ Holder.pc \in {"write", "sync", "snapshot"} => Continues(disk.snapshot, disk.journal)
    /\ Holder.pc = "write" => Writing
    /\ Holder.pc = "sync" => Syncing
    /\ Holder.pc = "snapshot" => Holder.seq = LastSeq /\ Compacting
    /\ Holder.pc \in {"archive", "rotate"} => Contains(disk.snapshot, disk.journal)
    /\ Holder.pc \in {"create", "reopen"} => disk.journal = <<>>

\* Nobody else is in an operation.
LockOK ==
    /\ lock \in Procs \cup {NoProc} /\ proc = [p \in Procs |-> proc[p]]
    /\ \A p \in Procs \ {lock} : proc[p] = Idle
    /\ lock # NoProc => AtWork

\* What was told is so on disk, and stays so if the lines after the last fsync go.
ToldOK ==
    \A t \in told, n \in disk.synced .. Len(disk.journal) :
        /\ t[1] = "reserved" => t[2] \in Kept(disk.snapshot, disk.journal)[n].live \cup Ended
        /\ t[1] = "ended" => t[2] \in Ended \ Kept(disk.snapshot, disk.journal)[n].live

HistoryOK ==
    /\ clock \in Days /\ seen \in Days /\ seen <= clock
    /\ charged \subseteq [res : Reservation, actual : Nat] /\ freed \subseteq Reservation
    /\ told \subseteq {"reserved", "ended"} \X Reservation

FileInv == DiskOK /\ LockOK /\ ToldOK /\ HistoryOK

-----------------------------------------------------------------------------
(* Journals.                                                               *)

\* What a line that can be read does.
LEMMA ReadLineIs ==
    ASSUME NEW acc, NEW e, acc.ok \in BOOLEAN,
           acc = [ok |-> acc.ok, seq |-> acc.seq, st |-> acc.st],
           NEW new, new = ReadLine(acc, e)
    PROVE  /\ new = [ok |-> new.ok, seq |-> new.seq, st |-> new.st] /\ new.ok \in BOOLEAN
           /\ new.ok <=> acc.ok /\ e.seq = acc.seq + 1 /\ CanApply(acc.st, e)
           /\ new.ok => new.seq = e.seq /\ new.st = Apply(acc.st, e)
<1> DEFINE Fits == acc.ok /\ e.seq = acc.seq + 1 /\ CanApply(acc.st, e)
<1>1. CASE Fits
  <2>1. new = [ok |-> TRUE, seq |-> e.seq, st |-> Apply(acc.st, e)]
    BY <1>1 DEF ReadLine
  <2>2. new.ok = TRUE /\ new.seq = e.seq /\ new.st = Apply(acc.st, e)
    BY <2>1
  <2> QED  BY <1>1, <2>1, <2>2
<1>2. CASE ~Fits
  <2>1. new = [acc EXCEPT !.ok = FALSE]
    BY <1>2 DEF ReadLine
  <2>2. PICK seq, state : seq = acc.seq /\ state = acc.st
    OBVIOUS
  <2>3. new = [ok |-> FALSE, seq |-> seq, st |-> state]
    <3>1. acc \in [ok : BOOLEAN, seq : {seq}, st : {state}]
      BY <2>2
    <3>2. new \in [ok : {FALSE}, seq : {seq}, st : {state}]
      BY <2>1, <3>1
    <3> QED  BY <3>2
  <2>4. new.ok = FALSE /\ new.seq = seq /\ new.st = state
    BY <2>3
  <2> HIDE DEF Fits
  <2>5. (new.ok <=> Fits) /\ ~new.ok
    BY <1>2, <2>4
  <2> QED  BY <2>3, <2>4, <2>5 DEF Fits
<1> QED  BY <1>1, <1>2

\* Where a journal can be read so far, its lines count on from the snapshot, and
\* what was read is what is kept.
LEMMA ChainFacts ==
    ASSUME NEW snapshot \in Snapshot, NEW journal \in Seq(Event)
    PROVE  LET c == Chain(snapshot, journal)
           IN /\ c[0] = StartOf(snapshot) /\ Kept(snapshot, journal)[0] = snapshot.st
              /\ \A n \in 0 .. Len(journal) :
                    /\ c[n] = [ok |-> c[n].ok, seq |-> c[n].seq, st |-> c[n].st]
                    /\ c[n].ok \in BOOLEAN
                    /\ c[n].ok => /\ c[n].seq = snapshot.seq + n
                                  /\ c[n].st = Kept(snapshot, journal)[n]
              /\ \A n \in 1 .. Len(journal) :
                    c[n].ok <=> /\ c[n - 1].ok /\ journal[n].seq = snapshot.seq + n
                                /\ CanApply(c[n - 1].st, journal[n])
<1> DEFINE c == Chain(snapshot, journal)
           k == Kept(snapshot, journal)
           N == Len(journal)
           Shape(n) == c[n] = [ok |-> c[n].ok, seq |-> c[n].seq, st |-> c[n].st]
           Fact(n) == /\ Shape(n) /\ c[n].ok \in BOOLEAN
                      /\ c[n].ok => c[n].seq = snapshot.seq + n /\ c[n].st = k[n]
<1>1. N \in Nat /\ snapshot.seq \in Nat /\ \A n \in 1 .. N : journal[n].seq \in Nat
  <2>1. N \in Nat /\ snapshot.seq \in Nat /\ \A n \in 1 .. N : journal[n] \in Event
    BY DEF Snapshot
  <2>2. \A e \in Event : e.seq \in Nat
    BY DEF Event
  <2> QED  BY <2>1, <2>2
<1>2. /\ c[0] = StartOf(snapshot) /\ k[0] = snapshot.st
      /\ \A n \in 1 .. N : c[n] = ReadLine(c[n - 1], journal[n])
      /\ \A n \in 1 .. N : k[n] = KeepLine(snapshot, k[n - 1], journal[n])
  BY <1>1, ReadingIs, KeptIs DEF Chain
<1> HIDE DEF c, k
<1>3. ASSUME NEW n \in 1 .. N, Fact(n - 1)
      PROVE  /\ Fact(n)
             /\ c[n].ok <=> /\ c[n - 1].ok /\ journal[n].seq = snapshot.seq + n
                            /\ CanApply(c[n - 1].st, journal[n])
  <2>1. PICK acc : acc = c[n - 1]
    OBVIOUS
  <2>2. PICK new : new = c[n]
    OBVIOUS
  <2>3. PICK e : e = journal[n] /\ e.seq \in Nat
    BY <1>1
  <2>4. /\ new = [ok |-> new.ok, seq |-> new.seq, st |-> new.st] /\ new.ok \in BOOLEAN
        /\ new.ok <=> acc.ok /\ e.seq = acc.seq + 1 /\ CanApply(acc.st, e)
        /\ new.ok => new.seq = e.seq /\ new.st = Apply(acc.st, e)
    <3>1. new = ReadLine(acc, e)
      BY <1>2, <2>1, <2>2, <2>3
    <3>2. acc = [ok |-> acc.ok, seq |-> acc.seq, st |-> acc.st] /\ acc.ok \in BOOLEAN
      BY <1>3, <2>1
    <3> QED  BY <3>1, <3>2, ReadLineIs
  <2>5. acc.ok => acc.seq + 1 = snapshot.seq + n /\ acc.st = k[n - 1]
    BY <1>1, <1>3, <2>1
  <2>6. new.ok => new.seq = snapshot.seq + n /\ new.st = k[n]
    <3> SUFFICES ASSUME new.ok PROVE new.seq = snapshot.seq + n /\ new.st = k[n]
      OBVIOUS
    <3>1. e.seq = snapshot.seq + n /\ e.seq > snapshot.seq
      BY <1>1, <2>4, <2>5
    <3>2. k[n] = Apply(k[n - 1], e)
      BY <1>2, <2>3, <3>1 DEF KeepLine
    <3> QED  BY <2>4, <2>5, <3>1, <3>2
  <2> QED  BY <2>1, <2>2, <2>3, <2>4, <2>5, <2>6
<1>4. Fact(0)
  BY <1>1, <1>2 DEF StartOf
<1>5. \A n \in 0 .. N : Fact(n)
  <2> DEFINE S == {n \in 0 .. N : Fact(n)}
  <2> HIDE DEF Fact
  <2>1. 0 \in S
    BY <1>1, <1>4
  <2>2. ASSUME NEW n \in 0 .. N, n < N, n \in S PROVE n + 1 \in S
    <3>1. n + 1 \in 1 .. N /\ (n + 1) - 1 = n
      BY <1>1, <2>2
    <3> QED  BY <1>3, <2>2, <3>1
  <2> HIDE DEF S
  <2>3. \A n \in 0 .. N : n \in S
    BY <1>1, <2>1, <2>2, UpTo
  <2> QED  BY <2>3 DEF S
<1>6. \A n \in 1 .. N : n - 1 \in 0 .. N
  BY <1>1
<1> QED  BY <1>1, <1>2, <1>3, <1>5, <1>6 DEF c, k

\* The same of one line.
LEMMA ChainAt ==
    ASSUME NEW snapshot \in Snapshot, NEW journal \in Seq(Event), NEW n \in 0 .. Len(journal),
           NEW a, a = Chain(snapshot, journal)[n]
    PROVE  /\ a.ok \in BOOLEAN
           /\ a.ok => a.seq = snapshot.seq + n /\ a.st = Kept(snapshot, journal)[n]
           /\ n = 0 => a.ok
<1>2. n = 0 => a.ok
  <2>1. Chain(snapshot, journal)[0] = StartOf(snapshot)
    BY ChainFacts
  <2> QED  BY <2>1 DEF StartOf
<1>3. a.ok \in BOOLEAN
  BY ChainFacts
<1>4. a.ok => a.seq = snapshot.seq + n /\ a.st = Kept(snapshot, journal)[n]
  BY ChainFacts
<1> QED  BY <1>2, <1>3, <1>4

\* A line that fits can be read.
LEMMA ChainLine ==
    ASSUME NEW snapshot \in Snapshot, NEW journal \in Seq(Event), NEW n \in 1 .. Len(journal),
           Chain(snapshot, journal)[n - 1].ok, journal[n].seq = snapshot.seq + n,
           CanApply(Chain(snapshot, journal)[n - 1].st, journal[n])
    PROVE  Chain(snapshot, journal)[n].ok
BY ChainFacts

\* A journal that can be read to its end can be read to every line of it.
LEMMA ReadThroughout ==
    ASSUME NEW snapshot \in Snapshot, NEW journal \in Seq(Event), Continues(snapshot, journal)
    PROVE  /\ \A n \in 0 .. Len(journal) : Chain(snapshot, journal)[n].ok
           /\ \A n \in 1 .. Len(journal) : journal[n].seq = snapshot.seq + n
<1> DEFINE c == Chain(snapshot, journal)
           N == Len(journal)
           S == {n \in 0 .. N : c[N - n].ok}
<1>1. N \in Nat
  OBVIOUS
<1>2. /\ \A n \in 1 .. N : c[n].ok => c[n - 1].ok /\ journal[n].seq = snapshot.seq + n
      /\ c[N].ok
  BY ChainFacts DEF Continues
<1> HIDE DEF c, N
<1>3. 0 \in S
  BY <1>1, <1>2
<1>4. ASSUME NEW n \in 0 .. N, n < N, n \in S PROVE n + 1 \in S
  <2>1. N - n \in 1 .. N /\ (N - n) - 1 = N - (n + 1)
    BY <1>1, <1>4
  <2> QED  BY <1>1, <1>2, <1>4, <2>1
<1> HIDE DEF S
<1>5. \A n \in 0 .. N : n \in S
  BY <1>1, <1>3, <1>4, UpTo
<1>6. ASSUME NEW n \in 0 .. N PROVE c[n].ok
  <2>1. N - n \in 0 .. N /\ N - (N - n) = n
    BY <1>1
  <2> QED  BY <1>5, <2>1 DEF S
<1> QED  BY <1>1, <1>2, <1>6 DEF c, N

\* Journals that agree so far are read alike so far.
LEMMA SameSoFar ==
    ASSUME NEW snapshot \in Snapshot, NEW j \in Seq(Event), NEW k \in Seq(Event), NEW m \in Nat,
           m <= Len(j), m <= Len(k), \A n \in 1 .. m : j[n] = k[n]
    PROVE  \A n \in 0 .. m : /\ Chain(snapshot, j)[n] = Chain(snapshot, k)[n]
                              /\ Kept(snapshot, j)[n] = Kept(snapshot, k)[n]
<1> DEFINE S == {n \in 0 .. m : /\ Chain(snapshot, j)[n] = Chain(snapshot, k)[n]
                               /\ Kept(snapshot, j)[n] = Kept(snapshot, k)[n]}
<1>1. Len(j) \in Nat /\ Len(k) \in Nat
  OBVIOUS
<1>2. 0 \in S
  BY <1>1, ReadingIs, KeptIs DEF Chain
<1>3. ASSUME NEW n \in 0 .. m, n < m, n \in S PROVE n + 1 \in S
  <2>1. n + 1 \in 1 .. Len(j) /\ n + 1 \in 1 .. Len(k) /\ (n + 1) - 1 = n /\ n + 1 \in 0 .. m
        /\ j[n + 1] = k[n + 1]
    BY <1>1, <1>3
  <2>2. PICK i : i = n + 1
    OBVIOUS
  <2>3. /\ Chain(snapshot, j)[i] = ReadLine(Chain(snapshot, j)[n], j[i])
        /\ Chain(snapshot, k)[i] = ReadLine(Chain(snapshot, k)[n], k[i])
    BY <1>1, <2>1, <2>2, ReadingIs DEF Chain
  <2>4. /\ Kept(snapshot, j)[i] = KeepLine(snapshot, Kept(snapshot, j)[n], j[i])
        /\ Kept(snapshot, k)[i] = KeepLine(snapshot, Kept(snapshot, k)[n], k[i])
    BY <1>1, <2>1, <2>2, KeptIs
  <2> QED  BY <1>3, <2>1, <2>2, <2>3, <2>4
<1> HIDE DEF S
<1>4. \A n \in 0 .. m : n \in S
  BY <1>2, <1>3, UpTo
<1> QED  BY <1>4 DEF S

\* Lines the snapshot contains change nothing.
LEMMA NothingBeyond ==
    ASSUME NEW snapshot \in Snapshot, NEW journal \in Seq(Event), Contains(snapshot, journal)
    PROVE  \A n \in 0 .. Len(journal) : Kept(snapshot, journal)[n] = snapshot.st
<1> DEFINE S == {n \in 0 .. Len(journal) : Kept(snapshot, journal)[n] = snapshot.st}
<1>1. Len(journal) \in Nat /\ snapshot.seq \in Nat
  BY DEF Snapshot
<1>2. 0 \in S
  BY <1>1, KeptIs
<1>3. ASSUME NEW n \in 0 .. Len(journal), n < Len(journal), n \in S PROVE n + 1 \in S
  <2>1. n + 1 \in 1 .. Len(journal) /\ (n + 1) - 1 = n
    BY <1>1, <1>3
  <2>2. PICK e \in Event : e = journal[n + 1]
    BY <2>1
  <2>3. e.seq \in Nat /\ ~(e.seq > snapshot.seq)
    BY <1>1, <2>1, <2>2 DEF Contains, Event
  <2>4. Kept(snapshot, journal)[n + 1] = KeepLine(snapshot, Kept(snapshot, journal)[n], e)
    BY <1>1, <2>1, <2>2, KeptIs
  <2> QED  BY <1>3, <2>1, <2>3, <2>4 DEF KeepLine
<1> HIDE DEF S
<1>4. \A n \in 0 .. Len(journal) : n \in S
  BY <1>1, <1>2, <1>3, UpTo
<1> QED  BY <1>4 DEF S

\* A refused beginning stays refused.
LEMMA RefusedToTheEnd ==
    ASSUME NEW journal, Len(journal) \in Nat,
           NEW acc, acc.ok = FALSE, acc = [ok |-> acc.ok, seq |-> acc.seq, st |-> acc.st]
    PROVE  ~Reading(journal, acc)[Len(journal)].ok
<1> DEFINE N == Len(journal)
           r == Reading(journal, acc)
           S == {n \in 0 .. N : /\ r[n].ok = FALSE
                                /\ r[n] = [ok |-> r[n].ok, seq |-> r[n].seq, st |-> r[n].st]}
<1>1. r[0] = acc /\ \A n \in 1 .. N : r[n] = ReadLine(r[n - 1], journal[n])
  BY ReadingIs
<1> HIDE DEF r
<1>2. 0 \in S
  BY <1>1
<1>3. ASSUME NEW n \in 0 .. N, n < N, n \in S PROVE n + 1 \in S
  <2>1. n + 1 \in 1 .. N /\ (n + 1) - 1 = n /\ n + 1 \in 0 .. N
    BY <1>3
  <2>2. PICK old, new, e : old = r[n] /\ new = r[n + 1] /\ e = journal[n + 1]
    OBVIOUS
  <2>3. new = ReadLine(old, e) /\ old.ok = FALSE
        /\ old = [ok |-> old.ok, seq |-> old.seq, st |-> old.st]
    BY <1>1, <1>3, <2>1, <2>2
  <2>4. /\ new = [ok |-> new.ok, seq |-> new.seq, st |-> new.st] /\ new.ok \in BOOLEAN
        /\ new.ok <=> old.ok /\ e.seq = old.seq + 1 /\ CanApply(old.st, e)
    <3>1. old.ok \in BOOLEAN
      BY <2>3
    <3> QED  BY <2>3, <3>1, ReadLineIs
  <2> QED  BY <2>1, <2>2, <2>3, <2>4
<1> HIDE DEF S
<1>4. N \in S
  BY <1>2, <1>3, UpTo
<1> QED  BY <1>4 DEF S, r

\* _load_state accepts the disk where nothing is missing or torn and the journal
\* continues the snapshot; what it gives back is what the disk stands for.
LEMMA LoadedIs ==
    ASSUME disk.snapshot \in Snapshot, disk.journal \in Seq(Event),
           disk.present \in BOOLEAN, disk.torn \in BOOLEAN
    PROVE  /\ Loaded.ok <=> /\ disk.present /\ ~disk.torn
                            /\ Continues(disk.snapshot, disk.journal)
           /\ Loaded.ok => /\ Loaded.st = Durable
                           /\ Loaded.seq = disk.snapshot.seq + Len(disk.journal)
<1> DEFINE acc == [ok |-> disk.present /\ ~disk.torn, seq |-> disk.snapshot.seq,
                   st |-> disk.snapshot.st]
<1>1. Loaded = Reading(disk.journal, acc)[Len(disk.journal)]
  BY DEF Loaded
<1>2. CASE disk.present /\ ~disk.torn
  <2>1. acc = StartOf(disk.snapshot)
    BY <1>2 DEF StartOf
  <2>2. Loaded = Chain(disk.snapshot, disk.journal)[Len(disk.journal)]
    BY <1>1, <2>1 DEF Chain
  <2>3. Loaded.ok <=> Continues(disk.snapshot, disk.journal)
    BY <2>2 DEF Continues
  <2>4. Len(disk.journal) \in 0 .. Len(disk.journal)
    OBVIOUS
  <2>5. Loaded.ok => /\ Loaded.st = Durable
                    /\ Loaded.seq = disk.snapshot.seq + Len(disk.journal)
    <3>1. PICK got, n : got = Loaded /\ n = Len(disk.journal)
      OBVIOUS
    <3>2. n \in 0 .. Len(disk.journal) /\ got = Chain(disk.snapshot, disk.journal)[n]
      BY <2>2, <2>4, <3>1
    <3>3. got.ok => /\ got.seq = disk.snapshot.seq + n
                    /\ got.st = Kept(disk.snapshot, disk.journal)[n]
      BY <3>2, ChainAt
    <3> QED  BY <3>1, <3>3 DEF Durable
  <2> QED  BY <1>2, <2>3, <2>5
<1>3. CASE ~(disk.present /\ ~disk.torn)
  <2>1. acc.ok = FALSE /\ acc = [ok |-> acc.ok, seq |-> acc.seq, st |-> acc.st]
    BY <1>3
  <2>2. PICK a : a = acc
    OBVIOUS
  <2>3. /\ a.ok = FALSE /\ a = [ok |-> a.ok, seq |-> a.seq, st |-> a.st]
        /\ Loaded = Reading(disk.journal, a)[Len(disk.journal)] /\ Len(disk.journal) \in Nat
    BY <1>1, <2>1, <2>2
  <2> HIDE DEF acc
  <2>4. ~Loaded.ok
    BY <2>3, RefusedToTheEnd
  <2> QED  BY <1>3, <2>4
<1> QED  BY <1>2, <1>3

\* The line e goes on from a journal that goes on from its snapshot.
Fits(e, snapshot, journal) ==
    /\ Continues(snapshot, journal)
    /\ e.seq = snapshot.seq + Len(journal) + 1
    /\ CanApply(Kept(snapshot, journal)[Len(journal)], e)

LongerBy(new, journal, e) == new = Append(journal, e)

\* Such a line is read after all the others, and changes what is kept.
LEMMA AppendedLine ==
    ASSUME NEW snapshot \in Snapshot, NEW journal \in Seq(Event), NEW e \in Event,
           Fits(e, snapshot, journal), NEW new, LongerBy(new, journal, e)
    PROVE  /\ new \in Seq(Event) /\ Len(new) = Len(journal) + 1
           /\ Continues(snapshot, new)
           /\ Kept(snapshot, new)[Len(new)] = Apply(Kept(snapshot, journal)[Len(journal)], e)
           /\ \A n \in 0 .. Len(journal) : Kept(snapshot, new)[n] = Kept(snapshot, journal)[n]
<1> DEFINE N == Len(journal)
           c == Chain(snapshot, journal)
<1>0. /\ Continues(snapshot, journal) /\ e.seq = snapshot.seq + Len(journal) + 1
      /\ CanApply(Kept(snapshot, journal)[Len(journal)], e)
  BY DEF Fits
<1>1. /\ new \in Seq(Event) /\ Len(new) = N + 1 /\ N \in Nat /\ snapshot.seq \in Nat
      /\ new[N + 1] = e /\ \A n \in 1 .. N : journal[n] = new[n]
  BY DEF Snapshot, LongerBy
<1>2. \A n \in 0 .. N : /\ Chain(snapshot, journal)[n] = Chain(snapshot, new)[n]
                       /\ Kept(snapshot, journal)[n] = Kept(snapshot, new)[n]
  <2>1. N <= Len(journal) /\ N <= Len(new)
    BY <1>1
  <2> QED  BY <1>1, <2>1, SameSoFar
<1>3. c[N].ok /\ c[N].st = Kept(snapshot, journal)[N]
  <2>1. N \in 0 .. Len(journal) /\ c[N].ok
    BY <1>0, <1>1 DEF Continues
  <2> QED  BY <2>1, ChainAt
<1>4. Chain(snapshot, new)[N + 1].ok
  <2>1. PICK n : n = N + 1
    OBVIOUS
  <2>2. n \in 1 .. Len(new) /\ n - 1 = N /\ new[n] = e /\ N \in 0 .. N
    BY <1>1, <2>1
  <2>3. Chain(snapshot, new)[n - 1].ok /\ CanApply(Chain(snapshot, new)[n - 1].st, new[n])
    BY <1>0, <1>2, <1>3, <2>2
  <2>4. new[n].seq = snapshot.seq + n
    <3>1. PICK a \in Nat, b \in Nat : a = snapshot.seq /\ b = Len(journal)
      BY <1>1
    <3>2. n = b + 1 /\ e.seq = a + b + 1
      BY <1>0, <2>1, <3>1
    <3>3. e.seq = a + n
      BY <3>2
    <3> QED  BY <2>2, <3>1, <3>3
  <2>5. Chain(snapshot, new)[n].ok
    BY <1>1, <2>2, <2>3, <2>4, ChainLine
  <2> QED  BY <2>1, <2>5
<1>5. Continues(snapshot, new)
  BY <1>1, <1>4 DEF Continues
<1>6. Kept(snapshot, new)[N + 1] = KeepLine(snapshot, Kept(snapshot, new)[N], e)
  <2>1. PICK n : n = N + 1
    OBVIOUS
  <2>2. n \in 1 .. Len(new) /\ n - 1 = N /\ new[n] = e /\ Len(new) \in Nat
    BY <1>1, <2>1
  <2>3. Kept(snapshot, new)[n] = KeepLine(snapshot, Kept(snapshot, new)[n - 1], new[n])
    BY <2>2, KeptIs
  <2> QED  BY <2>1, <2>2, <2>3
<1>7. e.seq > snapshot.seq
  BY <1>0, <1>1
<1> QED  BY <1>1, <1>2, <1>5, <1>6, <1>7 DEF KeepLine

\* A journal that lost the lines after the m-th.
Shortened(new, journal, m) == m <= Len(journal) /\ new = SubSeq(journal, 1, m)

\* What is left of such a journal is as it was.
LEMMA ShortenedJournal ==
    ASSUME NEW snapshot \in Snapshot, NEW journal \in Seq(Event), NEW m \in Nat,
           NEW new, Shortened(new, journal, m)
    PROVE  /\ new \in Seq(Event) /\ Len(new) = m
           /\ \A n \in 1 .. m : new[n] = journal[n]
           /\ Continues(snapshot, journal) => Continues(snapshot, new)
           /\ Contains(snapshot, journal) => Contains(snapshot, new)
           /\ Kept(snapshot, new)[m] = Kept(snapshot, journal)[m]
<1>1. /\ new \in Seq(Event) /\ Len(new) = m /\ m \in Nat /\ m <= Len(journal)
      /\ \A n \in 1 .. m : new[n] = journal[n]
  BY DEF Shortened
<1>2. /\ Chain(snapshot, new)[m] = Chain(snapshot, journal)[m]
      /\ Kept(snapshot, new)[m] = Kept(snapshot, journal)[m]
  <2>1. m <= Len(new) /\ m \in 0 .. m
    BY <1>1
  <2>2. \A n \in 0 .. m : /\ Chain(snapshot, new)[n] = Chain(snapshot, journal)[n]
                         /\ Kept(snapshot, new)[n] = Kept(snapshot, journal)[n]
    BY <1>1, <2>1, SameSoFar
  <2> QED  BY <2>1, <2>2
<1>3. Continues(snapshot, journal) => Continues(snapshot, new)
  BY <1>1, <1>2, ReadThroughout DEF Continues
<1>4. Contains(snapshot, journal) => Contains(snapshot, new)
  BY <1>1 DEF Contains
<1> QED  BY <1>1, <1>2, <1>3, <1>4

\* An empty journal goes on from any snapshot.
LEMMA EmptyJournal ==
    ASSUME NEW snapshot \in Snapshot
    PROVE  /\ Continues(snapshot, <<>>) /\ Contains(snapshot, <<>>)
           /\ Kept(snapshot, <<>>)[0] = snapshot.st
<1>1. <<>> \in Seq(Event) /\ Len(<<>>) = 0
  OBVIOUS
<1>2. Chain(snapshot, <<>>)[0] = StartOf(snapshot) /\ Kept(snapshot, <<>>)[0] = snapshot.st
  BY <1>1, ChainFacts
<1> QED  BY <1>1, <1>2 DEF Continues, Contains, StartOf

-----------------------------------------------------------------------------
(* What a line does to the state.                                          *)

\* The three helpers keep the type of the state; of the live reservations they
\* take out one, or none.
LEMMA HelperTypes ==
    ASSUME NEW s \in State, NEW r \in Reservation
    PROVE  /\ Pop(s, r) \in State /\ Pop(s, r).live = s.live \ {r}
           /\ \A x \in Status : Mark(s, r, x) \in State /\ Mark(s, r, x).live = s.live
           /\ \A n \in Nat : AddTotals(s, r, n) \in State /\ AddTotals(s, r, n).live = s.live
<1>1. Pop(s, r) \in State /\ Pop(s, r).live = s.live \ {r}
  BY DEF Pop, State
<1>2. ASSUME NEW x \in Status
      PROVE  Mark(s, r, x) \in State /\ Mark(s, r, x).live = s.live
  BY DEF Mark, State, Reservation
<1>3. ASSUME NEW n \in Nat
      PROVE  AddTotals(s, r, n) \in State /\ AddTotals(s, r, n).live = s.live
  <2>1. PICK calls, money :
           /\ calls = [s.calls EXCEPT ![r.day] =
                          [c \in Scopes |-> @[c] + (IF c \in r.scopes THEN 1 ELSE 0)]]
           /\ money = [s.money EXCEPT ![r.day] =
                          [c \in Scopes |-> @[c] + (IF c \in r.scopes THEN n ELSE 0)]]
    OBVIOUS
  <2>2. calls \in [Days -> [Scopes -> Nat]] /\ money \in [Days -> [Scopes -> Nat]]
    <3>1. s.calls \in [Days -> [Scopes -> Nat]] /\ s.money \in [Days -> [Scopes -> Nat]]
          /\ r.day \in Days
      BY DEF State, Reservation
    <3> QED  BY <2>1, <3>1
  <2>3. AddTotals(s, r, n) = [s EXCEPT !.calls = calls, !.money = money]
    BY <2>1 DEF AddTotals, State
  <2> QED  BY <2>2, <2>3 DEF State
<1> QED  BY <1>1, <1>2, <1>3

\* A charge takes its reservation out of the live ones.
LEMMA ChargeType ==
    ASSUME NEW s \in State, NEW r \in Reservation, NEW n \in Nat, NEW x \in Status,
           NEW new, new = Mark(AddTotals(Pop(s, r), r, n), r, x)
    PROVE  new \in State /\ new.live = s.live \ {r}
<1>1. PICK a : a = Pop(s, r)
  OBVIOUS
<1>2. PICK b : b = AddTotals(a, r, n)
  OBVIOUS
<1>3. a \in State /\ a.live = s.live \ {r}
  BY <1>1, HelperTypes
<1>4. b \in State /\ b.live = a.live
  BY <1>2, <1>3, HelperTypes
<1>5. new = Mark(b, r, x)
  BY <1>1, <1>2
<1> QED  BY <1>3, <1>4, <1>5, HelperTypes

\* The lines that end a reservation.
Ending == {"SETTLE", "RELEASE", "SETTLE_UNKNOWN", "RECOVERY"}

\* Such a line can be applied where its reservation is live, and takes it out.
LEMMA EndingLine ==
    ASSUME NEW s \in State, NEW e \in Event, LineOK(e), e.type \in Ending
    PROVE  /\ Apply(s, e) \in State /\ Apply(s, e).live = s.live \ {e.res}
           /\ e.res \in s.live => CanApply(s, e)
<1>1. e.res \in Reservation /\ e.actual \in Nat /\ e.res.cost \in Nat
  BY LedgerAssumption DEF LineOK, Ending, Event, Reservation
<1>2. {"none", "settled", "unknown", "recovered"} \subseteq Status
  BY DEF Status, Terminal
<1>3. PICK new : new = Apply(s, e)
  OBVIOUS
<1> SUFFICES /\ new \in State /\ new.live = s.live \ {e.res}
             /\ e.res \in s.live => CanApply(s, e)
  BY <1>3
<1>4. e.res \in s.live => CanApply(s, e)
  BY DEF CanApply, Ending
<1>5. CASE e.type = "SETTLE"
  <2>1. new = AfterSettle(s, e.res, e.actual, e.outcome)
    BY <1>3, <1>5 DEF Apply
  <2> QED  BY <1>1, <1>2, <1>4, <2>1, ChargeType DEF AfterSettle
<1>6. CASE e.type = "RELEASE" \/ (e.type = "RECOVERY" /\ e.outcome = "released")
  <2>1. new = AfterRelease(s, e.res)
    BY <1>3, <1>6 DEF Apply
  <2>2. PICK a : a = Pop(s, e.res)
    OBVIOUS
  <2>3. a \in State /\ a.live = s.live \ {e.res} /\ new = Mark(a, e.res, "none")
    BY <1>1, <2>1, <2>2, HelperTypes DEF AfterRelease
  <2>4. new \in State /\ new.live = a.live
    BY <1>1, <1>2, <2>3, HelperTypes
  <2> QED  BY <1>4, <2>3, <2>4
<1>7. CASE e.type = "SETTLE_UNKNOWN"
  <2>1. new = AfterUnknown(s, e.res)
    BY <1>3, <1>7 DEF Apply
  <2> QED  BY <1>1, <1>2, <1>4, <2>1, ChargeType DEF AfterUnknown
<1>8. CASE e.type = "RECOVERY" /\ e.outcome = "settled"
  <2>1. new = AfterRecoverSettled(s, e.res, e.actual)
    BY <1>3, <1>8 DEF Apply
  <2> QED  BY <1>1, <1>2, <1>4, <2>1, ChargeType DEF AfterRecoverSettled
<1> QED  BY <1>5, <1>6, <1>7, <1>8 DEF Ending, LineOK

\* A RESERVE adds its reservation, and can be applied where nothing live has its
\* id and its key is free.
LEMMA OpeningLine ==
    ASSUME NEW s \in State, NEW e \in Event, LineOK(e), e.type = "RESERVE"
    PROVE  /\ Apply(s, e) \in State /\ Apply(s, e).live = s.live \cup {e.res}
           /\ /\ \A r \in s.live : r.id # e.res.id
              /\ s.idem[e.res.day][e.res.key] = "none"
              => CanApply(s, e)
<1>1. e.res \in Reservation /\ "live" \in Status
  BY DEF LineOK, Status
<1>2. PICK a : a = [s EXCEPT !.live = @ \cup {e.res}]
  OBVIOUS
<1>3. a \in State /\ a.live = s.live \cup {e.res}
  BY <1>1, <1>2 DEF State
<1>4. Apply(s, e) = Mark(a, e.res, "live")
  BY <1>2 DEF Apply, AfterReserve
<1> QED  BY <1>1, <1>3, <1>4, HelperTypes DEF CanApply

\* The other lines leave the live reservations alone.
LEMMA OtherLine ==
    ASSUME NEW s \in State, NEW e \in Event, e.type \in {"OVERAGE", "CHECKPOINT"}
    PROVE  /\ Apply(s, e) \in State /\ Apply(s, e).live = s.live /\ CanApply(s, e)
           /\ e.type = "CHECKPOINT" => Apply(s, e) = s
<1>1. CASE e.type = "OVERAGE"
  <2>1. Apply(s, e) = [s EXCEPT !.blocked = TRUE]
    BY <1>1 DEF Apply, AfterOverage
  <2> QED  BY <1>1, <2>1 DEF State, CanApply
<1>2. CASE e.type = "CHECKPOINT"
  BY <1>2 DEF Apply, CanApply
<1> QED  BY <1>1, <1>2

\* Whatever its type, a line keeps the type of the state.
LEMMA ApplyType ==
    ASSUME NEW s \in State, NEW e \in Event, LineOK(e)
    PROVE  Apply(s, e) \in State
<1>1. \/ e.type \in Ending \/ e.type = "RESERVE" \/ e.type \in {"OVERAGE", "CHECKPOINT"}
  BY DEF Event, Ending
<1> QED  BY <1>1, EndingLine, OpeningLine, OtherLine

\* Compaction prunes markers only.
LEMMA PruneType ==
    ASSUME NEW s \in State, NEW d \in Days
    PROVE  Prune(s, d) \in State /\ Prune(s, d).live = s.live
BY DEF Prune, State, Status

\* What is kept is a state, after every line.
LEMMA KeptType ==
    ASSUME NEW snapshot \in Snapshot, NEW journal \in Seq(Event),
           \A i \in 1 .. Len(journal) : LineOK(journal[i])
    PROVE  \A n \in 0 .. Len(journal) : Kept(snapshot, journal)[n] \in State
<1> DEFINE S == {n \in 0 .. Len(journal) : Kept(snapshot, journal)[n] \in State}
<1>1. Len(journal) \in Nat /\ snapshot.st \in State
  BY DEF Snapshot
<1>2. 0 \in S
  BY <1>1, KeptIs
<1>3. ASSUME NEW n \in 0 .. Len(journal), n < Len(journal), n \in S PROVE n + 1 \in S
  <2>1. n + 1 \in 1 .. Len(journal) /\ (n + 1) - 1 = n
    BY <1>1, <1>3
  <2>2. PICK e \in Event : e = journal[n + 1] /\ LineOK(e)
    BY <2>1
  <2>3. Kept(snapshot, journal)[n + 1] = KeepLine(snapshot, Kept(snapshot, journal)[n], e)
    BY <1>1, <2>1, <2>2, KeptIs
  <2>4. PICK s : s = Kept(snapshot, journal)[n]
    OBVIOUS
  <2>5. s \in State /\ Apply(s, e) \in State
    BY <1>3, <2>2, <2>4, ApplyType
  <2> QED  BY <2>1, <2>3, <2>4, <2>5 DEF KeepLine
<1> HIDE DEF S
<1>4. \A n \in 0 .. Len(journal) : n \in S
  BY <1>1, <1>2, <1>3, UpTo
<1> QED  BY <1>4 DEF S

-----------------------------------------------------------------------------
(* The inductive invariant holds: what the steps have in common.           *)

\* Types of the disk, and what can be loaded from it.
LEMMA DiskFacts ==
    ASSUME FileInv
    PROVE  /\ disk.snapshot \in Snapshot /\ disk.journal \in Seq(Event) /\ disk.synced \in Nat
           /\ disk.torn \in BOOLEAN /\ disk.present \in BOOLEAN
           /\ Len(disk.journal) \in Nat /\ disk.snapshot.seq \in Nat /\ LastSeq \in Nat
           /\ \A n \in 0 .. Len(disk.journal) : Kept(disk.snapshot, disk.journal)[n] \in State
           /\ Durable \in State
           /\ Loaded.ok <=> /\ disk.present /\ ~disk.torn
                            /\ Continues(disk.snapshot, disk.journal)
           /\ Loaded.ok => Loaded.st = Durable /\ Loaded.seq = LastSeq
<1>1. /\ disk.snapshot \in Snapshot /\ disk.journal \in Seq(Event) /\ disk.synced \in Nat
      /\ disk.torn \in BOOLEAN /\ disk.present \in BOOLEAN
      /\ \A i \in 1 .. Len(disk.journal) : LineOK(disk.journal[i])
  BY DEF FileInv, DiskOK, LinesOK, Disk
<1>2. Len(disk.journal) \in Nat /\ disk.snapshot.seq \in Nat
  BY <1>1 DEF Snapshot
<1>3. \A n \in 0 .. Len(disk.journal) : Kept(disk.snapshot, disk.journal)[n] \in State
  BY <1>1, KeptType
<1>4. Durable \in State
  BY <1>2, <1>3 DEF Durable
<1> QED  BY <1>1, <1>2, <1>3, <1>4, LoadedIs DEF LastSeq

\* Only the holder of the lock is at work.
LEMMA HolderIsAtWork ==
    ASSUME FileInv, NEW p \in Procs, proc[p].pc # "idle"
    PROVE  lock = p /\ lock # NoProc /\ Holder = proc[p] /\ AtWork
<1>1. NoProc \notin Procs
  BY FileAssumption
<1> QED  BY <1>1 DEF FileInv, LockOK, Idle, Holder

\* The lock is free, or p holds it.
MayHold(p) == lock \in {p, NoProc}

\* A process that has the lock, or takes it, goes on with its work.
LEMMA GoesOn ==
    ASSUME LockOK, NEW p \in Procs, MayHold(p), lock' = p,
           NEW g, proc' = [proc EXCEPT ![p] = g]
    PROVE  Holder' = g /\ (AtWork' => LockOK')
<1>1. NoProc \notin Procs
  BY FileAssumption
<1>2. proc' = [q \in Procs |-> proc'[q]] /\ proc'[p] = g /\ \A q \in Procs \ {p} : proc'[q] = Idle
  BY <1>1 DEF LockOK, MayHold
<1> QED  BY <1>2 DEF LockOK, Holder

\* One that leaves its operation leaves nobody at work.
LEMMA LeavesWork ==
    ASSUME LockOK, NEW p \in Procs, lock = p, Leave(p)
    PROVE  LockOK'
<1>1. NoProc \notin Procs
  BY FileAssumption
<1>2. proc' = [q \in Procs |-> proc'[q]] /\ \A q \in Procs : proc'[q] = Idle
  BY <1>1 DEF LockOK, Leave
<1> QED  BY <1>1, <1>2 DEF LockOK, Leave

\* While the disk stays, so does all that is said of it.
LEMMA SameDisk ==
    ASSUME FileInv, disk' = disk
    PROVE  /\ DiskOK' /\ Durable' = Durable /\ LastSeq' = LastSeq
           /\ charged' = charged /\ freed' = freed => Ended' = Ended
           /\ charged' = charged /\ freed' = freed /\ told' = told => ToldOK'
<1>1. DiskOK'
  BY DEF FileInv, DiskOK
<1>2. Durable' = Durable /\ LastSeq' = LastSeq
  BY DEF Durable, LastSeq
<1>3. charged' = charged /\ freed' = freed => Ended' = Ended
  BY DEF Ended
<1>4. charged' = charged /\ freed' = freed /\ told' = told => ToldOK'
  BY <1>3 DEF FileInv, ToldOK
<1> QED  BY <1>1, <1>2, <1>3, <1>4

\* An operation begins: it has the lock, and lines to write.
LEMMA BeginStep ==
    ASSUME FileInv, NEW p \in Procs, NEW g, MayHold(p), Loaded.ok,
           lock' = p, proc' = [proc EXCEPT ![p] = g], seen' \in {seen, clock},
           UNCHANGED <<disk, clock, charged, freed, told>>,
           g \in Working, g.pc = "write", LinesOK(g.todo), Writing'
    PROVE  FileInv'
<1>1. DiskOK' /\ ToldOK'
  BY SameDisk
<1>2. HistoryOK'
  BY DEF FileInv, HistoryOK, Days
<1>3. Holder' = g
  BY GoesOn DEF FileInv
<1>4. disk.present /\ ~disk.torn /\ Continues(disk.snapshot, disk.journal)
  BY DiskFacts
<1>5. AtWork'
  BY <1>3, <1>4 DEF AtWork
<1>6. LockOK'
  BY <1>5, GoesOn DEF FileInv
<1> QED  BY <1>1, <1>2, <1>6 DEF FileInv

-----------------------------------------------------------------------------
(* The inductive invariant holds: taking the lock.                         *)

\* The parts of a new line.
LEMMA NewLine ==
    ASSUME NEW type, NEW r, NEW actual \in Nat, NEW outcome,
           NEW e, e = NewEvent(type, r, actual, outcome),
           type \in {"RESERVE", "SETTLE", "RELEASE", "SETTLE_UNKNOWN", "OVERAGE", "CHECKPOINT",
                     "RECOVERY"},
           r \in Reservation \cup {NoRes},
           outcome \in {"reserved", "success", "provider_failure", "released", "unknown",
                        "settled", "checkpoint"}
    PROVE  /\ e \in Event /\ e.seq = 0
           /\ e.type = type /\ e.res = r /\ e.actual = actual /\ e.outcome = outcome
BY DEF NewEvent, Event

\* What Begin() changes, when the lock was free and the disk can be loaded.
LEMMA BeginChanges ==
    ASSUME FileInv, NEW p \in Procs, NEW op, NEW todo, NEW got,
           got.ok = Loaded.ok, got.seq = Loaded.seq, Begin(p, op, got, todo),
           NEW g, g = [pc |-> "write", op |-> op, st |-> got.st, seq |-> LastSeq, todo |-> todo]
    PROVE  /\ MayHold(p) /\ Loaded.ok /\ lock' = p
           /\ proc' = [proc EXCEPT ![p] = g] /\ Holder' = g /\ seen' = clock
           /\ UNCHANGED <<disk, clock, charged, freed, told>>
           /\ LastSeq' = LastSeq /\ Durable' = Durable /\ Ended' = Ended
           /\ LastSeq \in Nat /\ Durable \in State /\ Loaded.st = Durable /\ clock \in Days
<1>1. Loaded.ok /\ Loaded.seq = LastSeq /\ LastSeq \in Nat /\ Durable \in State
      /\ Loaded.st = Durable
  BY DiskFacts DEF Begin, Enter
<1>2. disk' = disk /\ charged' = charged /\ freed' = freed
  BY DEF Begin
<1>3. LastSeq' = LastSeq /\ Durable' = Durable /\ Ended' = Ended
  BY <1>2, SameDisk
<1>4. proc' = [proc EXCEPT ![p] = g] /\ lock' = p /\ lock = NoProc
  BY <1>1 DEF Begin, Enter
<1>5. Holder' = g
  BY <1>4, GoesOn DEF FileInv, MayHold
<1> QED  BY <1>1, <1>3, <1>4, <1>5 DEF MayHold, Begin, FileInv, HistoryOK

\* reserve() writes a line for which the loaded state has room.
LEMMA StartReserveStep ==
    ASSUME FileInv, NEW p \in Procs, NEW spec \in Specs, NEW id \in Ids,
           StartReserve(p, Loaded, spec, id)
    PROVE  FileInv'
<1>1. PICK e, r : r = NewReservation(id, clock, spec) /\ e = NewEvent("RESERVE", r, 0, "reserved")
  OBVIOUS
<1>2. PICK g : g = [pc |-> "write", op |-> "reserve", st |-> Loaded.st, seq |-> LastSeq,
                    todo |-> <<e>>]
  OBVIOUS
<1>3. Begin(p, "reserve", Loaded, <<e>>) /\ CanReserve(Loaded.st, clock, spec)
      /\ \A x \in Loaded.st.live \cup Ended : x.id # id
  BY <1>1 DEF StartReserve
<1>4. /\ MayHold(p) /\ Loaded.ok /\ lock' = p
      /\ proc' = [proc EXCEPT ![p] = g] /\ Holder' = g /\ seen' = clock
      /\ UNCHANGED <<disk, clock, charged, freed, told>>
      /\ LastSeq' = LastSeq /\ Durable' = Durable /\ Ended' = Ended
      /\ LastSeq \in Nat /\ Durable \in State /\ Loaded.st = Durable /\ clock \in Days
  BY <1>2, <1>3, BeginChanges
<1>5. r \in Reservation
  BY <1>1, <1>3, <1>4, LedgerAssumption DEF NewReservation, Reservation, CanReserve
<1>6. e \in Event /\ LineOK(e)
  BY <1>1, <1>5, NewLine DEF LineOK
<1>7. /\ g \in Working /\ g.pc = "write" /\ LinesOK(g.todo)
      /\ g.seq = LastSeq /\ g.op = "reserve" /\ Len(g.todo) = 1 /\ g.todo[1] = e
  BY <1>2, <1>4, <1>6 DEF Working, LinesOK
<1>8. OpensOne'
  BY <1>1, <1>3, <1>4, <1>7 DEF OpensOne, Line
<1>9. Writing'
  BY <1>4, <1>7, <1>8 DEF Writing
<1> QED  BY <1>4, <1>7, <1>9, BeginStep

\* The line that ends a live reservation, and the one about its overage.
LEMMA StartEndStep ==
    ASSUME FileInv, NEW p \in Procs, NEW r \in Durable.live, NEW e, NEW todo,
           Begin(p, "end", Loaded, todo),
           e \in Event, LineOK(e), Ends(e, r),
           \/ todo = <<e>>
           \/ todo = <<e, NewEvent("OVERAGE", r, e.actual, e.outcome)>>
              /\ e.type = "SETTLE" /\ e.actual > r.cost
    PROVE  FileInv'
<1>1. PICK g : g = [pc |-> "write", op |-> "end", st |-> Loaded.st, seq |-> LastSeq, todo |-> todo]
  OBVIOUS
<1>2. /\ MayHold(p) /\ Loaded.ok /\ lock' = p
      /\ proc' = [proc EXCEPT ![p] = g] /\ Holder' = g /\ seen' = clock
      /\ UNCHANGED <<disk, clock, charged, freed, told>>
      /\ LastSeq' = LastSeq /\ Durable' = Durable /\ Ended' = Ended
      /\ LastSeq \in Nat /\ Durable \in State /\ Loaded.st = Durable
  BY <1>1, BeginChanges
<1>3. e.res = r
  BY DEF Ends
<1>4. CASE todo = <<e>>
  <2>1. /\ g \in Working /\ g.pc = "write" /\ LinesOK(g.todo)
        /\ g.seq = LastSeq /\ g.op = "end" /\ Len(g.todo) = 1 /\ g.todo[1] = e
    BY <1>1, <1>2, <1>4 DEF Working, LinesOK
  <2>2. Writing'
    BY <1>2, <2>1 DEF Writing, Line
  <2> QED  BY <1>2, <2>1, <2>2, BeginStep
<1>5. CASE /\ todo = <<e, NewEvent("OVERAGE", r, e.actual, e.outcome)>>
           /\ e.type = "SETTLE" /\ e.actual > r.cost
  <2>1. PICK o : o = NewEvent("OVERAGE", r, e.actual, e.outcome)
    OBVIOUS
  <2>2. Follows(o, e)
    BY <1>3, <1>5, <2>1 DEF Follows
  <2>3. o \in Event /\ LineOK(o)
    <3>1. r \in Reservation /\ e.actual \in Nat
          /\ e.outcome \in {"reserved", "success", "provider_failure", "released", "unknown",
                            "settled", "checkpoint"}
      BY <1>2 DEF State, Event
    <3> QED  BY <2>1, <3>1, NewLine DEF LineOK
  <2>4. /\ g \in Working /\ g.pc = "write"
        /\ g.seq = LastSeq /\ g.op = "end" /\ Len(g.todo) = 2 /\ g.todo[1] = e /\ g.todo[2] = o
    BY <1>1, <1>2, <1>5, <2>1, <2>3 DEF Working
  <2>5. LinesOK(g.todo)
    BY <2>3, <2>4 DEF LinesOK
  <2>6. Writing'
    BY <1>2, <2>2, <2>4 DEF Writing, Line
  <2> QED  BY <1>2, <2>4, <2>5, <2>6, BeginStep
<1> QED  BY <1>4, <1>5

\* compact() writes a CHECKPOINT, for a state that is the loaded one, pruned.
LEMMA StartCompactStep ==
    ASSUME FileInv, NEW p \in Procs, StartCompact(p, Loaded)
    PROVE  FileInv'
<1>1. PICK got, todo : got = [Loaded EXCEPT !.st = Prune(@, clock)] /\ todo = <<Checkpoint>>
  OBVIOUS
<1>2. PICK g :
         g = [pc |-> "write", op |-> "compact", st |-> got.st, seq |-> LastSeq, todo |-> todo]
  OBVIOUS
<1>3. Begin(p, "compact", got, todo)
  BY <1>1 DEF StartCompact, Checkpoint
<1>4. got.ok = Loaded.ok /\ got.seq = Loaded.seq /\ got.st = Prune(Loaded.st, clock)
  BY <1>1 DEF Loaded
<1>5. /\ MayHold(p) /\ Loaded.ok /\ lock' = p
      /\ proc' = [proc EXCEPT ![p] = g] /\ Holder' = g /\ seen' = clock
      /\ UNCHANGED <<disk, clock, charged, freed, told>>
      /\ LastSeq' = LastSeq /\ Durable' = Durable /\ Ended' = Ended
      /\ LastSeq \in Nat /\ Durable \in State /\ Loaded.st = Durable /\ clock \in Days
  BY <1>2, <1>3, <1>4, BeginChanges
<1>6. g.st = Prune(Durable, clock) /\ g.st \in State
  BY <1>2, <1>4, <1>5, PruneType
<1>7. Checkpoint \in Event /\ LineOK(Checkpoint)
  BY NewLine DEF LineOK, Checkpoint
<1>8. /\ g \in Working /\ g.pc = "write" /\ LinesOK(g.todo)
      /\ g.seq = LastSeq /\ g.op = "compact" /\ Len(g.todo) = 1 /\ g.todo[1] = Checkpoint
  BY <1>1, <1>2, <1>5, <1>6, <1>7 DEF Working, LinesOK
<1>9. Writing'
  BY <1>5, <1>6, <1>8 DEF Writing, Compacting, Checkpoint, Line
<1> QED  BY <1>5, <1>8, <1>9, BeginStep

\* A line after a line makes two.
LEMMA TwoLines ==
    ASSUME NEW e \in Event, NEW o \in Event
    PROVE  <<e>> \o <<o>> = <<e, o>>
<1>1. PICK s, t : s = <<e>> \o <<o>> /\ t = <<e, o>>
  OBVIOUS
<1>2. s \in Seq(Event) /\ Len(s) = 2 /\ s[1] = e /\ s[2] = o
  BY <1>1
<1>3. t \in Seq(Event) /\ Len(t) = 2 /\ t[1] = e /\ t[2] = o
  BY <1>1
<1>4. s = [i \in 1 .. 2 |-> s[i]] /\ t = [i \in 1 .. 2 |-> t[i]]
  BY <1>2, <1>3
<1>5. \A i \in 1 .. 2 : s[i] = t[i]
  BY <1>2, <1>3
<1> QED  BY <1>1, <1>4, <1>5

\* Taking the lock keeps the invariant, whatever the operation.
LEMMA StartStep ==
    ASSUME FileInv, NEW p \in Procs, Start(p)
    PROVE  FileInv'
<1>1. ASSUME NEW got, NEW op, NEW todo, got.ok = Loaded.ok, Begin(p, op, got, todo)
      PROVE  Loaded.st = Durable /\ Durable.live \subseteq Reservation
  BY <1>1, DiskFacts DEF Begin, Enter, State
<1>2. ASSUME NEW r \in Durable.live, NEW actual \in 0 .. MaxActual,
             NEW outcome \in {"success", "provider_failure"},
             StartSettle(p, Loaded, r, actual, outcome)
      PROVE  FileInv'
  <2>1. PICK e, o : /\ e = NewEvent("SETTLE", r, actual, outcome)
                    /\ o = NewEvent("OVERAGE", r, actual, outcome)
    OBVIOUS
  <2>2. PICK todo : todo = <<e>> \o (IF actual > r.cost THEN <<o>> ELSE <<>>)
    OBVIOUS
  <2>3. Begin(p, "end", Loaded, todo)
    BY <1>2, <2>1, <2>2 DEF StartSettle
  <2>4. r \in Reservation /\ actual \in Nat
    BY <1>1, <2>3, FileAssumption
  <2>5. e \in Event /\ LineOK(e) /\ e.res = r /\ e.type = "SETTLE" /\ e.actual = actual
        /\ e.outcome = outcome
    BY <2>1, <2>4, NewLine DEF LineOK
  <2>6. Ends(e, r)
    BY <2>1, <2>5 DEF Ends
  <2>7. \/ todo = <<e>>
        \/ todo = <<e, NewEvent("OVERAGE", r, e.actual, e.outcome)>> /\ actual > r.cost
    <3>1. <<e>> \o <<>> = <<e>> /\ <<e>> \o <<o>> = <<e, o>>
      <4>1. o \in Event /\ e \in Event
        BY <2>1, <2>4, <2>5, NewLine
      <4>2. <<e>> \in Seq(Event) /\ <<o>> \in Seq(Event) /\ <<>> \in Seq(Event)
        BY <4>1
      <4> QED  BY <4>1, <4>2, ConcatEmptySeq, TwoLines
    <3>2. o = NewEvent("OVERAGE", r, e.actual, e.outcome)
      BY <2>1, <2>5
    <3> QED  BY <2>2, <3>1, <3>2
  <2> QED  BY <2>3, <2>5, <2>6, <2>7, StartEndStep
<1>3. ASSUME NEW r \in Durable.live, NEW e, Begin(p, "end", Loaded, <<e>>),
             e \in Event, LineOK(e), Ends(e, r)
      PROVE  FileInv'
  BY <1>3, StartEndStep
<1>4. ASSUME NEW r \in Durable.live, NEW actual \in 0 .. MaxActual,
             NEW outcome \in {"released", "settled"},
             StartRecover(p, Loaded, r, actual, outcome)
      PROVE  FileInv'
  <2>1. PICK e : e = NewEvent("RECOVERY", r, actual, outcome)
    OBVIOUS
  <2>2. Begin(p, "end", Loaded, <<e>>)
    BY <1>4, <2>1 DEF StartRecover
  <2>3. r \in Reservation /\ actual \in Nat
    BY <1>1, <2>2, FileAssumption
  <2>4. e \in Event /\ LineOK(e) /\ e.res = r
    BY <2>1, <2>3, NewLine DEF LineOK
  <2>5. Ends(e, r)
    BY <1>4, <2>1, <2>4 DEF Ends, StartRecover
  <2> QED  BY <1>3, <2>2, <2>4, <2>5
<1>5. ASSUME NEW r \in Durable.live, StartRelease(p, Loaded, r)
      PROVE  FileInv'
  <2>1. PICK e : e = NewEvent("RELEASE", r, 0, "released")
    OBVIOUS
  <2>2. Begin(p, "end", Loaded, <<e>>)
    BY <1>5, <2>1 DEF StartRelease
  <2>3. r \in Reservation
    BY <1>1, <2>2
  <2>4. e \in Event /\ LineOK(e) /\ e.res = r
    BY <2>1, <2>3, NewLine DEF LineOK
  <2>5. Ends(e, r)
    BY <2>1, <2>4 DEF Ends
  <2> QED  BY <1>3, <2>2, <2>4, <2>5
<1>6. ASSUME NEW r \in Durable.live, StartUnknown(p, Loaded, r)
      PROVE  FileInv'
  <2>1. PICK e : e = NewEvent("SETTLE_UNKNOWN", r, r.cost, "unknown")
    OBVIOUS
  <2>2. Begin(p, "end", Loaded, <<e>>)
    BY <1>6, <2>1 DEF StartUnknown
  <2>3. r \in Reservation /\ r.cost \in Nat
    BY <1>1, <2>2, LedgerAssumption DEF Reservation
  <2>4. e \in Event /\ LineOK(e) /\ e.res = r
    BY <2>1, <2>3, NewLine DEF LineOK
  <2>5. Ends(e, r)
    BY <2>1, <2>4 DEF Ends
  <2> QED  BY <1>3, <2>2, <2>4, <2>5
<1>7. ASSUME NEW r \in Loaded.st.live,
             \/ \E actual \in 0 .. MaxActual, outcome \in {"success", "provider_failure"} :
                   StartSettle(p, Loaded, r, actual, outcome)
             \/ \E actual \in 0 .. MaxActual, outcome \in {"released", "settled"} :
                   StartRecover(p, Loaded, r, actual, outcome)
             \/ StartRelease(p, Loaded, r)
             \/ StartUnknown(p, Loaded, r)
      PROVE  FileInv'
  <2>1. \E op, todo : Begin(p, op, Loaded, todo)
    BY <1>7 DEF StartSettle, StartRecover, StartRelease, StartUnknown
  <2>2. r \in Durable.live
    BY <1>1, <2>1
  <2> QED  BY <1>2, <1>4, <1>5, <1>6, <1>7, <2>2
<1> QED  BY <1>7, StartReserveStep, StartCompactStep DEF Start

-----------------------------------------------------------------------------
(* The inductive invariant holds: writing a line.                          *)

\* A line gets its sequence when it is written.
LEMMA Numbered ==
    ASSUME NEW d \in Event, NEW n \in Nat, NEW e, e = [d EXCEPT !.seq = n]
    PROVE  /\ e \in Event /\ e.seq = n /\ e.type = d.type /\ e.res = d.res
           /\ e.actual = d.actual /\ e.outcome = d.outcome
BY DEF Event

\* What the first line of a process is, and the event it becomes.
LEMMA FirstLine ==
    ASSUME FileInv, NEW p \in Procs, proc[p].pc \in {"write", "sync"},
           NEW e, e = NextEvent(p)
    PROVE  /\ lock = p /\ lock # NoProc /\ Holder = proc[p] /\ AtWork
           /\ Len(Holder.todo) \in {1, 2} /\ Holder.seq \in Nat
           /\ Line \in Event /\ LineOK(Line)
           /\ e \in Event /\ LineOK(e) /\ e.seq = Holder.seq + 1
           /\ e.type = Line.type /\ e.res = Line.res
           /\ e.actual = Line.actual /\ e.outcome = Line.outcome
<1>1. lock = p /\ lock # NoProc /\ Holder = proc[p] /\ AtWork
  BY HolderIsAtWork
<1>2. PICK g : g = Holder
  OBVIOUS
<1>3. g.todo \in Seq(Event) /\ g.seq \in Nat /\ Len(g.todo) \in {1, 2} /\ LinesOK(g.todo)
  BY <1>1, <1>2 DEF AtWork, Working, Writing, Syncing
<1>4. PICK d : d = g.todo[1]
  OBVIOUS
<1>5. d \in Event /\ LineOK(d) /\ Head(g.todo) = d
  BY <1>3, <1>4 DEF LinesOK
<1>6. PICK n \in Nat : n = g.seq + 1
  BY <1>3
<1>8. e = [d EXCEPT !.seq = n]
  <2>1. e = [Head(g.todo) EXCEPT !.seq = g.seq + 1]
    BY <1>1, <1>2 DEF NextEvent
  <2> QED  BY <1>5, <1>6, <2>1
<1>7. e \in Event /\ e.seq = g.seq + 1 /\ e.type = d.type /\ e.res = d.res
      /\ e.actual = d.actual /\ e.outcome = d.outcome
  BY <1>5, <1>6, <1>8, Numbered
<1> QED  BY <1>1, <1>2, <1>3, <1>4, <1>5, <1>7 DEF Line, LineOK

\* The kinds of lines a process may be about to write.
LEMMA LineKinds ==
    ASSUME FileInv, NEW p \in Procs, proc[p].pc = "write", NEW e, e = NextEvent(p)
    PROVE  /\ CanApply(Durable, e)
           /\ \/ /\ e.type = "RESERVE" /\ e.res \in Reservation
                 /\ \A r \in Durable.live \cup Ended : r.id # e.res.id
                 /\ Len(Holder.todo) = 1 /\ Holder.op = "reserve"
              \/ /\ e.type \in Ending /\ e.res \in Durable.live
                 /\ Len(Holder.todo) = 1 /\ Holder.op = "end"
              \/ /\ e.type = "SETTLE" /\ e.res \in Durable.live
                 /\ Len(Holder.todo) = 2 /\ Holder.op = "end"
                 /\ Follows(Holder.todo[2], Line)
              \/ /\ e.type = "OVERAGE" /\ e.res \in Ended \ Durable.live
                 /\ Len(Holder.todo) = 1 /\ Holder.op = "end"
              \/ /\ e.type = "CHECKPOINT" /\ Line = Checkpoint
                 /\ Len(Holder.todo) = 1 /\ (Holder.op = "reopen" \/ Compacting)
<1>1. /\ AtWork /\ Holder = proc[p] /\ Line \in Event /\ e \in Event /\ LineOK(e)
      /\ e.type = Line.type /\ e.res = Line.res
  BY FirstLine
<1>2. Writing /\ Durable \in State
  BY <1>1, DiskFacts DEF AtWork
<1>3. CASE Len(Holder.todo) = 1 /\ Holder.op = "reserve" /\ OpensOne
  <2>1. PICK spec \in Specs, id \in Ids :
           /\ Line = NewEvent("RESERVE", NewReservation(id, seen, spec), 0, "reserved")
           /\ CanReserve(Durable, seen, spec)
           /\ \A r \in Durable.live \cup Ended : r.id # id
    BY <1>3 DEF OpensOne
  <2>2. e.type = "RESERVE" /\ e.res = NewReservation(id, seen, spec)
    BY <1>1, <2>1 DEF NewEvent
  <2>3. e.res.id = id /\ e.res.day = seen /\ e.res.key = spec.key
    BY <2>2 DEF NewReservation
  <2>4. e.res \in Reservation
    BY <1>1, <2>2 DEF LineOK
  <2>5. CanApply(Durable, e)
    BY <1>1, <1>2, <2>1, <2>2, <2>3, OpeningLine DEF CanReserve
  <2> QED  BY <1>3, <2>1, <2>2, <2>3, <2>4, <2>5
<1>4. ASSUME NEW r \in Durable.live, Ends(Line, r)
      PROVE  e.type \in Ending /\ e.res = r /\ CanApply(Durable, e)
  <2>1. e.type \in Ending /\ e.res = r
    BY <1>1, <1>4 DEF Ends, NewEvent, Ending
  <2> QED  BY <1>1, <1>2, <2>1, EndingLine
<1>5. CASE /\ Len(Holder.todo) = 1 /\ Holder.op = "end"
           /\ \E r \in Durable.live : Ends(Line, r)
  BY <1>4, <1>5
<1>6. CASE /\ Len(Holder.todo) = 2 /\ Holder.op = "end"
           /\ \E r \in Durable.live : Ends(Line, r)
           /\ Follows(Holder.todo[2], Line)
  <2>1. e.type = "SETTLE"
    BY <1>1, <1>6 DEF Follows
  <2> QED  BY <1>4, <1>6, <2>1
<1>7. CASE /\ Len(Holder.todo) = 1 /\ Holder.op = "end" /\ Line.res \notin Durable.live
           /\ \E c \in charged : TellsOverage(Line, c)
  <2>1. e.type = "OVERAGE" /\ e.res \in Ended
    BY <1>1, <1>7 DEF TellsOverage, Ended
  <2>2. CanApply(Durable, e)
    BY <1>1, <1>2, <2>1, OtherLine
  <2> QED  BY <1>1, <1>7, <2>1, <2>2
<1>8. CASE Len(Holder.todo) = 1 /\ (Holder.op = "reopen" \/ Compacting) /\ Line = Checkpoint
  <2>1. e.type = "CHECKPOINT"
    BY <1>1, <1>8 DEF Checkpoint, NewEvent
  <2>2. CanApply(Durable, e)
    BY <1>1, <1>2, <2>1, OtherLine
  <2> QED  BY <1>8, <2>1, <2>2
<1> QED  BY <1>2, <1>3, <1>5, <1>6, <1>7, <1>8 DEF Writing

\* The process goes on to another step of its operation.
LEMMA GoChanges ==
    ASSUME FileInv, NEW p \in Procs, proc[p].pc # "idle", NEW pc, Go(p, pc), lock' = lock,
           pc \in {"write", "sync", "snapshot", "archive", "rotate", "create", "reopen"}
    PROVE  /\ lock' = p /\ Holder = proc[p] /\ AtWork
           /\ Holder' \in Working /\ Holder'.pc = pc
           /\ Holder'.op = Holder.op /\ Holder'.st = Holder.st
           /\ Holder'.seq = Holder.seq /\ Holder'.todo = Holder.todo
           /\ AtWork' => LockOK'
<1>1. lock = p /\ Holder = proc[p] /\ AtWork /\ Holder \in Working
  BY HolderIsAtWork DEF AtWork
<1>2. PICK h : h = Holder /\ h \in Working
  BY <1>1
<1>3. PICK g : g = [h EXCEPT !.pc = pc]
  OBVIOUS
<1>4. proc' = [proc EXCEPT ![p] = g]
  BY <1>1, <1>2, <1>3 DEF Go
<1>5. Holder' = g /\ (AtWork' => LockOK')
  <2>1. LockOK /\ MayHold(p) /\ lock' = p
    BY <1>1 DEF FileInv, MayHold
  <2> QED  BY <1>4, <2>1, GoesOn
<1>6. /\ g \in Working /\ g.pc = pc
      /\ g.op = h.op /\ g.st = h.st /\ g.seq = h.seq /\ g.todo = h.todo
  BY <1>2, <1>3 DEF Working
<1> QED  BY <1>1, <1>2, <1>5, <1>6

\* What becomes of the disk when a line is written.
LEMMA WriteChanges ==
    ASSUME FileInv, NEW p \in Procs, Write(p), NEW e, e = NextEvent(p)
    PROVE  /\ DiskOK' /\ Continues(disk'.snapshot, disk'.journal)
           /\ disk'.snapshot = disk.snapshot /\ disk'.synced = disk.synced
           /\ ~disk'.torn /\ disk'.present
           /\ Len(disk'.journal) = Len(disk.journal) + 1 /\ LastSeq' = LastSeq + 1
           /\ Durable' = Apply(Durable, e)
           /\ \A n \in 0 .. Len(disk.journal) :
                 Kept(disk'.snapshot, disk'.journal)[n] = Kept(disk.snapshot, disk.journal)[n]
<1>1. /\ AtWork /\ Holder = proc[p] /\ Holder.pc = "write" /\ Holder.seq \in Nat
      /\ e \in Event /\ LineOK(e) /\ e.seq = Holder.seq + 1
  BY FirstLine DEF Write
<1>2. CanApply(Durable, e)
  BY LineKinds DEF Write
<1>3. /\ disk.snapshot \in Snapshot /\ disk.journal \in Seq(Event) /\ disk.synced \in Nat
      /\ Len(disk.journal) \in Nat /\ disk.snapshot.seq \in Nat
  BY DiskFacts
<1>4. Continues(disk.snapshot, disk.journal) /\ Holder.seq = LastSeq /\ ~disk.torn
  BY <1>1 DEF AtWork, Writing
<1>5. PICK d, j : d = disk /\ j = Append(disk.journal, e)
  OBVIOUS
<1>6. /\ d \in Disk
      /\ d.present /\ ~d.torn /\ d.synced <= Len(d.journal) /\ LinesOK(d.journal)
  BY <1>4, <1>5 DEF FileInv, DiskOK, Write
<1>7. disk' = [d EXCEPT !.journal = j]
  BY <1>5 DEF Write
<1>8. /\ j \in Seq(Event) /\ Len(j) = Len(disk.journal) + 1
      /\ Continues(disk.snapshot, j)
      /\ Kept(disk.snapshot, j)[Len(j)] = Apply(Durable, e)
      /\ \A n \in 0 .. Len(disk.journal) :
            Kept(disk.snapshot, j)[n] = Kept(disk.snapshot, disk.journal)[n]
  <2>1. e.seq = disk.snapshot.seq + Len(disk.journal) + 1
    BY <1>1, <1>3, <1>4 DEF LastSeq
  <2>2. PICK snapshot, journal : snapshot = disk.snapshot /\ journal = disk.journal
    OBVIOUS
  <2>3. /\ snapshot \in Snapshot /\ journal \in Seq(Event) /\ LongerBy(j, journal, e)
        /\ Fits(e, snapshot, journal)
    BY <1>2, <1>3, <1>4, <1>5, <2>1, <2>2 DEF Durable, Fits, LongerBy
  <2>4. /\ j \in Seq(Event) /\ Len(j) = Len(journal) + 1
        /\ Continues(snapshot, j)
        /\ Kept(snapshot, j)[Len(j)] = Apply(Kept(snapshot, journal)[Len(journal)], e)
        /\ \A n \in 0 .. Len(journal) : Kept(snapshot, j)[n] = Kept(snapshot, journal)[n]
    <3>1. e \in Event
      BY <1>1
    <3> QED  BY <2>3, <3>1, AppendedLine
  <2> QED  BY <2>2, <2>4 DEF Durable
<1>9. LinesOK(j)
  BY <1>1, <1>3, <1>5, <1>6, <1>8 DEF LinesOK, Disk
<1>10. /\ disk' \in Disk
       /\ disk'.snapshot = d.snapshot /\ disk'.synced = d.synced /\ disk'.journal = j
       /\ disk'.torn = d.torn /\ disk'.present = d.present
       /\ disk'.archive = d.archive
  BY <1>6, <1>7, <1>8 DEF Disk
<1>11. disk'.synced <= Len(disk'.journal)
  BY <1>3, <1>5, <1>6, <1>8, <1>10
<1>12. DiskOK'
  BY <1>5, <1>6, <1>8, <1>9, <1>10, <1>11 DEF DiskOK
<1>13. Durable' = Apply(Durable, e)
  BY <1>5, <1>8, <1>10 DEF Durable
<1>14. LastSeq' = LastSeq + 1
  BY <1>3, <1>5, <1>8, <1>10 DEF LastSeq
<1> QED  BY <1>5, <1>6, <1>8, <1>10, <1>12, <1>13, <1>14

\* A line that ends a reservation records it as charged or freed; no other line
\* does.
LEMMA WriteEnds ==
    ASSUME FileInv, NEW p \in Procs, Write(p), NEW e, e = NextEvent(p)
    PROVE  /\ HistoryOK' /\ charged \subseteq charged'
           /\ e.type \in Ending => Ended' = Ended \cup {e.res}
           /\ e.type \notin Ending => Ended' = Ended
           /\ Charges(e) => \E c \in charged' : c.res = e.res /\ c.actual = e.actual
<1>1. e \in Event /\ LineOK(e)
  BY FirstLine DEF Write
<1>2. PICK c : c = [res |-> e.res, actual |-> e.actual]
  OBVIOUS
<1>3. c.res = e.res /\ c.actual = e.actual
  BY <1>2
<1>4. /\ charged' = charged \cup (IF Charges(e) THEN {c} ELSE {})
      /\ freed' = freed \cup (IF Frees(e) THEN {e.res} ELSE {})
      /\ UNCHANGED <<clock, seen, told>>
  BY <1>2 DEF Write
<1>5. /\ e.type \in Ending => Charges(e) \/ Frees(e)
      /\ e.type \notin Ending => ~Charges(e) /\ ~Frees(e)
  BY <1>1 DEF Ending, Charges, Frees, LineOK
<1>6. Ended' = Ended \cup (IF Charges(e) \/ Frees(e) THEN {e.res} ELSE {})
  BY <1>3, <1>4 DEF Ended
<1>7. HistoryOK'
  <2>1. Charges(e) \/ Frees(e) => e.res \in Reservation
    BY <1>1, <1>5 DEF LineOK, Ending
  <2>2. Charges(e) => c \in [res : Reservation, actual : Nat]
    BY <1>1, <1>2, <2>1 DEF Event
  <2> QED  BY <1>4, <2>1, <2>2 DEF FileInv, HistoryOK
<1> QED  BY <1>3, <1>4, <1>5, <1>6, <1>7

\* What was told stays so when a line keeps what is live or ended, and revives
\* nothing.
LEMMA ToldAfterLine ==
    ASSUME FileInv, told' = told, disk'.synced = disk.synced,
           Len(disk'.journal) = Len(disk.journal) + 1,
           \A n \in 0 .. Len(disk.journal) :
              Kept(disk'.snapshot, disk'.journal)[n] = Kept(disk.snapshot, disk.journal)[n],
           Durable.live \cup Ended \subseteq Durable'.live \cup Ended', Ended \subseteq Ended',
           (Ended \ Durable.live) \cap Durable'.live = {}
    PROVE  ToldOK'
<1>1. /\ disk.synced \in Nat /\ Len(disk.journal) \in Nat /\ disk.synced <= Len(disk.journal)
  BY DiskFacts DEF FileInv, DiskOK
<1>2. PICK N \in Nat, m \in Nat : N = Len(disk.journal) /\ m = disk.synced /\ m <= N
  BY <1>1
<1>3. PICK D, L : D = Durable'.live /\ L = Durable.live
  OBVIOUS
<1>4. /\ Kept(disk'.snapshot, disk'.journal)[N + 1].live = D
      /\ Kept(disk.snapshot, disk.journal)[N].live = L
  BY <1>2, <1>3 DEF Durable
<1>5. ASSUME NEW t \in told, NEW n \in m .. N
      PROVE  /\ t[1] = "reserved" =>
                   t[2] \in Kept(disk'.snapshot, disk'.journal)[n].live \cup Ended'
             /\ t[1] = "ended" =>
                   t[2] \in Ended' \ Kept(disk'.snapshot, disk'.journal)[n].live
  <2>1. n \in 0 .. N /\ n \in disk.synced .. Len(disk.journal)
    BY <1>2
  <2>2. Kept(disk'.snapshot, disk'.journal)[n] = Kept(disk.snapshot, disk.journal)[n]
    BY <1>2, <2>1
  <2>3. /\ t[1] = "reserved" => t[2] \in Kept(disk.snapshot, disk.journal)[n].live \cup Ended
        /\ t[1] = "ended" => t[2] \in Ended \ Kept(disk.snapshot, disk.journal)[n].live
    BY <2>1 DEF FileInv, ToldOK
  <2> QED  BY <2>2, <2>3
<1>6. ASSUME NEW t \in told
      PROVE  /\ t[1] = "reserved" => t[2] \in D \cup Ended'
             /\ t[1] = "ended" => t[2] \in Ended' \ D
  <2>1. N \in disk.synced .. Len(disk.journal)
    BY <1>2
  <2>2. /\ t[1] = "reserved" => t[2] \in L \cup Ended
        /\ t[1] = "ended" => t[2] \in Ended \ L
    BY <1>4, <2>1 DEF FileInv, ToldOK
  <2> QED  BY <1>3, <2>2
<1>7. ASSUME NEW t \in told, NEW n \in m .. N + 1
      PROVE  /\ t[1] = "reserved" =>
                   t[2] \in Kept(disk'.snapshot, disk'.journal)[n].live \cup Ended'
             /\ t[1] = "ended" =>
                   t[2] \in Ended' \ Kept(disk'.snapshot, disk'.journal)[n].live
  <2>1. n \in m .. N \/ n = N + 1
    BY <1>2
  <2> QED  BY <1>4, <1>5, <1>6, <2>1
<1> QED  BY <1>2, <1>7 DEF ToldOK

\* A written line takes nothing from what is live or ended, revives nothing, and
\* is as the process will tell it.
LEMMA WriteIsSafe ==
    ASSUME FileInv, NEW p \in Procs, Write(p)
    PROVE  /\ Durable.live \cup Ended \subseteq Durable'.live \cup Ended'
           /\ Ended \subseteq Ended' /\ (Ended \ Durable.live) \cap Durable'.live = {}
           /\ Syncing'
<1>1. PICK e : e = NextEvent(p)
  OBVIOUS
<1>2. /\ AtWork /\ Holder.pc = "write" /\ Writing /\ e \in Event /\ LineOK(e)
      /\ e.type = Line.type /\ e.res = Line.res /\ e.actual = Line.actual
      /\ Holder.seq = LastSeq
  BY <1>1, FirstLine DEF Write, AtWork, Writing
<1>3. /\ DiskOK' /\ Continues(disk'.snapshot, disk'.journal)
      /\ disk'.synced = disk.synced /\ ~disk'.torn /\ disk'.present
      /\ Len(disk'.journal) = Len(disk.journal) + 1 /\ LastSeq' = LastSeq + 1
      /\ Durable' = Apply(Durable, e)
      /\ \A n \in 0 .. Len(disk.journal) :
            Kept(disk'.snapshot, disk'.journal)[n] = Kept(disk.snapshot, disk.journal)[n]
  BY <1>1, WriteChanges
<1>4. /\ HistoryOK' /\ charged \subseteq charged'
      /\ e.type \in Ending => Ended' = Ended \cup {e.res}
      /\ e.type \notin Ending => Ended' = Ended
      /\ Charges(e) => \E c \in charged' : c.res = e.res /\ c.actual = e.actual
  BY <1>1, WriteEnds
<1>5. /\ Holder' \in Working /\ Holder'.pc = "sync"
      /\ Holder'.op = Holder.op /\ Holder'.st = Holder.st
      /\ Holder'.seq = Holder.seq /\ Holder'.todo = Holder.todo
      /\ AtWork' => LockOK'
  BY GoChanges DEF Write
<1>6. Line' = Line /\ LinesOK(Holder'.todo)
  BY <1>2, <1>5 DEF Line, AtWork
<1>7. Durable \in State /\ seen' = seen /\ told' = told /\ LastSeq \in Nat
  BY DiskFacts DEF Write
<1>8. CASE /\ e.type = "RESERVE" /\ e.res \in Reservation
           /\ \A r \in Durable.live \cup Ended : r.id # e.res.id
           /\ Len(Holder.todo) = 1 /\ Holder.op = "reserve"
  <2>1. Durable'.live = Durable.live \cup {e.res} /\ e.res \notin Ended /\ Ended' = Ended
    BY <1>2, <1>3, <1>4, <1>7, <1>8, OpeningLine DEF Ending
  <2>2. Syncing'
    BY <1>2, <1>3, <1>5, <1>6, <1>8, <2>1 DEF Syncing
  <2> QED  BY <2>1, <2>2
<1>9. ASSUME e.type \in Ending, e.res \in Durable.live
      PROVE  /\ Durable'.live = Durable.live \ {e.res} /\ Ended' = Ended \cup {e.res}
             /\ Durable.live \cup Ended \subseteq Durable'.live \cup Ended'
             /\ Ended \subseteq Ended' /\ (Ended \ Durable.live) \cap Durable'.live = {}
  BY <1>2, <1>3, <1>4, <1>7, <1>9, EndingLine
<1>10. CASE /\ e.type \in Ending /\ e.res \in Durable.live
            /\ Len(Holder.todo) = 1 /\ Holder.op = "end"
  <2>1. Syncing'
    BY <1>2, <1>3, <1>5, <1>6, <1>9, <1>10 DEF Syncing
  <2> QED  BY <1>9, <1>10, <2>1
<1>11. CASE /\ e.type = "SETTLE" /\ e.res \in Durable.live
            /\ Len(Holder.todo) = 2 /\ Holder.op = "end" /\ Follows(Holder.todo[2], Line)
  <2>1. e.type \in Ending
    BY <1>11 DEF Ending
  <2>2. PICK o : o = Holder.todo[2]
    OBVIOUS
  <2>3. o.type = "OVERAGE" /\ o.res = e.res /\ e.actual > e.res.cost
    BY <1>2, <1>11, <2>2 DEF Follows, NewEvent
  <2>4. e.res \in Reservation /\ e.res.cost \in Nat /\ e.actual \in Nat
    BY <1>2, <2>1, LedgerAssumption DEF LineOK, Ending, Reservation, Event
  <2>5. Charges(e)
    BY <1>11, <2>3, <2>4 DEF Charges, GivesKeyBack
  <2>6. \E c \in charged' : TellsOverage(o, c)
    BY <1>4, <2>3, <2>4, <2>5 DEF TellsOverage
  <2>7. Syncing'
    BY <1>2, <1>3, <1>5, <1>6, <1>9, <1>11, <2>1, <2>2, <2>3, <2>6 DEF Syncing
  <2> QED  BY <1>9, <1>11, <2>1, <2>7
<1>12. CASE /\ e.type = "OVERAGE" /\ e.res \in Ended \ Durable.live
            /\ Len(Holder.todo) = 1 /\ Holder.op = "end"
  <2>1. Durable'.live = Durable.live /\ Ended' = Ended
    BY <1>2, <1>3, <1>4, <1>7, <1>12, OtherLine DEF Ending
  <2>2. Syncing'
    BY <1>2, <1>3, <1>5, <1>6, <1>12, <2>1 DEF Syncing
  <2> QED  BY <2>1, <2>2
<1>13. CASE /\ e.type = "CHECKPOINT" /\ Line = Checkpoint
            /\ Len(Holder.todo) = 1 /\ (Holder.op = "reopen" \/ Compacting)
  <2>1. Durable' = Durable /\ Ended' = Ended
    BY <1>2, <1>3, <1>4, <1>7, <1>13, OtherLine DEF Ending
  <2>2. Syncing'
    BY <1>2, <1>3, <1>5, <1>6, <1>7, <1>13, <2>1 DEF Syncing, Compacting, Checkpoint
  <2> QED  BY <2>1, <2>2
<1> QED  BY <1>1, <1>8, <1>10, <1>11, <1>12, <1>13, LineKinds DEF Write

\* Writing a line keeps the invariant.
LEMMA WriteStep ==
    ASSUME FileInv, NEW p \in Procs, Write(p)
    PROVE  FileInv'
<1>1. /\ DiskOK' /\ Continues(disk'.snapshot, disk'.journal)
      /\ disk'.synced = disk.synced /\ ~disk'.torn /\ disk'.present
      /\ Len(disk'.journal) = Len(disk.journal) + 1
      /\ \A n \in 0 .. Len(disk.journal) :
            Kept(disk'.snapshot, disk'.journal)[n] = Kept(disk.snapshot, disk.journal)[n]
  BY WriteChanges
<1>2. HistoryOK'
  BY WriteEnds
<1>3. /\ Durable.live \cup Ended \subseteq Durable'.live \cup Ended'
      /\ Ended \subseteq Ended' /\ (Ended \ Durable.live) \cap Durable'.live = {}
      /\ Syncing'
  BY WriteIsSafe
<1>4. /\ Holder' \in Working /\ Holder'.pc = "sync" /\ Holder'.todo = Holder.todo /\ AtWork
      /\ AtWork' => LockOK'
  BY GoChanges DEF Write
<1>5. ToldOK'
  BY <1>1, <1>3, ToldAfterLine DEF Write
<1>6. AtWork'
  BY <1>1, <1>3, <1>4 DEF AtWork
<1> QED  BY <1>1, <1>2, <1>4, <1>5, <1>6 DEF FileInv

-----------------------------------------------------------------------------
(* The inductive invariant holds: after a line.                            *)

\* The disk of a process at work, as one record with typed fields.
LEMMA DiskRecord ==
    ASSUME FileInv, NEW d, d = disk
    PROVE  /\ d \in Disk
           /\ d.synced <= Len(d.journal) /\ LinesOK(d.journal) /\ Len(d.journal) \in Nat
           /\ ~d.present => d.journal = <<>>
           /\ Continues(d.snapshot, d.journal) \/ Contains(d.snapshot, d.journal)
BY DiskFacts DEF FileInv, DiskOK

\* An fsync changes nothing that is read.
LEMMA SyncChanges ==
    ASSUME FileInv, disk' = Fsynced
    PROVE  /\ DiskOK' /\ Durable' = Durable /\ LastSeq' = LastSeq
           /\ disk'.snapshot = disk.snapshot /\ disk'.journal = disk.journal
           /\ disk'.torn = disk.torn /\ disk'.present = disk.present
           /\ disk'.synced = Len(disk.journal)
<1>1. PICK d, n : d = disk /\ n = Len(disk.journal)
  OBVIOUS
<1>2. disk' = [d EXCEPT !.synced = n]
  BY <1>1 DEF Fsynced
<1>3. /\ d \in Disk
      /\ LinesOK(d.journal) /\ n \in Nat /\ (~d.present => d.journal = <<>>)
      /\ Continues(d.snapshot, d.journal) \/ Contains(d.snapshot, d.journal)
  BY <1>1, DiskRecord
<1>4. /\ disk' \in Disk
      /\ disk'.snapshot = d.snapshot /\ disk'.synced = n /\ disk'.journal = d.journal
      /\ disk'.torn = d.torn /\ disk'.present = d.present /\ disk'.archive = d.archive
  BY <1>2, <1>3 DEF Disk
<1>5. DiskOK'
  <2>1. disk'.synced <= Len(disk'.journal)
    BY <1>1, <1>3, <1>4
  <2> QED  BY <1>3, <1>4, <2>1 DEF DiskOK
<1>6. Durable' = Durable /\ LastSeq' = LastSeq
  BY <1>1, <1>4 DEF Durable, LastSeq
<1> QED  BY <1>1, <1>4, <1>5, <1>6

\* What is left of one line, or of two.
LEMMA LinesLeft ==
    ASSUME NEW todo \in Seq(Event), Len(todo) \in {1, 2}, NEW rest, rest = Tail(todo)
    PROVE  /\ rest \in Seq(Event)
           /\ rest = <<>> => Len(todo) = 1
           /\ rest # <<>> => Len(todo) = 2 /\ Len(rest) = 1 /\ rest[1] = todo[2]
<1>1. todo # <<>>
  <2>1. Len(todo) # 0
    OBVIOUS
  <2> QED  BY <2>1, EmptySeq
<1>2. /\ rest \in Seq(Event) /\ Len(rest) = Len(todo) - 1
      /\ \A i \in 1 .. Len(rest) : rest[i] = todo[i + 1]
  BY <1>1, HeadTailProperties
<1>3. (rest = <<>> => Len(rest) = 0) /\ (rest # <<>> => Len(rest) # 0)
  <2>1. rest # <<>> => Len(rest) \in Nat \ {0}
    BY <1>2, EmptySeq
  <2>2. Len(<<>>) = 0
    OBVIOUS
  <2> QED  BY <2>1, <2>2
<1>4. Len(todo) = 2 => rest[1] = todo[2]
  <2>1. Len(todo) = 2 => 1 \in 1 .. Len(rest) /\ 1 + 1 = 2
    BY <1>2
  <2> QED  BY <1>2, <2>1
<1> QED  BY <1>2, <1>3, <1>4

\* What Syncing says of the lines that are left.
LEMMA SyncKinds ==
    ASSUME FileInv, NEW p \in Procs, Sync(p), NEW e, e = NextEvent(p)
    PROVE  /\ Holder = proc[p] /\ lock = p /\ AtWork /\ Holder.seq + 1 = LastSeq
           /\ Apply(Holder.st, e) \in State
           /\ Tail(Holder.todo) # <<>> =>
                 /\ Len(Holder.todo) = 2 /\ Holder.op = "end"
                 /\ Holder.todo[2].res \notin Durable.live
                 /\ \E c \in charged : TellsOverage(Holder.todo[2], c)
           /\ Tail(Holder.todo) = <<>> =>
                 /\ Holder.op = "reserve" => e.res \in Durable.live
                 /\ Holder.op = "end" => e.res \in Ended \ Durable.live
                 /\ Holder.op = "compact" => Compacting /\ Apply(Holder.st, e) = Holder.st
<1>1. /\ lock = p /\ Holder = proc[p] /\ AtWork /\ Holder \in Working /\ LinesOK(Holder.todo)
      /\ e \in Event /\ LineOK(e) /\ e.type = Line.type /\ e.res = Line.res /\ Syncing
  BY FirstLine DEF Sync, AtWork
<1>2. PICK todo, s : todo = Holder.todo /\ s = Holder.st /\ todo \in Seq(Event) /\ s \in State
  BY <1>1 DEF Working
<1>3. /\ Tail(todo) # <<>> /\ Len(todo) \in {1, 2} => Len(todo) = 2
      /\ Tail(todo) = <<>> /\ Len(todo) \in {1, 2} => Len(todo) = 1
  BY <1>2, LinesLeft
<1>4. Apply(s, e) \in State
  BY <1>1, <1>2, ApplyType
<1>5. Len(todo) \in {1, 2} /\ Holder.seq + 1 = LastSeq
  BY <1>1, <1>2 DEF Syncing
<1>6. Tail(todo) # <<>> =>
         /\ Len(todo) = 2 /\ Holder.op = "end"
         /\ todo[2].res \notin Durable.live
         /\ \E c \in charged : TellsOverage(todo[2], c)
  BY <1>1, <1>2, <1>3, <1>5 DEF Syncing
<1>7. Tail(todo) = <<>> =>
         /\ Holder.op = "reserve" => e.res \in Durable.live
         /\ Holder.op = "end" => e.res \in Ended \ Durable.live
         /\ Holder.op = "compact" => Compacting /\ Line = Checkpoint
  <2> SUFFICES ASSUME Tail(todo) = <<>>
               PROVE  /\ Holder.op = "reserve" => e.res \in Durable.live
                      /\ Holder.op = "end" => e.res \in Ended \ Durable.live
                      /\ Holder.op = "compact" => Compacting /\ Line = Checkpoint
    OBVIOUS
  <2>1. Len(Holder.todo) = 1
    BY <1>2, <1>3, <1>5
  <2>2. Compacting => Holder.op = "compact"
    BY DEF Compacting
  <2>3. \/ Holder.op = "reserve" /\ e.res \in Durable.live
        \/ Holder.op = "end" /\ e.res \in Ended \ Durable.live
        \/ (Holder.op = "reopen" \/ Compacting) /\ Line = Checkpoint
    BY <1>1, <2>1 DEF Syncing
  <2> QED  BY <2>2, <2>3
<1>8. Line = Checkpoint => Apply(s, e) = s
  <2>1. Line = Checkpoint => e.type = "CHECKPOINT"
    BY <1>1 DEF Checkpoint, NewEvent
  <2> QED  BY <1>1, <1>2, <2>1, OtherLine
<1> QED  BY <1>1, <1>2, <1>4, <1>5, <1>6, <1>7, <1>8

\* What was told, and what is told now, is so after an fsync.
LEMMA ToldAfterSync ==
    ASSUME FileInv, disk' = Fsynced, UNCHANGED <<charged, freed>>,
           \A t \in told' \ told : /\ t[1] = "reserved" => t[2] \in Durable.live
                                   /\ t[1] = "ended" => t[2] \in Ended \ Durable.live
    PROVE  ToldOK'
<1>1. /\ Durable' = Durable /\ disk'.snapshot = disk.snapshot /\ disk'.journal = disk.journal
      /\ disk'.synced = Len(disk.journal)
  BY SyncChanges
<1>2. Ended' = Ended
  BY DEF Ended
<1>3. PICK N \in Nat : N = Len(disk.journal) /\ disk.synced \in Nat /\ disk.synced <= N
  BY DiskFacts DEF FileInv, DiskOK
<1>4. ASSUME NEW t \in told'
      PROVE  /\ t[1] = "reserved" => t[2] \in Durable.live \cup Ended
             /\ t[1] = "ended" => t[2] \in Ended \ Durable.live
  <2>1. CASE t \in told
    <3>1. N \in disk.synced .. Len(disk.journal)
      BY <1>3
    <3>2. /\ t[1] = "reserved" => t[2] \in Kept(disk.snapshot, disk.journal)[N].live \cup Ended
          /\ t[1] = "ended" => t[2] \in Ended \ Kept(disk.snapshot, disk.journal)[N].live
      BY <2>1, <3>1 DEF FileInv, ToldOK
    <3> QED  BY <1>3, <3>2 DEF Durable
  <2> QED  BY <2>1
<1>5. \A n \in disk'.synced .. Len(disk'.journal) : Kept(disk'.snapshot, disk'.journal)[n] = Durable
  BY <1>1, <1>3 DEF Durable
<1> QED  BY <1>2, <1>4, <1>5 DEF ToldOK

\* An fsync keeps the invariant, whatever follows it.
LEMMA SyncStep ==
    ASSUME FileInv, NEW p \in Procs, Sync(p)
    PROVE  FileInv'
<1>1. PICK e, h, rest : e = NextEvent(p) /\ h = Holder /\ rest = Tail(Holder.todo)
  OBVIOUS
<1>2. /\ h = proc[p] /\ lock = p /\ AtWork /\ h.seq + 1 = LastSeq /\ h \in Working
      /\ LinesOK(h.todo) /\ h.pc = "sync"
      /\ Apply(h.st, e) \in State
      /\ rest # <<>> => /\ Len(h.todo) = 2 /\ h.op = "end"
                        /\ h.todo[2].res \notin Durable.live
                        /\ \E c \in charged : TellsOverage(h.todo[2], c)
      /\ rest = <<>> => /\ h.op = "reserve" => e.res \in Durable.live
                        /\ h.op = "end" => e.res \in Ended \ Durable.live
                        /\ h.op = "compact" => Compacting /\ Apply(h.st, e) = h.st
  <2>1. h.pc = "sync" /\ h \in Working /\ LinesOK(h.todo)
    BY <1>1, SyncKinds DEF AtWork, Sync
  <2> QED  BY <1>1, <2>1, SyncKinds
<1>3. e \in Event /\ LineOK(e) /\ e.seq = h.seq + 1
  BY <1>1, FirstLine DEF Sync
<1>4. /\ DiskOK' /\ Durable' = Durable /\ LastSeq' = LastSeq
      /\ disk'.snapshot = disk.snapshot /\ disk'.journal = disk.journal
      /\ disk'.torn = disk.torn /\ disk'.present = disk.present
  BY SyncChanges DEF Sync
<1>5. UNCHANGED <<clock, seen, charged, freed>> /\ Ended' = Ended
  BY DEF Sync, Ended
<1>6. LastSeq \in Nat /\ Durable \in State
  BY DiskFacts
<1>7. Continues(disk.snapshot, disk.journal) /\ disk.present /\ ~disk.torn
  BY <1>1, <1>2 DEF AtWork
<1>8. ASSUME told' = told PROVE ToldOK' /\ HistoryOK'
  <2>1. HistoryOK'
    BY <1>5, <1>8 DEF FileInv, HistoryOK
  <2> QED  BY <1>5, <1>8, <2>1, ToldAfterSync DEF Sync
<1>9. ASSUME NEW pc \in {"write", "snapshot"}, lock' = lock,
             proc' = [proc EXCEPT ![p] = [pc |-> pc, op |-> h.op,
                                       st |-> Apply(h.st, e), seq |-> e.seq, todo |-> rest]]
      PROVE  \E g \in Working : /\ Holder' = g /\ (AtWork' => LockOK')
                                /\ g.pc = pc /\ g.op = h.op /\ g.seq = LastSeq
                                /\ g.st = Apply(h.st, e) /\ g.todo = rest
  <2>1. PICK g : g = [pc |-> pc, op |-> h.op, st |-> Apply(h.st, e), seq |-> e.seq, todo |-> rest]
    OBVIOUS
  <2>2. rest \in Seq(Event)
    <3>1. h.todo \in Seq(Event) /\ Len(h.todo) \in {1, 2}
      BY <1>1, <1>2 DEF Working, AtWork, Syncing
    <3> QED  BY <1>1, <1>2, <3>1, LinesLeft
  <2>3. /\ g \in Working /\ g.pc = pc /\ g.op = h.op /\ g.seq = LastSeq
        /\ g.st = Apply(h.st, e) /\ g.todo = rest
    BY <1>2, <1>3, <1>6, <2>1, <2>2 DEF Working
  <2>4. Holder' = g /\ (AtWork' => LockOK')
    <3>1. LockOK /\ MayHold(p) /\ lock' = p /\ proc' = [proc EXCEPT ![p] = g]
      BY <1>2, <1>9, <2>1 DEF FileInv, MayHold
    <3> QED  BY <3>1, GoesOn
  <2> QED  BY <2>3, <2>4
<1>10. \/ /\ rest # <<>> /\ lock' = lock /\ told' = told
          /\ proc' = [proc EXCEPT ![p] = [pc |-> "write", op |-> h.op,
                                       st |-> Apply(h.st, e), seq |-> e.seq, todo |-> rest]]
       \/ /\ rest = <<>> /\ h.op = "compact" /\ lock' = lock /\ told' = told
          /\ proc' = [proc EXCEPT ![p] = [pc |-> "snapshot", op |-> h.op,
                                       st |-> Apply(h.st, e), seq |-> e.seq, todo |-> rest]]
       \/ rest = <<>> /\ h.op = "reopen" /\ Leave(p) /\ told' = told
       \/ /\ rest = <<>> /\ h.op \in {"reserve", "end"} /\ Leave(p)
          /\ told' = told \cup {<<IF h.op = "reserve" THEN "reserved" ELSE "ended", e.res>>}
  BY <1>1, <1>2 DEF Sync
<1>11. CASE /\ rest # <<>> /\ lock' = lock /\ told' = told
            /\ proc' = [proc EXCEPT ![p] = [pc |-> "write", op |-> h.op,
                                         st |-> Apply(h.st, e), seq |-> e.seq, todo |-> rest]]
  <2>1. PICK g \in Working : /\ Holder' = g /\ (AtWork' => LockOK')
                             /\ g.pc = "write" /\ g.op = h.op /\ g.seq = LastSeq /\ g.todo = rest
    BY <1>9, <1>11
  <2>2. Len(rest) = 1 /\ rest[1] = h.todo[2] /\ LineOK(rest[1])
    <3>1. h.todo \in Seq(Event) /\ Len(h.todo) = 2 /\ rest = Tail(h.todo)
      BY <1>1, <1>2, <1>11 DEF Working
    <3>2. Len(rest) = 1 /\ rest[1] = h.todo[2]
      BY <1>11, <3>1, LinesLeft
    <3> QED  BY <1>2, <3>1, <3>2 DEF LinesOK
  <2>3. Writing'
    BY <1>2, <1>4, <1>5, <1>11, <2>1, <2>2 DEF Writing, Line
  <2>4. LinesOK(g.todo)
    BY <2>1, <2>2 DEF LinesOK
  <2>5. AtWork'
    BY <1>4, <1>7, <2>1, <2>3, <2>4 DEF AtWork
  <2> QED  BY <1>4, <1>8, <1>11, <2>1, <2>5 DEF FileInv
<1>12. CASE /\ rest = <<>> /\ h.op = "compact" /\ lock' = lock /\ told' = told
            /\ proc' = [proc EXCEPT ![p] = [pc |-> "snapshot", op |-> h.op,
                                         st |-> Apply(h.st, e), seq |-> e.seq, todo |-> rest]]
  <2>1. PICK g \in Working : /\ Holder' = g /\ (AtWork' => LockOK')
                             /\ g.pc = "snapshot" /\ g.op = h.op /\ g.seq = LastSeq
                             /\ g.st = Apply(h.st, e) /\ g.todo = rest
    BY <1>9, <1>12
  <2>2. Compacting'
    BY <1>1, <1>2, <1>4, <1>5, <1>12, <2>1 DEF Compacting
  <2>3. LinesOK(g.todo)
    BY <1>12, <2>1 DEF LinesOK
  <2>4. AtWork'
    BY <1>4, <1>7, <2>1, <2>2, <2>3 DEF AtWork
  <2> QED  BY <1>4, <1>8, <1>12, <2>1, <2>4 DEF FileInv
<1>13. CASE rest = <<>> /\ h.op = "reopen" /\ Leave(p) /\ told' = told
  <2>1. LockOK'
    BY <1>2, <1>13, LeavesWork DEF FileInv
  <2> QED  BY <1>4, <1>8, <1>13, <2>1 DEF FileInv
<1>14. CASE /\ rest = <<>> /\ h.op \in {"reserve", "end"} /\ Leave(p)
            /\ told' = told \cup {<<IF h.op = "reserve" THEN "reserved" ELSE "ended", e.res>>}
  <2>1. LockOK'
    BY <1>2, <1>14, LeavesWork DEF FileInv
  <2>2. PICK w : w = IF h.op = "reserve" THEN "reserved" ELSE "ended"
    OBVIOUS
  <2>3. \A t \in told' \ told : t = <<w, e.res>>
    BY <1>14, <2>2
  <2>4. \A t \in told' \ told : /\ t[1] = "reserved" => t[2] \in Durable.live
                                /\ t[1] = "ended" => t[2] \in Ended \ Durable.live
    BY <1>2, <1>14, <2>2, <2>3
  <2>5. ToldOK'
    BY <1>5, <2>4, ToldAfterSync DEF Sync
  <2>6. e.res \in Reservation
    BY <1>2, <1>5, <1>6, <1>14 DEF FileInv, HistoryOK, Ended, State
  <2>7. HistoryOK'
    BY <1>5, <1>14, <2>2, <2>6 DEF FileInv, HistoryOK
  <2> QED  BY <1>4, <2>1, <2>5, <2>7 DEF FileInv
<1> QED  BY <1>10, <1>11, <1>12, <1>13, <1>14

-----------------------------------------------------------------------------
(* The inductive invariant holds: the rest of a compaction, and the faults. *)

\* A step that changes only what the files are called, or that the last line is
\* torn, changes nothing that is read.
LEMMA SameLines ==
    ASSUME FileInv,
           disk' \in Disk,
           disk'.snapshot = disk.snapshot, disk'.journal = disk.journal,
           disk'.synced = disk.synced, disk.present => disk'.present,
           UNCHANGED <<charged, freed, told>>
    PROVE  DiskOK' /\ ToldOK' /\ Durable' = Durable /\ LastSeq' = LastSeq /\ Ended' = Ended
<1>1. DiskOK'
  BY DEF FileInv, DiskOK
<1>2. Durable' = Durable /\ LastSeq' = LastSeq /\ Ended' = Ended
  BY DEF Durable, LastSeq, Ended
<1>3. ToldOK'
  BY <1>2 DEF FileInv, ToldOK
<1> QED  BY <1>1, <1>2, <1>3

\* While what is live stays the same, whatever line is the last, so does what
\* was told.
LEMMA SameLive ==
    ASSUME FileInv, UNCHANGED <<charged, freed, told>>,
           \A n \in disk'.synced .. Len(disk'.journal) :
              Kept(disk'.snapshot, disk'.journal)[n].live = Durable.live
    PROVE  ToldOK'
<1>1. Ended' = Ended
  BY DEF Ended
<1>2. PICK N \in Nat : N = Len(disk.journal) /\ disk.synced \in Nat /\ disk.synced <= N
  BY DiskFacts DEF FileInv, DiskOK
<1>3. ASSUME NEW t \in told
      PROVE  /\ t[1] = "reserved" => t[2] \in Durable.live \cup Ended
             /\ t[1] = "ended" => t[2] \in Ended \ Durable.live
  <2>1. N \in disk.synced .. Len(disk.journal)
    BY <1>2
  <2>2. /\ t[1] = "reserved" => t[2] \in Kept(disk.snapshot, disk.journal)[N].live \cup Ended
        /\ t[1] = "ended" => t[2] \in Ended \ Kept(disk.snapshot, disk.journal)[N].live
    BY <2>1 DEF FileInv, ToldOK
  <2> QED  BY <1>2, <2>2 DEF Durable
<1> QED  BY <1>1, <1>3 DEF ToldOK

\* A compaction's snapshot stands for the pruned state, whatever line follows.
LEMMA SnapshotChanges ==
    ASSUME FileInv, NEW p \in Procs, WriteSnapshot(p)
    PROVE  /\ DiskOK' /\ Contains(disk'.snapshot, disk'.journal)
           /\ Durable' = Prune(Durable, seen)
           /\ disk'.torn = disk.torn /\ disk'.present = disk.present
           /\ \A n \in disk'.synced .. Len(disk'.journal) :
                 Kept(disk'.snapshot, disk'.journal)[n].live = Durable.live
<1>1. /\ Holder = proc[p] /\ AtWork /\ Holder.pc = "snapshot" /\ Holder.st \in State
      /\ Continues(disk.snapshot, disk.journal) /\ Holder.seq = LastSeq
      /\ Holder.st = Prune(Durable, seen)
  BY HolderIsAtWork DEF WriteSnapshot, AtWork, Working, Compacting
<1>2. PICK d, s : d = disk /\ s = [st |-> Holder.st, seq |-> LastSeq]
  OBVIOUS
<1>3. disk' = [d EXCEPT !.snapshot = s]
  BY <1>1, <1>2 DEF WriteSnapshot
<1>4. /\ d \in Disk
      /\ d.synced <= Len(d.journal) /\ LinesOK(d.journal) /\ Len(d.journal) \in Nat
      /\ ~d.present => d.journal = <<>>
  BY <1>2, DiskRecord
<1>5. s \in Snapshot /\ s.seq = LastSeq /\ s.st = Prune(Durable, seen)
  BY <1>1, <1>2, DiskFacts DEF Snapshot
<1>6. /\ disk' \in Disk
      /\ disk'.snapshot = s /\ disk'.synced = d.synced /\ disk'.journal = d.journal
      /\ disk'.torn = d.torn /\ disk'.present = d.present
  BY <1>3, <1>4, <1>5 DEF Disk
<1>7. Contains(s, d.journal)
  <2>0. PICK snapshot, journal : snapshot = disk.snapshot /\ journal = disk.journal
    OBVIOUS
  <2>1. PICK a \in Nat, b \in Nat : a = snapshot.seq /\ b = Len(journal) /\ LastSeq = a + b
    BY <2>0, DiskFacts DEF LastSeq
  <2>2. \A n \in 1 .. b : journal[n].seq = a + n
    <3>1. snapshot \in Snapshot /\ journal \in Seq(Event) /\ Continues(snapshot, journal)
      BY <1>1, <2>0, <2>1, DiskFacts
    <3> QED  BY <2>1, <3>1, ReadThroughout
  <2>3. \A n \in 1 .. b : journal[n].seq <= a + b
    BY <2>2
  <2>4. DOMAIN journal = 1 .. b
    BY <2>0, <2>1, DiskFacts
  <2> QED  BY <1>2, <1>5, <2>0, <2>1, <2>3, <2>4 DEF Contains
<1>8. DiskOK'
  BY <1>4, <1>6, <1>7 DEF DiskOK
<1>9. PICK journal : journal = d.journal
  OBVIOUS
<1>10. \A n \in 0 .. Len(journal) : Kept(s, journal)[n] = s.st
  BY <1>4, <1>5, <1>7, <1>9, NothingBeyond DEF Disk
<1>11. Durable' = Prune(Durable, seen)
  BY <1>4, <1>5, <1>6, <1>9, <1>10 DEF Durable
<1>12. Prune(Durable, seen).live = Durable.live
  BY DiskFacts, PruneType DEF FileInv, HistoryOK
<1>13. \A n \in disk'.synced .. Len(disk'.journal) : n \in 0 .. Len(journal)
  BY <1>4, <1>6, <1>9 DEF Disk
<1> QED  BY <1>2, <1>5, <1>6, <1>7, <1>8, <1>9, <1>10, <1>11, <1>12, <1>13

\* Replacing the snapshot keeps the invariant.
LEMMA SnapshotStep ==
    ASSUME FileInv, NEW p \in Procs, WriteSnapshot(p)
    PROVE  FileInv'
<1>1. /\ DiskOK' /\ Contains(disk'.snapshot, disk'.journal)
      /\ disk'.torn = disk.torn /\ disk'.present = disk.present
      /\ \A n \in disk'.synced .. Len(disk'.journal) :
            Kept(disk'.snapshot, disk'.journal)[n].live = Durable.live
  BY SnapshotChanges
<1>2. ToldOK'
  BY <1>1, SameLive DEF WriteSnapshot
<1>3. HistoryOK'
  BY DEF WriteSnapshot, FileInv, HistoryOK
<1>4. /\ Holder = proc[p] /\ AtWork /\ Holder.pc = "snapshot"
      /\ Holder' \in Working /\ Holder'.pc = "archive" /\ Holder'.todo = Holder.todo
      /\ AtWork' => LockOK'
  BY GoChanges DEF WriteSnapshot
<1>5. AtWork'
  BY <1>1, <1>4 DEF AtWork
<1> QED  BY <1>1, <1>2, <1>3, <1>4, <1>5 DEF FileInv

\* The archive is another file: the ledger's own stay as they are.
LEMMA ArchiveStep ==
    ASSUME FileInv, NEW p \in Procs, WriteArchive(p)
    PROVE  FileInv'
<1>1. PICK d, a : d = disk /\ a = disk.archive \cup {MonthOf[clock]}
  OBVIOUS
<1>2. disk' = [d EXCEPT !.archive = a]
  BY <1>1 DEF WriteArchive
<1>3. /\ d \in Disk
      /\ clock \in Days
  BY <1>1, DiskRecord DEF FileInv, HistoryOK
<1>4. a \in SUBSET {MonthOf[i] : i \in Days}
  BY <1>1, <1>3 DEF Disk
<1>5. /\ disk' \in Disk
      /\ disk'.snapshot = disk.snapshot /\ disk'.journal = disk.journal
      /\ disk'.synced = disk.synced /\ disk'.present = disk.present /\ disk'.torn = disk.torn
  BY <1>1, <1>2, <1>3, <1>4 DEF Disk
<1>6. DiskOK' /\ ToldOK'
  BY <1>5, SameLines DEF WriteArchive
<1>7. HistoryOK'
  BY DEF WriteArchive, FileInv, HistoryOK
<1>8. /\ Holder = proc[p] /\ AtWork /\ Holder.pc = "archive"
      /\ Holder' \in Working /\ Holder'.pc = "rotate" /\ Holder'.todo = Holder.todo
      /\ AtWork' => LockOK'
  BY GoChanges DEF WriteArchive
<1>9. AtWork'
  BY <1>5, <1>8 DEF AtWork
<1> QED  BY <1>6, <1>7, <1>8, <1>9 DEF FileInv

\* The journal that is renamed away is contained in the snapshot.
LEMMA RotateChanges ==
    ASSUME FileInv, NEW p \in Procs, Rotate(p)
    PROVE  /\ DiskOK' /\ ToldOK' /\ Durable' = Durable
           /\ disk'.torn = disk.torn /\ disk'.present = FALSE /\ disk'.journal = <<>>
<1>1. AtWork /\ Contains(disk.snapshot, disk.journal)
  BY HolderIsAtWork DEF Rotate, AtWork
<1>2. PICK d : d = disk
  OBVIOUS
<1>3. disk' = [d EXCEPT !.journal = <<>>, !.synced = 0, !.present = FALSE]
  BY <1>2 DEF Rotate
<1>4. d \in Disk
  BY <1>2, DiskRecord
<1>5. /\ disk' \in Disk
      /\ disk'.snapshot = disk.snapshot /\ disk'.journal = <<>>
      /\ disk'.synced = 0 /\ disk'.present = FALSE /\ disk'.torn = disk.torn
  <2>1. <<>> \in Seq(Event)
    OBVIOUS
  <2> QED  BY <1>2, <1>3, <1>4, <2>1 DEF Disk
<1>6. PICK snapshot, journal : snapshot = disk.snapshot /\ journal = disk.journal
  OBVIOUS
<1>7. /\ snapshot \in Snapshot /\ journal \in Seq(Event) /\ Contains(snapshot, journal)
      /\ Len(journal) \in 0 .. Len(journal)
  BY <1>1, <1>6, DiskFacts
<1>8. Continues(snapshot, <<>>) /\ Kept(snapshot, <<>>)[0] = snapshot.st
  BY <1>7, EmptyJournal
<1>9. Durable = snapshot.st
  BY <1>6, <1>7, NothingBeyond DEF Durable
<1>10. Len(<<>>) = 0
  OBVIOUS
<1>11. Durable' = Durable
  BY <1>5, <1>6, <1>8, <1>9, <1>10 DEF Durable
<1>12. DiskOK'
  BY <1>5, <1>6, <1>8, <1>10 DEF DiskOK, LinesOK
<1>13. \A n \in disk'.synced .. Len(disk'.journal) :
          Kept(disk'.snapshot, disk'.journal)[n].live = Durable.live
  BY <1>5, <1>6, <1>8, <1>9, <1>10
<1>14. ToldOK'
  BY <1>13, SameLive DEF Rotate
<1> QED  BY <1>5, <1>11, <1>12, <1>14

\* Rotating the journal keeps the invariant.
LEMMA RotateStep ==
    ASSUME FileInv, NEW p \in Procs, Rotate(p)
    PROVE  FileInv'
<1>1. /\ DiskOK' /\ ToldOK'
      /\ disk'.torn = disk.torn /\ disk'.present = FALSE /\ disk'.journal = <<>>
  BY RotateChanges
<1>2. HistoryOK'
  BY DEF Rotate, FileInv, HistoryOK
<1>3. /\ Holder = proc[p] /\ AtWork /\ Holder.pc = "rotate"
      /\ Holder' \in Working /\ Holder'.pc = "create" /\ Holder'.todo = Holder.todo
      /\ AtWork' => LockOK'
  BY GoChanges DEF Rotate
<1>4. AtWork'
  BY <1>1, <1>3 DEF AtWork
<1> QED  BY <1>1, <1>2, <1>3, <1>4 DEF FileInv

\* Creating the empty journal keeps the invariant.
LEMMA CreateStep ==
    ASSUME FileInv, NEW p \in Procs, Create(p)
    PROVE  FileInv'
<1>1. PICK d : d = disk
  OBVIOUS
<1>2. disk' = [d EXCEPT !.present = TRUE]
  BY <1>1 DEF Create
<1>3. d \in Disk
  BY <1>1, DiskRecord
<1>4. /\ disk' \in Disk
      /\ disk'.snapshot = disk.snapshot /\ disk'.journal = disk.journal
      /\ disk'.synced = disk.synced /\ disk'.present = TRUE /\ disk'.torn = disk.torn
  BY <1>1, <1>2, <1>3 DEF Disk
<1>5. DiskOK' /\ ToldOK'
  BY <1>4, SameLines DEF Create
<1>6. HistoryOK'
  BY DEF Create, FileInv, HistoryOK
<1>7. /\ Holder = proc[p] /\ AtWork /\ Holder.pc = "create"
      /\ Holder' \in Working /\ Holder'.pc = "reopen" /\ Holder'.todo = Holder.todo
      /\ AtWork' => LockOK'
  BY GoChanges DEF Create
<1>8. AtWork'
  BY <1>4, <1>7 DEF AtWork
<1> QED  BY <1>5, <1>6, <1>7, <1>8 DEF FileInv

-----------------------------------------------------------------------------
(* The inductive invariant holds: reopening, faults and time.              *)

\* The new journal opens with a CHECKPOINT.
LEMMA ReopenStep ==
    ASSUME FileInv, NEW p \in Procs, Reopen(p)
    PROVE  FileInv'
<1>1. lock = p /\ AtWork
  BY HolderIsAtWork DEF Reopen
<1>2. Loaded.ok /\ Loaded.st = Durable /\ Loaded.seq = LastSeq /\ LastSeq \in Nat
      /\ Durable \in State
  BY DiskFacts DEF Reopen
<1>3. PICK g : g = [pc |-> "write", op |-> "reopen", st |-> Durable, seq |-> LastSeq,
                    todo |-> <<Checkpoint>>]
  OBVIOUS
<1>4. /\ MayHold(p) /\ lock' = p /\ proc' = [proc EXCEPT ![p] = g] /\ seen' \in {seen, clock}
      /\ UNCHANGED <<disk, clock, charged, freed, told>>
  BY <1>1, <1>2, <1>3 DEF Reopen, Checkpoint, MayHold
<1>5. Checkpoint \in Event /\ LineOK(Checkpoint)
  BY NewLine DEF LineOK, Checkpoint
<1>6. /\ g \in Working /\ g.pc = "write" /\ LinesOK(g.todo)
      /\ g.seq = LastSeq /\ g.op = "reopen" /\ Len(g.todo) = 1 /\ g.todo[1] = Checkpoint
  BY <1>2, <1>3, <1>5 DEF Working, LinesOK
<1>7. Holder' = g
  BY <1>4, GoesOn DEF FileInv
<1>8. LastSeq' = LastSeq
  BY <1>4, SameDisk
<1>9. Writing'
  BY <1>6, <1>7, <1>8 DEF Writing, Checkpoint, Line
<1> QED  BY <1>2, <1>4, <1>6, <1>9, BeginStep

\* A process that leaves its operation, or is killed, leaves the disk as it is.
LEMMA LeaveStep ==
    ASSUME FileInv, NEW p \in Procs, proc[p].pc # "idle", Leave(p),
           UNCHANGED <<disk, clock, seen, charged, freed, told>>
    PROVE  FileInv'
<1>1. lock = p
  BY HolderIsAtWork
<1>2. LockOK'
  BY <1>1, LeavesWork DEF FileInv
<1>3. DiskOK' /\ ToldOK'
  BY SameDisk
<1>4. HistoryOK'
  BY DEF FileInv, HistoryOK
<1> QED  BY <1>2, <1>3, <1>4 DEF FileInv

\* A short write leaves a partial line, and nobody at work.
LEMMA ShortWriteStep ==
    ASSUME FileInv, NEW p \in Procs, ShortWrite(p)
    PROVE  FileInv'
<1>1. lock = p
  BY HolderIsAtWork DEF ShortWrite
<1>2. LockOK'
  BY <1>1, LeavesWork DEF FileInv, ShortWrite
<1>3. PICK d : d = disk
  OBVIOUS
<1>4. disk' = [d EXCEPT !.torn = TRUE]
  BY <1>3 DEF ShortWrite
<1>5. d \in Disk
  BY <1>3, DiskRecord
<1>6. /\ disk' \in Disk
      /\ disk'.snapshot = disk.snapshot /\ disk'.journal = disk.journal
      /\ disk'.synced = disk.synced /\ disk'.present = disk.present
  BY <1>3, <1>4, <1>5 DEF Disk
<1>7. DiskOK' /\ ToldOK'
  BY <1>6, SameLines DEF ShortWrite
<1>8. HistoryOK'
  BY DEF ShortWrite, FileInv, HistoryOK
<1> QED  BY <1>2, <1>7, <1>8 DEF FileInv

\* A power loss may take the lines after the last fsync, of which nothing was
\* told that is not so without them.
LEMMA PowerLossStep ==
    ASSUME FileInv, PowerLoss
    PROVE  FileInv'
<1>1. PICK m \in disk.synced .. Len(disk.journal), torn \in BOOLEAN :
         disk' = [disk EXCEPT !.journal = SubSeq(@, 1, m), !.synced = m, !.torn = torn]
  BY DEF PowerLoss
<1>2. PICK d, snapshot, journal, new :
         /\ d = disk /\ snapshot = disk.snapshot /\ journal = disk.journal
         /\ new = SubSeq(disk.journal, 1, m)
  OBVIOUS
<1>3. disk' = [d EXCEPT !.journal = new, !.synced = m, !.torn = torn]
  BY <1>1, <1>2
<1>4. /\ d \in Disk
      /\ snapshot \in Snapshot /\ journal \in Seq(Event) /\ m \in Nat /\ m <= Len(journal)
      /\ LinesOK(journal) /\ (~d.present => journal = <<>>)
      /\ Continues(snapshot, journal) \/ Contains(snapshot, journal)
  BY <1>1, <1>2, DiskRecord, DiskFacts
<1>5. /\ new \in Seq(Event) /\ Len(new) = m
      /\ \A n \in 1 .. m : new[n] = journal[n]
      /\ Continues(snapshot, journal) => Continues(snapshot, new)
      /\ Contains(snapshot, journal) => Contains(snapshot, new)
      /\ Kept(snapshot, new)[m] = Kept(snapshot, journal)[m]
  <2>1. Shortened(new, journal, m)
    BY <1>2, <1>4 DEF Shortened
  <2> QED  BY <1>4, <2>1, ShortenedJournal
<1>6. /\ disk' \in Disk
      /\ disk'.snapshot = snapshot /\ disk'.journal = new /\ disk'.synced = m
      /\ disk'.present = d.present
  BY <1>2, <1>3, <1>4, <1>5 DEF Disk
<1>7. DiskOK'
  <2>1. LinesOK(new)
    BY <1>4, <1>5 DEF LinesOK
  <2>2. ~d.present => new = <<>>
    <3>1. journal = <<>> => Len(journal) = 0
      OBVIOUS
    <3>2. journal = <<>> => Len(new) = 0
      BY <1>4, <1>5, <3>1
    <3>3. Len(new) = 0 => new = <<>>
      BY <1>5, EmptySeq
    <3> QED  BY <1>4, <3>2, <3>3
  <2>3. m <= Len(new) /\ m \in Nat
    BY <1>4, <1>5
  <2> QED  BY <1>4, <1>5, <1>6, <2>1, <2>2, <2>3 DEF DiskOK
<1>8. UNCHANGED <<clock, seen, charged, freed, told>> /\ Ended' = Ended
  BY DEF PowerLoss, Ended
<1>9. ToldOK'
  <2>1. ASSUME NEW t \in told, NEW n \in disk'.synced .. Len(disk'.journal)
        PROVE  /\ t[1] = "reserved" =>
                     t[2] \in Kept(disk'.snapshot, disk'.journal)[n].live \cup Ended'
               /\ t[1] = "ended" =>
                     t[2] \in Ended' \ Kept(disk'.snapshot, disk'.journal)[n].live
    <3>1. n = m
      BY <1>4, <1>5, <1>6
    <3>2. Kept(disk'.snapshot, disk'.journal)[n] = Kept(disk.snapshot, disk.journal)[n]
      BY <1>2, <1>5, <1>6, <3>1
    <3>3. /\ t[1] = "reserved" => t[2] \in Kept(disk.snapshot, disk.journal)[n].live \cup Ended
          /\ t[1] = "ended" => t[2] \in Ended \ Kept(disk.snapshot, disk.journal)[n].live
      BY <3>1 DEF FileInv, ToldOK
    <3> QED  BY <1>8, <3>2, <3>3
  <2> QED  BY <1>8, <2>1 DEF ToldOK
<1>10. LockOK'
  BY FileAssumption DEF PowerLoss, LockOK, Idle
<1>11. HistoryOK'
  BY <1>8 DEF FileInv, HistoryOK
<1> QED  BY <1>7, <1>9, <1>10, <1>11 DEF FileInv

\* Nothing but the clock, or nothing at all, changes.
LEMMA ClockStep ==
    ASSUME FileInv, UNCHANGED <<disk, lock, proc, seen, charged, freed, told>>,
           clock' \in Days, clock <= clock'
    PROVE  FileInv'
<1>1. DiskOK' /\ ToldOK' /\ Durable' = Durable /\ LastSeq' = LastSeq /\ Ended' = Ended
  BY SameDisk
<1>2. Holder' = Holder /\ Line' = Line
  BY DEF Holder, Line
<1>3. OpensOne' = OpensOne
  BY <1>1, <1>2 DEF OpensOne
<1>4. Compacting' = Compacting
  BY <1>1, <1>2 DEF Compacting
<1>5. Writing' = Writing
  BY <1>1, <1>2, <1>3, <1>4 DEF Writing, Checkpoint
<1>6. Syncing' = Syncing
  BY <1>1, <1>2, <1>4 DEF Syncing, Checkpoint
<1>7. AtWork' = AtWork
  BY <1>1, <1>2, <1>4, <1>5, <1>6 DEF AtWork
<1>8. LockOK'
  BY <1>7 DEF FileInv, LockOK
<1>9. HistoryOK'
  BY DEF FileInv, HistoryOK, Days
<1> QED  BY <1>1, <1>8, <1>9 DEF FileInv

-----------------------------------------------------------------------------
(* The inductive invariant holds.                                          *)

\* initialize() leaves an empty ledger.
LEMMA FileInvInit ==
    ASSUME Init
    PROVE  FileInv
<1>1. 1 \in Days
  BY LedgerAssumption DEF Days
<1>2. PICK s : s = [st |-> EmptyState, seq |-> 0]
  OBVIOUS
<1>3. s \in Snapshot
  <2>1. EmptyState \in State
    BY DEF EmptyState, State, Status
  <2> QED  BY <1>2, <2>1 DEF Snapshot
<1>4. disk = [snapshot |-> s, journal |-> <<>>, synced |-> 0, torn |-> FALSE, present |-> TRUE,
              archive |-> {}]
  BY <1>2 DEF Init
<1>5. <<>> \in Seq(Event) /\ Len(<<>>) = 0
  OBVIOUS
<1>6. DiskOK
  BY <1>3, <1>4, <1>5, EmptyJournal DEF DiskOK, LinesOK, Disk
<1>7. LockOK
  BY FileAssumption DEF Init, LockOK, Idle
<1>8. ToldOK
  BY DEF Init, ToldOK
<1>9. HistoryOK
  BY <1>1 DEF Init, HistoryOK, Days
<1> QED  BY <1>6, <1>7, <1>8, <1>9 DEF FileInv

\* Every step keeps the invariant.
LEMMA FileInvStep ==
    ASSUME FileInv, [Next]_vars
    PROVE  FileInv'
<1>1. ASSUME NEW p \in Procs, Start(p) PROVE FileInv'
  BY <1>1, StartStep
<1>2. ASSUME NEW p \in Procs, Write(p) PROVE FileInv'
  BY <1>2, WriteStep
<1>3. ASSUME NEW p \in Procs, Sync(p) PROVE FileInv'
  BY <1>3, SyncStep
<1>4. ASSUME NEW p \in Procs, WriteSnapshot(p) PROVE FileInv'
  BY <1>4, SnapshotStep
<1>5. ASSUME NEW p \in Procs, WriteArchive(p) PROVE FileInv'
  BY <1>5, ArchiveStep
<1>6. ASSUME NEW p \in Procs, ArchiveExists(p) PROVE FileInv'
  BY <1>6, LeaveStep DEF ArchiveExists
<1>7. ASSUME NEW p \in Procs, Rotate(p) PROVE FileInv'
  BY <1>7, RotateStep
<1>8. ASSUME NEW p \in Procs, Create(p) PROVE FileInv'
  BY <1>8, CreateStep
<1>9. ASSUME NEW p \in Procs, Reopen(p) PROVE FileInv'
  BY <1>9, ReopenStep
<1>10. ASSUME NEW p \in Procs, ShortWrite(p) PROVE FileInv'
  BY <1>10, ShortWriteStep
<1>11. ASSUME NEW p \in Procs, Abort(p) PROVE FileInv'
  BY <1>11, LeaveStep DEF Abort
<1>12. CASE PowerLoss
  BY <1>12, PowerLossStep
<1>13. CASE Tick
  <2>1. clock' \in Days /\ clock <= clock'
    BY <1>13, LedgerAssumption DEF Tick, FileInv, HistoryOK, Days
  <2> QED  BY <1>13, <2>1, ClockStep DEF Tick
<1>14. CASE UNCHANGED vars
  <2>1. clock' \in Days /\ clock <= clock'
    BY <1>14 DEF vars, FileInv, HistoryOK, Days
  <2> QED  BY <1>14, <2>1, ClockStep DEF vars
<1> QED  BY <1>1, <1>2, <1>3, <1>4, <1>5, <1>6, <1>7, <1>8, <1>9, <1>10, <1>11, <1>12, <1>13,
            <1>14 DEF Next, Step

\* The disk, the lock and what was told always agree: whatever process stops
\* where, and whatever lines a power loss takes.
THEOREM FileInvAlways == Spec => []FileInv
<1>1. Init => FileInv
  BY FileInvInit
<1>2. FileInv /\ [Next]_vars => FileInv'
  BY FileInvStep
<1> QED  BY <1>1, <1>2, PTL DEF Spec

\* The ledger's files, processes and history keep their types; what was fsynced is
\* never longer than the journal.
THEOREM TypeCorrect == Spec => []TypeOK
<1>1. ASSUME FileInv PROVE TypeOK
  <2>1. disk \in Disk /\ disk.synced <= Len(disk.journal)
    BY <1>1 DEF FileInv, DiskOK
  <2>2. Idle \in [pc : {"idle"}, op : {"none"}, st : State, seq : Nat, todo : Seq(Event)]
    BY DEF Idle, EmptyState, State, Status
  <2>3. \A p \in Procs : proc[p] = Idle \/ proc[p] \in Working
    BY <1>1, FileAssumption DEF FileInv, LockOK, AtWork, Holder
  <2>4. \A p \in Procs :
           proc[p] \in [pc : {"idle", "write", "sync", "snapshot", "archive", "rotate",
                             "create", "reopen"},
                       op : {"none", "reserve", "end", "compact", "reopen"},
                       st : State, seq : Nat, todo : Seq(Event)]
    BY <2>2, <2>3 DEF Working
  <2>5. proc = [p \in Procs |-> proc[p]] /\ lock \in Procs \cup {NoProc}
    BY <1>1 DEF FileInv, LockOK
  <2> QED  BY <1>1, <2>1, <2>4, <2>5 DEF TypeOK, FileInv, HistoryOK, Disk, Snapshot
<1> QED  BY <1>1, FileInvAlways, PTL

\* _load_state refuses the disk, with the lock free, only for a partial line or for
\* a compaction that stopped after its snapshot, which then has every event of
\* the refused journal.
THEOREM RefusedRightly == Spec => []RefusedForAReason
<1>1. ASSUME FileInv PROVE RefusedForAReason
  <2> SUFFICES ASSUME ~Loaded.ok, ~disk.torn
               PROVE  /\ HalfCompacted
                      /\ \A i \in DOMAIN disk.journal : disk.journal[i].seq <= disk.snapshot.seq
    BY DEF RefusedForAReason
  <2>1. /\ disk.snapshot \in Snapshot /\ disk.journal \in Seq(Event)
        /\ ~disk.present \/ ~Continues(disk.snapshot, disk.journal)
        /\ ~disk.present => disk.journal = <<>>
        /\ Continues(disk.snapshot, disk.journal) \/ Contains(disk.snapshot, disk.journal)
    BY <1>1, DiskFacts DEF FileInv, DiskOK
  <2>2. PICK snapshot, journal : snapshot = disk.snapshot /\ journal = disk.journal
    OBVIOUS
  <2>3. Contains(snapshot, journal)
    BY <2>1, <2>2, EmptyJournal
  <2>4. ~disk.present \/ journal # <<>>
    BY <2>1, <2>2, EmptyJournal
  <2>5. journal # <<>> => Head(journal).seq <= snapshot.seq
    <3>1. journal # <<>> => Len(journal) \in Nat \ {0}
      BY <2>1, <2>2, EmptySeq
    <3>2. journal # <<>> => 1 \in DOMAIN journal /\ Head(journal) = journal[1]
      BY <2>1, <2>2, <3>1
    <3> QED  BY <2>3, <3>2 DEF Contains
  <2> QED  BY <2>2, <2>3, <2>4, <2>5 DEF HalfCompacted, Contains
<1> QED  BY <1>1, FileInvAlways, PTL

\* What reserve(), settle() and the others have returned survives kill and power
\* loss.
THEOREM NothingLost == Spec => []NothingToldIsLost
<1>1. ASSUME FileInv PROVE NothingToldIsLost
  <2>1. PICK N \in Nat : N = Len(disk.journal) /\ disk.synced \in Nat /\ disk.synced <= N
    BY <1>1, DiskFacts DEF FileInv, DiskOK
  <2>2. N \in disk.synced .. Len(disk.journal)
    BY <2>1
  <2>3. Kept(disk.snapshot, disk.journal)[N] = Durable
    BY <2>1 DEF Durable
  <2>4. ASSUME NEW t \in told
        PROVE  /\ t[1] = "reserved" => t[2] \in Durable.live \cup Ended
               /\ t[1] = "ended" => t[2] \in Ended \ Durable.live
    BY <1>1, <2>2, <2>3 DEF FileInv, ToldOK
  <2>5. ASSUME NEW r, <<"ended", r>> \in told PROVE r \notin Durable.live
    BY <2>4, <2>5
  <2> QED  BY <2>4, <2>5 DEF NothingToldIsLost
<1> QED  BY <1>1, FileInvAlways, PTL

-----------------------------------------------------------------------------
(* The files keep what LedgerBudget promises.                              *)

\* LedgerBudget reads and changes the state as FileLedger does.
LEMMA SameReading ==
    /\ Promise!EmptyState = EmptyState /\ Promise!Days = Days
    /\ \A s, d, spec : Promise!CanReserve(s, d, spec) <=> CanReserve(s, d, spec)
    /\ \A id, d, spec : Promise!NewReservation(id, d, spec) = NewReservation(id, d, spec)
    /\ \A actual, outcome :
          Promise!GivesKeyBack(actual, outcome) <=> GivesKeyBack(actual, outcome)
<1>1. Promise!EmptyState = EmptyState /\ Promise!Days = Days
  BY DEF Promise!EmptyState, EmptyState, Promise!Days, Days
<1>2. ASSUME NEW s, NEW d, NEW spec
      PROVE  Promise!CanReserve(s, d, spec) <=> CanReserve(s, d, spec)
  <2>1. ASSUME NEW S PROVE Promise!Cardinality(S) = Cardinality(S)
    BY DEF Promise!Cardinality, Cardinality
  <2> QED  BY <2>1 DEF Promise!CanReserve, CanReserve, Promise!CallsUsed, CallsUsed,
              Promise!MoneyUsed,
              MoneyUsed, Promise!LiveIn, LiveIn, Promise!Coins, Coins
<1>3. ASSUME NEW id, NEW d, NEW spec
      PROVE  Promise!NewReservation(id, d, spec) = NewReservation(id, d, spec)
  BY DEF Promise!NewReservation, NewReservation
<1>4. ASSUME NEW actual, NEW outcome
      PROVE  Promise!GivesKeyBack(actual, outcome) <=> GivesKeyBack(actual, outcome)
  BY DEF Promise!GivesKeyBack, GivesKeyBack
<1> QED  BY <1>1, <1>2, <1>3, <1>4

\* And so does each event.
LEMMA SameChanges ==
    /\ \A s, r : Promise!AfterReserve(s, r) = AfterReserve(s, r)
    /\ \A s, r : Promise!AfterRelease(s, r) = AfterRelease(s, r)
    /\ \A s, r : Promise!AfterUnknown(s, r) = AfterUnknown(s, r)
    /\ \A s, r, actual, outcome :
          Promise!AfterSettle(s, r, actual, outcome) = AfterSettle(s, r, actual, outcome)
    /\ \A s, r, actual :
          Promise!AfterRecoverSettled(s, r, actual) = AfterRecoverSettled(s, r, actual)
    /\ \A s : Promise!AfterOverage(s) = AfterOverage(s)
    /\ \A s, d : Promise!Prune(s, d) = Prune(s, d)
<1> USE DEF Promise!Mark, Mark, Promise!Pop, Pop, Promise!AddTotals, AddTotals
<1>0. Promise!Days = Days
  BY DEF Promise!Days, Days
<1>1. ASSUME NEW s, NEW r PROVE Promise!AfterReserve(s, r) = AfterReserve(s, r)
  BY DEF Promise!AfterReserve, AfterReserve
<1>2. ASSUME NEW s, NEW r PROVE Promise!AfterRelease(s, r) = AfterRelease(s, r)
  BY DEF Promise!AfterRelease, AfterRelease
<1>3. ASSUME NEW s, NEW r PROVE Promise!AfterUnknown(s, r) = AfterUnknown(s, r)
  BY DEF Promise!AfterUnknown, AfterUnknown
<1>4. ASSUME NEW s, NEW r, NEW actual, NEW outcome
      PROVE  Promise!AfterSettle(s, r, actual, outcome) = AfterSettle(s, r, actual, outcome)
  BY DEF Promise!AfterSettle, AfterSettle, Promise!GivesKeyBack, GivesKeyBack
<1>5. ASSUME NEW s, NEW r, NEW actual
      PROVE  Promise!AfterRecoverSettled(s, r, actual) = AfterRecoverSettled(s, r, actual)
  BY DEF Promise!AfterRecoverSettled, AfterRecoverSettled
<1>6. ASSUME NEW s PROVE Promise!AfterOverage(s) = AfterOverage(s)
  BY DEF Promise!AfterOverage, AfterOverage
<1>7. ASSUME NEW s, NEW d PROVE Promise!Prune(s, d) = Prune(s, d)
  BY <1>0 DEF Promise!Prune, Prune
<1> QED  BY <1>1, <1>2, <1>3, <1>4, <1>5, <1>6, <1>7

\* The line that ends a reservation is one event of the promise.
LEMMA EndIsPromised ==
    ASSUME FileInv, NEW p \in Procs, Write(p), NEW r \in Durable.live, Ends(Line, r)
    PROVE  Promise!Next
<1>1. PICK e : e = NextEvent(p)
  OBVIOUS
<1>2. /\ e \in Event /\ e.type = Line.type /\ e.res = Line.res
      /\ e.actual = Line.actual /\ e.outcome = Line.outcome /\ e.res = r
  BY <1>1, FirstLine DEF Write, Ends
<1>3. Durable' = Apply(Durable, e) /\ seen' = seen
  BY <1>1, WriteChanges DEF Write
<1>4. /\ charged' = charged \cup (IF Charges(e) THEN {[res |-> r, actual |-> e.actual]} ELSE {})
      /\ freed' = freed \cup (IF Frees(e) THEN {r} ELSE {})
  BY <1>1, <1>2 DEF Write
<1>5. ASSUME NEW actual \in 0 .. MaxActual, NEW outcome \in {"success", "provider_failure"},
             Line = NewEvent("SETTLE", r, actual, outcome)
      PROVE  Promise!Next
  <2>1. e.type = "SETTLE" /\ e.actual = actual /\ e.outcome = outcome
    BY <1>2, <1>5 DEF NewEvent
  <2>2. Durable' = Promise!AfterSettle(Durable, r, actual, outcome)
    BY <1>2, <1>3, <2>1, SameChanges DEF Apply
  <2>3. /\ Charges(e) <=> ~Promise!GivesKeyBack(actual, outcome)
        /\ Frees(e) <=> Promise!GivesKeyBack(actual, outcome)
    BY <2>1, SameReading DEF Charges, Frees
  <2>4. Promise!Settle(r, actual, outcome)
    BY <1>3, <1>4, <2>1, <2>2, <2>3 DEF Promise!Settle
  <2> QED  BY <2>4 DEF Promise!Next
<1>6. ASSUME NEW actual \in 0 .. MaxActual, Line = NewEvent("RECOVERY", r, actual, "settled")
      PROVE  Promise!Next
  <2>1. e.type = "RECOVERY" /\ e.actual = actual /\ e.outcome = "settled"
    BY <1>2, <1>6 DEF NewEvent
  <2>2. Durable' = Promise!AfterRecoverSettled(Durable, r, actual)
    BY <1>2, <1>3, <2>1, SameChanges DEF Apply
  <2>3. Promise!Recover(r, actual)
    BY <1>3, <1>4, <2>1, <2>2 DEF Promise!Recover, Charges, Frees
  <2> QED  BY <2>3 DEF Promise!Next
<1>7. CASE \/ Line = NewEvent("RECOVERY", r, 0, "released")
           \/ Line = NewEvent("RELEASE", r, 0, "released")
  <2>1. (e.type = "RECOVERY" /\ e.outcome = "released") \/ e.type = "RELEASE"
    BY <1>2, <1>7 DEF NewEvent
  <2>2. Durable' = Promise!AfterRelease(Durable, r)
    BY <1>2, <1>3, <2>1, SameChanges DEF Apply
  <2>3. Promise!Release(r)
    BY <1>3, <1>4, <2>1, <2>2 DEF Promise!Release, Charges, Frees
  <2> QED  BY <2>3 DEF Promise!Next
<1>8. CASE Line = NewEvent("SETTLE_UNKNOWN", r, r.cost, "unknown")
  <2>1. e.type = "SETTLE_UNKNOWN" /\ e.actual = r.cost
    BY <1>2, <1>8 DEF NewEvent
  <2>2. Durable' = Promise!AfterUnknown(Durable, r)
    BY <1>2, <1>3, <2>1, SameChanges DEF Apply
  <2>3. Promise!SettleUnknown(r)
    BY <1>3, <1>4, <2>1, <2>2 DEF Promise!SettleUnknown, Charges, Frees
  <2> QED  BY <2>3 DEF Promise!Next
<1> QED  BY <1>5, <1>6, <1>7, <1>8 DEF Ends

\* Every line is one event of the promise; a CHECKPOINT is none.
LEMMA WriteIsPromised ==
    ASSUME FileInv, NEW p \in Procs, Write(p)
    PROVE  [Promise!Next]_(Promise!vars)
<1>1. PICK e : e = NextEvent(p)
  OBVIOUS
<1>2. /\ AtWork /\ Writing /\ e.type = Line.type /\ e.res = Line.res
  BY <1>1, FirstLine DEF Write, AtWork
<1>3. Durable' = Apply(Durable, e) /\ seen' = seen
  BY <1>1, WriteChanges DEF Write
<1>4. ~Charges(e) /\ ~Frees(e) => charged' = charged /\ freed' = freed
  BY <1>1 DEF Write
<1>5. CASE OpensOne
  <2>1. PICK spec \in Specs, id \in Ids :
           /\ Line = NewEvent("RESERVE", NewReservation(id, seen, spec), 0, "reserved")
           /\ CanReserve(Durable, seen, spec)
           /\ \A r \in Durable.live \cup Ended : r.id # id
    BY <1>5 DEF OpensOne
  <2>2. e.type = "RESERVE" /\ e.res = NewReservation(id, seen, spec)
    BY <1>2, <2>1 DEF NewEvent
  <2>3. charged' = charged /\ freed' = freed
    BY <1>4, <2>2 DEF Charges, Frees
  <2>4. Durable' = Promise!AfterReserve(Durable, Promise!NewReservation(id, seen, spec))
    BY <1>3, <2>2, SameChanges, SameReading DEF Apply
  <2>5. Promise!CanReserve(Durable, seen, spec)
    BY <2>1, SameReading
  <2>6. \A r \in Promise!Everything : r.id # id
    BY <2>1 DEF Promise!Everything, Ended
  <2>7. Promise!Reserve(spec, id)
    BY <1>3, <2>3, <2>4, <2>5, <2>6 DEF Promise!Reserve
  <2> QED  BY <2>7 DEF Promise!Next
<1>6. CASE \E r \in Durable.live : Ends(Line, r)
  BY <1>6, EndIsPromised
<1>7. CASE \E c \in charged : TellsOverage(Line, c)
  <2>1. e.type = "OVERAGE"
    BY <1>2, <1>7 DEF TellsOverage
  <2>2. \E c \in charged : c.actual > c.res.cost
    BY <1>7 DEF TellsOverage
  <2>3. charged' = charged /\ freed' = freed
    BY <1>4, <2>1 DEF Charges, Frees
  <2>4. Durable' = Promise!AfterOverage(Durable)
    BY <1>3, <2>1, SameChanges DEF Apply
  <2>5. Promise!Overage
    BY <1>3, <2>2, <2>3, <2>4 DEF Promise!Overage
  <2> QED  BY <2>5 DEF Promise!Next
<1>8. CASE Line = Checkpoint
  <2>1. e.type = "CHECKPOINT"
    BY <1>2, <1>8 DEF Checkpoint, NewEvent
  <2>2. charged' = charged /\ freed' = freed
    BY <1>4, <2>1 DEF Charges, Frees
  <2>3. Durable' = Durable
    BY <1>3, <2>1 DEF Apply
  <2> QED  BY <1>3, <2>2, <2>3 DEF Promise!vars
<1> QED  BY <1>2, <1>5, <1>6, <1>7, <1>8 DEF Writing

\* Taking the lock moves the promise's day to the clock's, or changes nothing.
LEMMA StartIsPromised ==
    ASSUME FileInv, NEW p \in Procs, Start(p)
    PROVE  [Promise!Next]_(Promise!vars)
<1>1. seen' = clock /\ UNCHANGED <<disk, charged, freed>>
  BY DEF Start, StartReserve, StartSettle, StartRecover, StartRelease, StartUnknown,
         StartCompact, Begin
<1>2. Durable' = Durable
  BY <1>1, SameDisk
<1>3. clock \in Promise!Days /\ seen <= clock /\ clock \in Nat /\ seen \in Nat
  BY SameReading DEF FileInv, HistoryOK, Days
<1>4. CASE seen = clock
  BY <1>1, <1>2, <1>4 DEF Promise!vars
<1>5. CASE seen # clock
  <2>1. Promise!Tick
    BY <1>1, <1>2, <1>3, <1>5 DEF Promise!Tick
  <2> QED  BY <2>1 DEF Promise!Next
<1> QED  BY <1>4, <1>5

\* Replacing the snapshot is the promise's compaction; what follows it, and a crash
\* anywhere, is not seen.
LEMMA StepIsPromised ==
    ASSUME FileInv, "power" \notin Faults, [Next]_vars
    PROVE  [Promise!Next]_(Promise!vars)
<1>1. ASSUME Durable' = Durable, UNCHANGED <<seen, charged, freed>>
      PROVE  [Promise!Next]_(Promise!vars)
  BY <1>1 DEF Promise!vars
<1>2. ASSUME disk' = disk, UNCHANGED <<seen, charged, freed>>
      PROVE  [Promise!Next]_(Promise!vars)
  BY <1>1, <1>2, SameDisk
<1>3. ASSUME NEW p \in Procs, Sync(p) PROVE [Promise!Next]_(Promise!vars)
  <2>1. Durable' = Durable
    BY <1>3, SyncChanges DEF Sync
  <2> QED  BY <1>1, <1>3, <2>1 DEF Sync
<1>4. ASSUME NEW p \in Procs, WriteSnapshot(p) PROVE [Promise!Next]_(Promise!vars)
  <2>1. Durable' = Promise!Prune(Durable, seen)
    BY <1>4, SnapshotChanges, SameChanges
  <2>2. Promise!Compact
    BY <1>4, <2>1 DEF WriteSnapshot, Promise!Compact
  <2> QED  BY <2>2 DEF Promise!Next
<1>5. ASSUME NEW p \in Procs, WriteArchive(p) \/ Create(p) \/ ShortWrite(p)
      PROVE  [Promise!Next]_(Promise!vars)
  <2>1. PICK d : d = disk
    OBVIOUS
  <2>2. d \in Disk
    BY <2>1, DiskRecord
  <2>3. \/ disk' = [d EXCEPT !.archive = d.archive \cup {MonthOf[clock]}]
        \/ disk' = [d EXCEPT !.present = TRUE]
        \/ disk' = [d EXCEPT !.torn = TRUE]
    BY <1>5, <2>1 DEF WriteArchive, Create, ShortWrite
  <2>4. disk'.snapshot = d.snapshot /\ disk'.journal = d.journal
    BY <2>2, <2>3 DEF Disk
  <2>5. Durable' = Durable
    BY <2>1, <2>4 DEF Durable
  <2> QED  BY <1>1, <1>5, <2>5 DEF WriteArchive, Create, ShortWrite
<1>6. ASSUME NEW p \in Procs, Rotate(p) PROVE [Promise!Next]_(Promise!vars)
  <2>1. Durable' = Durable
    BY <1>6, RotateChanges
  <2> QED  BY <1>1, <1>6, <2>1 DEF Rotate
<1>7. ASSUME NEW p \in Procs, ArchiveExists(p) \/ Reopen(p) \/ Abort(p)
      PROVE  [Promise!Next]_(Promise!vars)
  BY <1>2, <1>7 DEF ArchiveExists, Reopen, Abort
<1>8. Tick \/ UNCHANGED vars => [Promise!Next]_(Promise!vars)
  BY <1>2 DEF Tick, vars
<1>9. ~PowerLoss
  BY DEF PowerLoss
<1> QED  BY <1>3, <1>4, <1>5, <1>6, <1>7, <1>8, <1>9, WriteIsPromised, StartIsPromised
         DEF Next, Step

\* Without a power loss, the files implement the promise: whatever the processes, the
\* crashes and the half-done compactions, each line is one event of LedgerBudget.
\* (A power loss may take an event nobody was told of, which LedgerBudget has not.)
THEOREM PromiseIsKept ==
    ASSUME "power" \notin Faults
    PROVE  Spec => KeepsPromise
<1>1. Init => Promise!Init
  <2> SUFFICES ASSUME Init PROVE Promise!Init
    OBVIOUS
  <2>1. PICK s : s = [st |-> EmptyState, seq |-> 0]
    OBVIOUS
  <2>2. disk.snapshot = s /\ disk.journal = <<>> /\ seen = 1 /\ charged = {} /\ freed = {}
    BY <2>1 DEF Init
  <2>3. s \in Snapshot
    BY <2>2, FileInvInit DEF FileInv, DiskOK, Disk
  <2>4. Kept(s, <<>>)[0] = EmptyState /\ Len(<<>>) = 0
    BY <2>1, <2>3, EmptyJournal
  <2>5. Durable = Promise!EmptyState
    BY <2>2, <2>4, SameReading DEF Durable
  <2> QED  BY <2>2, <2>5 DEF Promise!Init
<1>2. FileInv /\ [Next]_vars => [Promise!Next]_(Promise!vars)
  BY StepIsPromised
<1> QED  BY <1>1, <1>2, FileInvAlways, PTL DEF Spec, KeepsPromise, Promise!Spec

-----------------------------------------------------------------------------
(* What LedgerBudget_proofs proves of the promise, said of the disk.       *)

\* The promise that LedgerBudget_proofs is about is the one of KeepsPromise.
LEMMA SamePromise ==
    /\ Promise!Init => P!Init
    /\ [Promise!Next]_(Promise!vars) => [P!Next]_(P!vars)
<1>1. \A S : P!Cardinality(S) = Promise!Cardinality(S)
  BY DEF P!Cardinality, Promise!Cardinality
<1>2. P!Days = Promise!Days
  BY DEF P!Days, Promise!Days
<1>3. Promise!Init => P!Init
  BY DEF Promise!Init, P!Init, Promise!EmptyState, P!EmptyState, Promise!Days, P!Days
<1>4. UNCHANGED Promise!vars => UNCHANGED P!vars
  BY DEF P!vars, Promise!vars
<1>5. Promise!Next => P!Next
  BY <1>1, <1>2 DEF P!Next, Promise!Next,
     P!Reserve, P!Settle, P!Overage, P!Release, P!SettleUnknown, P!Recover, P!Compact, P!Tick,
     Promise!Reserve, Promise!Settle, Promise!Overage, Promise!Release, Promise!SettleUnknown,
     Promise!Recover, Promise!Compact, Promise!Tick,
     P!CanReserve, P!CallsUsed, P!MoneyUsed, P!LiveIn, P!Coins, P!NewReservation, P!Everything,
     Promise!CanReserve, Promise!CallsUsed, Promise!MoneyUsed, Promise!LiveIn, Promise!Coins,
     Promise!NewReservation, Promise!Everything,
     P!AfterReserve, P!AfterSettle, P!AfterRelease, P!AfterUnknown, P!AfterRecoverSettled,
     P!AfterOverage, P!Prune, P!Mark, P!Pop, P!AddTotals, P!GivesKeyBack,
     Promise!AfterReserve, Promise!AfterSettle, Promise!AfterRelease, Promise!AfterUnknown,
     Promise!AfterRecoverSettled, Promise!AfterOverage, Promise!Prune, Promise!Mark,
     Promise!Pop, Promise!AddTotals, Promise!GivesKeyBack
<1> QED  BY <1>3, <1>4, <1>5

\* What the disk stands for never holds more calls or more money than its caps,
\* but for an overrun, and charges a key and a day once; whatever crashes.
THEOREM CapsHoldOnDisk ==
    ASSUME "power" \notin Faults
    PROVE  Spec => [](P!CallsWithinCap /\ P!MoneyWithinCap /\ P!OneChargePerKeyAndDay)
<1>1. Promise!Spec => P!Spec
  BY SamePromise, PTL DEF Promise!Spec, P!Spec
<1>2. MaxActual \in Nat
  BY FileAssumption
<1>3. P!Spec => []P!CallsWithinCap
  BY <1>2, LedgerAssumption, P!CallCapHolds
<1>4. P!Spec => []P!MoneyWithinCap
  BY <1>2, LedgerAssumption, P!MoneyCapHolds
<1>5. P!Spec => []P!OneChargePerKeyAndDay
  BY <1>2, LedgerAssumption, P!OneChargePerKey
<1>6. Spec => Promise!Spec
  BY PromiseIsKept DEF KeepsPromise
<1> QED  BY <1>1, <1>3, <1>4, <1>5, <1>6, PTL
=============================================================================
