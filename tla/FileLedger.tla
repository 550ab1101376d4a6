----------------------------- MODULE FileLedger -----------------------------
(***************************************************************************)
(* FileLedger (ledger.py): the paid ledger as processes of one host work   *)
(* it.  The disk holds a snapshot and a journal of events; an operation    *)
(* takes the file lock, rebuilds the state from the disk, decides, appends *)
(* its events one by one (write, then fsync) and lets the lock go.         *)
(* Compaction writes a new snapshot and rotates the journal in separate    *)
(* steps.  Any step may be the last one of its process: a raised OSError   *)
(* and a SIGKILL leave the same disk behind, and the kernel frees the lock.*)
(*                                                                         *)
(* Reading the disk under the lock is one step: nobody else may write.     *)
(* The digest chain is a chain of sequence numbers here: with one writer   *)
(* at a time an event is determined by its place.                          *)
(***************************************************************************)
EXTENDS LedgerState, Sequences

CONSTANTS
    Procs,      \* processes (and threads) that hold a FileLedger
    NoProc,     \* the value of a free lock
    NoRes,      \* the reservation field of a CHECKPOINT
    MonthOf,    \* MonthOf[d]: the month of a budget day, for the archive's name
    MaxActual,  \* bound on what a provider charges
    MaxSeq,     \* bound on the journal: no operation starts at this sequence
    Faults      \* the faults that may happen, see FaultKinds

FaultKinds == {"abort", "torn", "power"}

ASSUME FileAssumption ==
    /\ MaxActual \in Nat
    /\ MaxSeq \in Nat
    /\ DOMAIN MonthOf = Days
    /\ Faults \subseteq FaultKinds
    /\ NoProc \notin Procs

VARIABLES
    disk,       \* the ledger directory
    lock,       \* the holder of ledger.lock
    proc,       \* proc[p]: where p is in its operation
    clock,      \* the budget day the wall clock shows
    seen,       \* history: the latest day an operation has read
    charged,    \* history: every charge written to the journal
    freed,      \* history: every reservation ended without a charge
    told        \* history: what an operation has returned to its caller

vars == <<disk, lock, proc, clock, seen, charged, freed, told>>

Event ==
    [type    : {"RESERVE", "SETTLE", "RELEASE", "SETTLE_UNKNOWN", "OVERAGE",
                "CHECKPOINT", "RECOVERY"},
     seq     : Nat,
     res     : Reservation \cup {NoRes},
     actual  : Nat,
     outcome : {"reserved", "success", "provider_failure", "released",
                "unknown", "settled", "checkpoint"}]

\* _base_event; the sequence number is filled in when the line is written.
NewEvent(type, r, actual, outcome) ==
    [type |-> type, seq |-> 0, res |-> r, actual |-> actual, outcome |-> outcome]

-----------------------------------------------------------------------------
(* Rebuilding the state. *)

\* The cases in which _apply_event raises.
CanApply(st, e) ==
    CASE e.type = "RESERVE" ->
            /\ \A r \in st.live : r.id # e.res.id
            /\ st.idem[e.res.day][e.res.key] = "none"
      [] e.type \in {"OVERAGE", "CHECKPOINT"} -> TRUE
      [] OTHER -> \E r \in st.live : r.id = e.res.id

Apply(st, e) ==
    CASE e.type = "RESERVE" -> AfterReserve(st, e.res)
      [] e.type = "SETTLE" -> AfterSettle(st, e.res, e.actual, e.outcome)
      [] e.type = "SETTLE_UNKNOWN" -> AfterUnknown(st, e.res)
      [] e.type = "RELEASE" -> AfterRelease(st, e.res)
      [] e.type = "RECOVERY" /\ e.outcome = "released" -> AfterRelease(st, e.res)
      [] e.type = "RECOVERY" /\ e.outcome = "settled" ->
            AfterRecoverSettled(st, e.res, e.actual)
      [] e.type = "OVERAGE" -> AfterOverage(st)
      [] e.type = "CHECKPOINT" -> st

\* One line of the journal: refused when it does not continue the chain.
ReadLine(acc, e) ==
    IF acc.ok /\ e.seq = acc.seq + 1 /\ CanApply(acc.st, e)
    THEN [ok |-> TRUE, seq |-> e.seq, st |-> Apply(acc.st, e)]
    ELSE [acc EXCEPT !.ok = FALSE]

\* What has been read after each line of a journal, from acc on.
Reading(journal, acc) ==
    LET upto[n \in 0 .. Len(journal)] ==
            IF n = 0 THEN acc ELSE ReadLine(upto[n - 1], journal[n])
    IN upto

\* _load_state; ~ok is LedgerUnavailable.
Loaded ==
    Reading(disk.journal,
            [ok |-> disk.present /\ ~disk.torn, seq |-> disk.snapshot.seq,
             st |-> disk.snapshot.st])[Len(disk.journal)]

-----------------------------------------------------------------------------
Idle == [pc |-> "idle", op |-> "none", st |-> EmptyState, seq |-> 0, todo |-> <<>>]

\* Types; what was fsynced is never longer than the journal.
TypeOK ==
    /\ disk \in [snapshot : [st : State, seq : Nat], journal : Seq(Event), synced : Nat,
                 torn : BOOLEAN, present : BOOLEAN, archive : SUBSET {MonthOf[d] : d \in Days}]
    /\ disk.synced <= Len(disk.journal)
    /\ lock \in Procs \cup {NoProc}
    /\ proc \in [Procs -> [pc : {"idle", "write", "sync", "snapshot", "archive", "rotate",
                                 "create", "reopen"},
                           op : {"none", "reserve", "end", "compact", "reopen"},
                           st : State, seq : Nat, todo : Seq(Event)]]
    /\ clock \in Days /\ seen \in Days
    /\ charged \subseteq [res : Reservation, actual : Nat]
    /\ freed \subseteq Reservation
    /\ told \subseteq {"reserved", "ended"} \X Reservation

\* initialize(): an empty snapshot at sequence 0 and an empty journal.
Init ==
    /\ disk = [snapshot |-> [st |-> EmptyState, seq |-> 0], journal |-> <<>>, synced |-> 0,
               torn |-> FALSE, present |-> TRUE, archive |-> {}]
    /\ lock = NoProc
    /\ proc = [p \in Procs |-> Idle]
    /\ clock = 1 /\ seen = 1
    /\ charged = {} /\ freed = {} /\ told = {}

-----------------------------------------------------------------------------
(* Taking the lock.  An operation that is refused, by a check or because   *)
(* the disk cannot be loaded, frees the lock and changes nothing.          *)

\* _exclusive and _load_state: got is what was loaded.
Enter(p, got) ==
    /\ proc[p].pc = "idle"
    /\ lock = NoProc
    /\ got.ok
    /\ got.seq < MaxSeq

\* The operation goes on to append the events of todo to the state.
Begin(p, op, got, todo) ==
    /\ Enter(p, got)
    /\ lock' = p
    /\ proc' = [proc EXCEPT ![p] = [pc |-> "write", op |-> op, st |-> got.st,
                                    seq |-> got.seq, todo |-> todo]]
    /\ seen' = clock
    /\ UNCHANGED <<disk, clock, charged, freed, told>>

Ended == freed \cup {c.res : c \in charged}

StartReserve(p, got, spec, id) ==
    /\ CanReserve(got.st, clock, spec)
    /\ \A r \in got.st.live \cup Ended : r.id # id
    /\ Begin(p, "reserve", got,
             <<NewEvent("RESERVE", NewReservation(id, clock, spec), 0, "reserved")>>)

\* A charge above the reserved one is followed by an OVERAGE event.
StartSettle(p, got, r, actual, outcome) ==
    Begin(p, "end", got,
          <<NewEvent("SETTLE", r, actual, outcome)>> \o
          IF actual > r.cost THEN <<NewEvent("OVERAGE", r, actual, outcome)>> ELSE <<>>)

StartRelease(p, got, r) ==
    Begin(p, "end", got, <<NewEvent("RELEASE", r, 0, "released")>>)

StartUnknown(p, got, r) ==
    Begin(p, "end", got, <<NewEvent("SETTLE_UNKNOWN", r, r.cost, "unknown")>>)

\* recover(): either a release or a settlement on the operator's evidence.
StartRecover(p, got, r, actual, outcome) ==
    /\ outcome = "released" => actual = 0
    /\ Begin(p, "end", got, <<NewEvent("RECOVERY", r, actual, outcome)>>)

\* compact() prunes the loaded state, which only its snapshot will carry.
StartCompact(p, got) ==
    Begin(p, "compact", [got EXCEPT !.st = Prune(@, clock)],
          <<NewEvent("CHECKPOINT", NoRes, 0, "checkpoint")>>)

Start(p) ==
    /\ proc[p].pc = "idle"
    /\ LET got == Loaded
       IN \/ \E spec \in Specs, id \in Ids : StartReserve(p, got, spec, id)
          \/ \E r \in got.st.live :
                \/ \E actual \in 0 .. MaxActual, outcome \in {"success", "provider_failure"} :
                      StartSettle(p, got, r, actual, outcome)
                \/ \E actual \in 0 .. MaxActual, outcome \in {"released", "settled"} :
                      StartRecover(p, got, r, actual, outcome)
                \/ StartRelease(p, got, r)
                \/ StartUnknown(p, got, r)
          \/ StartCompact(p, got)

-----------------------------------------------------------------------------
(* _append_event: write the line, fsync it, then change the state in       *)
(* memory.                                                                 *)

Go(p, pc) == proc' = [proc EXCEPT ![p].pc = pc]

\* The process drops out of its operation, and the lock with it.
Leave(p) ==
    /\ proc' = [proc EXCEPT ![p] = Idle]
    /\ lock' = NoProc

NextEvent(p) == [Head(proc[p].todo) EXCEPT !.seq = proc[p].seq + 1]

Charges(e) ==
    \/ e.type = "SETTLE" /\ ~GivesKeyBack(e.actual, e.outcome)
    \/ e.type = "SETTLE_UNKNOWN"
    \/ e.type = "RECOVERY" /\ e.outcome = "settled"

Frees(e) ==
    \/ e.type = "SETTLE" /\ GivesKeyBack(e.actual, e.outcome)
    \/ e.type = "RELEASE"
    \/ e.type = "RECOVERY" /\ e.outcome = "released"

Write(p) ==
    /\ proc[p].pc = "write"
    /\ disk.present
    /\ Go(p, "sync")
    /\ LET e == NextEvent(p)
       IN /\ disk' = [disk EXCEPT !.journal = Append(@, e)]
          /\ charged' = charged \cup
                (IF Charges(e) THEN {[res |-> e.res, actual |-> e.actual]} ELSE {})
          /\ freed' = freed \cup (IF Frees(e) THEN {e.res} ELSE {})
    /\ UNCHANGED <<lock, clock, seen, told>>

\* os.write stops short: the journal ends in a partial line.
ShortWrite(p) ==
    /\ "torn" \in Faults
    /\ proc[p].pc = "write"
    /\ disk.present
    /\ disk' = [disk EXCEPT !.torn = TRUE]
    /\ Leave(p)
    /\ UNCHANGED <<clock, seen, charged, freed, told>>

\* Faulty: the event is acknowledged from the page cache.
Fsynced_Not == disk

\* os.fsync of the journal.
Fsynced == [disk EXCEPT !.synced = Len(disk.journal)]

\* After the fsync: the next event of the operation, the rest of a
\* compaction, or the return to the caller.
Sync(p) ==
    /\ proc[p].pc = "sync"
    /\ disk' = Fsynced
    /\ LET e == NextEvent(p)
           rest == Tail(proc[p].todo)
           op == proc[p].op
           in(pc) == proc' = [proc EXCEPT ![p] =
                                 [pc |-> pc, op |-> op, st |-> Apply(proc[p].st, e),
                                  seq |-> e.seq, todo |-> rest]]
       IN \/ rest # <<>> /\ in("write") /\ UNCHANGED <<lock, told>>
          \/ rest = <<>> /\ op = "compact" /\ in("snapshot") /\ UNCHANGED <<lock, told>>
          \/ rest = <<>> /\ op = "reopen" /\ Leave(p) /\ UNCHANGED told
          \/ /\ rest = <<>> /\ op \in {"reserve", "end"}
             /\ told' = told \cup {<<IF op = "reserve" THEN "reserved" ELSE "ended", e.res>>}
             /\ Leave(p)
    /\ UNCHANGED <<clock, seen, charged, freed>>

-----------------------------------------------------------------------------
(* The rest of compact(). *)

\* Faulty: the snapshot is not replaced.
WriteSnapshot_Skipped(p) ==
    /\ proc[p].pc = "snapshot"
    /\ Go(p, "archive")
    /\ UNCHANGED <<disk, lock, clock, seen, charged, freed, told>>

\* Faulty: the snapshot carries the sequence before its CHECKPOINT.
WriteSnapshot_OldSequence(p) ==
    /\ proc[p].pc = "snapshot"
    /\ disk' = [disk EXCEPT !.snapshot = [st |-> proc[p].st, seq |-> proc[p].seq - 1]]
    /\ Go(p, "archive")
    /\ UNCHANGED <<lock, clock, seen, charged, freed, told>>

\* _atomic_write_snapshot: a temporary file, fsync, rename.
WriteSnapshot(p) ==
    /\ proc[p].pc = "snapshot"
    /\ disk' = [disk EXCEPT !.snapshot = [st |-> proc[p].st, seq |-> proc[p].seq]]
    /\ Go(p, "archive")
    /\ UNCHANGED <<lock, clock, seen, charged, freed, told>>

\* The clock is read again for the name of the archive; one archive a month.
WriteArchive(p) ==
    /\ proc[p].pc = "archive"
    /\ MonthOf[clock] \notin disk.archive
    /\ disk' = [disk EXCEPT !.archive = @ \cup {MonthOf[clock]}]
    /\ Go(p, "rotate")
    /\ UNCHANGED <<lock, clock, seen, charged, freed, told>>

\* "monthly immutable archive already exists": compact() raises, with the
\* CHECKPOINT appended and the snapshot replaced.
ArchiveExists(p) ==
    /\ proc[p].pc = "archive"
    /\ MonthOf[clock] \in disk.archive
    /\ Leave(p)
    /\ UNCHANGED <<disk, clock, seen, charged, freed, told>>

\* The journal is renamed away ...
Rotate(p) ==
    /\ proc[p].pc = "rotate"
    /\ disk' = [disk EXCEPT !.journal = <<>>, !.synced = 0, !.present = FALSE]
    /\ Go(p, "create")
    /\ UNCHANGED <<lock, clock, seen, charged, freed, told>>

\* ... and an empty one is created.
Create(p) ==
    /\ proc[p].pc = "create"
    /\ disk' = [disk EXCEPT !.present = TRUE]
    /\ Go(p, "reopen")
    /\ UNCHANGED <<lock, clock, seen, charged, freed, told>>

\* The state is loaded once more and the new journal opens with a CHECKPOINT.
Reopen(p) ==
    /\ proc[p].pc = "reopen"
    /\ Loaded.ok
    /\ proc' = [proc EXCEPT ![p] = [pc |-> "write", op |-> "reopen", st |-> Loaded.st,
                    seq |-> Loaded.seq,
                    todo |-> <<NewEvent("CHECKPOINT", NoRes, 0, "checkpoint")>>]]
    /\ UNCHANGED <<disk, lock, clock, seen, charged, freed, told>>

Step(p) ==
    \/ Write(p) \/ Sync(p)
    \/ WriteSnapshot(p) \/ WriteArchive(p) \/ ArchiveExists(p)
    \/ Rotate(p) \/ Create(p) \/ Reopen(p)

-----------------------------------------------------------------------------
(* Faults and time. *)

\* Any call of the operation raises, or its process is killed: what it has
\* done to the disk stays, the lock is free.
Abort(p) ==
    /\ "abort" \in Faults
    /\ proc[p].pc # "idle"
    /\ Leave(p)
    /\ UNCHANGED <<disk, clock, seen, charged, freed, told>>

\* The host loses power: an unsynced tail of the journal may be lost, in whole
\* lines or in the middle of one, and every process is gone.
PowerLoss ==
    /\ "power" \in Faults
    /\ \E n \in disk.synced .. Len(disk.journal), torn \in BOOLEAN :
          /\ torn => n < Len(disk.journal) \/ disk.torn
          /\ disk' = [disk EXCEPT !.journal = SubSeq(@, 1, n), !.synced = n, !.torn = torn]
    /\ proc' = [p \in Procs |-> Idle]
    /\ lock' = NoProc
    /\ UNCHANGED <<clock, seen, charged, freed, told>>

Tick ==
    /\ clock < LastDay
    /\ clock' = clock + 1
    /\ UNCHANGED <<disk, lock, proc, seen, charged, freed, told>>

Next ==
    \/ \E p \in Procs : Start(p) \/ Step(p) \/ ShortWrite(p) \/ Abort(p)
    \/ PowerLoss
    \/ Tick

Spec == Init /\ [][Next]_vars

-----------------------------------------------------------------------------
(* Properties. *)

\* A line that the snapshot does not already contain changes the state.
KeepLine(snapshot, st, e) == IF e.seq > snapshot.seq THEN Apply(st, e) ELSE st

\* The state after each line of a journal.
Kept(snapshot, journal) ==
    LET upto[n \in 0 .. Len(journal)] ==
            IF n = 0 THEN snapshot.st ELSE KeepLine(snapshot, upto[n - 1], journal[n])
    IN upto

\* The state the disk stands for, also when _load_state refuses the disk:
\* every event the snapshot does not already contain, in order.
Durable == Kept(disk.snapshot, disk.journal)[Len(disk.journal)]

\* The files implement the promise: each append is one event of LedgerBudget,
\* and a lock, a crash, a retry or a half-done compaction is never visible.
Promise == INSTANCE LedgerBudget WITH st <- Durable, today <- seen
KeepsPromise == Promise!Spec

\* What an operation has returned survives kill and power loss: a reservation
\* its caller may dispatch on is still held, or ended by an event; one whose
\* end was returned is never live again.
NothingToldIsLost ==
    /\ \A t \in told :
          t[1] = "reserved" => t[2] \in Durable.live \cup Ended
    /\ \A r \in Durable.live : <<"ended", r>> \notin told

\* With the lock free, the ledger refuses to load only for a partial line or
\* for a compaction that stopped after its snapshot; and then the snapshot
\* contains every event that the refused journal holds.
HalfCompacted ==
    \/ ~disk.present
    \/ disk.journal # <<>> /\ Head(disk.journal).seq <= disk.snapshot.seq
RefusedForAReason ==
    lock = NoProc /\ ~Loaded.ok =>
        \/ disk.torn
        \/ HalfCompacted /\ \A i \in DOMAIN disk.journal : disk.journal[i].seq <= disk.snapshot.seq

\* compact() is documented to "checkpoint, snapshot, and rotate the active
\* journal atomically": without any fault, the ledger can be loaded whenever
\* nobody holds the lock.
CompactionIsAtomic == lock = NoProc => Loaded.ok
=============================================================================
