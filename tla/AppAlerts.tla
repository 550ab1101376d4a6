------------------------------ MODULE AppAlerts ------------------------------
(***************************************************************************)
(* emit_alert (app_alerts.py): processes that append alerts to one file,   *)
(* alerts.jsonl, each alert at most once per window (five minutes) or, for *)
(* the daily ones, once per budget day.  What was sent is remembered in a  *)
(* state file, replaced before the line is appended, under a file lock.    *)
(* The clock is read before the lock is waited for.  The process-local     *)
(* sink, called last and never answered, is left out.                      *)
(***************************************************************************)
EXTENDS Integers, Sequences

CONSTANTS
    Procs,      \* processes and threads that emit
    NoProc,     \* the value of a free lock
    Names,      \* the <type, reason> pairs emitted once per window
    Daily,      \* those emitted once per budget day
    Window,     \* ticks of the dedupe window
    LastTime,   \* bound on the clock
    DayOf       \* DayOf[t]: the budget day of an instant

Times == 0 .. LastTime

ASSUME AlertAssumption ==
    /\ Window \in Nat \ {0} /\ LastTime \in Nat
    /\ DOMAIN DayOf = Times
    /\ Names \cap Daily = {}
    /\ NoProc \notin Procs

VARIABLES
    stamps,     \* alert_dedupe.json: the names sent, with their instants
    days,       \* alert_budget_days.json: the daily names sent, with their days
    lines,      \* alerts.jsonl
    alertLock,  \* the holder of alerts.lock
    proc,       \* proc[p]: where p is in emit_alert
    now,        \* the wall clock
    lost        \* history: the names of which an emit was broken off

alertVars == <<stamps, days, lines, alertLock, proc, now, lost>>

Line == [name : Names \cup Daily, at : Times, day : {DayOf[t] : t \in Times}]

NotEmitting == [pc |-> "idle"]

\* Types; the lock is held exactly by the process that is writing, and a name
\* has one stamp.
AlertTypeOK ==
    /\ stamps \subseteq Names \X Times
    /\ days \subseteq {DayOf[t] : t \in Times} \X Daily
    /\ lines \in Seq(Line)
    /\ alertLock \in Procs \cup {NoProc}
    /\ now \in Times /\ lost \subseteq Names \cup Daily
    /\ \A p \in Procs :
          proc[p] = NotEmitting \/ (proc[p].pc \in {"wait", "write", "append"} /\ proc[p].line \in Line)
    /\ \A p \in Procs : proc[p].pc \in {"write", "append"} <=> alertLock = p
    /\ \A x, y \in stamps : x[1] = y[1] => x = y

AlertInit ==
    /\ stamps = {} /\ days = {} /\ lines = <<>>
    /\ alertLock = NoProc
    /\ proc = [p \in Procs |-> NotEmitting]
    /\ now = 0
    /\ lost = {}

-----------------------------------------------------------------------------
\* The event, the budget day and the clock are read first.
Call(p, name) ==
    /\ proc[p] = NotEmitting
    /\ proc' = [proc EXCEPT ![p] =
                    [pc |-> "wait", line |-> [name |-> name, at |-> now, day |-> DayOf[now]]]]
    /\ UNCHANGED <<stamps, days, lines, alertLock, now, lost>>

\* Faulty: a stamp is kept for good.
InWindow_Forever(at) == stamps

\* The stamps that are still in their window, by a clock that may be behind.
InWindow(at) == {x \in stamps : at - x[2] < Window}

Sent(l) ==
    IF l.name \in Daily THEN <<l.day, l.name>> \in days
    ELSE \E x \in InWindow(l.at) : x[1] = l.name

\* Faulty: an alert that was sent already starts the window anew.
Duplicate_Refreshes(p) ==
    /\ proc[p].pc = "wait" /\ alertLock = NoProc
    /\ LET l == proc[p].line
       IN /\ Sent(l)
          /\ stamps' = IF l.name \in Daily THEN stamps
                       ELSE {x \in InWindow(l.at) : x[1] # l.name} \cup {<<l.name, l.at>>}
    /\ proc' = [proc EXCEPT ![p] = NotEmitting]
    /\ UNCHANGED <<days, lines, alertLock, now, lost>>

\* The lock is had and the state is read: the alert was sent already ...
Duplicate(p) ==
    /\ proc[p].pc = "wait" /\ alertLock = NoProc
    /\ LET l == proc[p].line
       IN /\ Sent(l)
          /\ stamps' = IF l.name \in Daily THEN stamps ELSE InWindow(l.at)
    /\ proc' = [proc EXCEPT ![p] = NotEmitting]
    /\ UNCHANGED <<days, lines, alertLock, now, lost>>

\* Faulty: the lock is not waited for.
New_NoLock(p) ==
    /\ proc[p].pc = "wait"
    /\ ~Sent(proc[p].line)
    /\ alertLock' = p
    /\ proc' = [proc EXCEPT ![p].pc = "write"]
    /\ UNCHANGED <<stamps, days, lines, now, lost>>

\* ... or it was not.
New(p) ==
    /\ proc[p].pc = "wait" /\ alertLock = NoProc
    /\ ~Sent(proc[p].line)
    /\ alertLock' = p
    /\ proc' = [proc EXCEPT ![p].pc = "write"]
    /\ UNCHANGED <<stamps, days, lines, now, lost>>

\* The state file is replaced.
Remember(p) ==
    /\ proc[p].pc = "write"
    /\ LET l == proc[p].line
       IN IF l.name \in Daily
          THEN days' = days \cup {<<l.day, l.name>>} /\ UNCHANGED stamps
          ELSE stamps' = InWindow(l.at) \cup {<<l.name, l.at>>} /\ UNCHANGED days
    /\ proc' = [proc EXCEPT ![p].pc = "append"]
    /\ UNCHANGED <<lines, alertLock, now, lost>>

\* The line is appended and the lock freed.
Write(p) ==
    /\ proc[p].pc = "append"
    /\ lines' = Append(lines, proc[p].line)
    /\ proc' = [proc EXCEPT ![p] = NotEmitting]
    /\ alertLock' = NoProc
    /\ UNCHANGED <<stamps, days, now, lost>>

\* Faulty: an exception keeps the lock.
Abort_KeepsLock(p) ==
    /\ proc[p] # NotEmitting
    /\ \/ UNCHANGED lines
       \/ proc[p].pc = "append" /\ lines' = Append(lines, proc[p].line)
    /\ lost' = lost \cup {proc[p].line.name}
    /\ proc' = [proc EXCEPT ![p] = NotEmitting]
    /\ UNCHANGED <<stamps, days, alertLock, now>>

\* Any call raises, or the process is killed.  An append may raise with its
\* line written.
Abort(p) ==
    /\ proc[p] # NotEmitting
    /\ \/ UNCHANGED lines
       \/ proc[p].pc = "append" /\ lines' = Append(lines, proc[p].line)
    /\ lost' = lost \cup {proc[p].line.name}
    /\ proc' = [proc EXCEPT ![p] = NotEmitting]
    /\ alertLock' = IF alertLock = p THEN NoProc ELSE alertLock
    /\ UNCHANGED <<stamps, days, now>>

Tick ==
    /\ now < LastTime
    /\ now' = now + 1
    /\ UNCHANGED <<stamps, days, lines, alertLock, proc, lost>>

EmitStep(p) == Duplicate(p) \/ New(p) \/ Remember(p) \/ Write(p)

-----------------------------------------------------------------------------
(* Properties. *)

\* An alert is not written within a window of the instant the last of its name
\* was asked for, a daily one not twice for a budget day: although processes with
\* an older reading of the clock may get the lock later, others prune the stamps
\* by a newer one, and any may fail or be killed between the stamp and the line.
NotToldTwice ==
    [][\A i \in DOMAIN lines :
          LET last == lines'[Len(lines')]
          IN Len(lines') > Len(lines) /\ last.name = lines[i].name =>
                IF last.name \in Daily THEN last.day # lines[i].day
                ELSE now - lines[i].at >= Window]_alertVars

\* A name is passed over as sent already only where its line is in the file, or
\* about to be: silence means that it was told within the window, unless an
\* emit of that name was broken off.
SilenceIsEarned ==
    \A x \in stamps :
        \/ x[1] \in lost
        \/ \E i \in DOMAIN lines : lines[i].name = x[1] /\ lines[i].at = x[2]
        \/ \E p \in Procs : /\ proc[p].pc = "append"
                             /\ proc[p].line.name = x[1] /\ proc[p].line.at = x[2]
=============================================================================
