---------------------------- MODULE PolicyAlerts ----------------------------
(***************************************************************************)
(* RuntimePolicy.get() with the alerts it emits: a load that fails and a   *)
(* lane that is skipped are told through emit_alert (AppAlerts), into the  *)
(* directory of the policy file, and while the lock of the policy is held. *)
(* The alerts file has a lock of its own, which other processes take to    *)
(* emit theirs, and any of them may be killed with it.                     *)
(***************************************************************************)
EXTENDS RuntimePolicy, AppAlerts, FiniteSets

CONSTANTS
    Others,     \* the other processes that emit alerts there
    Scenarios   \* what may happen: a record of who acts, and how often

ASSUME EmitterAssumption ==
    /\ Procs = Threads \cup Others /\ Threads \cap Others = {}
    /\ PolicyInvalid \in Names
    /\ Scenarios \subseteq
          [raws : SUBSET Raws, getters : SUBSET Threads, deciders : SUBSET Threads,
           others : SUBSET Others, names : SUBSET (Names \cup Daily),
           writes : 0 .. MaxWrites, ticks : Times, raises : Nat]
    /\ \A raw \in Raws : raw.whole => \A l \in Skipped(raw) : LaneSkipped(raw, l) \in Names

VARIABLES
    load,       \* history: when the load under way began, and the alerts it passed over
    scenario    \* the one of this behaviour

vars == <<policyVars, alertVars, load, scenario>>

NoLoad == [at |-> 0, passed |-> {}]

Init ==
    /\ PolicyInit /\ AlertInit
    /\ load = NoLoad
    /\ scenario \in Scenarios /\ file.content.raw \in scenario.raws

-----------------------------------------------------------------------------
\* A step of get() that comes to an alert calls emit_alert.
Emits(t) ==
    IF thread'[t].pc = "emit" THEN Call(t, thread'[t].alert) ELSE UNCHANGED alertVars

Looks(t) ==
    /\ CannotOpen(t) \/ Open(t)
    /\ Emits(t)
    /\ load' = [NoLoad EXCEPT !.at = now]
    /\ UNCHANGED scenario

Skips(t) ==
    /\ SkipLane(t)
    /\ Emits(t)
    /\ LET raw == thread[t].handle.content.raw
       IN load' = IF thread'[t].pc = "emit" THEN load
                  ELSE [load EXCEPT !.passed = @ \cup
                          {LaneSkipped(raw, l) : l \in thread[t].todo \ thread'[t].todo}]
    /\ UNCHANGED scenario

Gets(t) ==
    /\ Recent(t) \/ Unchanged(t) \/ Read(t) \/ Adopt(t)
    /\ Emits(t)
    /\ load' = IF thread'[t] = Idle THEN NoLoad ELSE load
    /\ UNCHANGED scenario

\* emit_alert returns; what it raises is swallowed.
Returns(t) ==
    /\ proc[t] = NotEmitting
    /\ Emitted(t)
    /\ load' = IF thread'[t] = Idle THEN NoLoad ELSE load
    /\ UNCHANGED <<alertVars, scenario>>

Enters(t) ==
    /\ t \in scenario.getters
    /\ Get(t)
    /\ UNCHANGED <<alertVars, load, scenario>>

GetStep(t) == Looks(t) \/ Skips(t) \/ Gets(t) \/ Returns(t)

Emit(p) == EmitStep(p) /\ UNCHANGED <<policyVars, load, scenario>>

Raise(p) ==
    /\ Cardinality(lost) < scenario.raises
    /\ Abort(p)
    /\ UNCHANGED <<policyVars, load, scenario>>

\* Another process: an alert of its own, or of its own copy of the policy.
OtherEmits(p) ==
    /\ p \in scenario.others
    /\ \E name \in scenario.names : Call(p, name)
    /\ UNCHANGED <<policyVars, load, scenario>>

Written ==
    /\ \/ file.stat < scenario.writes /\ \E raw \in scenario.raws : Replace(raw) \/ Edit(raw)
       \/ scenario.getters \cup scenario.deciders # {} /\ (Vanish \/ ComeBack)
    /\ UNCHANGED <<alertVars, load, scenario>>

Passes == Elapse /\ UNCHANGED <<alertVars, load, scenario>>

Ticks == now < scenario.ticks /\ Tick /\ UNCHANGED <<policyVars, load, scenario>>

Next ==
    \/ \E t \in Threads : Enters(t) \/ GetStep(t)
    \/ \E p \in Procs : Emit(p) \/ Raise(p)
    \/ \E p \in Others : OtherEmits(p)
    \/ Written \/ Passes \/ Ticks

\* The process keeps calling get(), the one call that has the lock goes on, whoever holds the lock of
\* the alerts lets go of it, and time passes.
Fairness ==
    /\ WF_vars(\E t \in Threads : GetStep(t))
    /\ WF_vars(\E t \in Threads : Enters(t))
    /\ \A p \in Procs : WF_vars(Emit(p))
    /\ WF_vars(Passes)

Spec == Init /\ [][Next]_vars /\ Fairness

-----------------------------------------------------------------------------
(* Properties. *)

TypeOK == PolicyTypeOK /\ AlertTypeOK

\* The alert was written within a window before this instant, or since; unless
\* an emit of it was broken off.
Told(name, at) ==
    \/ name \in lost
    \/ \E i \in DOMAIN lines : lines[i].name = name /\ lines[i].at > at - Window

\* get() does not return with a failed load, or with a policy that has lost a
\* lane, in silence: an alert that was passed over as a duplicate was written
\* less than a window before the load.  The exception is the alert of a lane of
\* a file that was gone or rewritten before it could be told.
LossIsTold ==
    [][\A t \in Threads : thread[t].pc \in {"lanes", "emit"} /\ thread'[t] = Idle =>
          IF thread[t].pc = "emit" THEN Told(PolicyInvalid, load.at)
          ELSE LET raw == policy'.content.raw
               IN \A l \in Skipped(raw) :
                     LaneSkipped(raw, l) \in load.passed \/ Told(LaneSkipped(raw, l), load.at)]_vars

\* A valid file that stays is served in the end, whatever failed before, and
\* whatever its alerts run into.
ValidFileIsServed ==
    \A n \in Writes :
        <>[](/\ scenario.getters # {} /\ file.present
             /\ file.content.n = n /\ Loads(file.content)) =>
            <>[](policy # None /\ policy.content.n = n)

\* app_policy_status says "valid" is true "if the promoted policy loaded
\* successfully and is valid": a valid file that stays, and that get() keeps
\* looking at, is reported valid in the end.
ValidIsReported ==
    <>[](scenario.getters # {} /\ file.present /\ Loads(file.content)) => <>[]StatusValid

\* No call of get() is held up for good: neither by another that waits, with the
\* lock of the policy, for the lock of the alerts, nor by a process that was
\* killed with that one.
GetReturns == \A t \in Threads : thread[t].pc # "idle" ~> thread[t].pc = "idle"
=============================================================================
