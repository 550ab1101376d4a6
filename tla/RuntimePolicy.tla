---------------------------- MODULE RuntimePolicy ----------------------------
(***************************************************************************)
(* RuntimePolicy (runtime_policy.py): the holder of the promoted app       *)
(* policy, shared by the threads of a process.  get() looks at the file at *)
(* most once per interval, reloads it when its mtime or size has changed,  *)
(* and keeps the last good policy when that fails.  A policy is loaded     *)
(* lane by lane: a lane that does not validate is skipped, and told, as    *)
(* long as one is left.  app_policy_status (app_chat.py) calls get() and   *)
(* then reports whether the last load failed.                              *)
(*                                                                         *)
(* The file is written by others, in place or by a rename, at any moment:  *)
(* between the open and the read of a reload too.  A content is the number *)
(* of its write and the policy in it.  Every write gives the file a new    *)
(* mtime or size: the reload cannot see one that does not.                 *)
(***************************************************************************)
EXTENDS Integers, Sequences

CONSTANTS
    Threads,    \* threads that call get()
    NoThread,   \* the value of a free lock
    Raws,       \* the policies the file may hold, valid or not
    First,      \* one that is valid
    MaxWrites   \* bound on the writes of the file

-----------------------------------------------------------------------------
(* validate_app_policy.  "whole" says that the root of the JSON is right:   *)
(* its schema, its hash, its release.  A backend's and a lane's remaining   *)
(* fields, whether within their bounds or not, are "ok".                    *)

DialectOf == [chat |-> "openai-chat-completions", decision |-> "typesafe-systemone"]
LaneKinds == DOMAIN DialectOf
Dialects == {DialectOf[k] : k \in LaneKinds}

Chain(lane) == {lane.chain[i] : i \in DOMAIN lane.chain}

\* Why a lane is skipped: "none" where it is not.
Reason(raw, lane) ==
    LET declared == Chain(lane) \cap DOMAIN raw.backends
    IN CASE lane.kind \notin LaneKinds -> "unknown_lane_kind"
         [] lane.chain = <<>> -> "invalid_lane"
         [] \E b \in declared : raw.backends[b].dialect \notin Dialects -> "unknown_dialect"
         [] \/ Chain(lane) # declared \/ ~lane.ok
            \/ \E b \in declared : ~raw.backends[b].ok
                                   \/ raw.backends[b].dialect # DialectOf[lane.kind]
            -> "invalid_lane"
         [] OTHER -> "none"

Served(raw) == {l \in DOMAIN raw.lanes : Reason(raw, raw.lanes[l]) = "none"}
Skipped(raw) == DOMAIN raw.lanes \ Served(raw)

\* The names of the alerts, their type with their reason.
PolicyInvalid == <<"policy_invalid", "invalid_or_unavailable">>
LaneSkipped(raw, l) == <<"policy_lane_skipped", Reason(raw, raw.lanes[l])>>

ASSUME PolicyAssumption ==
    /\ MaxWrites \in Nat /\ NoThread \notin Threads
    /\ First \in Raws /\ First.whole /\ Served(First) # {}

-----------------------------------------------------------------------------
VARIABLES
    file,       \* the file on disk
    policy,     \* _policy, with the stat it was loaded under
    failed,     \* _last_load_failed
    due,        \* the reload interval has passed since _last_check
    lock,       \* the holder of _lock
    thread      \* thread[t]: where t is

policyVars == <<file, policy, failed, due, lock, thread>>

Writes == 0 .. MaxWrites
Content == [n : Writes, raw : Raws]

\* No policy has been loaded.
None == [content |-> [n |-> 0, raw |-> First], stat |-> -1]

NoHandle == [content |-> [n |-> 0, raw |-> First], stat |-> 0, live |-> FALSE]

\* "handle" is the open file, "live" as long as it is the one at the path, and
\* from the read on what was read of it; "todo"
\* the lanes whose alert is still to be emitted; "alert" the one that is being
\* emitted, and "then" where get() goes on afterwards.
Idle == [pc |-> "idle", handle |-> NoHandle, beside |-> FALSE, todo |-> {}, alert |-> "", then |-> ""]

\* Types; a policy that is held has been validated.
PolicyTypeOK ==
    /\ file \in [content : Content, stat : Writes, present : BOOLEAN]
    /\ policy = None \/ policy \in [content : Content, stat : Writes]
    /\ failed \in BOOLEAN /\ due \in BOOLEAN
    /\ lock \in Threads \cup {NoThread}
    /\ \A t \in Threads :
          /\ thread[t].pc \in {"idle", "check", "read", "lanes", "emit"}
          /\ thread[t].pc # "idle" => lock = t
    /\ policy # None => policy.content.raw.whole /\ Served(policy.content.raw) # {}

PolicyInit ==
    /\ file \in [content : {[n |-> 0, raw |-> raw] : raw \in Raws}, stat : {0}, present : {TRUE}]
    /\ policy = None
    /\ failed = FALSE
    /\ due = TRUE
    /\ lock = NoThread
    /\ thread = [t \in Threads |-> Idle]

-----------------------------------------------------------------------------
(* get(). *)

\* get() returns the policy it holds, or raises RouteUnavailable for want of one.
Return(t) ==
    /\ thread' = [thread EXCEPT ![t] = Idle]
    /\ lock' = NoThread

\* Faulty: the lock is not taken.
Get_NoLock(t) ==
    /\ thread[t].pc = "idle"
    /\ thread' = [thread EXCEPT ![t].pc = "check"]
    /\ UNCHANGED <<file, policy, failed, due, lock>>

Get(t) ==
    /\ thread[t].pc = "idle" /\ lock = NoThread
    /\ lock' = t
    /\ thread' = [thread EXCEPT ![t].pc = "check"]
    /\ UNCHANGED <<file, policy, failed, due>>

\* The interval has not passed.
Recent(t) ==
    /\ thread[t].pc = "check" /\ ~due /\ policy # None
    /\ Return(t)
    /\ UNCHANGED <<file, policy, failed, due>>

MustLook(t) == thread[t].pc = "check" /\ (due \/ policy = None)

\* The load fails: it is told, and the policy that is held stays.
Fail(t) ==
    /\ failed' = TRUE
    /\ thread' = [thread EXCEPT ![t] = [Idle EXCEPT !.pc = "emit", !.alert = PolicyInvalid,
                                                  !.then = "idle"]]
    /\ UNCHANGED <<policy, lock>>

\* The file cannot be opened.
CannotOpen(t) ==
    /\ MustLook(t) /\ ~file.present
    /\ due' = FALSE
    /\ Fail(t)
    /\ UNCHANGED file

\* mtime and size are those of the policy: nothing else changes, the failed
\* flag included.
Unchanged(t) ==
    /\ MustLook(t) /\ file.present
    /\ policy # None /\ policy.stat = file.stat
    /\ due' = FALSE
    /\ Return(t)
    /\ UNCHANGED <<file, policy, failed>>

Open(t) ==
    /\ MustLook(t) /\ file.present
    /\ policy = None \/ policy.stat # file.stat
    /\ due' = FALSE
    /\ thread' = [thread EXCEPT ![t].pc = "read",
                    ![t].handle = [content |-> file.content, stat |-> file.stat,
                                   live |-> TRUE]]
    /\ UNCHANGED <<file, policy, failed, lock>>

\* The handle is read; a root that is not right fails the load.
Read(t) ==
    /\ thread[t].pc = "read"
    /\ LET raw == thread[t].handle.content.raw
       IN IF raw.whole
          THEN /\ thread' = [thread EXCEPT ![t].pc = "lanes", ![t].todo = Skipped(raw),
                              ![t].handle.live = FALSE]
               /\ UNCHANGED <<policy, failed, lock>>
          ELSE Fail(t)
    /\ UNCHANGED <<file, due>>

\* A lane is skipped.  Its alert goes beside the policy file, unless at the first
\* of them the file no longer held what had been read.
SkipLane(t) ==
    /\ thread[t].pc = "lanes"
    /\ \E l \in thread[t].todo :
          LET raw == thread[t].handle.content.raw
              first == thread[t].todo = Skipped(raw)
              beside == IF first THEN file.present /\ file.content.raw = raw
                        ELSE thread[t].beside
          IN thread' = [thread EXCEPT ![t].todo = @ \ {l}, ![t].beside = beside,
                           ![t].pc = IF beside THEN "emit" ELSE @,
                           ![t].alert = IF beside THEN LaneSkipped(raw, l) ELSE @,
                           ![t].then = IF beside THEN "lanes" ELSE @]
    /\ UNCHANGED <<file, policy, failed, due, lock>>

\* Faulty: the path is statted once the file has been read.
Adopt_PathStat(t) ==
    /\ thread[t].pc = "lanes" /\ thread[t].todo = {}
    /\ LET h == thread[t].handle
       IN IF Served(h.content.raw) # {}
          THEN /\ policy' = [content |-> h.content, stat |-> file.stat]
               /\ failed' = FALSE
               /\ Return(t)
          ELSE Fail(t)
    /\ UNCHANGED <<file, due>>

\* The lanes that are left make the policy, under the stat of the handle; with
\* none left the load fails.
Adopt(t) ==
    /\ thread[t].pc = "lanes" /\ thread[t].todo = {}
    /\ LET h == thread[t].handle
       IN IF Served(h.content.raw) # {}
          THEN /\ policy' = [content |-> h.content, stat |-> h.stat]
               /\ failed' = FALSE
               /\ Return(t)
          ELSE Fail(t)
    /\ UNCHANGED <<file, due>>

\* emit_alert has returned, or raised, which is ignored.
Emitted(t) ==
    /\ thread[t].pc = "emit"
    /\ IF thread[t].then = "lanes"
       THEN /\ thread' = [thread EXCEPT ![t].pc = "lanes", ![t].alert = "", ![t].then = ""]
            /\ UNCHANGED lock
       ELSE Return(t)
    /\ UNCHANGED <<file, policy, failed, due>>

\* What app_policy_status reports as "valid".
StatusValid == policy # None /\ ~failed

-----------------------------------------------------------------------------
(* The clock and the writers (external). *)

Elapse ==
    /\ due' = TRUE
    /\ UNCHANGED <<file, policy, failed, lock, thread>>

NewContent(raw) == [n |-> file.stat + 1, raw |-> raw]

\* A rename: handles that are open keep the old file.
Replace(raw) ==
    /\ file.stat < MaxWrites
    /\ file' = [content |-> NewContent(raw), stat |-> file.stat + 1, present |-> TRUE]
    /\ thread' = [t \in Threads |-> [thread[t] EXCEPT !.handle.live = FALSE]]
    /\ UNCHANGED <<policy, failed, due, lock>>

\* A write in place, of which a handle that is open reads the result.
Edit(raw) ==
    /\ file.stat < MaxWrites /\ file.present
    /\ file' = [file EXCEPT !.content = NewContent(raw), !.stat = @ + 1]
    /\ thread' = [t \in Threads |->
                    IF thread[t].handle.live
                    THEN [thread[t] EXCEPT !.handle.content = NewContent(raw)]
                    ELSE thread[t]]
    /\ UNCHANGED <<policy, failed, due, lock>>

\* The file cannot be opened for a while: it is moved away, its permissions
\* are lost, or the process has no descriptor left; and it is back unchanged.
Vanish ==
    /\ file.present
    /\ file' = [file EXCEPT !.present = FALSE]
    /\ UNCHANGED <<policy, failed, due, lock, thread>>

ComeBack ==
    /\ ~file.present
    /\ file' = [file EXCEPT !.present = TRUE]
    /\ UNCHANGED <<policy, failed, due, lock, thread>>

\* Valid as a whole, if only in a lane.
Loads(content) == content.raw.whole /\ Served(content.raw) # {}

-----------------------------------------------------------------------------
(* Properties. *)

\* When the file has the mtime and size the policy was loaded under, it has its
\* content too: skipping the reload never serves a stale policy, whatever was
\* written between the open, the stat and the read of the reload.
SameStatSameContent ==
    policy # None /\ policy.stat = file.stat => policy.content = file.content

\* The policy served never goes back to an earlier write, and is never lost
\* once there is one.
NeverGoesBack ==
    [][policy # None => policy' # None /\ policy'.content.n >= policy.content.n]_policyVars
=============================================================================
