-------------------------- MODULE PolicyAlerts_proofs -------------------------
(***************************************************************************)
(* What the two parts of PolicyAlerts keep by themselves, whoever calls    *)
(* them.  get(): a file with the stat of the policy has its content, and   *)
(* the policy never goes back.  emit_alert: an alert is not told twice,    *)
(* and silence is earned.  Lemmas about a step of RuntimePolicy and about  *)
(* one of AppAlerts, for any number of threads, writes and processes;      *)
(* AppDecide_proofs has them of its own steps.                             *)
(***************************************************************************)
EXTENDS PolicyAlerts, TLAPS, SequenceTheorems

-----------------------------------------------------------------------------
(* get(). *)

\* A step of get(), of a writer or of the clock.
PolicyNext ==
    \/ \E t \in Threads :
          \/ Get(t) \/ Recent(t) \/ CannotOpen(t) \/ Unchanged(t) \/ Open(t) \/ Read(t)
          \/ SkipLane(t) \/ Adopt(t) \/ Emitted(t)
    \/ \E raw \in Raws : Replace(raw) \/ Edit(raw)
    \/ Vanish \/ ComeBack \/ Elapse

SkippedLanes == UNION {Skipped(raw) : raw \in Raws}

Handles == [content : Content, stat : Writes, live : BOOLEAN]

Alerts == {"", PolicyInvalid} \cup UNION {{LaneSkipped(raw, l) : l \in Skipped(raw)} : raw \in Raws}

Thread ==
    [pc : {"idle", "check", "read", "lanes", "emit"}, handle : Handles, beside : BOOLEAN,
     todo : SUBSET SkippedLanes, alert : Alerts, then : {"", "idle", "lanes"}]

\* The thread has a handle, which it will make the policy of.
Loading(t) ==
    \/ thread[t].pc \in {"read", "lanes"}
    \/ thread[t].pc = "emit" /\ thread[t].then = "lanes"

\* What was had of the file, under its stat, is what the file holds under it.
Current(x) ==
    /\ x.stat <= file.stat /\ x.content.n <= file.stat
    /\ x.stat = file.stat => x.content = file.content

PolicyTypes ==
    /\ file \in [content : Content, stat : Writes, present : BOOLEAN]
    /\ file.content.n = file.stat
    /\ policy # None => policy \in [content : Content, stat : Writes]
    /\ thread \in [Threads -> Thread]
    /\ \A t \in Threads : thread[t].pc # "idle" => lock = t

\* The policy and the handle are what the file was under their stats, and
\* the handle is no older than the policy; once it is read its lanes are those of
\* a policy that is right as a whole.
PolicyInv ==
    /\ PolicyTypes
    /\ policy # None => Current(policy)
    /\ \A t \in Threads : Loading(t) =>
          /\ Current(thread[t].handle)
          /\ policy # None => policy.content.n <= thread[t].handle.content.n
          /\ thread[t].pc # "read" =>
                /\ ~thread[t].handle.live /\ thread[t].handle.content.raw.whole
                /\ thread[t].todo \subseteq Skipped(thread[t].handle.content.raw)

\* The facts about the types that every step uses.
LEMMA PolicyFacts ==
    ASSUME PolicyTypes
    PROVE  /\ Writes \subseteq Int /\ NoThread \notin Threads
           /\ file.stat \in Int /\ file.content \in Content /\ file.content.n = file.stat
           /\ file.content.raw \in Raws
           /\ policy # None => policy.stat \in Int /\ policy.content.n \in Int
                                /\ policy.content.raw \in Raws
           /\ \A t \in Threads :
                 /\ thread[t] \in Thread /\ thread[t].handle \in Handles
                 /\ thread[t].handle.stat \in Writes /\ thread[t].handle.content \in Content
                 /\ thread[t].handle.content.n \in Int /\ thread[t].handle.content.raw \in Raws
           /\ Idle \in Thread /\ Idle.pc = "idle" /\ Idle.then = ""
<1>1. Writes \subseteq Int /\ NoThread \notin Threads /\ First \in Raws /\ 0 \in Writes
  BY PolicyAssumption DEF Writes
<1>2. /\ file.stat \in Int /\ file.content \in Content /\ file.content.n = file.stat
      /\ file.content.raw \in Raws
  BY <1>1 DEF PolicyTypes, Content
<1>3. policy # None => policy.stat \in Int /\ policy.content.n \in Int /\ policy.content.raw \in Raws
  BY <1>1 DEF PolicyTypes, Content
<1>4. \A h \in Handles : h.stat \in Writes /\ h.content \in Content
                          /\ h.content.n \in Int /\ h.content.raw \in Raws
  BY <1>1 DEF Handles, Content
<1>5. \A t \in Threads : thread[t] \in Thread /\ thread[t].handle \in Handles
  BY DEF PolicyTypes, Thread
<1>6. NoHandle \in Handles
  BY <1>1 DEF NoHandle, Handles, Content
<1>7. "" \in Alerts
  BY DEF Alerts
<1>8. Idle \in Thread /\ Idle.pc = "idle" /\ Idle.then = ""
  BY <1>6, <1>7 DEF Idle, Thread
<1> QED  BY <1>1, <1>2, <1>3, <1>4, <1>5, <1>8

\* Whoever is in get() has it for himself.
LEMMA OneInGet ==
    ASSUME PolicyTypes, NEW t \in Threads, thread[t].pc # "idle" \/ lock = NoThread
    PROVE  \A q \in Threads \ {t} : thread[q].pc = "idle"
BY PolicyFacts DEF PolicyTypes

\* What holds after a step of get() by t, of which t is left at r.
LEMMA GetKeeps ==
    ASSUME PolicyInv, NEW t \in Threads, NEW r \in Thread,
           thread[t].pc # "idle" \/ lock = NoThread,
           thread' = [thread EXCEPT ![t] = r], file' = file,
           r.pc # "idle" => lock' = t,
           policy' # None => /\ policy' \in [content : Content, stat : Writes]
                             /\ Current(policy'),
           r.pc \in {"read", "lanes"} \/ (r.pc = "emit" /\ r.then = "lanes") =>
              /\ Current(r.handle)
              /\ policy' # None => policy'.content.n <= r.handle.content.n
              /\ r.pc # "read" => /\ ~r.handle.live /\ r.handle.content.raw.whole
                                  /\ r.todo \subseteq Skipped(r.handle.content.raw)
    PROVE  PolicyInv'
<1>1. PolicyTypes /\ \A q \in Threads \ {t} : thread[q].pc = "idle"
  BY OneInGet DEF PolicyInv
<1>2. thread' \in [Threads -> Thread] /\ thread'[t] = r
      /\ \A q \in Threads \ {t} : thread'[q].pc = "idle"
  BY <1>1 DEF PolicyTypes
<1>3. PolicyTypes'
  BY <1>1, <1>2 DEF PolicyTypes
<1>4. policy' # None => Current(policy)'
  BY DEF Current
<1>5. ASSUME NEW q \in Threads, Loading(q)'
      PROVE  q = t /\ (r.pc \in {"read", "lanes"} \/ (r.pc = "emit" /\ r.then = "lanes"))
  BY <1>2, <1>5 DEF Loading
<1>6. (\A q \in Threads : Loading(q) =>
          /\ Current(thread[q].handle)
          /\ policy # None => policy.content.n <= thread[q].handle.content.n
          /\ thread[q].pc # "read" =>
                /\ ~thread[q].handle.live /\ thread[q].handle.content.raw.whole
                /\ thread[q].todo \subseteq Skipped(thread[q].handle.content.raw))'
  BY <1>2, <1>5 DEF Current
<1> QED  BY <1>3, <1>4, <1>6 DEF PolicyInv

\* A step keeps the invariant.
LEMMA PolicyInvStep ==
    ASSUME PolicyInv, [PolicyNext]_policyVars
    PROVE  PolicyInv'
<1>0. /\ PolicyTypes
      /\ \A t \in Threads : thread[t] \in Thread /\ thread[t].handle \in Handles
                             /\ thread[t].handle.content.raw \in Raws
      /\ Idle \in Thread /\ Idle.pc = "idle" /\ Idle.then = ""
      /\ Writes \subseteq Int /\ file.stat \in Int
  BY PolicyFacts DEF PolicyInv
<1>1. policy # None => policy \in [content : Content, stat : Writes] /\ Current(policy)
                        /\ policy.content.n <= file.stat
  BY DEF PolicyInv, PolicyTypes, Current
\* A load that fails leaves the alert to be told.
<1>2. ASSUME NEW t \in Threads, Fail(t), thread[t].pc # "idle", file' = file
      PROVE  PolicyInv'
  <2> DEFINE r == [Idle EXCEPT !.pc = "emit", !.alert = PolicyInvalid, !.then = "idle"]
  <2>1. r \in Thread /\ r.pc = "emit" /\ r.then = "idle"
    BY <1>0 DEF Thread, Alerts
  <2>2. thread' = [thread EXCEPT ![t] = r] /\ lock' = lock /\ policy' = policy
    BY <1>2 DEF Fail
  <2>3. lock = t
    BY <1>0, <1>2 DEF PolicyTypes
  <2> HIDE DEF r
  <2> QED  BY <1>1, <1>2, <2>1, <2>2, <2>3, GetKeeps
\* get() returns.
<1>3. ASSUME NEW t \in Threads, Return(t), thread[t].pc # "idle", file' = file,
             policy' # None => policy' \in [content : Content, stat : Writes] /\ Current(policy')
      PROVE  PolicyInv'
  BY <1>0, <1>3, GetKeeps DEF Return
<1>4. ASSUME NEW t \in Threads, Get(t) PROVE PolicyInv'
  <2> DEFINE r == [thread[t] EXCEPT !.pc = "check"]
  <2>1. r \in Thread /\ r.pc = "check"
    BY <1>0 DEF Thread
  <2>2. /\ thread' = [thread EXCEPT ![t] = r] /\ lock = NoThread /\ lock' = t
        /\ policy' = policy /\ file' = file
    BY <1>0, <1>4 DEF Get, PolicyTypes
  <2> HIDE DEF r
  <2> QED  BY <1>1, <2>1, <2>2, GetKeeps
<1>5. ASSUME NEW t \in Threads, Recent(t) \/ Unchanged(t) PROVE PolicyInv'
  BY <1>1, <1>3, <1>5 DEF Recent, Unchanged, MustLook
<1>6. ASSUME NEW t \in Threads, CannotOpen(t) PROVE PolicyInv'
  BY <1>2, <1>6 DEF CannotOpen, MustLook
<1>7. ASSUME NEW t \in Threads, Open(t) PROVE PolicyInv'
  <2> DEFINE h == [content |-> file.content, stat |-> file.stat, live |-> TRUE]
             r == [thread[t] EXCEPT !.pc = "read", !.handle = h]
  <2>1. h \in Handles /\ h.content.n = file.stat /\ Current(h)
    <3>1. file.content \in Content /\ file.stat \in Writes /\ file.content.n = file.stat
      BY <1>0 DEF PolicyTypes
    <3>2. h.content = file.content /\ h.stat = file.stat /\ h \in Handles
      BY <3>1 DEF Handles
    <3>3. \A n \in Int : n <= n
      OBVIOUS
    <3> HIDE DEF h
    <3>4. Current(h)
      BY <1>0, <3>1, <3>2, <3>3 DEF Current
    <3> QED  BY <3>1, <3>2, <3>4
  <2>2. r \in Thread /\ r.pc = "read" /\ r.handle = h
    <3> HIDE DEF h
    <3> QED  BY <1>0, <2>1 DEF Thread
  <2>3. thread' = [thread EXCEPT ![t] = r]
    BY <1>0, <1>7 DEF Open, PolicyTypes
  <2>4. thread[t].pc = "check" /\ lock' = lock /\ policy' = policy /\ file' = file
    BY <1>7 DEF Open, MustLook
  <2>5. lock = t
    BY <1>0, <2>4 DEF PolicyTypes
  <2> HIDE DEF h, r
  <2> QED  BY <1>1, <2>1, <2>2, <2>3, <2>4, <2>5, GetKeeps
<1>8. ASSUME NEW t \in Threads, Read(t) PROVE PolicyInv'
  <2> DEFINE h == thread[t].handle
             raw == h.content.raw
             g == [h EXCEPT !.live = FALSE]
             r == [thread[t] EXCEPT !.pc = "lanes", !.todo = Skipped(raw), !.handle.live = FALSE]
  <2>1. thread[t].pc = "read" /\ file' = file
    BY <1>8 DEF Read
  <2>2. CASE ~raw.whole
    BY <1>2, <1>8, <2>1, <2>2 DEF Read
  <2>3. CASE raw.whole
    <3>1. g \in Handles /\ g.content = h.content /\ g.stat = h.stat /\ ~g.live
      BY <1>0 DEF Handles
    <3>2. Skipped(raw) \in SUBSET SkippedLanes
      BY <1>0 DEF SkippedLanes
    <3>3. r \in Thread /\ r.pc = "lanes" /\ r.handle = g /\ r.todo = Skipped(raw)
      <4>1. r = [thread[t] EXCEPT !.pc = "lanes", !.todo = Skipped(raw), !.handle = g]
        BY <1>0 DEF Thread
      <4> HIDE DEF g, r
      <4> QED  BY <1>0, <3>1, <3>2, <4>1 DEF Thread
    <3>4. thread' = [thread EXCEPT ![t] = r] /\ lock' = lock /\ policy' = policy
      <4>1. /\ thread' = [thread EXCEPT ![t].pc = "lanes", ![t].todo = Skipped(raw),
                              ![t].handle.live = FALSE]
            /\ lock' = lock /\ policy' = policy
        BY <1>8, <2>3 DEF Read
      <4>2. thread' = [thread EXCEPT ![t] = r]
        BY <1>0, <4>1 DEF PolicyTypes
      <4> QED  BY <4>1, <4>2
    <3>5. lock = t
      BY <1>0, <2>1 DEF PolicyTypes
    <3>6. Current(h) /\ (policy # None => policy.content.n <= h.content.n)
      BY <2>1 DEF PolicyInv, Loading
    <3>7. Current(g)
      BY <3>1, <3>6 DEF Current
    <3> HIDE DEF g, r, h
    <3> QED  BY <1>1, <2>1, <2>3, <3>1, <3>3, <3>4, <3>5, <3>6, <3>7, GetKeeps
  <2> QED  BY <2>2, <2>3
<1>9. ASSUME NEW t \in Threads, SkipLane(t) PROVE PolicyInv'
  <2> DEFINE h == thread[t].handle
             raw == h.content.raw
  <2>1. thread[t].pc = "lanes" /\ UNCHANGED <<file, policy, lock>>
    BY <1>9 DEF SkipLane
  <2>2. /\ Current(h) /\ (policy # None => policy.content.n <= h.content.n)
        /\ ~h.live /\ raw.whole /\ thread[t].todo \subseteq Skipped(raw)
    BY <2>1 DEF PolicyInv, Loading
  <2>3. lock = t
    BY <1>0, <2>1 DEF PolicyTypes
  <2>4. PICK l \in thread[t].todo :
            LET first == thread[t].todo = Skipped(raw)
                beside == IF first THEN file.present /\ file.content.raw = raw
                          ELSE thread[t].beside
            IN thread' = [thread EXCEPT ![t].todo = @ \ {l}, ![t].beside = beside,
                             ![t].pc = IF beside THEN "emit" ELSE @,
                             ![t].alert = IF beside THEN LaneSkipped(raw, l) ELSE @,
                             ![t].then = IF beside THEN "lanes" ELSE @]
    BY <1>9 DEF SkipLane
  <2> DEFINE beside == IF thread[t].todo = Skipped(raw) THEN file.present /\ file.content.raw = raw
                       ELSE thread[t].beside
             alert == IF beside THEN LaneSkipped(raw, l) ELSE thread[t].alert
             pc == IF beside THEN "emit" ELSE thread[t].pc
             then == IF beside THEN "lanes" ELSE thread[t].then
             todo == thread[t].todo \ {l}
             r == [thread[t] EXCEPT !.todo = todo, !.beside = beside, !.pc = pc,
                                    !.alert = alert, !.then = then]
  <2>5. thread' = [thread EXCEPT ![t] = r]
    BY <1>0, <2>4 DEF PolicyTypes
  <2>6. beside \in BOOLEAN
    BY <1>0 DEF PolicyTypes, Thread
  <2>7. alert \in Alerts
    <3>1. raw \in Raws /\ l \in Skipped(raw)
      BY <1>0, <2>2
    <3>2. LaneSkipped(raw, l) \in {LaneSkipped(raw, m) : m \in Skipped(raw)}
      BY <3>1
    <3>3. LaneSkipped(raw, l) \in Alerts
      BY <3>1, <3>2, Zenon DEF Alerts
    <3>4. thread[t].alert \in Alerts
      BY <1>0 DEF Thread
    <3> QED  BY <3>3, <3>4
  <2>8. pc \in {"lanes", "emit"} /\ (pc = "emit" => then = "lanes")
    BY <2>1
  <2>9. then \in {"", "idle", "lanes"}
    BY <1>0 DEF Thread
  <2>10. todo \in SUBSET SkippedLanes /\ todo \subseteq Skipped(raw)
    BY <1>0, <2>2 DEF Thread
  <2> HIDE DEF beside, alert, pc, then, todo
  <2>11. r \in Thread /\ r.pc = pc /\ r.handle = h /\ r.todo = todo
    BY <1>0, <2>6, <2>7, <2>8, <2>9, <2>10 DEF Thread
  <2> HIDE DEF r, h
  <2> QED  BY <1>1, <2>1, <2>2, <2>3, <2>5, <2>8, <2>10, <2>11, GetKeeps
<1>10. ASSUME NEW t \in Threads, Adopt(t) PROVE PolicyInv'
  <2> DEFINE h == thread[t].handle
             p == [content |-> h.content, stat |-> h.stat]
  <2>1. thread[t].pc = "lanes" /\ file' = file
    BY <1>10 DEF Adopt
  <2>2. h \in Handles /\ Current(h)
    BY <1>0, <2>1 DEF PolicyInv, Loading
  <2>3. p \in [content : Content, stat : Writes] /\ p.content = h.content /\ p.stat = h.stat
    BY <2>2 DEF Handles
  <2>4. Current(p)
    BY <2>2, <2>3 DEF Current
  <2>5. CASE Served(h.content.raw) # {}
    <3>1. policy' = p /\ Return(t)
      BY <1>10, <2>5 DEF Adopt
    <3> HIDE DEF p, h
    <3> QED  BY <1>3, <2>1, <2>3, <2>4, <3>1
  <2>6. CASE Served(h.content.raw) = {}
    BY <1>2, <1>10, <2>1, <2>6 DEF Adopt
  <2> QED  BY <2>5, <2>6
<1>11. ASSUME NEW t \in Threads, Emitted(t) PROVE PolicyInv'
  <2>1. thread[t].pc = "emit" /\ file' = file /\ policy' = policy
    BY <1>11 DEF Emitted
  <2>2. CASE thread[t].then = "lanes"
    <3> DEFINE r == [thread[t] EXCEPT !.pc = "lanes", !.alert = "", !.then = ""]
    <3>1. "" \in Alerts
      BY DEF Alerts
    <3>2. r \in Thread /\ r.pc = "lanes" /\ r.handle = thread[t].handle /\ r.todo = thread[t].todo
      BY <1>0, <3>1 DEF Thread
    <3>3. thread' = [thread EXCEPT ![t].pc = "lanes", ![t].alert = "", ![t].then = ""]
          /\ lock' = lock
      BY <1>11, <2>2 DEF Emitted
    <3>4. thread' = [thread EXCEPT ![t] = r]
      BY <1>0, <3>3 DEF PolicyTypes
    <3>5. lock = t
      BY <1>0, <2>1 DEF PolicyTypes
    <3>6. /\ Current(thread[t].handle)
          /\ policy # None => policy.content.n <= thread[t].handle.content.n
          /\ ~thread[t].handle.live /\ thread[t].handle.content.raw.whole
          /\ thread[t].todo \subseteq Skipped(thread[t].handle.content.raw)
      BY <2>1, <2>2 DEF PolicyInv, Loading
    <3> HIDE DEF r
    <3> QED  BY <1>1, <2>1, <3>2, <3>3, <3>4, <3>5, <3>6, GetKeeps
  <2>3. CASE thread[t].then # "lanes"
    BY <1>1, <1>3, <1>11, <2>1, <2>3 DEF Emitted
  <2> QED  BY <2>2, <2>3
\* A writer leaves the handles as they are, but for what an edit puts into those
\* it reaches, and no stat that was had before is that of the file any more.
<1>12. ASSUME NEW raw \in Raws, NEW present \in BOOLEAN, file.stat < MaxWrites,
              file' = [content |-> NewContent(raw), stat |-> file.stat + 1, present |-> present],
              NEW g \in [Threads -> Handles],
              thread' = [t \in Threads |-> [thread[t] EXCEPT !.handle = g[t]]],
              \A t \in Threads :
                 /\ g[t].stat = thread[t].handle.stat
                 /\ g[t].live => thread[t].handle.live
                 /\ g[t].content = thread[t].handle.content
                    \/ (thread[t].handle.live /\ g[t].content = NewContent(raw)),
              policy' = policy, lock' = lock
       PROVE  PolicyInv'
  <2>0. file.stat \in Int
    BY <1>0
  <2>1. /\ file'.stat = file.stat + 1 /\ file'.content = NewContent(raw)
        /\ file'.stat \in Writes /\ NewContent(raw) \in Content
        /\ NewContent(raw).n = file.stat + 1
        /\ file' \in [content : Content, stat : Writes, present : BOOLEAN]
    <3>1. file.stat \in Writes
      BY <1>0 DEF PolicyTypes
    <3>2. \A n \in Writes : n < MaxWrites => n + 1 \in Writes
      BY PolicyAssumption DEF Writes
    <3>3. file.stat + 1 \in Writes
      BY <1>12, <3>1, <3>2
    <3> QED  BY <1>12, <3>3 DEF NewContent, Content
  <2>2. \A t \in Threads : /\ thread'[t] \in Thread /\ thread'[t].handle = g[t]
                            /\ thread'[t].pc = thread[t].pc /\ thread'[t].then = thread[t].then
                            /\ thread'[t].todo = thread[t].todo
    BY <1>0, <1>12 DEF Thread
  <2>3. PolicyTypes'
    BY <1>0, <1>12, <2>1, <2>2 DEF PolicyTypes
  <2>4. ASSUME NEW x, x.stat \in Int, x.stat <= file.stat,
               x.content.n <= file.stat \/ x.content.n = file.stat + 1, x.content.n \in Int
        PROVE  /\ x.stat <= file'.stat /\ x.content.n <= file'.stat
               /\ x.stat = file'.stat => x.content = file'.content
    BY <2>0, <2>1, <2>4
  <2>5. policy # None => Current(policy)'
    <3>1. policy # None => policy.stat \in Int /\ policy.content.n \in Int
      BY <1>0, PolicyFacts
    <3>2. policy # None => policy.stat <= file.stat /\ policy.content.n <= file.stat
      BY <1>1 DEF Current
    <3> QED  BY <1>12, <2>4, <3>1, <3>2 DEF Current
  <2>6. ASSUME NEW t \in Threads, Loading(t)'
        PROVE  /\ Current(thread[t].handle)'
               /\ policy' # None => policy'.content.n <= thread'[t].handle.content.n
               /\ thread'[t].pc # "read" =>
                     /\ ~thread'[t].handle.live /\ thread'[t].handle.content.raw.whole
                     /\ thread'[t].todo \subseteq Skipped(thread'[t].handle.content.raw)
    <3> DEFINE h == thread[t].handle
    <3>1. Loading(t)
      BY <2>2, <2>6 DEF Loading
    <3>2. /\ h.stat <= file.stat /\ h.content.n <= file.stat
          /\ policy # None => policy.content.n <= h.content.n
          /\ thread[t].pc # "read" => /\ ~h.live /\ h.content.raw.whole
                                      /\ thread[t].todo \subseteq Skipped(h.content.raw)
      BY <3>1 DEF PolicyInv, Current
    <3>3. h.stat \in Int /\ h.content.n \in Int /\ (policy # None => policy.content.n \in Int)
      BY <1>0, PolicyFacts
    <3>4. /\ g[t].stat = h.stat /\ (g[t].live => h.live)
          /\ g[t].content = h.content \/ (h.live /\ g[t].content = NewContent(raw))
      BY <1>12
    <3> HIDE DEF h
    <3>5. g[t].content.n \in Int /\ (g[t].content.n <= file.stat \/ g[t].content.n = file.stat + 1)
      BY <1>0, <2>1, <3>2, <3>3, <3>4
    <3>6. Current(thread[t].handle)'
      BY <2>2, <2>4, <3>2, <3>3, <3>4, <3>5 DEF Current
    <3>7. policy' # None => policy'.content.n <= g[t].content.n
      <4>1. h.content.n <= file.stat + 1
        BY <2>0, <3>2, <3>3
      <4>2. policy # None => policy.content.n <= file.stat + 1
        BY <2>0, <3>2, <3>3
      <4> QED  BY <1>12, <2>1, <3>2, <3>4, <4>2
    <3>8. thread'[t].pc # "read" => g[t].content = h.content /\ ~g[t].live
      BY <2>2, <3>2, <3>4
    <3> QED  BY <2>2, <3>2, <3>6, <3>7, <3>8
  <2>7. (\A t \in Threads : Loading(t) =>
            /\ Current(thread[t].handle)
            /\ policy # None => policy.content.n <= thread[t].handle.content.n
            /\ thread[t].pc # "read" =>
                  /\ ~thread[t].handle.live /\ thread[t].handle.content.raw.whole
                  /\ thread[t].todo \subseteq Skipped(thread[t].handle.content.raw))'
    BY <2>6
  <2> QED  BY <1>12, <2>3, <2>5, <2>7 DEF PolicyInv
<1>13. ASSUME NEW raw \in Raws, Replace(raw) PROVE PolicyInv'
  <2> DEFINE g == [t \in Threads |-> [thread[t].handle EXCEPT !.live = FALSE]]
  <2>1. /\ g \in [Threads -> Handles]
        /\ \A t \in Threads : /\ g[t].stat = thread[t].handle.stat /\ ~g[t].live
                              /\ g[t].content = thread[t].handle.content
    BY <1>0 DEF Handles
  <2>2. thread' = [t \in Threads |-> [thread[t] EXCEPT !.handle = g[t]]]
    <3>1. \A t \in Threads : [thread[t] EXCEPT !.handle.live = FALSE]
                             = [thread[t] EXCEPT !.handle = g[t]]
      BY <1>0 DEF Thread
    <3> QED  BY <1>13, <3>1 DEF Replace
  <2>3. /\ file.stat < MaxWrites /\ policy' = policy /\ lock' = lock
        /\ file' = [content |-> NewContent(raw), stat |-> file.stat + 1, present |-> TRUE]
    BY <1>13 DEF Replace
  <2> HIDE DEF g
  <2> QED  BY <1>12, <2>1, <2>2, <2>3
<1>14. ASSUME NEW raw \in Raws, Edit(raw) PROVE PolicyInv'
  <2> DEFINE edited(t) == [thread[t].handle EXCEPT !.content = NewContent(raw)]
             g == [t \in Threads |-> IF thread[t].handle.live THEN edited(t) ELSE thread[t].handle]
  <2>1. /\ file.stat < MaxWrites /\ policy' = policy /\ lock' = lock /\ file.present
        /\ file' = [file EXCEPT !.content = NewContent(raw), !.stat = @ + 1]
    BY <1>14 DEF Edit
  <2>2. file' = [content |-> NewContent(raw), stat |-> file.stat + 1, present |-> TRUE]
    BY <1>0, <2>1 DEF PolicyTypes
  <2>3. NewContent(raw) \in Content
    <3>1. file.stat \in Writes
      BY <1>0 DEF PolicyTypes
    <3>2. \A n \in Writes : n < MaxWrites => n + 1 \in Writes
      BY PolicyAssumption DEF Writes
    <3> QED  BY <2>1, <3>1, <3>2 DEF NewContent, Content
  <2>4. \A t \in Threads :
            /\ edited(t) \in Handles /\ edited(t).stat = thread[t].handle.stat
            /\ edited(t).live = thread[t].handle.live /\ edited(t).content = NewContent(raw)
    BY <1>0, <2>3 DEF Handles
  <2>5. \A t \in Threads :
            IF thread[t].handle.live THEN g[t] = edited(t) ELSE g[t] = thread[t].handle
    OBVIOUS
  <2>6. \A t \in Threads :
            [thread[t] EXCEPT !.handle = g[t]]
            = IF thread[t].handle.live THEN [thread[t] EXCEPT !.handle.content = NewContent(raw)]
              ELSE thread[t]
    BY <1>0, <2>5 DEF Thread
  <2>7. thread' = [t \in Threads |-> [thread[t] EXCEPT !.handle = g[t]]]
    BY <1>14, <2>6 DEF Edit
  <2>8. g \in [Threads -> Handles]
    BY <1>0, <2>4
  <2> HIDE DEF g, edited
  <2>9. \A t \in Threads :
            /\ g[t].stat = thread[t].handle.stat
            /\ g[t].live => thread[t].handle.live
            /\ g[t].content = thread[t].handle.content
               \/ (thread[t].handle.live /\ g[t].content = NewContent(raw))
    BY <2>4, <2>5
  <2> QED  BY <1>12, <2>1, <2>2, <2>7, <2>8, <2>9
<1>15. CASE Vanish \/ ComeBack
  <2>1. /\ file'.stat = file.stat /\ file'.content = file.content
        /\ file' \in [content : Content, stat : Writes, present : BOOLEAN]
        /\ UNCHANGED <<policy, lock, thread>>
    BY <1>0, <1>15 DEF Vanish, ComeBack, PolicyTypes
  <2> QED  BY <2>1 DEF PolicyInv, PolicyTypes, Loading, Current
<1>16. CASE Elapse \/ UNCHANGED policyVars
  BY <1>16 DEF Elapse, policyVars, PolicyInv, PolicyTypes, Loading, Current
<1> QED
  BY <1>4, <1>5, <1>6, <1>7, <1>8, <1>9, <1>10, <1>11, <1>13, <1>14, <1>15, <1>16 DEF PolicyNext

\* At first no policy is held, and nobody loads one.
LEMMA PolicyInvInit == PolicyInit => PolicyInv
<1> SUFFICES ASSUME PolicyInit PROVE PolicyInv
  OBVIOUS
<1>1. /\ policy = None /\ thread = [t \in Threads |-> Idle]
      /\ file \in [content : {[n |-> 0, raw |-> raw] : raw \in Raws}, stat : {0}, present : {TRUE}]
  BY DEF PolicyInit
<1>2. 0 \in Writes /\ First \in Raws
  BY PolicyAssumption DEF Writes
<1>3. NoHandle \in Handles /\ "" \in Alerts
  BY <1>2 DEF NoHandle, Handles, Content, Alerts
<1>4. Idle \in Thread /\ Idle.pc = "idle"
  BY <1>3 DEF Idle, Thread
<1>5. file \in [content : Content, stat : Writes, present : BOOLEAN] /\ file.content.n = file.stat
  <2>1. PICK raw \in Raws : file.content = [n |-> 0, raw |-> raw]
    BY <1>1
  <2>2. file.content \in Content /\ file.content.n = 0 /\ file.stat = 0
    BY <1>1, <1>2, <2>1 DEF Content
  <2> QED  BY <1>1, <1>2, <2>2
<1>6. PolicyTypes
  BY <1>1, <1>4, <1>5 DEF PolicyTypes
<1> QED  BY <1>1, <1>4, <1>6 DEF PolicyInv, Loading

\* The policy is never stale where get() skips the reload.
LEMMA PolicyIsCurrent == PolicyInv => SameStatSameContent
BY DEF PolicyInv, Current, SameStatSameContent

\* A step replaces the policy by one that is no older, if at all.
LEMMA NeverGoesBackStep ==
    ASSUME PolicyInv, [PolicyNext]_policyVars
    PROVE  [policy # None => policy' # None /\ policy'.content.n >= policy.content.n]_policyVars
<1>1. policy # None => policy.content.n \in Int
  BY PolicyFacts DEF PolicyInv
<1>2. CASE policy' = policy
  BY <1>1, <1>2
<1>3. ASSUME NEW t \in Threads, Adopt(t), policy' # policy
      PROVE  policy # None => policy' # None /\ policy'.content.n >= policy.content.n
  <2> DEFINE h == thread[t].handle
  <2>1. thread[t].pc = "lanes" /\ policy' = [content |-> h.content, stat |-> h.stat]
    BY <1>3 DEF Adopt, Fail
  <2>2. policy'.content = h.content /\ policy'.stat = h.stat
    BY <2>1
  <2>3. policy # None => policy.content.n <= h.content.n
    BY <2>1 DEF PolicyInv, Loading
  <2>4. h.content.n \in Int /\ h.stat \in Writes
    BY PolicyFacts DEF PolicyInv
  <2>5. policy' # None
    BY <2>2, <2>4, PolicyAssumption DEF None, Writes
  <2> HIDE DEF h
  <2> QED  BY <1>1, <2>2, <2>3, <2>4, <2>5
<1>4. policy' = policy \/ \E t \in Threads : Adopt(t)
  BY DEF PolicyNext, Get, Recent, CannotOpen, Unchanged, Open, Read, SkipLane, Emitted, Fail,
         Replace, Edit, Vanish, ComeBack, Elapse, policyVars
<1> QED  BY <1>2, <1>3, <1>4

-----------------------------------------------------------------------------
(* emit_alert. *)

\* A step of somebody who emits, or of the clock.
AlertNext ==
    \/ \E p \in Procs, name \in Names \cup Daily : Call(p, name)
    \/ \E p \in Procs : EmitStep(p) \/ Abort(p)
    \/ Tick

Emitting == [pc : {"wait", "write", "append"}, line : Line]

AlertTypes ==
    /\ stamps \subseteq Names \X Times
    /\ lines \in Seq(Line)
    /\ proc \in [Procs -> {NotEmitting} \cup Emitting]
    /\ now \in Times
    /\ \A p \in Procs : proc[p].pc \in {"write", "append"} => alertLock = p
    /\ \A p \in Procs : proc[p].pc # "idle" => proc[p].line.at <= now

\* The state files know of line l, or it is out of its window.
Known(l) ==
    IF l.name \in Daily THEN <<l.day, l.name>> \in days
    ELSE <<l.name, l.at>> \in stamps \/ now - l.at >= Window

\* The state files know of line l, whatever the time.
Marked(l) ==
    IF l.name \in Daily THEN <<l.day, l.name>> \in days ELSE <<l.name, l.at>> \in stamps

\* Line l does not stand in the way of line m at this instant.
Apart(l, m) ==
    l.name = m.name => IF m.name \in Daily THEN l.day # m.day ELSE now - l.at >= Window

\* What was written is known, what is being written was remembered, and it stands
\* apart from what was written before.
AlertInv ==
    /\ AlertTypes
    /\ \A i \in DOMAIN lines : Known(lines[i])
    /\ \A p \in Procs : proc[p].pc = "append" => Marked(proc[p].line)
    /\ \A p \in Procs : proc[p].pc \in {"write", "append"} =>
                            \A i \in DOMAIN lines : Apart(lines[i], proc[p].line)

\* The facts about the types that every step uses.
LEMMA AlertFacts ==
    ASSUME AlertTypes
    PROVE  /\ Window \in Nat /\ LastTime \in Nat /\ Names \cap Daily = {} /\ NoProc \notin Procs
           /\ Times \subseteq Int /\ now \in Int
           /\ \A l \in Line : l.at \in Int /\ l.at \in Times /\ l.name \in Names \cup Daily
           /\ \A i \in DOMAIN lines : lines[i] \in Line
           /\ \A x \in stamps : x[2] \in Int
           /\ \A p \in Procs : proc[p].pc = "idle" => proc[p] = NotEmitting
           /\ \A p \in Procs : proc[p].pc # "idle" => proc[p] \in Emitting /\ proc[p].line \in Line
           /\ NotEmitting.pc = "idle"
<1>1. Window \in Nat /\ LastTime \in Nat /\ Names \cap Daily = {} /\ NoProc \notin Procs
  BY AlertAssumption
<1>2. Times \subseteq Int /\ now \in Int
  BY <1>1 DEF AlertTypes, Times
<1>3. \A l \in Line : l.at \in Int /\ l.at \in Times /\ l.name \in Names \cup Daily
  BY <1>2 DEF Line
<1>4. \A i \in DOMAIN lines : lines[i] \in Line
  BY DEF AlertTypes
<1>5. \A x \in stamps : x[2] \in Int
  BY <1>2 DEF AlertTypes
<1>6. NotEmitting.pc = "idle"
  BY DEF NotEmitting
<1>7. \A e \in Emitting : e.pc # "idle" /\ e.line \in Line
  BY DEF Emitting
<1>8. \A p \in Procs : proc[p] = NotEmitting \/ proc[p] \in Emitting
  BY DEF AlertTypes
<1> QED  BY <1>1, <1>2, <1>3, <1>4, <1>5, <1>6, <1>7, <1>8

\* A step keeps the types.
LEMMA AlertTypesStep ==
    ASSUME AlertTypes, [AlertNext]_alertVars
    PROVE  AlertTypes'
<1>0. /\ Window \in Nat /\ LastTime \in Nat /\ NoProc \notin Procs
      /\ Times \subseteq Int /\ now \in Int
      /\ \A l \in Line : l.at \in Int /\ l.at \in Times /\ l.name \in Names \cup Daily
      /\ \A p \in Procs : proc[p].pc # "idle" => proc[p] \in Emitting /\ proc[p].line \in Line
      /\ NotEmitting.pc = "idle"
  BY AlertFacts
<1>1. ASSUME NEW p \in Procs, NEW name \in Names \cup Daily, Call(p, name)
      PROVE  AlertTypes'
  <2> DEFINE l == [name |-> name, at |-> now, day |-> DayOf[now]]
             e == [pc |-> "wait", line |-> l]
  <2>1. l \in Line /\ l.at = now
    BY DEF AlertTypes, Line
  <2> HIDE DEF l
  <2>2. e \in Emitting /\ e.line.at = now /\ e.pc = "wait"
    BY <2>1 DEF Emitting
  <2>3. proc' = [proc EXCEPT ![p] = e] /\ UNCHANGED <<stamps, days, lines, alertLock, now, lost>>
    BY <1>1 DEF Call, l
  <2> HIDE DEF e
  <2> QED  BY <1>0, <2>2, <2>3 DEF AlertTypes
<1>2. ASSUME NEW p \in Procs, proc' = [proc EXCEPT ![p] = NotEmitting],
             stamps' \subseteq stamps, lines' \in Seq(Line), now' = now,
             alertLock' = alertLock \/ (alertLock = p /\ alertLock' = NoProc)
      PROVE  AlertTypes'
  <2>1. /\ stamps' \subseteq Names \X Times
        /\ proc' \in [Procs -> {NotEmitting} \cup Emitting]
        /\ now' \in Times
    BY <1>2 DEF AlertTypes
  <2>2. ASSUME NEW q \in Procs, proc'[q].pc # "idle"
        PROVE  q # p /\ proc'[q] = proc[q]
    BY <1>0, <1>2, <2>2 DEF AlertTypes
  <2>3. ASSUME NEW q \in Procs, proc'[q].pc \in {"write", "append"}
        PROVE  alertLock' = q
    BY <1>0, <1>2, <2>2, <2>3 DEF AlertTypes
  <2>4. ASSUME NEW q \in Procs, proc'[q].pc # "idle"
        PROVE  proc'[q].line.at <= now'
    BY <1>2, <2>2, <2>4 DEF AlertTypes
  <2> QED  BY <1>2, <2>1, <2>3, <2>4 DEF AlertTypes
<1>3. ASSUME NEW p \in Procs, NEW pc \in {"write", "append"}, proc[p].pc # "idle",
             proc' = [proc EXCEPT ![p].pc = pc], alertLock' = p,
             alertLock \in {p, NoProc},
             stamps' \subseteq Names \X Times, lines' = lines, now' = now
      PROVE  AlertTypes'
  <2>1. proc[p] \in Emitting
    BY <1>0, <1>3
  <2>2. /\ proc'[p] \in Emitting /\ proc'[p].pc = pc /\ proc'[p].line = proc[p].line
        /\ \A q \in Procs \ {p} : proc'[q] = proc[q]
        /\ proc' \in [Procs -> {NotEmitting} \cup Emitting]
    BY <1>3, <2>1 DEF AlertTypes, Emitting
  <2>3. \A q \in Procs \ {p} : proc[q].pc \notin {"write", "append"}
    BY <1>0, <1>3 DEF AlertTypes
  <2> QED  BY <1>3, <2>2, <2>3 DEF AlertTypes
<1>4. ASSUME NEW p \in Procs, Duplicate(p) PROVE AlertTypes'
  <2>1. stamps' \subseteq stamps
    BY <1>4 DEF Duplicate, InWindow
  <2> QED  BY <1>2, <1>4, <2>1 DEF Duplicate, AlertTypes
<1>5. ASSUME NEW p \in Procs, New(p) PROVE AlertTypes'
  BY <1>3, <1>5 DEF New, AlertTypes
<1>6. ASSUME NEW p \in Procs, Remember(p) PROVE AlertTypes'
  <2>1. proc[p].pc = "write" /\ alertLock = p /\ proc[p].line \in Line
    BY <1>0, <1>6 DEF Remember, AlertTypes
  <2>2. stamps' \subseteq Names \X Times
    BY <1>0, <1>6, <2>1 DEF Remember, InWindow, AlertTypes
  <2>3. /\ proc' = [proc EXCEPT ![p].pc = "append"]
        /\ lines' = lines /\ alertLock' = alertLock /\ now' = now
    BY <1>6 DEF Remember
  <2> QED  BY <1>3, <2>1, <2>2, <2>3
<1>7. ASSUME NEW p \in Procs, Write(p) PROVE AlertTypes'
  <2>1. proc[p].pc = "append" /\ alertLock = p /\ proc[p].line \in Line
    BY <1>0, <1>7 DEF Write, AlertTypes
  <2>2. lines' \in Seq(Line)
    BY <1>7, <2>1, AppendProperties DEF Write, AlertTypes
  <2> QED  BY <1>2, <1>7, <2>1, <2>2 DEF Write
<1>8. ASSUME NEW p \in Procs, Abort(p) PROVE AlertTypes'
  <2>1. proc[p].pc # "idle"
    BY <1>8, AlertFacts DEF Abort
  <2>2. lines' \in Seq(Line)
    BY <1>0, <1>8, <2>1, AppendProperties DEF Abort, AlertTypes
  <2> QED  BY <1>2, <1>8, <2>2 DEF Abort
<1>9. CASE Tick
  <2>1. now' \in Times /\ now' >= now
    BY <1>0, <1>9 DEF Tick, Times, AlertTypes
  <2>2. /\ stamps' = stamps /\ lines' = lines /\ alertLock' = alertLock /\ proc' = proc
        /\ now' \in Int
    BY <1>0, <1>9, <2>1 DEF Tick
  <2>3. ASSUME NEW q \in Procs, proc[q].pc # "idle"
        PROVE  proc[q].line.at <= now'
    BY <1>0, <2>1, <2>2, <2>3 DEF AlertTypes
  <2> QED  BY <2>1, <2>2, <2>3 DEF AlertTypes
<1>10. CASE UNCHANGED alertVars
  BY <1>10 DEF alertVars, AlertTypes
<1> QED
  BY <1>1, <1>4, <1>5, <1>6, <1>7, <1>8, <1>9, <1>10 DEF AlertNext, EmitStep

\* A line that is known stays so while the state files grow, are pruned by a clock
\* that is not ahead, or time passes.
LEMMA KnownStays ==
    ASSUME AlertTypes, now' \in Int, now' >= now, days \subseteq days',
           NEW at \in Int, at <= now,
           \A x \in stamps : x \in stamps' \/ at - x[2] >= Window
    PROVE  \A l \in Line : Known(l) => Known(l)'
<1>1. Window \in Nat /\ now \in Int /\ \A l \in Line : l.at \in Int
  BY AlertFacts
<1>2. ASSUME NEW l \in Line, Known(l), l.name \notin Daily
      PROVE  <<l.name, l.at>> \in stamps' \/ now' - l.at >= Window
  <2>1. CASE <<l.name, l.at>> \in stamps
    <3> DEFINE x == <<l.name, l.at>>
    <3>1. x \in stamps' \/ at - x[2] >= Window
      BY <2>1
    <3>2. x[2] = l.at
      OBVIOUS
    <3> QED  BY <1>1, <3>1, <3>2
  <2>2. CASE now - l.at >= Window
    BY <1>1, <2>2
  <2> QED  BY <1>2, <2>1, <2>2 DEF Known
<1>3. ASSUME NEW l \in Line, Known(l), l.name \in Daily
      PROVE  <<l.day, l.name>> \in days'
  BY <1>3 DEF Known
<1> QED  BY <1>2, <1>3 DEF Known

\* A line stays apart from another as time passes.
LEMMA ApartStays ==
    ASSUME AlertTypes, now' \in Int, now' >= now
    PROVE  \A l \in Line, m \in Line : Apart(l, m) => Apart(l, m)'
<1>1. Window \in Nat /\ now \in Int /\ \A l \in Line : l.at \in Int
  BY AlertFacts
<1> QED  BY <1>1 DEF Apart

\* A line that the state files do not hold against a new one is apart from it.
LEMMA NewIsApart ==
    ASSUME AlertTypes, NEW l \in Line, Known(l), NEW m \in Line, m.at <= now, ~Sent(m)
    PROVE  Apart(l, m)
<1>1. Window \in Nat /\ now \in Int /\ l.at \in Int /\ m.at \in Int
  BY AlertFacts
<1>2. ASSUME l.name = m.name, m.name \in Daily PROVE l.day # m.day
  BY <1>2 DEF Known, Sent
<1>3. ASSUME l.name = m.name, m.name \notin Daily PROVE now - l.at >= Window
  <2> DEFINE x == <<l.name, l.at>>
  <2>1. x[1] = l.name /\ x[2] = l.at
    OBVIOUS
  <2>2. x \in stamps => m.at - x[2] >= Window
    <3>1. \A y \in InWindow(m.at) : y[1] # m.name
      BY <1>3 DEF Sent
    <3>2. x \in stamps => x \notin InWindow(m.at)
      BY <1>3, <2>1, <3>1
    <3>3. x \in stamps => ~(m.at - x[2] < Window)
      BY <3>2 DEF InWindow
    <3> QED  BY <1>1, <2>1, <3>3
  <2>3. x \in stamps \/ now - l.at >= Window
    BY <1>3 DEF Known
  <2> QED  BY <1>1, <2>1, <2>2, <2>3
<1> QED  BY <1>2, <1>3 DEF Apart

\* When p appends its line, all that is written is known.
LEMMA AppendKnown ==
    ASSUME AlertInv, NEW p \in Procs, proc[p].pc = "append", lines' = Append(lines, proc[p].line),
           UNCHANGED <<stamps, days, now>>
    PROVE  (\A i \in DOMAIN lines : Known(lines[i]))'
<1>1. proc[p].line \in Line /\ lines \in Seq(Line)
  BY AlertFacts DEF AlertInv, AlertTypes
<1>2. /\ DOMAIN lines = 1 .. Len(lines) /\ Len(lines) \in Nat
      /\ DOMAIN lines' = 1 .. Len(lines) + 1
      /\ \A i \in 1 .. Len(lines) : lines'[i] = lines[i]
      /\ lines'[Len(lines) + 1] = proc[p].line
  BY <1>1, AppendProperties
<1>3. Known(proc[p].line)
  BY DEF AlertInv, Marked, Known
<1>4. \A i \in DOMAIN lines' : Known(lines'[i])
  BY <1>2, <1>3 DEF AlertInv
<1> QED  BY <1>4 DEF Known

\* A step keeps the invariant.
LEMMA AlertInvStep ==
    ASSUME AlertInv, [AlertNext]_alertVars
    PROVE  AlertInv'
<1>0. AlertTypes /\ AlertTypes'
  BY AlertTypesStep DEF AlertInv
<1>1. /\ Window \in Nat /\ NoProc \notin Procs
      /\ now \in Int /\ now' \in Int /\ lines \in Seq(Line)
      /\ \A i \in DOMAIN lines : lines[i] \in Line
      /\ \A p \in Procs : proc[p].pc # "idle" =>
              proc[p].line \in Line /\ proc[p].line.at \in Int /\ proc[p].line.at <= now
      /\ NotEmitting.pc = "idle"
  BY <1>0, AlertFacts DEF AlertTypes, Times
<1>2. \A p, q \in Procs : proc[p].pc \in {"write", "append"} /\ proc[q].pc \in {"write", "append"}
                              => p = q
  BY <1>0 DEF AlertTypes
\* Where no line is written, what was apart stays so, and what was known.
<1>3. ASSUME lines' = lines, now' = now, days \subseteq days',
             NEW at \in Int, at <= now,
             \A x \in stamps : x \in stamps' \/ at - x[2] >= Window
      PROVE  (\A i \in DOMAIN lines : Known(lines[i]))'
  <2>1. \A l \in Line : Known(l) => Known(l)'
    BY <1>0, <1>1, <1>3, KnownStays
  <2>2. \A i \in DOMAIN lines : lines[i] \in Line /\ Known(lines[i])
    BY <1>1 DEF AlertInv
  <2> QED  BY <1>3, <2>1, <2>2 DEF Known
<1>4. ASSUME NEW p \in Procs, proc' = [proc EXCEPT ![p] = NotEmitting],
             proc[p].pc = "append" \/ alertLock = NoProc \/ UNCHANGED <<stamps, days, lines>>,
             UNCHANGED lines \/ (proc[p].pc = "append" /\ lines' = Append(lines, proc[p].line)),
             proc[p].pc = "append" => UNCHANGED <<stamps, days>>,
             now' = now,
             (\A i \in DOMAIN lines : Known(lines[i]))'
      PROVE  AlertInv'
  <2>1. ASSUME NEW q \in Procs, proc'[q].pc \in {"write", "append"}
        PROVE  /\ q # p /\ proc'[q] = proc[q] /\ alertLock = q
               /\ lines' = lines /\ stamps' = stamps /\ days' = days
    <3>1. q # p /\ proc'[q] = proc[q]
      BY <1>0, <1>1, <1>4, <2>1 DEF AlertTypes
    <3>2. alertLock = q
      BY <1>0, <2>1, <3>1 DEF AlertTypes
    <3>3. proc[p].pc # "append"
      BY <1>2, <2>1, <3>1
    <3> QED  BY <1>1, <1>4, <3>1, <3>2, <3>3
  <2>2. (\A q \in Procs : proc[q].pc = "append" => Marked(proc[q].line))'
    BY <2>1 DEF AlertInv, Marked
  <2>3. \A q \in Procs : proc'[q].pc \in {"write", "append"} =>
            \A i \in DOMAIN lines' : Apart(lines'[i], proc'[q].line)
    BY <2>1 DEF AlertInv
  <2> QED  BY <1>0, <1>4, <2>2, <2>3 DEF AlertInv, Apart, Marked, Known
<1>5. ASSUME NEW p \in Procs, NEW name \in Names \cup Daily, Call(p, name)
      PROVE  AlertInv'
  <2> DEFINE e == [pc |-> "wait", line |-> [name |-> name, at |-> now, day |-> DayOf[now]]]
  <2>1. e.pc = "wait"
    OBVIOUS
  <2>2. proc' = [proc EXCEPT ![p] = e] /\ UNCHANGED <<stamps, days, lines, alertLock, now>>
    BY <1>5 DEF Call
  <2> HIDE DEF e
  <2>3. \A q \in Procs : proc'[q].pc \in {"write", "append"} => proc'[q] = proc[q]
    BY <1>0, <2>1, <2>2 DEF AlertTypes
  <2> QED  BY <1>0, <2>2, <2>3 DEF AlertInv, Apart, Marked, Known
<1>6. ASSUME NEW p \in Procs, Duplicate(p) PROVE AlertInv'
  <2>1. proc[p].pc = "wait" /\ proc[p].line.at \in Int /\ proc[p].line.at <= now
    BY <1>1, <1>6 DEF Duplicate
  <2>2. \A x \in stamps : x \in stamps' \/ proc[p].line.at - x[2] >= Window
    <3>1. \A x \in stamps : x[2] \in Int
      BY <1>0, AlertFacts
    <3> QED  BY <1>1, <1>6, <2>1, <3>1 DEF Duplicate, InWindow
  <2>3. (\A i \in DOMAIN lines : Known(lines[i]))'
    BY <1>3, <1>6, <2>1, <2>2 DEF Duplicate
  <2> QED  BY <1>4, <1>6, <2>1, <2>3 DEF Duplicate
<1>7. ASSUME NEW p \in Procs, New(p) PROVE AlertInv'
  <2>1. proc[p].pc = "wait" /\ proc[p].line \in Line /\ proc[p].line.at <= now
    BY <1>1, <1>7 DEF New
  <2>2. \A i \in DOMAIN lines : Apart(lines[i], proc[p].line)
    BY <1>0, <1>1, <1>7, <2>1, NewIsApart DEF AlertInv, New
  <2>3. \A q \in Procs : proc[q].pc \notin {"write", "append"}
    BY <1>0, <1>1, <1>7 DEF New, AlertTypes
  <2>4. ASSUME NEW q \in Procs, proc'[q].pc \in {"write", "append"}
        PROVE  q = p /\ proc'[q].pc = "write" /\ proc'[q].line = proc[p].line
    <3>1. proc[p] \in Emitting
      BY <1>0, <2>1, AlertFacts
    <3>2. proc' = [proc EXCEPT ![p].pc = "write"]
      BY <1>7 DEF New
    <3> QED  BY <1>0, <2>3, <2>4, <3>1, <3>2 DEF AlertTypes, Emitting
  <2>5. UNCHANGED <<stamps, days, lines, now>>
    BY <1>7 DEF New
  <2> QED  BY <1>0, <2>2, <2>4, <2>5 DEF AlertInv, Apart, Marked, Known
<1>8. ASSUME NEW p \in Procs, Remember(p) PROVE AlertInv'
  <2> DEFINE l == proc[p].line
  <2>1. proc[p].pc = "write" /\ l \in Line /\ l.at \in Int /\ l.at <= now
    BY <1>1, <1>8 DEF Remember
  <2>2. \A x \in stamps : x \in stamps' \/ l.at - x[2] >= Window
    <3>1. \A x \in stamps : x[2] \in Int
      BY <1>0, AlertFacts
    <3> QED  BY <1>1, <1>8, <2>1, <3>1 DEF Remember, InWindow
  <2>3. (\A i \in DOMAIN lines : Known(lines[i]))'
    BY <1>3, <1>8, <2>1, <2>2 DEF Remember
  <2>4. Marked(l)'
    <3>1. IF l.name \in Daily THEN <<l.day, l.name>> \in days' ELSE <<l.name, l.at>> \in stamps'
      BY <1>8 DEF Remember
    <3>2. l' = l
      <4>1. proc[p] \in Emitting
        BY <1>0, <2>1, AlertFacts
      <4> QED  BY <1>0, <1>8, <4>1 DEF Remember, AlertTypes, Emitting
    <3> QED  BY <3>1, <3>2 DEF Marked
  <2>5. ASSUME NEW q \in Procs, proc'[q].pc \in {"write", "append"}
        PROVE  q = p /\ proc'[q].line = l
    <3>1. proc[p] \in Emitting
      BY <1>0, <2>1, AlertFacts
    <3>2. proc' = [proc EXCEPT ![p].pc = "append"]
      BY <1>8 DEF Remember
    <3>3. q = p
      BY <1>0, <1>2, <2>1, <2>5, <3>2 DEF AlertTypes
    <3> QED  BY <1>0, <3>1, <3>2, <3>3 DEF AlertTypes, Emitting
  <2>6. \A q \in Procs : proc'[q].pc = "append" => Marked(proc[q].line)'
    BY <2>4, <2>5
  <2>7. lines' = lines /\ now' = now
    BY <1>8 DEF Remember
  <2>8. \A i \in DOMAIN lines : Apart(lines[i], l)
    BY <2>1 DEF AlertInv
  <2>9. \A q \in Procs : proc'[q].pc \in {"write", "append"} =>
            \A i \in DOMAIN lines' : Apart(lines'[i], proc'[q].line)
    BY <2>5, <2>7, <2>8
  <2> QED  BY <1>0, <2>3, <2>6, <2>7, <2>9 DEF AlertInv, Apart
<1>9. ASSUME NEW p \in Procs, Write(p) PROVE AlertInv'
  <2>1. (\A i \in DOMAIN lines : Known(lines[i]))'
    BY <1>9, AppendKnown DEF Write
  <2> QED  BY <1>4, <1>9, <2>1 DEF Write
<1>10. ASSUME NEW p \in Procs, Abort(p) PROVE AlertInv'
  <2>1. CASE UNCHANGED lines
    <3>1. (\A i \in DOMAIN lines : Known(lines[i]))'
      BY <1>10, <2>1 DEF Abort, AlertInv, Known
    <3> QED  BY <1>4, <1>10, <2>1, <3>1 DEF Abort
  <2>2. CASE proc[p].pc = "append" /\ lines' = Append(lines, proc[p].line)
    <3>1. (\A i \in DOMAIN lines : Known(lines[i]))'
      BY <1>10, <2>2, AppendKnown DEF Abort
    <3> QED  BY <1>4, <1>10, <2>2, <3>1 DEF Abort
  <2> QED  BY <1>10, <2>1, <2>2 DEF Abort
<1>11. CASE Tick
  <2>1. UNCHANGED <<stamps, days, lines, proc>> /\ now' >= now
    BY <1>1, <1>11 DEF Tick
  <2>2. \A l \in Line : Known(l) => Known(l)'
    BY <1>0, <1>1, <2>1, KnownStays
  <2>3. (\A i \in DOMAIN lines : Known(lines[i]))'
    BY <1>1, <2>1, <2>2 DEF AlertInv, Known
  <2>4. \A l \in Line, m \in Line : Apart(l, m) => Apart(l, m)'
    BY <1>0, <1>1, <2>1, ApartStays
  <2>5. (\A q \in Procs : proc[q].pc \in {"write", "append"} =>
             \A i \in DOMAIN lines : Apart(lines[i], proc[q].line))'
    <3>1. ASSUME NEW q \in Procs, proc[q].pc \in {"write", "append"}, NEW i \in DOMAIN lines
          PROVE  lines[i] \in Line /\ proc[q].line \in Line /\ Apart(lines[i], proc[q].line)
      BY <1>1, <3>1 DEF AlertInv
    <3> QED  BY <2>1, <2>4, <3>1 DEF Apart
  <2>6. (\A q \in Procs : proc[q].pc = "append" => Marked(proc[q].line))'
    BY <2>1 DEF AlertInv, Marked
  <2> QED  BY <1>0, <2>3, <2>5, <2>6 DEF AlertInv
<1>12. CASE UNCHANGED alertVars
  BY <1>0, <1>12 DEF AlertInv, alertVars, Apart, Marked, Known
<1> QED
  BY <1>5, <1>6, <1>7, <1>8, <1>9, <1>10, <1>11, <1>12 DEF AlertNext, EmitStep

\* At first nothing is written and nobody emits.
LEMMA AlertInvInit == AlertInit => AlertInv
<1> SUFFICES ASSUME AlertInit PROVE AlertInv
  OBVIOUS
<1>1. lines = <<>> /\ stamps = {} /\ now = 0 /\ proc = [p \in Procs |-> NotEmitting]
  BY DEF AlertInit
<1>2. \A p \in Procs : proc[p].pc = "idle"
  BY <1>1 DEF NotEmitting
<1>3. lines \in Seq(Line) /\ DOMAIN lines = {}
  BY <1>1
<1>4. 0 \in Times
  BY AlertAssumption DEF Times
<1> QED  BY <1>1, <1>2, <1>3, <1>4 DEF AlertInv, AlertTypes

\* The line that a step writes is one that stands apart from all before it: an alert
\* is not told twice.
LEMMA NotToldTwiceStep ==
    ASSUME AlertInv, [AlertNext]_alertVars
    PROVE  [\A i \in DOMAIN lines :
              LET last == lines'[Len(lines')]
              IN Len(lines') > Len(lines) /\ last.name = lines[i].name =>
                    IF last.name \in Daily THEN last.day # lines[i].day
                    ELSE now - lines[i].at >= Window]_alertVars
<1>1. ASSUME NEW p \in Procs, proc[p].pc = "append", lines' = Append(lines, proc[p].line),
             NEW i \in DOMAIN lines, lines'[Len(lines')].name = lines[i].name
      PROVE  IF lines[i].name \in Daily THEN lines'[Len(lines')].day # lines[i].day
             ELSE now - lines[i].at >= Window
  <2>1. proc[p].line \in Line /\ lines \in Seq(Line)
    BY <1>1, AlertFacts DEF AlertInv, AlertTypes
  <2>2. lines'[Len(lines')] = proc[p].line
    BY <1>1, <2>1, AppendProperties
  <2>3. Apart(lines[i], proc[p].line)
    BY <1>1 DEF AlertInv
  <2> QED  BY <1>1, <2>2, <2>3 DEF Apart
<1>2. Len(lines) \in Nat
  BY LenProperties DEF AlertInv, AlertTypes
<1>3. \/ lines' = lines
      \/ \E p \in Procs : proc[p].pc = "append" /\ lines' = Append(lines, proc[p].line)
  BY DEF AlertNext, EmitStep, Call, Duplicate, New, Remember, Write, Abort, Tick, alertVars
<1>4. CASE lines' = lines
  <2>1. ~(Len(lines') > Len(lines))
    BY <1>2, <1>4
  <2> QED  BY <2>1
<1>5. CASE \E p \in Procs : proc[p].pc = "append" /\ lines' = Append(lines, proc[p].line)
  BY <1>1, <1>5
<1> QED  BY <1>3, <1>4, <1>5

\* A step keeps what SilenceIsEarned says.
LEMMA SilenceIsEarnedStep ==
    ASSUME AlertTypes, SilenceIsEarned, [AlertNext]_alertVars
    PROVE  SilenceIsEarned'
<1> DEFINE Writing(p, x) == /\ proc[p].pc = "append"
                            /\ proc[p].line.name = x[1] /\ proc[p].line.at = x[2]
           InFile(x) == \E i \in DOMAIN lines : lines[i].name = x[1] /\ lines[i].at = x[2]
           Earned(x) == x[1] \in lost \/ InFile(x) \/ \E p \in Procs : Writing(p, x)
<1>0. \A x \in stamps : Earned(x)
  BY DEF SilenceIsEarned
<1>1. /\ lines \in Seq(Line)
      /\ \A p \in Procs : proc[p].pc # "idle" => proc[p] \in Emitting /\ proc[p].line \in Line
      /\ NotEmitting.pc = "idle"
  BY AlertFacts DEF AlertTypes
\* A process that goes on without having had a line to write takes nothing away.
<1>2. ASSUME NEW p \in Procs, proc[p].pc # "append", NEW e, proc' = [proc EXCEPT ![p] = e],
             UNCHANGED <<lines, lost>>, NEW x, Earned(x)
      PROVE  Earned(x)'
  <2>1. \A q \in Procs : Writing(q, x) => Writing(q, x)'
    BY <1>2 DEF AlertTypes
  <2>2. InFile(x) => InFile(x)'
    BY <1>2
  <2>3. x[1] \in lost => x[1] \in lost'
    BY <1>2
  <2> HIDE DEF Writing, InFile
  <2> QED  BY <1>2, <2>1, <2>2, <2>3
\* A line that is appended stands for the process that wrote it.
<1>3. ASSUME NEW p \in Procs, proc[p].pc = "append", lines' = Append(lines, proc[p].line),
             proc' = [proc EXCEPT ![p] = NotEmitting], lost \subseteq lost', NEW x, Earned(x)
      PROVE  Earned(x)'
  <2>1. proc[p].line \in Line
    BY <1>1, <1>3
  <2>2. /\ DOMAIN lines = 1 .. Len(lines) /\ Len(lines) \in Nat
        /\ DOMAIN lines' = 1 .. Len(lines) + 1
        /\ \A i \in 1 .. Len(lines) : lines'[i] = lines[i]
        /\ lines'[Len(lines) + 1] = proc[p].line
    BY <1>1, <1>3, <2>1, AppendProperties
  <2>3. InFile(x) => InFile(x)'
    BY <2>2
  <2>4. Writing(p, x) => InFile(x)'
    BY <2>2
  <2>5. \A q \in Procs \ {p} : Writing(q, x) => Writing(q, x)'
    BY <1>3 DEF AlertTypes
  <2> HIDE DEF Writing, InFile
  <2> QED  BY <1>3, <2>3, <2>4, <2>5
<1>4. ASSUME NEW p \in Procs, Abort(p), UNCHANGED lines, NEW x, Earned(x)
      PROVE  Earned(x)'
  <2>1. \A q \in Procs \ {p} : Writing(q, x) => Writing(q, x)'
    BY <1>4 DEF Abort, AlertTypes
  <2>2. Writing(p, x) => x[1] \in lost'
    BY <1>4 DEF Abort
  <2>3. InFile(x) => InFile(x)'
    BY <1>4
  <2>4. x[1] \in lost => x[1] \in lost'
    BY <1>4 DEF Abort
  <2> HIDE DEF Writing, InFile
  <2> QED  BY <1>4, <2>1, <2>2, <2>3, <2>4
<1> SUFFICES ASSUME NEW x \in stamps' PROVE Earned(x)'
  BY DEF SilenceIsEarned
<1>5. CASE \E p \in Procs, name \in Names \cup Daily : Call(p, name)
  <2>1. PICK p \in Procs, name \in Names \cup Daily : Call(p, name)
    BY <1>5
  <2>2. proc[p].pc # "append" /\ x \in stamps
    BY <1>1, <2>1 DEF Call
  <2> HIDE DEF Earned
  <2> QED  BY <1>0, <1>2, <2>1, <2>2 DEF Call
<1>6. ASSUME NEW p \in Procs, Duplicate(p) PROVE Earned(x)'
  <2>1. proc[p].pc # "append" /\ x \in stamps
    BY <1>6 DEF Duplicate, InWindow
  <2> HIDE DEF Earned
  <2> QED  BY <1>0, <1>2, <1>6, <2>1 DEF Duplicate
<1>7. ASSUME NEW p \in Procs, New(p) PROVE Earned(x)'
  <2>1. proc[p].pc # "append" /\ x \in stamps
    BY <1>7 DEF New
  <2>2. \E e : proc' = [proc EXCEPT ![p] = e]
    BY <1>7 DEF New
  <2> HIDE DEF Earned
  <2> QED  BY <1>0, <1>2, <1>7, <2>1, <2>2 DEF New
<1>8. ASSUME NEW p \in Procs, Remember(p) PROVE Earned(x)'
  <2>1. proc[p].pc = "write" /\ proc[p] \in Emitting
    BY <1>1, <1>8 DEF Remember
  <2>2. CASE x \in stamps
    <3>1. \E e : proc' = [proc EXCEPT ![p] = e]
      BY <1>8 DEF Remember
    <3> HIDE DEF Earned
    <3> QED  BY <1>0, <1>2, <1>8, <2>1, <2>2, <3>1 DEF Remember
  <2>3. CASE x = <<proc[p].line.name, proc[p].line.at>>
    <3>1. proc'[p].pc = "append" /\ proc'[p].line = proc[p].line
      BY <1>8, <2>1 DEF Remember, AlertTypes, Emitting
    <3> QED  BY <2>3, <3>1
  <2> QED  BY <1>8, <2>2, <2>3 DEF Remember, InWindow
<1>9. ASSUME NEW p \in Procs, Write(p) PROVE Earned(x)'
  <2> HIDE DEF Earned
  <2> QED  BY <1>0, <1>3, <1>9 DEF Write
<1>10. ASSUME NEW p \in Procs, Abort(p) PROVE Earned(x)'
  <2> HIDE DEF Earned
  <2> QED  BY <1>0, <1>3, <1>4, <1>10 DEF Abort
<1>11. CASE Tick \/ UNCHANGED alertVars
  <2>1. UNCHANGED <<stamps, lines, proc, lost>>
    BY <1>11 DEF Tick, alertVars
  <2> QED  BY <1>0, <2>1
<1> HIDE DEF Earned
<1> QED
  BY <1>5, <1>6, <1>7, <1>8, <1>9, <1>10, <1>11 DEF AlertNext, EmitStep
=============================================================================
