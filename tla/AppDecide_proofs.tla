--------------------------- MODULE AppDecide_proofs ---------------------------
(***************************************************************************)
(* The policy and the alerts composed with the calls that use them: every  *)
(* step of AppDecide is one of RuntimePolicy, one of AppAlerts, or both,   *)
(* so that each part keeps what it promises by itself.                     *)
(***************************************************************************)
EXTENDS AppDecide, PolicyAlerts_proofs

-----------------------------------------------------------------------------
PartsInv ==
    /\ AlertInv /\ SilenceIsEarned /\ PolicyInv
    /\ scenario \in Scenarios

\* What the scenario lets happen is something that may happen.
LEMMA ScenarioFacts ==
    ASSUME PartsInv
    PROVE  /\ scenario.names \subseteq Names \cup Daily /\ scenario.raws \subseteq Raws
           /\ Threads \subseteq Procs /\ Others \subseteq Procs
           /\ ModelMismatch \in Names /\ PolicyInvalid \in Names
BY EmitterAssumption, DecideAssumption DEF PartsInv

\* get() calls emit_alert with an alert of its own.
LEMMA AlertIsNamed ==
    ASSUME PolicyInv, NEW t \in Threads,
           \/ Recent(t) \/ CannotOpen(t) \/ Unchanged(t) \/ Open(t) \/ Read(t)
           \/ SkipLane(t) \/ Adopt(t),
           thread'[t].pc = "emit"
    PROVE  thread'[t].alert \in Names
<1>0. /\ PolicyTypes /\ thread[t] \in Thread /\ thread[t].handle \in Handles
      /\ thread \in [Threads -> Thread]
      /\ thread[t].handle.content.raw \in Raws /\ Idle \in Thread /\ Idle.pc = "idle"
  BY PolicyFacts DEF PolicyInv, PolicyTypes
<1>1. PolicyInvalid \in Names
  BY EmitterAssumption
<1>2. ASSUME Fail(t) PROVE thread'[t].alert = PolicyInvalid
  BY <1>0, <1>2 DEF Fail, Thread
<1>3. ~Return(t)
  BY <1>0 DEF Return
<1>4. CASE Recent(t) \/ Unchanged(t)
  BY <1>3, <1>4 DEF Recent, Unchanged
<1>5. CASE CannotOpen(t)
  BY <1>1, <1>2, <1>5 DEF CannotOpen
<1>6. CASE Open(t)
  <2>1. thread' = [thread EXCEPT ![t].pc = "read",
                     ![t].handle = [content |-> file.content, stat |-> file.stat, live |-> TRUE]]
    BY <1>6 DEF Open
  <2>2. thread'[t].pc = "read"
    BY <1>0, <2>1 DEF Thread
  <2> QED  BY <2>2
<1>7. CASE Read(t)
  <2>1. \/ Fail(t)
        \/ thread' = [thread EXCEPT ![t].pc = "lanes",
                         ![t].todo = Skipped(thread[t].handle.content.raw),
                         ![t].handle.live = FALSE]
    BY <1>7 DEF Read
  <2> DEFINE r == [thread[t] EXCEPT !.pc = "lanes", !.todo = Skipped(thread[t].handle.content.raw),
                                    !.handle.live = FALSE]
  <2>2. r.pc = "lanes"
    BY <1>0 DEF Thread
  <2>3. Fail(t) \/ thread' = [thread EXCEPT ![t] = r]
    BY <1>0, <2>1
  <2> HIDE DEF r
  <2>4. Fail(t)
    BY <1>0, <2>2, <2>3
  <2> QED  BY <1>1, <1>2, <2>4
<1>8. CASE SkipLane(t)
  <2> DEFINE raw == thread[t].handle.content.raw
  <2>1. PICK l \in thread[t].todo :
            LET first == thread[t].todo = Skipped(raw)
                beside == IF first THEN file.present /\ file.content.raw = raw
                          ELSE thread[t].beside
            IN thread' = [thread EXCEPT ![t].todo = @ \ {l}, ![t].beside = beside,
                             ![t].pc = IF beside THEN "emit" ELSE @,
                             ![t].alert = IF beside THEN LaneSkipped(raw, l) ELSE @,
                             ![t].then = IF beside THEN "lanes" ELSE @]
    BY <1>8 DEF SkipLane
  <2>2. thread[t].pc = "lanes" /\ thread'[t].alert = LaneSkipped(raw, l)
    BY <1>0, <1>8, <2>1 DEF SkipLane, Thread
  <2>3. raw.whole /\ l \in Skipped(raw)
    BY <2>2 DEF PolicyInv, Loading
  <2> QED  BY <1>0, <2>2, <2>3, EmitterAssumption
<1>9. CASE Adopt(t)
  BY <1>1, <1>2, <1>3, <1>9 DEF Adopt
<1> QED  BY <1>4, <1>5, <1>6, <1>7, <1>8, <1>9

\* A step of get() is one of the policy, and of the alerts if it emits one.
LEMMA GetStepIsOfParts ==
    ASSUME PartsInv, NEW t \in Threads, GetStep(t)
    PROVE  PolicyNext /\ [AlertNext]_alertVars /\ UNCHANGED scenario
<1>1. ASSUME Emits(t), thread'[t].pc = "emit" => thread'[t].alert \in Names
      PROVE  [AlertNext]_alertVars
  BY <1>1, ScenarioFacts DEF Emits, AlertNext
<1>2. CASE Looks(t)
  BY <1>1, <1>2, AlertIsNamed DEF Looks, PolicyNext, PartsInv
<1>3. CASE Skips(t)
  BY <1>1, <1>3, AlertIsNamed DEF Skips, PolicyNext, PartsInv
<1>4. CASE Gets(t)
  BY <1>1, <1>4, AlertIsNamed DEF Gets, PolicyNext, PartsInv
<1>5. CASE Returns(t)
  BY <1>5 DEF Returns, PolicyNext
<1> QED  BY <1>2, <1>3, <1>4, <1>5 DEF GetStep

\* So is every step.
LEMMA StepIsOfParts ==
    ASSUME PartsInv, [DecideNext]_decideVars
    PROVE  [PolicyNext]_policyVars /\ [AlertNext]_alertVars /\ UNCHANGED scenario
<1>0. /\ scenario.names \subseteq Names \cup Daily /\ scenario.raws \subseteq Raws
      /\ Threads \subseteq Procs /\ Others \subseteq Procs /\ ModelMismatch \in Names
  BY ScenarioFacts
<1>1. CASE Next
  <2>1. CASE \E t \in Threads : Enters(t)
    BY <2>1 DEF Enters, PolicyNext
  <2>2. CASE \E t \in Threads : GetStep(t)
    BY <2>2, GetStepIsOfParts
  <2>3. CASE \E p \in Procs : Emit(p) \/ Raise(p)
    BY <2>3 DEF Emit, Raise, AlertNext
  <2>4. CASE \E p \in Others : OtherEmits(p)
    BY <1>0, <2>4 DEF OtherEmits, AlertNext
  <2>5. CASE Written
    BY <1>0, <2>5 DEF Written, PolicyNext
  <2>6. CASE Passes \/ Ticks
    BY <2>6 DEF Passes, Ticks, PolicyNext, AlertNext
  <2> QED  BY <1>1, <2>1, <2>2, <2>3, <2>4, <2>5, <2>6 DEF Next
<1>2. ASSUME NEW t \in Threads, Resolve(t)
      PROVE  [PolicyNext]_policyVars /\ [AlertNext]_alertVars /\ UNCHANGED scenario
  BY <1>2, GetStepIsOfParts DEF Resolve
<1>3. ASSUME NEW t \in Threads, NEW req \in Requests, DecideOr(t, req)
      PROVE  [PolicyNext]_policyVars /\ [AlertNext]_alertVars /\ UNCHANGED scenario
  BY <1>3 DEF DecideOr, PolicyNext
<1>4. ASSUME NEW t \in Threads, NEW reply \in Replies, Mismatch(t, reply)
      PROVE  [PolicyNext]_policyVars /\ [AlertNext]_alertVars /\ UNCHANGED scenario
  BY <1>0, <1>4 DEF Mismatch, AlertNext
<1>5. CASE UNCHANGED vars
  BY <1>5 DEF vars
<1>6. ASSUME NEW t \in Threads, DecideStep(t)
      PROVE  UNCHANGED vars \/ \E reply \in Replies : Mismatch(t, reply)
  BY <1>6 DEF DecideStep, NoAnswer, MismatchTold, Malformed, Answer, Fallback
<1>7. CASE UNCHANGED decideVars
  BY <1>5, <1>7 DEF decideVars
<1> QED
  BY <1>1, <1>2, <1>3, <1>4, <1>5, <1>6, <1>7 DEF DecideNext, Meanwhile

LEMMA PartsInvAlways == DecideSpec => []PartsInv
<1>1. DecideInit => PartsInv
  <2> SUFFICES ASSUME DecideInit PROVE PartsInv
    OBVIOUS
  <2>1. AlertInv /\ PolicyInv /\ scenario \in Scenarios
    BY AlertInvInit, PolicyInvInit DEF DecideInit, Init
  <2>2. SilenceIsEarned
    BY DEF DecideInit, Init, AlertInit, SilenceIsEarned
  <2> QED  BY <2>1, <2>2 DEF PartsInv
<1>2. PartsInv /\ [DecideNext]_decideVars => PartsInv'
  <2> SUFFICES ASSUME PartsInv, [DecideNext]_decideVars PROVE PartsInv'
    OBVIOUS
  <2>1. [PolicyNext]_policyVars /\ [AlertNext]_alertVars /\ UNCHANGED scenario
    BY StepIsOfParts
  <2>2. AlertInv /\ AlertTypes /\ SilenceIsEarned /\ PolicyInv
    BY DEF PartsInv, AlertInv
  <2>3. AlertInv' /\ SilenceIsEarned' /\ PolicyInv'
    BY <2>1, <2>2, AlertInvStep, SilenceIsEarnedStep, PolicyInvStep
  <2> QED  BY <2>1, <2>3 DEF PartsInv
<1> QED  BY <1>1, <1>2, PTL DEF DecideSpec

-----------------------------------------------------------------------------
(* The theorems. *)

\* A name that is passed over as sent already has its line in the file, or about
\* to be, unless an emit of it was broken off.
THEOREM SilenceIsAlwaysEarned == DecideSpec => []SilenceIsEarned
<1>1. PartsInv => SilenceIsEarned
  BY DEF PartsInv
<1> QED  BY <1>1, PartsInvAlways, PTL

\* Where get() skips the reload, the policy that is held is what the file holds.
THEOREM SkippedReloadIsSafe == DecideSpec => []SameStatSameContent
<1>1. PartsInv => SameStatSameContent
  BY PolicyIsCurrent DEF PartsInv
<1> QED  BY <1>1, PartsInvAlways, PTL

\* No alert is written twice in a window of its own, whoever emits it.
THEOREM OneAlertPerWindow == DecideSpec => NotToldTwice
<1>1. PartsInv /\ [DecideNext]_decideVars =>
          [\A i \in DOMAIN lines :
              LET last == lines'[Len(lines')]
              IN Len(lines') > Len(lines) /\ last.name = lines[i].name =>
                    IF last.name \in Daily THEN last.day # lines[i].day
                    ELSE now - lines[i].at >= Window]_alertVars
  BY StepIsOfParts, NotToldTwiceStep DEF PartsInv
<1> QED  BY <1>1, PartsInvAlways, PTL DEF DecideSpec, NotToldTwice

\* The policy that is served is never replaced by an earlier one, nor lost.
THEOREM PolicyNeverGoesBack == DecideSpec => NeverGoesBack
<1>1. PartsInv /\ [DecideNext]_decideVars =>
          [policy # None => policy' # None /\ policy'.content.n >= policy.content.n]_policyVars
  BY StepIsOfParts, NeverGoesBackStep DEF PartsInv
<1> QED  BY <1>1, PartsInvAlways, PTL DEF DecideSpec, NeverGoesBack

-----------------------------------------------------------------------------
(* The answers. *)

FieldNames == {"pc", "req", "policy", "reply", "asked", "out", "error"}
Fields(d) == d = [f \in FieldNames |-> d[f]]

\* The provider's word, where the caller gets it, is earned.
Earned(d) ==
    \A n \in DOMAIN d.out : d.out[n].source = "decide" => LaneIsSound(d) /\ IsSure(d, n)

ProperValue(d, n) == d.req.questions[n].type = "noul" => d.out[n].value \in {"true", "false"}

\* Where a call of decide_or is: nothing is answered until a reply has been parsed, from
\* then on each question is answered or the fallback is asked for it.
CallInv(d) ==
    /\ Fields(d)
    /\ Earned(d)
    /\ d.pc \in {"idle", "get", "sent", "told", "fallback", "done", "raised"}
    /\ d.pc \in {"idle", "get", "sent", "told"} => d.out = <<>>
    /\ d.pc = "sent" => d.policy \in Raws /\ HasLane(d.policy, d.req) /\ Accepts(d.policy, d.req)
    /\ d.pc = "fallback" =>
          /\ DOMAIN d.out = Asked(d) \ d.asked /\ d.asked \subseteq Asked(d)
          /\ \A n \in DOMAIN d.out : ProperValue(d, n)
    /\ d.pc = "done" => EveryQuestionIsAnswered(d)

AnswerInv ==
    /\ decision = [t \in Threads |-> decision[t]]
    /\ \A t \in Threads : CallInv(decision[t])

LEMMA MaxOfTwo ==
    ASSUME NEW a \in Int, NEW b \in Int
    PROVE  Max({a, b}) = IF a >= b THEN a ELSE b
BY DEF Max

\* A lane that is served is sound.
LEMMA ServedIsSound ==
    ASSUME NEW d, d.policy \in Raws, HasLane(d.policy, d.req)
    PROVE  LaneIsSound(d)
<1> DEFINE raw == d.policy
           lane == raw.lanes[d.req.lane]
           declared == Chain(lane) \cap DOMAIN raw.backends
<1>1. d.req.lane \in Served(raw) /\ lane.kind = "decision"
  BY DEF HasLane
<1>2. Reason(raw, lane) = "none"
  BY <1>1 DEF Served
<1> HIDE DEF raw, lane
<1>3. /\ lane.chain # <<>>
      /\ ~(\/ Chain(lane) # declared \/ ~lane.ok
           \/ \E b \in declared : ~raw.backends[b].ok
                                  \/ raw.backends[b].dialect # DialectOf[lane.kind])
  BY <1>2 DEF Reason
<1>4. DialectOf["decision"] = "typesafe-systemone"
  BY DEF DialectOf
<1>5. LaneIsSound(d) <=>
        /\ lane.ok /\ lane.chain # <<>>
        /\ \A b \in Chain(lane) :
              /\ b \in DOMAIN raw.backends /\ raw.backends[b].ok
              /\ raw.backends[b].dialect = "typesafe-systemone"
  BY DEF LaneIsSound, lane, raw
<1> QED  BY <1>1, <1>3, <1>4, <1>5

\* The word of a reply that has been parsed, on a question of which it is as sure as the
\* lane asks for.
LEMMA SureAnswer ==
    ASSUME NEW d, d.policy \in Raws, HasLane(d.policy, d.req), Accepts(d.policy, d.req),
           Parsed(d.req.questions, d.reply), ModelMatches(d.reply),
           NEW n \in Asked(d), ~(Confidence(d.reply.answers[n]) < Threshold(d)),
           n \in DOMAIN d.out, d.out[n].value = Value(d.reply.answers[n])
    PROVE  IsSure(d, n) /\ ProperValue(d, n)
<1> DEFINE question == d.req.questions[n]
           answer == d.reply.answers[n]
           lane == d.policy.lanes[d.req.lane]
<1>1. Threshold(d) \in 0 .. 100
  <2>1. d.req.lane \in Served(d.policy) /\ lane.kind = "decision"
    BY DEF HasLane
  <2>2. lane.profiles \in [DOMAIN lane.profiles -> 0 .. 100]
    BY <2>1, DecideAssumption
  <2>3. d.req.profile \in DOMAIN lane.profiles
    BY DEF Accepts
  <2> QED  BY <2>2, <2>3 DEF Threshold
<1>2. question.type \in {"choice", "noul"}
  BY DEF Accepts, ValidQuestions, Asked
<1>3. /\ DOMAIN d.reply.answers = DOMAIN d.req.questions
      /\ \A m \in DOMAIN d.req.questions : WellFormed(d.req.questions[m], d.reply.answers[m])
  BY DEF Parsed
<1>4. \A m \in DOMAIN d.reply.answers :
          d.reply.answers[m].ok /\ d.reply.answers[m].type = d.req.questions[m].type
  BY <1>3 DEF WellFormed
<1>5. WellFormed(question, answer) /\ answer.type = question.type
  BY <1>3, <1>4 DEF Asked
<1>6. d.reply.model \in {"declared", "dated"}
  BY DEF ModelMatches
<1> HIDE DEF question, answer
<1>7. CASE question.type = "choice"
  <2>1. answer.confidence \in 0 .. 100 /\ answer.choice \in question.criteria
    BY <1>5, <1>7 DEF WellFormed, Probability
  <2>2. ~(answer.confidence < Threshold(d)) /\ d.out[n].value = answer.choice
    BY <1>5, <1>7 DEF Confidence, Value, answer
  <2>3. answer.confidence >= Threshold(d)
    BY <1>1, <2>1, <2>2
  <2> QED  BY <1>3, <1>4, <1>6, <1>7, <2>1, <2>2, <2>3 DEF IsSure, ProperValue, question, answer
<1>8. CASE question.type = "noul"
  <2>1. answer.p \in 0 .. 100
    BY <1>5, <1>8 DEF WellFormed, Probability
  <2>2. ~(Max({answer.p, 100 - answer.p}) < Threshold(d))
        /\ d.out[n].value = IF answer.p >= 50 THEN "true" ELSE "false"
    BY <1>5, <1>8 DEF Confidence, Value, answer
  <2>3. Max({answer.p, 100 - answer.p}) = IF answer.p >= 100 - answer.p THEN answer.p
                                          ELSE 100 - answer.p
    BY <2>1, MaxOfTwo
  <2>4. IF answer.p >= 50 THEN answer.p >= Threshold(d) ELSE 100 - answer.p >= Threshold(d)
    BY <1>1, <2>1, <2>2, <2>3
  <2> QED  BY <1>3, <1>4, <1>6, <1>8, <2>2, <2>4 DEF IsSure, ProperValue, question, answer
<1> QED  BY <1>2, <1>7, <1>8

\* What an answer leaves.
LEMMA AnswerKeeps ==
    ASSUME NEW t \in Threads, NEW reply, Answer(t, reply), AnswerInv
    PROVE  CallInv(decision'[t])
<1> DEFINE d == decision[t]
           unsure == {n \in Asked(d) : Confidence(reply.answers[n]) < Threshold(d)}
           kept == [n \in Asked(d) \ unsure |->
                       [value |-> Value(reply.answers[n]), source |-> "decide"]]
           pc == IF unsure = {} THEN "done" ELSE "fallback"
           e == [d EXCEPT !.reply = reply, !.asked = unsure, !.out = kept, !.pc = pc]
<1>1. /\ decision' = [decision EXCEPT ![t] = e]
      /\ d.pc = "sent" /\ Parsed(d.req.questions, reply) /\ ModelMatches(reply)
  BY DEF Answer
<1>2. decision'[t] = e
  BY <1>1 DEF AnswerInv
<1>3. /\ Fields(d) /\ d.policy \in Raws /\ HasLane(d.policy, d.req) /\ Accepts(d.policy, d.req)
  BY <1>1 DEF AnswerInv, CallInv
<1> HIDE DEF d, kept, unsure, pc
<1>4. /\ Fields(e) /\ e.reply = reply /\ e.asked = unsure /\ e.out = kept /\ e.pc = pc
      /\ e.req = d.req /\ e.policy = d.policy
  BY <1>3 DEF Fields, FieldNames
<1> HIDE DEF e
<1>5. Asked(e) = Asked(d) /\ Threshold(e) = Threshold(d)
  BY <1>4 DEF Asked, Threshold
<1>6. unsure \subseteq Asked(d) /\ DOMAIN kept = Asked(d) \ unsure
  BY DEF unsure, kept
<1>7. ASSUME NEW n \in DOMAIN e.out
      PROVE  e.out[n].source = "decide" /\ LaneIsSound(e) /\ IsSure(e, n) /\ ProperValue(e, n)
  <2>1. n \in Asked(d) \ unsure
    BY <1>4, <1>6, <1>7
  <2>2. kept[n] = [value |-> Value(reply.answers[n]), source |-> "decide"]
    BY <2>1 DEF kept
  <2>3. e.out[n].value = Value(e.reply.answers[n]) /\ e.out[n].source = "decide"
    BY <1>4, <2>2
  <2>4. ~(Confidence(e.reply.answers[n]) < Threshold(e))
    BY <1>4, <1>5, <2>1 DEF unsure
  <2>5. IsSure(e, n) /\ ProperValue(e, n)
    BY <1>1, <1>3, <1>4, <1>5, <1>7, <2>1, <2>3, <2>4, SureAnswer
  <2> QED  BY <1>3, <1>4, <2>3, <2>5, ServedIsSound
<1>8. CASE unsure = {}
  <2>1. e.pc = "done" /\ DOMAIN e.out = DOMAIN e.req.questions
    BY <1>4, <1>5, <1>6, <1>8 DEF pc, Asked
  <2> QED  BY <1>2, <1>4, <1>7, <2>1 DEF CallInv, Earned, EveryQuestionIsAnswered, ProperValue
<1>9. CASE unsure # {}
  <2>1. e.pc = "fallback" /\ DOMAIN e.out = Asked(e) \ e.asked /\ e.asked \subseteq Asked(e)
    BY <1>4, <1>5, <1>6, <1>9 DEF pc
  <2> QED  BY <1>2, <1>4, <1>7, <2>1 DEF CallInv, Earned
<1> QED  BY <1>8, <1>9

\* The fallback answers what is left.
LEMMA FallbackKeeps ==
    ASSUME NEW t \in Threads, NEW values, Fallback(t, values), AnswerInv
    PROVE  CallInv(decision'[t])
<1> DEFINE d == decision[t]
           out == [n \in DOMAIN d.out \cup d.asked |->
                      IF n \in d.asked THEN [value |-> values[n], source |-> "fallback"]
                      ELSE d.out[n]]
           e == IF ValidFallback(d, values) THEN [d EXCEPT !.pc = "done", !.out = out]
                ELSE [d EXCEPT !.pc = "raised"]
<1>1. decision' = [decision EXCEPT ![t] = e] /\ d.pc = "fallback"
  BY DEF Fallback
<1>2. decision'[t] = e
  BY <1>1 DEF AnswerInv
<1>3. /\ Fields(d) /\ Earned(d) /\ d.asked \subseteq Asked(d)
      /\ DOMAIN d.out = Asked(d) \ d.asked /\ \A n \in DOMAIN d.out : ProperValue(d, n)
  BY <1>1 DEF AnswerInv, CallInv
<1>4. CASE ValidFallback(d, values)
  <2> HIDE DEF d, out
  <2>1. /\ Fields(e) /\ e.pc = "done" /\ e.out = out /\ e.req = d.req /\ e.policy = d.policy
        /\ e.reply = d.reply
    BY <1>3, <1>4 DEF Fields, FieldNames
  <2> HIDE DEF e
  <2>2. DOMAIN e.out = DOMAIN e.req.questions
    BY <1>3, <2>1 DEF out, Asked
  <2>3. ASSUME NEW n \in DOMAIN e.out
        PROVE  /\ ProperValue(e, n)
               /\ e.out[n].source = "decide" => LaneIsSound(e) /\ IsSure(e, n)
    <3>1. CASE n \in d.asked
      <4>1. e.out[n] = [value |-> values[n], source |-> "fallback"]
        BY <2>1, <2>3, <3>1 DEF out
      <4>2. e.req.questions[n].type = "noul" => values[n] \in {"true", "false"}
        BY <1>4, <2>1, <3>1 DEF ValidFallback
      <4> QED  BY <4>1, <4>2 DEF ProperValue
    <3>2. CASE n \notin d.asked
      <4>1. n \in DOMAIN d.out /\ e.out[n] = d.out[n]
        BY <2>1, <2>3, <3>2 DEF out
      <4>2. ProperValue(e, n)
        BY <1>3, <2>1, <4>1 DEF ProperValue
      <4>3. e.out[n].source = "decide" => LaneIsSound(d) /\ IsSure(d, n)
        BY <1>3, <4>1 DEF Earned
      <4>4. LaneIsSound(d) => LaneIsSound(e)
        BY <2>1 DEF LaneIsSound
      <4>5. IsSure(d, n) => IsSure(e, n)
        BY <2>1, <4>1 DEF IsSure, Threshold
      <4> QED  BY <4>2, <4>3, <4>4, <4>5
    <3> QED  BY <3>1, <3>2
  <2> QED  BY <1>2, <2>1, <2>2, <2>3 DEF CallInv, Earned, EveryQuestionIsAnswered, ProperValue
<1>5. CASE ~ValidFallback(d, values)
  <2> HIDE DEF d
  <2>1. /\ Fields(e) /\ e.pc = "raised" /\ e.out = d.out /\ e.req = d.req /\ e.policy = d.policy
        /\ e.reply = d.reply
    BY <1>3, <1>5 DEF Fields, FieldNames
  <2> HIDE DEF e
  <2>2. Earned(e)
    BY <1>3, <2>1 DEF Earned, LaneIsSound, IsSure, Threshold
  <2> QED  BY <1>2, <2>1, <2>2 DEF CallInv
<1> QED  BY <1>4, <1>5

\* Before a reply nothing is answered, and the fallback is then asked for everything.
LEMMA RaisedKeeps ==
    ASSUME NEW d, CallInv(d), d.out = <<>>, NEW error
    PROVE  CallInv(Raised(d, error))
<1> DEFINE e == Raised(d, error)
<1>1. /\ Fields(e) /\ e.pc = "fallback" /\ e.asked = Asked(d) /\ e.out = <<>> /\ e.req = d.req
  BY DEF CallInv, Fields, FieldNames, Raised
<1> HIDE DEF e
<1>2. DOMAIN e.out = {} /\ Asked(e) = Asked(d)
  BY <1>1 DEF Asked
<1>3. CallInv(e)
  BY <1>1, <1>2 DEF CallInv, Earned
<1> QED  BY <1>3 DEF e

\* A step keeps the invariant of the calls.
LEMMA AnswerInvStep ==
    ASSUME AnswerInv, PartsInv, PartsInv', [DecideNext]_decideVars
    PROVE  AnswerInv'
\* Whatever a call is left at, the others go on as they were.
<1>1. ASSUME NEW t \in Threads, NEW e, decision' = [decision EXCEPT ![t] = e], CallInv(e)
      PROVE  AnswerInv'
  <2>1. decision' = [u \in Threads |-> IF u = t THEN e ELSE decision[u]]
    BY <1>1 DEF AnswerInv
  <2> QED  BY <1>1, <2>1 DEF AnswerInv
<1>2. ASSUME NEW t \in Threads, NEW error, decision' = [decision EXCEPT ![t] = Raised(@, error)],
             decision[t].pc \in {"sent", "told"}
      PROVE  AnswerInv'
  <2>1. CallInv(decision[t]) /\ decision[t].out = <<>>
    BY <1>2 DEF AnswerInv, CallInv
  <2> DEFINE e == Raised(decision[t], error)
  <2>2. CallInv(e)
    BY <2>1, RaisedKeeps
  <2>3. decision' = [decision EXCEPT ![t] = e]
    BY <1>2
  <2> HIDE DEF e
  <2> QED  BY <1>1, <2>2, <2>3
<1>3. ASSUME NEW t \in Threads, NEW req \in Requests, DecideOr(t, req)
      PROVE  AnswerInv'
  <2> DEFINE e == [NotDeciding EXCEPT !.pc = "get", !.req = req]
  <2>1. /\ Fields(e) /\ e.pc = "get" /\ e.out = <<>>
    BY DEF NotDeciding, Fields, FieldNames
  <2>2. decision[t] = NotDeciding /\ decision' = [decision EXCEPT ![t].pc = "get", ![t].req = req]
    BY <1>3 DEF DecideOr
  <2>3. decision' = [decision EXCEPT ![t] = e]
    BY <2>2 DEF AnswerInv
  <2> HIDE DEF e
  <2>4. CallInv(e)
    BY <2>1 DEF CallInv, Earned
  <2> QED  BY <1>1, <2>3, <2>4
<1>4. ASSUME NEW t \in Threads, Resolve(t) PROVE AnswerInv'
  <2> DEFINE d == decision[t]
             raw == policy'.content.raw
             e == [d EXCEPT !.pc = "sent", !.policy = raw]
  <2>1. CallInv(d) /\ d.out = <<>>
    BY <1>4 DEF Resolve, AnswerInv, CallInv
  <2>2. \/ \E error : decision' = [decision EXCEPT ![t] = Raised(d, error)]
        \/ /\ decision' = [decision EXCEPT ![t] = e]
           /\ policy' # None /\ HasLane(raw, d.req) /\ Accepts(raw, d.req)
    BY <1>4 DEF Resolve
  <2>3. ASSUME NEW error, decision' = [decision EXCEPT ![t] = Raised(d, error)]
        PROVE  AnswerInv'
    <3>1. CallInv(Raised(d, error))
      BY <2>1, RaisedKeeps
    <3> HIDE DEF d
    <3> QED  BY <1>1, <2>3, <3>1
  <2>4. CASE /\ decision' = [decision EXCEPT ![t] = e]
             /\ policy' # None /\ HasLane(raw, d.req) /\ Accepts(raw, d.req)
    <3>1. raw \in Raws
      BY <2>4 DEF PartsInv, PolicyInv, PolicyTypes, Content
    <3> HIDE DEF d, raw
    <3>2. /\ Fields(e) /\ e.pc = "sent" /\ e.policy = raw /\ e.out = <<>> /\ e.req = d.req
      BY <2>1 DEF CallInv, Fields, FieldNames
    <3> HIDE DEF e
    <3>3. CallInv(e)
      BY <2>4, <3>1, <3>2 DEF CallInv, Earned
    <3> QED  BY <1>1, <2>4, <3>3
  <2> QED  BY <2>2, <2>3, <2>4
<1>5. ASSUME NEW t \in Threads, NoAnswer(t) \/ MismatchTold(t) PROVE AnswerInv'
  BY <1>2, <1>5 DEF NoAnswer, MismatchTold
<1>6. ASSUME NEW t \in Threads, NEW reply \in Replies, Malformed(t, reply) PROVE AnswerInv'
  BY <1>2, <1>6 DEF Malformed
<1>7. ASSUME NEW t \in Threads, NEW reply \in Replies, Mismatch(t, reply) PROVE AnswerInv'
  <2> DEFINE d == decision[t]
             e == [d EXCEPT !.pc = "told"]
  <2>1. CallInv(d) /\ d.out = <<>> /\ decision' = [decision EXCEPT ![t].pc = "told"]
    BY <1>7 DEF Mismatch, AnswerInv, CallInv
  <2>2. decision' = [decision EXCEPT ![t] = e]
    BY <2>1 DEF AnswerInv
  <2> HIDE DEF d
  <2>3. Fields(e) /\ e.pc = "told" /\ e.out = <<>>
    BY <2>1 DEF CallInv, Fields, FieldNames
  <2> HIDE DEF e
  <2>4. CallInv(e)
    BY <2>3 DEF CallInv, Earned
  <2> QED  BY <1>1, <2>2, <2>4
<1>8. ASSUME NEW t \in Threads, NEW reply \in Replies, Answer(t, reply) PROVE AnswerInv'
  <2>1. CallInv(decision'[t]) /\ \E e : decision' = [decision EXCEPT ![t] = e]
    BY <1>8, AnswerKeeps DEF Answer
  <2> QED  BY <1>1, <2>1 DEF AnswerInv
<1>9. ASSUME NEW t \in Threads, NEW values \in Fallbacks, Fallback(t, values) PROVE AnswerInv'
  <2>1. CallInv(decision'[t]) /\ \E e : decision' = [decision EXCEPT ![t] = e]
    BY <1>9, FallbackKeeps DEF Fallback
  <2> QED  BY <1>1, <2>1 DEF AnswerInv
<1>10. CASE UNCHANGED decision
  BY <1>10 DEF AnswerInv
<1> QED
  BY <1>3, <1>4, <1>5, <1>6, <1>7, <1>8, <1>9, <1>10
     DEF DecideNext, DecideStep, Meanwhile, decideVars

\* decide_or answers every question, with the provider's word only where a sound lane vouches
\* for it.
THEOREM AnswersAreAlwaysEarned == DecideSpec => []AnswersAreEarned
<1>1. DecideInit => AnswerInv
  <2> SUFFICES ASSUME DecideInit PROVE AnswerInv
    OBVIOUS
  <2>1. decision = [t \in Threads |-> NotDeciding]
    BY DEF DecideInit
  <2>2. Fields(NotDeciding) /\ NotDeciding.pc = "idle" /\ NotDeciding.out = <<>>
    BY DEF NotDeciding, Fields, FieldNames
  <2>3. CallInv(NotDeciding)
    BY <2>2 DEF CallInv, Earned
  <2> QED  BY <2>1, <2>3 DEF AnswerInv
<1>2. AnswerInv /\ PartsInv /\ PartsInv' /\ [DecideNext]_decideVars => AnswerInv'
  BY AnswerInvStep
<1>3. AnswerInv => AnswersAreEarned
  BY DEF AnswerInv, CallInv, Earned, AnswersAreEarned
<1> QED  BY <1>1, <1>2, <1>3, PartsInvAlways, PTL DEF DecideSpec

-----------------------------------------------------------------------------
(* What is lost is told.                                                   *)

\* An alert that p is about to tell, since the instant "at".
Telling(p, name, at) ==
    proc[p].pc # "idle" /\ proc[p].line.name = name /\ proc[p].line.at >= at

\* What has been told stays told.
LEMMA ToldStays ==
    ASSUME AlertTypes, [AlertNext]_alertVars, NEW name, NEW at, Told(name, at)
    PROVE  Told(name, at)'
<1>1. CASE UNCHANGED lines /\ lost \subseteq lost'
  BY <1>1 DEF Told
<1>2. ASSUME NEW p \in Procs, proc[p].pc = "append", lines' = Append(lines, proc[p].line),
             lost \subseteq lost'
      PROVE  Told(name, at)'
  <2>1. lines \in Seq(Line) /\ proc[p].line \in Line
    BY <1>2, AlertFacts DEF AlertTypes
  <2>2. \A i \in DOMAIN lines : i \in DOMAIN lines' /\ lines'[i] = lines[i]
    BY <1>2, <2>1
  <2> QED  BY <1>2, <2>2 DEF Told
<1> QED
  BY <1>1, <1>2
     DEF AlertNext, alertVars, Call, EmitStep, Duplicate, New, Remember, Write, Abort, Tick

\* What is about to be told is told, or stays so: where it is a duplicate, its line is
\* in the file, since nobody has the lock.
LEMMA TellingStays ==
    ASSUME AlertTypes, SilenceIsEarned, [AlertNext]_alertVars,
           NEW p \in Procs, NEW name \in Names, NEW at \in Int, Telling(p, name, at)
    PROVE  (Told(name, at) \/ Telling(p, name, at))'
<1>0. /\ proc[p] \in Emitting /\ proc[p].line \in Line /\ proc[p].line.at \in Int
      /\ proc[p].line.name \notin Daily /\ Window \in Nat \ {0} /\ NotEmitting.pc = "idle"
  BY AlertFacts, AlertAssumption DEF Telling
<1>1. proc[p] # NotEmitting
  BY <1>0 DEF Emitting
<1>2. proc \in [Procs -> {NotEmitting} \cup Emitting]
  BY DEF AlertTypes
<1>3. CASE proc'[p].pc # "idle" /\ proc'[p].line = proc[p].line
  BY <1>3 DEF Telling
<1>4. CASE proc' = proc
  BY <1>3, <1>4 DEF Telling
<1>5. ASSUME NEW q \in Procs, NEW n \in Names \cup Daily, Call(q, n)
      PROVE  (Told(name, at) \/ Telling(p, name, at))'
  <2>1. q # p /\ proc'[p] = proc[p]
    BY <1>1, <1>2, <1>5 DEF Call
  <2> QED  BY <1>3, <2>1 DEF Telling
<1>6. ASSUME NEW q \in Procs, q # p, EmitStep(q) \/ Abort(q)
      PROVE  (Told(name, at) \/ Telling(p, name, at))'
  <2>1. proc'[p] = proc[p]
    BY <1>2, <1>6 DEF EmitStep, Duplicate, New, Remember, Write, Abort
  <2> QED  BY <1>3, <2>1 DEF Telling
<1>7. CASE Duplicate(p)
  <2>1. Sent(proc[p].line) /\ alertLock = NoProc /\ lines' = lines /\ lost' = lost
    BY <1>7 DEF Duplicate
  <2>2. PICK x \in stamps : x[1] = name /\ proc[p].line.at - x[2] < Window
    BY <1>0, <2>1 DEF Sent, InWindow, Telling
  <2>3. x[2] \in Int /\ x[2] > at - Window
    BY <1>0, <2>2, AlertFacts DEF Telling
  <2>4. \A q \in Procs : proc[q].pc # "append"
    BY <2>1, AlertFacts DEF AlertTypes
  <2>5. \/ name \in lost
        \/ \E i \in DOMAIN lines : lines[i].name = name /\ lines[i].at = x[2]
    BY <2>2, <2>4 DEF SilenceIsEarned
  <2> QED  BY <2>1, <2>3, <2>5 DEF Told
<1>8. CASE New(p) \/ Remember(p)
  <2>1. \E pc \in {"write", "append"} : proc' = [proc EXCEPT ![p].pc = pc]
    BY <1>8 DEF New, Remember
  <2>2. proc'[p].pc # "idle" /\ proc'[p].line = proc[p].line
    BY <1>0, <1>2, <2>1 DEF Emitting
  <2> QED  BY <1>3, <2>2
<1>9. CASE Write(p)
  <2>1. lines' = Append(lines, proc[p].line) /\ lines \in Seq(Line)
    BY <1>9 DEF Write, AlertTypes
  <2>2. Len(lines) + 1 \in DOMAIN lines' /\ lines'[Len(lines) + 1] = proc[p].line
    BY <1>0, <2>1
  <2>3. proc[p].line.name = name /\ proc[p].line.at > at - Window
    BY <1>0 DEF Telling
  <2> QED  BY <2>2, <2>3 DEF Told
<1>10. CASE Abort(p)
  BY <1>10 DEF Abort, Told, Telling
<1>11. CASE Tick \/ UNCHANGED alertVars
  BY <1>4, <1>11 DEF Tick, alertVars
<1> QED
  BY <1>5, <1>6, <1>7, <1>8, <1>9, <1>10, <1>11 DEF AlertNext, EmitStep

\* An alert that is called for now is about to be told.
LEMMA CallTells ==
    ASSUME AlertTypes, NEW p \in Procs, NEW name, NEW at \in Int, at <= now, Call(p, name)
    PROVE  Telling(p, name, at)'
<1>1. proc' = [proc EXCEPT ![p] = [pc |-> "wait",
                                   line |-> [name |-> name, at |-> now, day |-> DayOf[now]]]]
  BY DEF Call
<1>2. now \in Int /\ proc \in [Procs -> {NotEmitting} \cup Emitting]
  BY AlertFacts DEF AlertTypes
<1> QED  BY <1>1, <1>2 DEF Telling

-----------------------------------------------------------------------------
\* What thread t has read of the file, and the lanes of it whose loss it has looked at.
RawOf(t) == thread[t].handle.content.raw
Behind(t) == Skipped(RawOf(t)) \ thread[t].todo

InLanes(t) == thread[t].pc = "lanes" \/ (thread[t].pc = "emit" /\ thread[t].then = "lanes")

\* The alert that t is at is told, or about to be; those of the lanes it has been through
\* were passed over or told.
ThreadTells(t) ==
    /\ thread[t].pc = "emit" =>
          /\ thread[t].alert \in Names
          /\ thread[t].then # "lanes" => thread[t].alert = PolicyInvalid
          /\ Told(thread[t].alert, load.at) \/ Telling(t, thread[t].alert, load.at)
    /\ InLanes(t) => \A l \in Behind(t) :
          \/ LaneSkipped(RawOf(t), l) \in load.passed
          \/ Told(LaneSkipped(RawOf(t), l), load.at)
          \/ thread[t].pc = "emit" /\ LaneSkipped(RawOf(t), l) = thread[t].alert

LoadOK == load = [at |-> load.at, passed |-> load.passed] /\ load.at \in Int /\ load.at <= now

LossInv == LoadOK /\ \A t \in Threads : ThreadTells(t)

\* A thread whose call goes on as it was, beside a step of the alerts.
LEMMA ThreadStays ==
    ASSUME PartsInv, LoadOK, [AlertNext]_alertVars, load' = load,
           NEW t \in Threads, ThreadTells(t),
           \A f \in {"pc", "alert", "then", "todo"} : thread'[t][f] = thread[t][f],
           InLanes(t) => RawOf(t)' = RawOf(t)
    PROVE  ThreadTells(t)'
<1>0. AlertTypes /\ SilenceIsEarned /\ t \in Procs
  BY ScenarioFacts DEF PartsInv, AlertInv
<1>1. PICK at, passed : at = load.at /\ passed = load.passed
  OBVIOUS
<1>2. PICK alert : alert = thread[t].alert
  OBVIOUS
<1>3. /\ at \in Int /\ load'.at = at /\ load'.passed = passed /\ thread'[t].alert = alert
      /\ thread'[t].pc = thread[t].pc /\ thread'[t].then = thread[t].then
      /\ thread'[t].todo = thread[t].todo
  BY <1>1, <1>2 DEF LoadOK
<1>4. ASSUME thread[t].pc = "emit"
      PROVE  Told(alert, at)' \/ Telling(t, alert, at)'
  <2>1. alert \in Names /\ (Told(alert, at) \/ Telling(t, alert, at))
    BY <1>1, <1>2, <1>4 DEF ThreadTells
  <2> QED  BY <1>0, <1>3, <2>1, ToldStays, TellingStays
<1>5. ASSUME InLanes(t), NEW l \in Behind(t)'
      PROVE  \/ (LaneSkipped(RawOf(t), l) \in load.passed)'
             \/ Told(LaneSkipped(RawOf(t), l), load.at)'
             \/ (thread[t].pc = "emit" /\ LaneSkipped(RawOf(t), l) = thread[t].alert)'
  <2>1. PICK raw : raw = RawOf(t)
    OBVIOUS
  <2>2. RawOf(t)' = raw /\ l \in Behind(t)
    BY <1>3, <1>5, <2>1 DEF Behind
  <2>3. PICK name : name = LaneSkipped(raw, l)
    OBVIOUS
  <2>4. name \in passed \/ Told(name, at) \/ (thread[t].pc = "emit" /\ name = alert)
    BY <1>1, <1>2, <1>5, <2>1, <2>2, <2>3 DEF ThreadTells
  <2>5. Told(name, at) => Told(name, at)'
    BY <1>0, ToldStays
  <2>6. LaneSkipped(RawOf(t), l)' = name
    BY <2>2, <2>3
  <2> QED  BY <1>3, <2>4, <2>5, <2>6 DEF Told
<1>6. InLanes(t)' => InLanes(t)
  BY <1>3 DEF InLanes
<1> QED  BY <1>2, <1>3, <1>4, <1>5, <1>6 DEF ThreadTells, Telling, Told

\* A step of get() by t, which leaves it at r: the others are in no call.
LEMMA GetLeaves ==
    ASSUME PartsInv, NEW t \in Threads, thread[t].pc # "idle", NEW r \in Thread,
           thread' = [thread EXCEPT ![t] = r], ThreadTells(t)'
    PROVE  \A q \in Threads : ThreadTells(q)'
<1> SUFFICES ASSUME NEW q \in Threads, q # t PROVE ThreadTells(q)'
  OBVIOUS
<1>1. thread[q].pc = "idle" /\ thread \in [Threads -> Thread]
  BY OneInGet DEF PartsInv, PolicyInv, PolicyTypes
<1>2. thread'[q].pc = "idle"
  BY <1>1
<1> QED  BY <1>2 DEF ThreadTells, InLanes

\* A load that fails calls for its alert.
LEMMA FailTells ==
    ASSUME PartsInv, NEW t \in Threads, thread[t].pc # "idle", Fail(t), Emits(t),
           LoadOK', load'.at <= now
    PROVE  \A q \in Threads : ThreadTells(q)'
<1> DEFINE r == [Idle EXCEPT !.pc = "emit", !.alert = PolicyInvalid, !.then = "idle"]
<1>0. AlertTypes /\ t \in Procs /\ PolicyInvalid \in Names /\ Idle \in Thread
      /\ thread \in [Threads -> Thread]
  BY ScenarioFacts, PolicyFacts DEF PartsInv, AlertInv, PolicyInv, PolicyTypes
<1>1. r \in Thread /\ r.pc = "emit" /\ r.alert = PolicyInvalid /\ r.then = "idle"
  BY <1>0 DEF Thread, Alerts
<1>2. thread' = [thread EXCEPT ![t] = r]
  BY DEF Fail
<1> HIDE DEF r
<1>3. /\ thread'[t].pc = "emit" /\ thread'[t].alert = PolicyInvalid
      /\ thread'[t].then = "idle"
  BY <1>0, <1>1, <1>2
<1>4. PICK at \in Int : at = load'.at
  BY DEF LoadOK
<1>5. PICK name : name = PolicyInvalid
  OBVIOUS
<1>6. Call(t, name)
  BY <1>3, <1>5 DEF Emits
<1>7. Telling(t, name, at)'
  BY <1>0, <1>4, <1>6, CallTells
<1>8. ThreadTells(t)'
  BY <1>0, <1>3, <1>4, <1>5, <1>7 DEF ThreadTells, InLanes, Telling, PolicyInvalid
<1> QED  BY <1>1, <1>2, <1>8, GetLeaves

\* A lane that is skipped is told, or its alert is passed over.
LEMMA SkipTells ==
    ASSUME PartsInv, LossInv, NEW t \in Threads, Skips(t), [AlertNext]_alertVars
    PROVE  LossInv'
<1> DEFINE h == thread[t].handle
           raw == h.content.raw
<1>0. /\ AlertTypes /\ SilenceIsEarned /\ t \in Procs /\ thread \in [Threads -> Thread]
      /\ thread[t] \in Thread /\ thread[t].pc = "lanes" /\ SkipLane(t) /\ Emits(t) /\ raw \in Raws
  BY ScenarioFacts, PolicyFacts
     DEF PartsInv, AlertInv, PolicyInv, PolicyTypes, Skips, SkipLane
<1>1. raw.whole /\ thread[t].todo \subseteq Skipped(raw)
  BY <1>0 DEF PartsInv, PolicyInv, Loading
<1>2. PICK l \in thread[t].todo :
          LET first == thread[t].todo = Skipped(raw)
              beside == IF first THEN file.present /\ file.content.raw = raw
                        ELSE thread[t].beside
          IN thread' = [thread EXCEPT ![t].todo = @ \ {l}, ![t].beside = beside,
                           ![t].pc = IF beside THEN "emit" ELSE @,
                           ![t].alert = IF beside THEN LaneSkipped(raw, l) ELSE @,
                           ![t].then = IF beside THEN "lanes" ELSE @]
  BY <1>0 DEF SkipLane
<1>3. PICK name, at, passed, x :
          name = LaneSkipped(raw, l) /\ at = load.at /\ passed = load.passed /\ x = raw
  OBVIOUS
<1>4. name \in Names /\ at \in Int /\ at <= now
  BY <1>0, <1>1, <1>3, EmitterAssumption DEF LossInv, LoadOK
<1> DEFINE r == thread'[t]
<1>5. /\ r \in Thread /\ thread' = [thread EXCEPT ![t] = r]
      /\ r.handle = h /\ r.todo = thread[t].todo \ {l}
      /\ \/ r.pc = "emit" /\ r.then = "lanes" /\ r.alert = name
         \/ r.pc = "lanes"
  <2>1. \A f \in {"handle"} : thread'[t][f] = thread[t][f]
    BY <1>0, <1>2 DEF Thread
  <2>2. thread'[t].todo = thread[t].todo \ {l}
    BY <1>0, <1>2 DEF Thread
  <2>3. \/ thread'[t].pc = "emit" /\ thread'[t].then = "lanes" /\ thread'[t].alert = name
        \/ thread'[t].pc = "lanes"
    BY <1>0, <1>2, <1>3 DEF Thread
  <2>4. thread' \in [Threads -> Thread] /\ thread' = [thread EXCEPT ![t] = thread'[t]]
    <3>1. PolicyTypes'
      BY <1>0, PolicyInvStep DEF PartsInv, PolicyNext, PolicyInv
    <3> QED  BY <1>0, <1>2, <3>1 DEF PolicyTypes
  <2> QED  BY <2>1, <2>2, <2>3, <2>4
<1>6. RawOf(t)' = x /\ RawOf(t) = x
  BY <1>3, <1>5 DEF RawOf
<1>7. ASSUME NEW m \in Skipped(x) \ thread[t].todo
      PROVE  LaneSkipped(x, m) \in passed \/ Told(LaneSkipped(x, m), at)
  BY <1>0, <1>3, <1>6, <1>7 DEF LossInv, ThreadTells, InLanes, Behind
<1>8. now' = now
  BY <1>0 DEF Emits, Call, alertVars
<1>9. CASE r.pc = "emit"
  <2>1. load' = load /\ Call(t, name)
    BY <1>0, <1>5, <1>9 DEF Skips, Emits
  <2>2. Telling(t, name, at)'
    BY <1>0, <1>4, <2>1, CallTells
  <2>3. ASSUME NEW m \in Behind(t)'
        PROVE  \/ (LaneSkipped(RawOf(t), m) \in load.passed)'
               \/ Told(LaneSkipped(RawOf(t), m), load.at)'
               \/ (thread[t].pc = "emit" /\ LaneSkipped(RawOf(t), m) = thread[t].alert)'
    <3>1. PICK other : other = LaneSkipped(x, m)
      OBVIOUS
    <3>2. LaneSkipped(RawOf(t), m)' = other /\ thread'[t].alert = name /\ thread'[t].pc = "emit"
      BY <1>5, <1>6, <1>9, <3>1
    <3>3. m = l \/ m \in Skipped(x) \ thread[t].todo
      BY <1>5, <1>6, <2>3 DEF Behind
    <3>4. m = l => other = name
      BY <1>3, <3>1
    <3>5. Told(other, at) => Told(other, at)'
      BY <1>0, ToldStays
    <3> QED  BY <1>3, <1>7, <2>1, <3>1, <3>2, <3>3, <3>4, <3>5 DEF Told
  <2>4. ThreadTells(t)'
    BY <1>3, <1>4, <1>5, <1>9, <2>1, <2>2, <2>3 DEF ThreadTells, Telling, Told
  <2>5. LoadOK'
    BY <1>8, <2>1 DEF LossInv, LoadOK
  <2> QED  BY <1>0, <1>5, <2>4, <2>5, GetLeaves DEF LossInv
<1>10. CASE r.pc = "lanes"
  <2>1. load' = [load EXCEPT !.passed = @ \cup
                    {LaneSkipped(raw, k) : k \in thread[t].todo \ thread'[t].todo}]
    BY <1>10 DEF Skips
  <2>2. load' = [at |-> at, passed |-> passed \cup
                    {LaneSkipped(raw, k) : k \in thread[t].todo \ thread'[t].todo}]
    <3>1. load = [at |-> at, passed |-> passed]
      BY <1>3 DEF LossInv, LoadOK
    <3> QED  BY <2>1, <3>1
  <2>3. load'.at = at /\ passed \subseteq load'.passed /\ name \in load'.passed
    BY <1>3, <1>5, <2>2
  <2>4. ASSUME NEW m \in Behind(t)'
        PROVE  \/ (LaneSkipped(RawOf(t), m) \in load.passed)'
               \/ Told(LaneSkipped(RawOf(t), m), load.at)'
    <3>1. PICK other : other = LaneSkipped(x, m)
      OBVIOUS
    <3>2. LaneSkipped(RawOf(t), m)' = other
      BY <1>6, <3>1
    <3>3. m = l \/ m \in Skipped(x) \ thread[t].todo
      BY <1>5, <1>6, <2>4 DEF Behind
    <3>4. m = l => other = name
      BY <1>3, <3>1
    <3>5. Told(other, at) => Told(other, at)'
      BY <1>0, ToldStays
    <3> QED  BY <1>7, <2>3, <3>1, <3>2, <3>3, <3>4, <3>5 DEF Told
  <2>5. ThreadTells(t)'
    BY <1>5, <1>10, <2>4 DEF ThreadTells
  <2>6. LoadOK'
    BY <1>4, <1>8, <2>2 DEF LoadOK
  <2> QED  BY <1>0, <1>5, <2>5, <2>6, GetLeaves DEF LossInv
<1> QED  BY <1>5, <1>9, <1>10

\* A step of get() that looks at the file.
LEMMA LooksTells ==
    ASSUME PartsInv, LossInv, NEW t \in Threads, Looks(t)
    PROVE  LossInv'
<1>0. /\ AlertTypes /\ now \in Int /\ thread \in [Threads -> Thread] /\ thread[t] \in Thread
      /\ thread[t].pc = "check" /\ Emits(t) /\ file.content \in Content /\ file.stat \in Writes
  BY AlertFacts, PolicyFacts
     DEF PartsInv, AlertInv, PolicyInv, PolicyTypes, Looks, CannotOpen, Open, MustLook
<1>1. now' = now
  BY <1>0 DEF Emits, Call, alertVars
<1>2. load' = [at |-> now, passed |-> {}]
  BY DEF Looks, NoLoad
<1>3. LoadOK' /\ load'.at <= now
  BY <1>0, <1>1, <1>2 DEF LoadOK
<1>4. CASE CannotOpen(t)
  BY <1>0, <1>3, <1>4, FailTells DEF CannotOpen, LossInv
<1>5. CASE Open(t)
  <2> DEFINE h == [content |-> file.content, stat |-> file.stat, live |-> TRUE]
             r == [thread[t] EXCEPT !.pc = "read", !.handle = h]
  <2>1. h \in Handles
    BY <1>0 DEF Handles
  <2>2. thread' = [thread EXCEPT ![t] = r]
    BY <1>0, <1>5 DEF Open
  <2> HIDE DEF h
  <2>3. r \in Thread /\ r.pc = "read"
    BY <1>0, <2>1 DEF Thread
  <2> HIDE DEF r
  <2>4. thread'[t].pc = "read"
    BY <1>0, <2>2, <2>3
  <2>5. ThreadTells(t)'
    BY <2>4 DEF ThreadTells, InLanes
  <2> QED  BY <1>0, <1>3, <2>2, <2>3, <2>5, GetLeaves DEF LossInv
<1> QED  BY <1>4, <1>5 DEF Looks

\* A step of get() that goes on with what it has, or returns.
LEMMA GetsTells ==
    ASSUME PartsInv, LossInv, NEW t \in Threads, Gets(t)
    PROVE  LossInv'
<1>0. /\ AlertTypes /\ now \in Int /\ thread \in [Threads -> Thread] /\ thread[t] \in Thread
      /\ thread[t].pc # "idle" /\ Emits(t) /\ Idle \in Thread /\ Idle.pc = "idle"
      /\ thread[t].handle.content.raw \in Raws /\ thread[t].handle \in Handles
  BY AlertFacts, PolicyFacts
     DEF PartsInv, AlertInv, PolicyInv, PolicyTypes, Gets, Recent, Unchanged, MustLook, Read, Adopt
<1>1. now' = now /\ 0 <= now
  BY <1>0, AlertAssumption DEF Emits, Call, alertVars, AlertTypes, Times
<1>2. load' = NoLoad \/ load' = load
  BY DEF Gets
<1>3. LoadOK' /\ load'.at <= now
  BY <1>0, <1>1, <1>2 DEF LossInv, LoadOK, NoLoad
<1>4. CASE Return(t)
  <2>1. thread' = [thread EXCEPT ![t] = Idle] /\ thread'[t].pc = "idle"
    BY <1>0, <1>4 DEF Return
  <2>2. ThreadTells(t)'
    BY <2>1 DEF ThreadTells, InLanes
  <2> QED  BY <1>0, <1>3, <2>1, <2>2, GetLeaves DEF LossInv
<1>5. CASE Fail(t)
  BY <1>0, <1>3, <1>5, FailTells DEF LossInv
<1>6. CASE Read(t) /\ ~Fail(t)
  <2> DEFINE raw == thread[t].handle.content.raw
             g == [thread[t].handle EXCEPT !.live = FALSE]
             r == [thread[t] EXCEPT !.pc = "lanes", !.todo = Skipped(raw), !.handle = g]
  <2>1. /\ thread' = [thread EXCEPT ![t].pc = "lanes", ![t].todo = Skipped(raw),
                         ![t].handle.live = FALSE]
    BY <1>6 DEF Read
  <2>2. thread' = [thread EXCEPT ![t] = r]
    BY <1>0, <2>1 DEF Thread
  <2>3. g \in Handles /\ g.content = thread[t].handle.content
    BY <1>0 DEF Handles
  <2>4. Skipped(raw) \in SUBSET SkippedLanes
    BY <1>0 DEF SkippedLanes
  <2> HIDE DEF g
  <2>5. r \in Thread /\ r.pc = "lanes" /\ r.todo = Skipped(raw) /\ r.handle = g
    BY <1>0, <2>3, <2>4 DEF Thread
  <2> HIDE DEF r
  <2>6. thread'[t] = r
    BY <1>0, <2>2
  <2>7. Behind(t)' = {}
    <3>1. PICK x : x = raw
      OBVIOUS
    <3>2. RawOf(t)' = x /\ thread'[t].todo = Skipped(x)
      BY <2>3, <2>5, <2>6, <3>1 DEF RawOf
    <3> QED  BY <3>2 DEF Behind
  <2>8. ThreadTells(t)'
    BY <2>5, <2>6, <2>7 DEF ThreadTells
  <2> QED  BY <1>0, <1>3, <2>2, <2>5, <2>8, GetLeaves DEF LossInv
<1>7. Return(t) \/ Fail(t) \/ Read(t)
  BY DEF Gets, Recent, Unchanged, Adopt
<1> QED  BY <1>4, <1>5, <1>6, <1>7

\* emit_alert has returned to get(): what was to be told is told.
LEMMA ReturnsTells ==
    ASSUME PartsInv, LossInv, NEW t \in Threads, Returns(t)
    PROVE  LossInv' /\ Told(thread[t].alert, load.at)
<1>0. /\ AlertTypes /\ now \in Int /\ thread \in [Threads -> Thread] /\ thread[t] \in Thread
      /\ thread[t].pc = "emit" /\ Idle \in Thread /\ Idle.pc = "idle" /\ NotEmitting.pc = "idle"
  BY AlertFacts, PolicyFacts
     DEF PartsInv, AlertInv, PolicyInv, PolicyTypes, Returns, Emitted
<1>1. now' = now /\ lines' = lines /\ lost' = lost /\ 0 <= now
  BY <1>0, AlertAssumption DEF Returns, alertVars, AlertTypes, Times
<1>2. Told(thread[t].alert, load.at)
  BY <1>0 DEF Returns, LossInv, ThreadTells, Telling
<1>3. load' = NoLoad \/ load' = load
  BY DEF Returns
<1>4. LoadOK'
  BY <1>0, <1>1, <1>3 DEF LossInv, LoadOK, NoLoad
<1>5. CASE thread[t].then # "lanes"
  <2>1. thread' = [thread EXCEPT ![t] = Idle] /\ thread'[t].pc = "idle"
    BY <1>0, <1>5 DEF Returns, Emitted, Return
  <2>2. ThreadTells(t)'
    BY <2>1 DEF ThreadTells, InLanes
  <2> QED  BY <1>0, <1>2, <1>4, <2>1, <2>2, GetLeaves DEF LossInv
<1>6. CASE thread[t].then = "lanes"
  <2> DEFINE r == [thread[t] EXCEPT !.pc = "lanes", !.alert = "", !.then = ""]
  <2>1. "" \in Alerts
    BY DEF Alerts
  <2>2. r \in Thread /\ r.pc = "lanes" /\ r.handle = thread[t].handle /\ r.todo = thread[t].todo
    BY <1>0, <2>1 DEF Thread
  <2>3. thread' = [thread EXCEPT ![t] = r]
    BY <1>0, <1>6 DEF Returns, Emitted
  <2> HIDE DEF r
  <2>4. thread'[t] = r /\ load' = load
    BY <1>0, <2>2, <2>3 DEF Returns
  <2>5. PICK raw, at, passed : raw = RawOf(t) /\ at = load.at /\ passed = load.passed
    OBVIOUS
  <2>6. RawOf(t)' = raw /\ Behind(t)' = Skipped(raw) \ thread[t].todo
    BY <2>2, <2>4, <2>5 DEF RawOf, Behind
  <2>7. ASSUME NEW l \in Behind(t)'
        PROVE  \/ (LaneSkipped(RawOf(t), l) \in load.passed)'
               \/ Told(LaneSkipped(RawOf(t), l), load.at)'
    <3>1. PICK name : name = LaneSkipped(raw, l)
      OBVIOUS
    <3>2. name \in passed \/ Told(name, at)
      BY <1>0, <1>2, <1>6, <2>5, <2>6, <3>1 DEF LossInv, ThreadTells, InLanes, Behind
    <3>3. LaneSkipped(RawOf(t), l)' = name
      BY <2>6, <3>1
    <3> QED  BY <1>1, <2>4, <2>5, <3>2, <3>3 DEF Told
  <2>8. ThreadTells(t)'
    BY <2>2, <2>4, <2>7 DEF ThreadTells
  <2> QED  BY <1>0, <1>2, <1>4, <2>2, <2>3, <2>8, GetLeaves DEF LossInv
<1> QED  BY <1>5, <1>6

\* Every call of get() stays as it is, or begins.
Elsewhere ==
    \A t \in Threads :
       \/ thread'[t].pc = "check"
       \/ /\ \A f \in {"pc", "alert", "then", "todo"} : thread'[t][f] = thread[t][f]
          /\ InLanes(t) => RawOf(t)' = RawOf(t)

\* A step outside of get() keeps the invariant.
LEMMA ElseTells ==
    ASSUME PartsInv, LossInv, [AlertNext]_alertVars, load' = load, Elsewhere
    PROVE  LossInv'
<1>0. AlertTypes /\ AlertTypes' /\ now \in Int
  BY AlertTypesStep, AlertFacts DEF PartsInv, AlertInv
<1>1. now' \in Int /\ now <= now'
  <2>1. now' \in Int
    BY <1>0, AlertAssumption DEF AlertTypes, Times
  <2>2. now' = now \/ now' = now + 1
    BY DEF AlertNext, alertVars, Call, EmitStep, Duplicate, New, Remember, Write, Abort, Tick
  <2> QED  BY <1>0, <2>1, <2>2
<1>2. LoadOK'
  BY <1>0, <1>1 DEF LossInv, LoadOK
<1>3. ASSUME NEW t \in Threads PROVE ThreadTells(t)'
  <2>1. CASE thread'[t].pc = "check"
    BY <2>1 DEF ThreadTells, InLanes
  <2>2. CASE /\ \A f \in {"pc", "alert", "then", "todo"} : thread'[t][f] = thread[t][f]
             /\ InLanes(t) => RawOf(t)' = RawOf(t)
    BY <2>2, ThreadStays DEF LossInv
  <2> QED  BY <2>1, <2>2 DEF Elsewhere
<1> QED  BY <1>2, <1>3 DEF LossInv

\* So is every step, or it is one of get().
LEMMA StepTells ==
    ASSUME PartsInv, [DecideNext]_decideVars
    PROVE  (\E t \in Threads : GetStep(t)) \/ (load' = load /\ Elsewhere)
<1>0. thread \in [Threads -> Thread] /\ \A t \in Threads : thread[t] \in Thread
      /\ thread[t].handle \in Handles
  BY PolicyFacts DEF PartsInv, PolicyInv, PolicyTypes
<1>1. CASE thread' = thread /\ load' = load
  BY <1>1 DEF Elsewhere, RawOf
<1>2. ASSUME NEW t \in Threads, Get(t), load' = load PROVE load' = load /\ Elsewhere
  <2>1. thread' = [thread EXCEPT ![t].pc = "check"]
    BY <1>2 DEF Get
  <2>2. thread'[t].pc = "check" /\ \A q \in Threads \ {t} : thread'[q] = thread[q]
    BY <1>0, <2>1 DEF Thread
  <2>3. \A q \in Threads \ {t} : RawOf(q)' = RawOf(q)
    BY <2>2 DEF RawOf
  <2> QED  BY <1>2, <2>2, <2>3 DEF Elsewhere
<1>3. ASSUME NEW raw \in Raws, Replace(raw), load' = load PROVE load' = load /\ Elsewhere
  <2> SUFFICES ASSUME NEW t \in Threads
               PROVE  /\ \A f \in {"pc", "alert", "then", "todo"} : thread'[t][f] = thread[t][f]
                      /\ RawOf(t)' = RawOf(t)
    BY <1>3 DEF Elsewhere
  <2> DEFINE g == [thread[t].handle EXCEPT !.live = FALSE]
  <2>1. thread'[t] = [thread[t] EXCEPT !.handle = g]
    BY <1>0, <1>3 DEF Replace, Thread
  <2>2. g.content = thread[t].handle.content
    BY <1>0 DEF Handles
  <2> HIDE DEF g
  <2>3. thread'[t].handle = g
    BY <1>0, <2>1 DEF Thread
  <2>4. \A f \in {"pc", "alert", "then", "todo"} : thread'[t][f] = thread[t][f]
    BY <1>0, <2>1 DEF Thread
  <2> QED  BY <2>2, <2>3, <2>4 DEF RawOf
<1>4. ASSUME NEW raw \in Raws, Edit(raw), load' = load PROVE load' = load /\ Elsewhere
  <2> SUFFICES ASSUME NEW t \in Threads
               PROVE  /\ \A f \in {"pc", "alert", "then", "todo"} : thread'[t][f] = thread[t][f]
                      /\ InLanes(t) => RawOf(t)' = RawOf(t)
    BY <1>4 DEF Elsewhere
  <2>1. thread'[t] = IF thread[t].handle.live
                     THEN [thread[t] EXCEPT !.handle.content = NewContent(raw)]
                     ELSE thread[t]
    BY <1>4 DEF Edit
  <2>2. \A f \in {"pc", "alert", "then", "todo"} : thread'[t][f] = thread[t][f]
    BY <1>0, <2>1 DEF Thread
  <2>3. InLanes(t) => ~thread[t].handle.live
    BY DEF InLanes, PartsInv, PolicyInv, Loading
  <2>4. InLanes(t) => thread'[t] = thread[t]
    BY <2>1, <2>3
  <2> QED  BY <2>2, <2>4 DEF RawOf
<1>5. CASE Next
  <2>1. CASE \E t \in Threads : Enters(t)
    BY <1>2, <2>1 DEF Enters
  <2>2. CASE Written
    <3>1. scenario.raws \subseteq Raws /\ load' = load
      BY <2>2, ScenarioFacts DEF Written
    <3> QED  BY <1>1, <1>3, <1>4, <2>2, <3>1 DEF Written, Vanish, ComeBack
  <2> QED
    BY <1>1, <1>5, <2>1, <2>2
       DEF Next, Emit, Raise, OtherEmits, Passes, Elapse, Ticks, policyVars
<1>6. ASSUME NEW t \in Threads, DecideStep(t) PROVE thread' = thread /\ load' = load
  BY <1>6 DEF DecideStep, NoAnswer, MismatchTold, Malformed, Mismatch, Answer, Fallback, vars,
              policyVars
<1>7. CASE UNCHANGED decideVars
  BY <1>1, <1>7 DEF decideVars, vars, policyVars
<1> QED
  BY <1>1, <1>2, <1>5, <1>6, <1>7 DEF DecideNext, Meanwhile, Resolve, DecideOr

\* The invariant is kept.
LEMMA LossInvStep ==
    ASSUME PartsInv, LossInv, [DecideNext]_decideVars
    PROVE  LossInv'
<1>1. [AlertNext]_alertVars
  BY StepIsOfParts
<1>2. ASSUME NEW t \in Threads, GetStep(t) PROVE LossInv'
  BY <1>1, <1>2, LooksTells, SkipTells, GetsTells, ReturnsTells DEF GetStep
<1>3. ASSUME load' = load, Elsewhere PROVE LossInv'
  BY <1>1, <1>3, ElseTells
<1> QED  BY <1>2, <1>3, StepTells

\* These steps do not return.
LEMMA GetGoesOn ==
    ASSUME PartsInv, NEW t \in Threads,
           Fail(t) \/ SkipLane(t) \/ (Emitted(t) /\ thread[t].then = "lanes")
    PROVE  thread'[t].pc # "idle"
<1>0. thread \in [Threads -> Thread] /\ thread[t] \in Thread /\ Idle \in Thread
  BY PolicyFacts DEF PartsInv, PolicyInv, PolicyTypes
<1>1. CASE Fail(t)
  <2> DEFINE r == [Idle EXCEPT !.pc = "emit", !.alert = PolicyInvalid, !.then = "idle"]
  <2>1. r.pc = "emit"
    BY <1>0 DEF Thread
  <2>2. thread' = [thread EXCEPT ![t] = r]
    BY <1>1 DEF Fail
  <2> HIDE DEF r
  <2> QED  BY <1>0, <2>1, <2>2
<1>2. CASE SkipLane(t)
  <2> DEFINE raw == thread[t].handle.content.raw
  <2>1. PICK l \in thread[t].todo :
            LET first == thread[t].todo = Skipped(raw)
                beside == IF first THEN file.present /\ file.content.raw = raw
                          ELSE thread[t].beside
            IN thread' = [thread EXCEPT ![t].todo = @ \ {l}, ![t].beside = beside,
                             ![t].pc = IF beside THEN "emit" ELSE @,
                             ![t].alert = IF beside THEN LaneSkipped(raw, l) ELSE @,
                             ![t].then = IF beside THEN "lanes" ELSE @]
    BY <1>2 DEF SkipLane
  <2>2. thread[t].pc = "lanes"
    BY <1>2 DEF SkipLane
  <2>3. thread'[t].pc = "emit" \/ thread'[t].pc = "lanes"
    BY <1>0, <2>1, <2>2 DEF Thread
  <2> QED  BY <2>3
<1>3. CASE Emitted(t) /\ thread[t].then = "lanes"
  <2>1. thread' = [thread EXCEPT ![t].pc = "lanes", ![t].alert = "", ![t].then = ""]
    BY <1>3 DEF Emitted
  <2>2. thread'[t].pc = "lanes"
    BY <1>0, <2>1 DEF Thread
  <2> QED  BY <2>2
<1> QED  BY <1>1, <1>2, <1>3

\* What a call of get() has lost when it returns.
LEMMA EndTells ==
    ASSUME PartsInv, LossInv, [DecideNext]_decideVars, NEW t \in Threads,
           thread[t].pc \in {"lanes", "emit"}, thread'[t] = Idle
    PROVE  IF thread[t].pc = "emit" THEN Told(PolicyInvalid, load.at)
           ELSE LET raw == policy'.content.raw
                IN \A l \in Skipped(raw) :
                      LaneSkipped(raw, l) \in load.passed \/ Told(LaneSkipped(raw, l), load.at)
<1>0. /\ thread \in [Threads -> Thread] /\ thread[t] \in Thread
      /\ Idle \in Thread /\ thread'[t].pc = "idle"
      /\ \A q \in Threads \ {t} : thread[q].pc = "idle"
  BY PolicyFacts, OneInGet DEF PartsInv, PolicyInv, PolicyTypes
<1>1. ~Elsewhere
  BY <1>0 DEF Elsewhere
<1>2. ASSUME NEW q \in Threads, GetStep(q) PROVE q = t
  BY <1>0, <1>2 DEF GetStep, Looks, Skips, Gets, Returns, CannotOpen, Open, SkipLane, Recent,
                    Unchanged, Read, Adopt, Emitted, MustLook
<1>3. GetStep(t)
  BY <1>1, <1>2, StepTells
<1>4. ~Fail(t)
  BY <1>0, GetGoesOn
<1>5. ~Looks(t)
  BY DEF Looks, CannotOpen, Open, MustLook
<1>6. ~Skips(t)
  BY <1>0, GetGoesOn DEF Skips
<1>7. CASE Gets(t)
  <2>1. Adopt(t) /\ thread[t].pc = "lanes" /\ thread[t].todo = {}
    BY <1>7 DEF Gets, Recent, Unchanged, Read, MustLook, Adopt
  <2>2. policy'.content.raw = RawOf(t)
    BY <1>4, <2>1 DEF Adopt, RawOf
  <2>3. \A l \in Skipped(RawOf(t)) :
           LaneSkipped(RawOf(t), l) \in load.passed \/ Told(LaneSkipped(RawOf(t), l), load.at)
    BY <2>1 DEF LossInv, ThreadTells, InLanes, Behind
  <2> QED  BY <2>1, <2>2, <2>3
<1>8. CASE Returns(t)
  <2>1. Emitted(t) /\ thread[t].pc = "emit" /\ Told(thread[t].alert, load.at)
    BY <1>8, ReturnsTells DEF Returns, Emitted
  <2>2. thread[t].then # "lanes"
    BY <1>0, <2>1, GetGoesOn
  <2> QED  BY <2>1, <2>2 DEF LossInv, ThreadTells
<1> QED  BY <1>3, <1>5, <1>6, <1>7, <1>8 DEF GetStep

\* get() does not lose a policy, or a lane of one, in silence: whoever emits alerts to the
\* same file, and whoever is killed meanwhile.
THEOREM LossesAreTold == DecideSpec => LossIsTold
<1>1. DecideInit => LossInv
  <2> SUFFICES ASSUME DecideInit PROVE LossInv
    OBVIOUS
  <2>1. load = [at |-> 0, passed |-> {}] /\ now = 0 /\ \A t \in Threads : thread[t].pc = "idle"
    BY DEF DecideInit, Init, PolicyInit, AlertInit, NoLoad, Idle
  <2>2. LoadOK
    BY <2>1 DEF LoadOK
  <2> QED  BY <2>1, <2>2 DEF LossInv, ThreadTells, InLanes
<1>2. PartsInv /\ LossInv /\ [DecideNext]_decideVars => LossInv'
  BY LossInvStep
<1>3. PartsInv /\ LossInv /\ [DecideNext]_decideVars =>
    [\A t \in Threads : thread[t].pc \in {"lanes", "emit"} /\ thread'[t] = Idle =>
        IF thread[t].pc = "emit" THEN Told(PolicyInvalid, load.at)
        ELSE LET raw == policy'.content.raw
             IN \A l \in Skipped(raw) :
                   LaneSkipped(raw, l) \in load.passed \/ Told(LaneSkipped(raw, l), load.at)]_vars
  BY EndTells
<1> QED  BY <1>1, <1>2, <1>3, PartsInvAlways, PTL DEF DecideSpec, LossIsTold
=============================================================================
