------------------------------ MODULE AppDecide ------------------------------
(***************************************************************************)
(* decide_or (app_decide.py): typed questions, answered by the provider of *)
(* a decision lane where it is sure, and by the caller's fallback for the  *)
(* rest.  The lane comes from the promoted policy, which get() may reload  *)
(* meanwhile (RuntimePolicy); a reply of another model is told through     *)
(* emit_alert (AppAlerts).  The reservation, the dispatch along the chain  *)
(* and the settlement are those of AppDispatch: here they end in a reply   *)
(* or in an error.                                                         *)
(*                                                                         *)
(* Probabilities are in percent; -1 is a value that is none.               *)
(***************************************************************************)
EXTENDS PolicyAlerts, FiniteSetsExt

CONSTANTS
    Requests,       \* the calls of decide_or
    Replies,        \* what the provider may reply
    Fallbacks       \* what the caller's fallback may return

NoReply == [model |-> "", answers |-> <<>>]
NotDeciding == [pc |-> "idle", req |-> <<>>, policy |-> <<>>, reply |-> NoReply, asked |-> {},
                out |-> <<>>, error |-> ""]

VARIABLE decision   \* decision[t]: the call of thread t

decideVars == <<vars, decision>>

DecideInit == Init /\ decision = [t \in Threads |-> NotDeciding]

-----------------------------------------------------------------------------
(* decide() before and after the dispatch. *)

\* _validate_questions.
ValidQuestions(questions, max) ==
    /\ Cardinality(DOMAIN questions) \in 1 .. max
    /\ \A n \in DOMAIN questions :
          /\ questions[n].ok /\ questions[n].type \in {"choice", "noul"}
          /\ questions[n].type = "choice" => Cardinality(questions[n].criteria) \in 2 .. 20

\* The lane is there, and is one for decisions ...
HasLane(raw, req) == req.lane \in Served(raw) /\ raw.lanes[req.lane].kind = "decision"

\* ... and takes the request.
Accepts(raw, req) ==
    LET lane == raw.lanes[req.lane]
    IN /\ req.state_ok
       /\ req.profile \in DOMAIN lane.profiles
       /\ ValidQuestions(req.questions, lane.max_questions)

Probability(p) == p \in 0 .. 100

TotalProbability(answer) ==
    MapThenSumSet(LAMBDA o : answer.probabilities[o], DOMAIN answer.probabilities)

\* An answer of _parse_answers: the question's own type, an option it offers,
\* and probabilities that come to one, more or less.
WellFormed(question, answer) ==
    /\ answer.ok /\ answer.type = question.type
    /\ IF question.type = "noul" THEN Probability(answer.p)
       ELSE LET given == DOMAIN answer.probabilities
            IN /\ answer.choice \in question.criteria /\ given \subseteq question.criteria
               /\ \A o \in given : Probability(answer.probabilities[o])
               /\ TotalProbability(answer) \in 95 .. 105
               /\ Probability(answer.confidence)

Parsed(questions, reply) ==
    /\ DOMAIN reply.answers = DOMAIN questions
    /\ \A n \in DOMAIN questions : WellFormed(questions[n], reply.answers[n])

\* _reply_model_matches: the declared model, or a dated name of it.
ModelMatches(reply) == reply.model \in {"declared", "dated"}

\* Faulty: the probability of the option chosen.
Confidence_OfTheChoice(answer) ==
    IF answer.type = "noul" THEN Max({answer.p, 100 - answer.p})
    ELSE IF answer.choice \in DOMAIN answer.probabilities
         THEN answer.probabilities[answer.choice] ELSE 0

Confidence(answer) ==
    IF answer.type = "noul" THEN Max({answer.p, 100 - answer.p}) ELSE answer.confidence

Value(answer) ==
    IF answer.type = "choice" THEN answer.choice
    ELSE IF answer.p >= 50 THEN "true" ELSE "false"

Threshold(d) == d.policy.lanes[d.req.lane].profiles[d.req.profile]

-----------------------------------------------------------------------------
(* decide_or(). *)

Asked(d) == DOMAIN d.req.questions

\* decide() has raised: the fallback is asked for everything.
Raised(d, error) ==
    [d EXCEPT !.pc = "fallback", !.asked = Asked(d), !.reply = NoReply, !.error = error]

\* decide() begins with get().
DecideOr(t, req) ==
    /\ t \in scenario.deciders /\ decision[t] = NotDeciding
    /\ Get(t)
    /\ decision' = [decision EXCEPT ![t].pc = "get", ![t].req = req]
    /\ UNCHANGED <<alertVars, load, scenario>>

\* get() returns: the call goes on with the policy that is held at that moment.
Resolve(t) ==
    /\ decision[t].pc = "get"
    /\ GetStep(t) /\ thread'[t] = Idle
    /\ LET d == decision[t]
           raw == policy'.content.raw
       IN decision' = [decision EXCEPT ![t] =
              IF policy' = None \/ ~HasLane(raw, d.req) THEN Raised(d, "RouteUnavailable")
              ELSE IF ~Accepts(raw, d.req) THEN Raised(d, "ConfigurationError")
              ELSE [d EXCEPT !.pc = "sent", !.policy = raw]]

\* No backend has answered, the cap is reached, or the accounting has failed.
NoAnswer(t) ==
    /\ decision[t].pc = "sent"
    /\ \E error \in {"RouteUnavailable", "BudgetExhausted"} :
          decision' = [decision EXCEPT ![t] = Raised(@, error)]
    /\ UNCHANGED vars

\* A reply that cannot be used is an error as a whole.
Malformed(t, reply) ==
    /\ decision[t].pc = "sent"
    /\ reply.model = "" \/ ~Parsed(decision[t].req.questions, reply)
    /\ decision' = [decision EXCEPT ![t] = Raised(@, "ProviderFailure")]
    /\ UNCHANGED vars

ModelMismatch == <<"model_mismatch", "reply_model_mismatch">>

\* The thresholds of a lane are validated with it.
ASSUME DecideAssumption ==
    /\ ModelMismatch \in Names
    /\ \A raw \in Raws : \A l \in Served(raw) :
          LET lane == raw.lanes[l]
          IN lane.kind = "decision" => lane.profiles \in [DOMAIN lane.profiles -> 0 .. 100]

\* A reply of another model is told, and is an error.
Mismatch(t, reply) ==
    /\ decision[t].pc = "sent" /\ reply.model # "" /\ Parsed(decision[t].req.questions, reply)
    /\ ~ModelMatches(reply)
    /\ Call(t, ModelMismatch)
    /\ decision' = [decision EXCEPT ![t].pc = "told"]
    /\ UNCHANGED <<policyVars, load, scenario>>

MismatchTold(t) ==
    /\ decision[t].pc = "told" /\ proc[t] = NotEmitting
    /\ decision' = [decision EXCEPT ![t] = Raised(@, "ProviderFailure")]
    /\ UNCHANGED vars

\* The sure answers are kept, and the fallback is asked for the others.
Answer(t, reply) ==
    LET d == decision[t]
        unsure == {n \in Asked(d) : Confidence(reply.answers[n]) < Threshold(d)}
        kept == [n \in Asked(d) \ unsure |->
                    [value |-> Value(reply.answers[n]), source |-> "decide"]]
    IN /\ d.pc = "sent" /\ reply.model # "" /\ Parsed(d.req.questions, reply)
       /\ ModelMatches(reply)
       /\ decision' = [decision EXCEPT ![t] =
              [d EXCEPT !.reply = reply, !.asked = unsure, !.out = kept,
                        !.pc = IF unsure = {} THEN "done" ELSE "fallback"]]
       /\ UNCHANGED vars

\* _fallback_values: every name that was asked for, and booleans for the nouls.
ValidFallback(d, values) ==
    /\ d.asked \subseteq DOMAIN values
    /\ \A n \in d.asked : d.req.questions[n].type = "noul" => values[n] \in {"true", "false"}

\* The fallback answers, or returns what is none.
Fallback(t, values) ==
    LET d == decision[t]
    IN /\ d.pc = "fallback"
       /\ decision' = [decision EXCEPT ![t] =
              IF ValidFallback(d, values)
              THEN [d EXCEPT !.pc = "done",
                      !.out = [n \in DOMAIN d.out \cup d.asked |->
                                  IF n \in d.asked THEN [value |-> values[n], source |-> "fallback"]
                                  ELSE d.out[n]]]
              ELSE [d EXCEPT !.pc = "raised"]]
       /\ UNCHANGED vars

DecideStep(t) ==
    \/ NoAnswer(t) \/ MismatchTold(t)
    \/ \E reply \in Replies : Malformed(t, reply) \/ Mismatch(t, reply) \/ Answer(t, reply)
    \/ \E values \in Fallbacks : Fallback(t, values)

\* The steps of get() before the last, and whatever else happens meanwhile.
Meanwhile ==
    /\ Next
    /\ \A t \in scenario.deciders : thread[t].pc # "idle" => thread'[t] # Idle
    /\ UNCHANGED decision

DecideNext ==
    \/ Meanwhile
    \/ \E t \in Threads :
          \/ Resolve(t) \/ DecideStep(t)
          \/ \E req \in Requests : DecideOr(t, req)

DecideSpec == DecideInit /\ [][DecideNext]_decideVars /\ Fairness

-----------------------------------------------------------------------------
(* Properties. *)

DecideTypeOK ==
    /\ TypeOK
    /\ \A t \in Threads :
          /\ decision[t].pc \in {"idle", "get", "sent", "told", "fallback", "done", "raised"}
          /\ decision[t].pc = "told" => thread[t] = Idle
          /\ decision[t].pc \in {"fallback", "done", "raised"} =>
                decision[t].asked \subseteq DOMAIN decision[t].req.questions

\* Whatever failed on the way, the caller gets an answer to every question and to
\* no other, a boolean to every noul.
EveryQuestionIsAnswered(d) ==
    /\ DOMAIN d.out = DOMAIN d.req.questions
    /\ \A n \in DOMAIN d.out :
          d.req.questions[n].type = "noul" => d.out[n].value \in {"true", "false"}

\* The lane that answers names only backends that its own policy declares, each
\* valid in itself and one for decisions: a bad lane is dropped on the load.
LaneIsSound(d) ==
    LET lane == d.policy.lanes[d.req.lane]
    IN /\ lane.ok /\ lane.chain # <<>>
       /\ \A b \in Chain(lane) :
             /\ b \in DOMAIN d.policy.backends /\ d.policy.backends[b].ok
             /\ d.policy.backends[b].dialect = "typesafe-systemone"

\* An answer of the provider reaches the caller only where the provider is as
\* sure of it as that lane asks for, in a reply of the declared model that is
\* right in all its answers, and as one the question allows.
IsSure(d, n) ==
    LET answer == d.reply.answers[n]
        question == d.req.questions[n]
    IN /\ d.reply.model \in {"declared", "dated"}
       /\ DOMAIN d.reply.answers = DOMAIN d.req.questions
       /\ \A m \in DOMAIN d.reply.answers :
             d.reply.answers[m].ok /\ d.reply.answers[m].type = d.req.questions[m].type
       /\ IF question.type = "choice"
          THEN answer.confidence >= Threshold(d) /\ d.out[n].value \in question.criteria
          ELSE IF d.out[n].value = "true" THEN answer.p >= Threshold(d)
               ELSE 100 - answer.p >= Threshold(d)

\* decide_or answers every question, and with the provider's word only where a
\* sound lane of the policy vouches for it, although the policy may be replaced by
\* one that lost the lane while the question is under way.
AnswersAreEarned ==
    \A t \in Threads :
        /\ decision[t].pc = "done" => EveryQuestionIsAnswered(decision[t])
        /\ \A n \in DOMAIN decision[t].out :
              decision[t].out[n].source = "decide" =>
                  LaneIsSound(decision[t]) /\ IsSure(decision[t], n)
=============================================================================
