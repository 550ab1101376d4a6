----------------------------- MODULE MCAppDecide -----------------------------
(* Small instances of AppDecide: a chat lane that is right, and policies *)
(* that have lost it, another lane, or everything.                          *)
EXTENDS AppDecide, TLC

CONSTANTS chat, decide, b1, b2, b3     \* lanes and backends
CONSTANTS t1, t2, p1, p2, budget

MCDayOf == [t \in Times |-> IF t < 2 THEN 1 ELSE 2]

MCBackends ==
    b1 :> [dialect |-> "openai-chat-completions", ok |-> TRUE]
    @@ b2 :> [dialect |-> "typesafe-systemone", ok |-> TRUE]

MCChat == [kind |-> "chat", chain |-> <<b1>>, ok |-> TRUE]
MCDecide ==
    [kind |-> "decision", chain |-> <<b2>>, ok |-> TRUE, max_questions |-> 2,
     profiles |-> [default |-> 60, strict |-> 90]]

MCPolicy(lanes) == [whole |-> TRUE, backends |-> MCBackends, lanes |-> lanes]

MCFirst == MCPolicy(chat :> MCChat @@ decide :> MCDecide)

\* A backend that is not declared; and a root that is not right.
MCUndeclared == MCPolicy(chat :> MCChat @@ decide :> [MCDecide EXCEPT !.chain = <<b2, b3>>])
MCBroken == [MCFirst EXCEPT !.whole = FALSE]

MCNoLane ==
    MCPolicy(chat :> [MCChat EXCEPT !.chain = <<b2>>] @@ decide :> [MCDecide EXCEPT !.ok = FALSE])

MCRaws == {MCFirst, MCUndeclared, MCBroken, MCNoLane}

MCNames == {PolicyInvalid, ModelMismatch, <<"policy_lane_skipped", "invalid_lane">>}

\* The file is written and reloaded; it is reloaded while another process emits
\* the same alerts, one of which may be broken off; alerts alone, over more of
\* the time; and a thread decides while the policy is replaced.
MCScenario(raws, getters, deciders, others, names, writes, ticks, raises) ==
    [raws |-> raws, getters |-> getters, deciders |-> deciders, others |-> others,
     names |-> names, writes |-> writes, ticks |-> ticks, raises |-> raises]

MCScenarios ==
    {MCScenario(MCRaws, {t1, t2}, {}, {}, {}, 2, 0, 0),
     MCScenario({MCUndeclared}, {t1}, {}, {p1}, {PolicyInvalid}, 0, 1, 1),
     MCScenario({MCFirst}, {}, {}, {p1, p2}, {PolicyInvalid, budget}, 0, 2, 1),
     MCScenario({MCFirst, MCUndeclared}, {}, {t1}, {}, {}, 1, 0, 0)}

-----------------------------------------------------------------------------
(* A choice and a noul. *)

MCChoice == [type |-> "choice", criteria |-> {"x", "y"}, ok |-> TRUE]
MCNoul == [type |-> "noul", ok |-> TRUE]
MCQuestions == [q |-> MCChoice, r |-> MCNoul]

MCRequest(lane, profile, questions) ==
    [lane |-> lane, profile |-> profile, state_ok |-> TRUE, questions |-> questions]

MCRequests ==
    {MCRequest(decide, "default", MCQuestions), MCRequest(decide, "strict", MCQuestions),
     MCRequest(chat, "default", MCQuestions), MCRequest(decide, "unknown", MCQuestions),
     MCRequest(decide, "default", [q |-> [MCChoice EXCEPT !.criteria = {"x"}], r |-> MCNoul]),
     [MCRequest(decide, "default", MCQuestions) EXCEPT !.state_ok = FALSE]}

MCChosen(x, confidence) ==
    [type |-> "choice", ok |-> TRUE, choice |-> "x", confidence |-> confidence,
     probabilities |-> [x |-> x, y |-> 98 - x]]

MCReply(model, chosen, p) ==
    [model |-> model, answers |-> [q |-> chosen, r |-> [type |-> "noul", ok |-> TRUE, p |-> p]]]

MCReplies ==
    {MCReply("declared", MCChosen(x, confidence), p) :
        x \in {90}, confidence \in {59, 60, 101}, p \in {5, 50, -1}}
    \cup {MCReply(model, MCChosen(90, 95), 95) : model \in {"", "dated", "prefixed", "other"}}
    \cup {MCReply("declared", chosen, 95) : chosen \in
              {[MCChosen(90, 95) EXCEPT !.choice = "z"], [MCChosen(90, 95) EXCEPT !.ok = FALSE],
               [MCChosen(90, 95) EXCEPT !.probabilities = [x |-> 90]],
               [type |-> "noul", ok |-> TRUE, p |-> 95]}}
    \cup {[MCReply("declared", MCChosen(90, 95), 95) EXCEPT !.answers = [q |-> MCChosen(90, 95)]]}

MCFallbacks == {[q |-> "y", r |-> "false"], [q |-> "y", r |-> "perhaps"], [r |-> "true"]}
=============================================================================
