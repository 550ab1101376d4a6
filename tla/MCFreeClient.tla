---------------------------- MODULE MCFreeClient ----------------------------
(* Small instances of FreeClient: two backends with a model each, and the  *)
(* exports that a harness with them may print, good and bad.               *)
EXTENDS FreeClient, TLC

CONSTANTS
    agy, claude, b1, b2, best, glm,   \* backends
    m1, m2, mglm,                           \* models
    research, planning, vision, nolane,     \* lanes
    h1, h2                                  \* hashes of the free check

MCBackend(kind, model, off) ==
    [kind |-> kind, model |-> model, auto_disabled |-> off, http_openrouter |-> kind = "or-free"]

MCBackends ==
    agy :> MCBackend("sub-free", NoModel, FALSE) @@ claude :> MCBackend("sub-anthropic", NoModel, FALSE)
    @@ b1 :> MCBackend("or-free", m1, FALSE) @@ b2 :> MCBackend("or-free", m2, FALSE)
    @@ best :> MCBackend("API$$", NoModel, FALSE) @@ glm :> MCBackend("sub-glm", NoModel, TRUE)

MCLane(escalation, http) ==
    [primary |-> agy, fallback |-> agy, escalation |-> escalation, http |-> http]

MCCommitted ==
    [well_formed |-> TRUE, backends |-> MCBackends, free_backends |-> <<b1, b2>>, hash |-> h1,
     default_lane |-> research,
     lanes |-> research :> MCLane(<<agy, b1, b2>>, <<b1, b2>>) @@ planning :> MCLane(<<agy>>, <<>>)
               @@ vision :> MCLane(<<agy, b1>>, <<b1>>)]

\* What may be wrong with an export, or new in it, one thing at a time.
MCWithLane(escalation, http) ==
    [MCCommitted EXCEPT !.lanes[research] = MCLane(escalation, http)]

MCExports ==
    {MCCommitted,
     [MCCommitted EXCEPT !.backends[b1].auto_disabled = TRUE],
     [MCCommitted EXCEPT !.well_formed = FALSE],
     [MCCommitted EXCEPT !.hash = h2],
     [MCCommitted EXCEPT !.backends[b1].model = NoModel],
     [MCCommitted EXCEPT !.backends[b1].kind = "unheard-of"],
     [MCCommitted EXCEPT !.backends[b1].http_openrouter = FALSE],
     [MCCommitted EXCEPT !.backends[b1].model = mglm],
     [MCCommitted EXCEPT !.backends[glm].auto_disabled = FALSE],
     [MCCommitted EXCEPT !.free_backends = <<b1, agy>>],
     [MCCommitted EXCEPT !.free_backends = <<b1, b1>>],
     [MCCommitted EXCEPT !.default_lane = nolane],
     MCWithLane(<<b1, best>>, <<b1>>),
     MCWithLane(<<claude, b1>>, <<b1>>),
     MCWithLane(<<b1, b2>>, <<agy, b1>>),
     MCWithLane(<<b1, nolane>>, <<b1>>),
     MCWithLane(<<b1, b1, b2>>, <<b1, b1>>),
     MCWithLane(<<b2, b1>>, <<b2>>)}

MCZero == [prompt |-> "zero", completion |-> "zero"]
MCListings ==
    m1 :> {<<MCZero>>, <<[prompt |-> "zero"]>>}
    @@ m2 :> {<<MCZero>>, <<MCZero, [MCZero EXCEPT !.prompt = "other"]>>}
    @@ mglm :> {<<MCZero>>}

MCCards ==
    "free" :> [input |-> 0, output |-> 0, fixed |-> 0, margin |-> 0]
    @@ "v1" :> [input |-> 600000, output |-> 1500000, fixed |-> 1, margin |-> 0]

MCPaidRequests ==
    {[model |-> m1, card |-> card, live |-> FALSE, chars |-> chars, max_output |-> 2] :
        card \in {"free", "v1", "v2"}, chars \in {0, 3, 10}}
=============================================================================
