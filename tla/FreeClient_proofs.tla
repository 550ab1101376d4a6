--------------------------- MODULE FreeClient_proofs ---------------------------
(***************************************************************************)
(* Theorems about FreeClient and its parts, for every value of the         *)
(* constants: what an attempt is billed is covered, whatever the price     *)
(* card; the generated module is safe to route by; what goes out was       *)
(* offered and proven free at the boundary; threads share one router; and  *)
(* a call gives up only for a reason.                                      *)
(***************************************************************************)
EXTENDS FreeClient, TLAPS, FiniteSetTheorems

-----------------------------------------------------------------------------
(* The elements of a sequence at some of its positions.                    *)

\* Positions are finitely many, and counted up to each of them.
LEMMA Ranks ==
    ASSUME NEW n \in Nat, NEW P \in SUBSET (1 .. n)
    PROVE  /\ IsFiniteSet(P) /\ Cardinality(P) \in Nat
           /\ \A i \in P : /\ IsFiniteSet({j \in P : j <= i})
                           /\ Cardinality({j \in P : j <= i}) \in 1 .. Cardinality(P)
           /\ \A i, h \in P : i < h =>
                 Cardinality({j \in P : j <= i}) < Cardinality({j \in P : j <= h})
<1>0. \A j \in P : j \in Int
  OBVIOUS
<1>1. IsFiniteSet(P) /\ Cardinality(P) \in Nat
  <2>1. IsFiniteSet(1 .. n)
    BY FS_Interval
  <2>2. IsFiniteSet(P)
    BY <2>1, FS_Subset
  <2> QED  BY <2>2, FS_CardinalityType
<1>2. ASSUME NEW i \in P
      PROVE  /\ IsFiniteSet({j \in P : j <= i})
             /\ Cardinality({j \in P : j <= i}) \in 1 .. Cardinality(P)
  <2> DEFINE below == {j \in P : j <= i}
  <2>1. below \in SUBSET P
    OBVIOUS
  <2>2. IsFiniteSet(below) /\ Cardinality(below) <= Cardinality(P) /\ Cardinality(below) \in Nat
    BY <1>1, <2>1, FS_Subset, FS_CardinalityType
  <2>3. i \in below
    OBVIOUS
  <2>4. Cardinality(below) # 0
    BY <2>2, <2>3, FS_EmptySet
  <2> QED  BY <1>1, <2>2, <2>4
<1>3. ASSUME NEW i \in P, NEW h \in P, i < h
      PROVE  Cardinality({j \in P : j <= i}) < Cardinality({j \in P : j <= h})
  <2> DEFINE A == {j \in P : j <= i}
             B == {j \in P : j <= h}
  <2>1. A \in SUBSET B /\ h \in B /\ h \notin A
    <3>1. \A j \in P : j <= i => j <= h
      BY <1>0, <1>3
    <3>2. h <= h /\ ~(h <= i)
      BY <1>0, <1>3
    <3> QED  BY <3>1, <3>2
  <2>2. IsFiniteSet(B) /\ Cardinality(A) \in Nat /\ Cardinality(B) \in Nat
    BY <1>2
  <2>3. Cardinality(A) <= Cardinality(B) /\ Cardinality(A) # Cardinality(B)
    BY <2>1, <2>2, FS_Subset
  <2> QED  BY <2>2, <2>3
<1> QED  BY <1>1, <1>2, <1>3

\* Every rank is that of a position.
LEMMA RankReached ==
    ASSUME NEW n \in Nat, NEW P \in SUBSET (1 .. n), NEW k \in 1 .. Cardinality(P)
    PROVE  \E i \in P : Cardinality({j \in P : j <= i}) = k
<1> DEFINE I == 1 .. Cardinality(P)
           rank == [i \in P |-> Cardinality({j \in P : j <= i})]
<1>1. rank \in Injection(P, I)
  <2>1. rank \in [P -> I]
    BY Ranks
  <2>2. ASSUME NEW i \in P, NEW h \in P, rank[i] = rank[h] PROVE i = h
    <3> DEFINE size(m) == Cardinality({j \in P : j <= m})
    <3>0. size(i) \in 1 .. Cardinality(P) /\ Cardinality(P) \in Nat
      BY Ranks, Zenon
    <3>1. size(i) = size(h) /\ size(i) \in Int
      <4>1. size(i) = size(h)
        BY <2>2, Zenon
      <4> HIDE DEF size
      <4> QED  BY <4>1, <3>0
    <3>2. \A x, y \in P : x < y => size(x) < size(y)
      BY Ranks, Zenon
    <3> HIDE DEF size
    <3>3. ~(i < h) /\ ~(h < i)
      BY <3>1, <3>2
    <3>4. i \in Int /\ h \in Int
      OBVIOUS
    <3> QED  BY <3>3, <3>4
  <2> QED  BY <2>1, <2>2 DEF Injection, IsInjective
<1>2. IsFiniteSet(I) /\ Cardinality(I) = Cardinality(P)
  <2>1. Cardinality(P) \in Nat
    BY Ranks
  <2> QED  BY <2>1, FS_Interval
<1>3. rank \in Surjection(P, I)
  BY <1>1, <1>2, FS_Injection
<1> QED  BY <1>3 DEF Surjection

\* What is picked from a sequence is a sequence of the elements at those positions.
LEMMA AtFacts ==
    ASSUME NEW s, s \in Seq(ToSet(s)), NEW P \in SUBSET DOMAIN s
    PROVE  /\ DOMAIN At(s, P) = 1 .. Len(At(s, P)) /\ Len(At(s, P)) \in Nat
           /\ \A k \in DOMAIN At(s, P) : \E i \in P : At(s, P)[k] = s[i]
           /\ At(s, P) # <<>> => 1 \in DOMAIN At(s, P)
<1>1. DOMAIN s = 1 .. Len(s) /\ Len(s) \in Nat
  OBVIOUS
<1> DEFINE n == Cardinality(P)
           at(k) == CHOOSE i \in P : Cardinality({j \in P : j <= i}) = k
<1>2. n \in Nat
  BY <1>1, Ranks
<1>3. \A k \in 1 .. n : at(k) \in P
  BY <1>1, RankReached
<1>4. At(s, P) = [k \in 1 .. n |-> s[at(k)]]
  BY DEF At
<1> HIDE DEF n, at
<1>5. At(s, P) \in Seq({s[i] : i \in P}) /\ Len(At(s, P)) = n
  BY <1>2, <1>3, <1>4
<1> QED  BY <1>2, <1>3, <1>4, <1>5

-----------------------------------------------------------------------------
(* Money.                                                                  *)

\* A charge is a number, and no smaller for more tokens or the margin.
LEMMA ChargeGrows ==
    ASSUME NEW v \in DOMAIN Cards, NEW i \in Nat, NEW o \in Nat, NEW j \in Nat, NEW p \in Nat,
           i <= j, o <= p
    PROVE  /\ Charge(Cards[v], i, o, FALSE) \in Nat /\ Charge(Cards[v], j, p, TRUE) \in Nat
           /\ Charge(Cards[v], i, o, FALSE) <= Charge(Cards[v], j, p, TRUE)
<1>1. PICK in, out, fixed, margin \in Nat :
          /\ in = Cards[v].input /\ out = Cards[v].output
          /\ fixed = Cards[v].fixed /\ margin = Cards[v].margin
  BY AdapterAssumption
<1> DEFINE cost(n, price) == (n * price + 999999) \div Million
<1>2. ASSUME NEW a \in Nat, NEW b \in Nat, NEW price \in Nat, a <= b
      PROVE  cost(a, price) \in Nat /\ cost(b, price) \in Nat
             /\ cost(a, price) <= cost(b, price)
  <2>1. PICK x, y \in Nat : x = a * price /\ y = b * price /\ x <= y
    <3>1. a * price \in Nat /\ b * price \in Nat /\ a * price <= b * price
      BY <1>2, SMT
    <3> QED  BY <3>1, SMT
  <2>2. /\ (x + 999999) \div 1000000 \in Nat /\ (y + 999999) \div 1000000 \in Nat
        /\ (x + 999999) \div 1000000 <= (y + 999999) \div 1000000
    BY <2>1, SMT
  <2> QED  BY <2>1, <2>2, SMT DEF Million
<1>3. /\ Charge(Cards[v], i, o, FALSE) = fixed + cost(i, in) + cost(o, out) + 0
      /\ Charge(Cards[v], j, p, TRUE) = fixed + cost(j, in) + cost(p, out) + margin
  BY <1>1, SMT DEF Charge
<1> HIDE DEF cost
<1>4. cost(i, in) \in Nat /\ cost(j, in) \in Nat /\ cost(i, in) <= cost(j, in)
  BY <1>1, <1>2
<1>5. cost(o, out) \in Nat /\ cost(p, out) \in Nat /\ cost(o, out) <= cost(p, out)
  BY <1>1, <1>2
<1>6. PICK a, b, c, d \in Nat :
          a = cost(i, in) /\ b = cost(j, in) /\ c = cost(o, out) /\ d = cost(p, out)
  BY <1>4, <1>5
<1>7. /\ fixed + a + c + 0 \in Nat /\ fixed + b + d + margin \in Nat
      /\ a <= b /\ c <= d => fixed + a + c + 0 <= fixed + b + d + margin
  OBVIOUS
<1> QED  BY <1>3, <1>4, <1>5, <1>6, <1>7

\* A provider counts no more tokens than the estimate allows for.
LEMMA TokensFit ==
    ASSUME NEW chars \in Nat, NEW n \in InputTokens(chars)
    PROVE  /\ n \in Nat /\ EstimatedInputTokens(chars) \in Nat
           /\ n <= EstimatedInputTokens(chars)
BY DEF InputTokens, EstimatedInputTokens

\* The estimate for a request is a number.
LEMMA EstimateIsANumber ==
    ASSUME NEW req, req.card \in DOMAIN Cards, req.chars \in Nat, req.max_output \in Nat
    PROVE  Estimate(req) \in Nat
<1> DEFINE tokens == EstimatedInputTokens(req.chars)
<1>1. tokens \in Nat
  BY DEF EstimatedInputTokens
<1> HIDE DEF tokens
<1>2. /\ Charge(Cards[req.card], tokens, req.max_output, FALSE) \in Nat
      /\ Charge(Cards[req.card], tokens, req.max_output, TRUE) \in Nat
  <2>1. tokens <= tokens /\ req.max_output <= req.max_output
    BY <1>1
  <2> QED  BY <1>1, <2>1, ChargeGrows
<1> QED  BY <1>2 DEF Estimate, tokens

-----------------------------------------------------------------------------
(* The attempts: the parts of the invariant that speak of the adapter.     *)

\* How an attempt ends: what it says, and what it books.
EndsOf(g) ==
    CASE g.phase = "pre_dispatch" -> ~g.work.done
      [] g.phase = "definitive" -> g.answer = "status"
      [] g.phase = "unknown" -> g.answer \in {"none", "unusable"}
      [] g.phase = "success" ->
            g.answer # "no_usage" =>
                /\ g.work.done
                /\ g.charge = Charge(Cards[g.req.card], g.work.input, g.work.output, FALSE)
      [] OTHER -> FALSE

\* An attempt asks for a bounded answer, has reserved the estimate for it or
\* nothing, and its work, if any was done, was sent out and is within the bounds.
AttemptOK(g) ==
    /\ g \in [pc : {"idle", "check", "build", "open", "wire", "done"}, req : {g.req},
              reserved : Nat, phase : Phases, charge : {g.charge}, work : {g.work},
              answer : {"awaited", "status", "none", "unusable", "no_usage", "text", "other"}]
    /\ g.work.done \in BOOLEAN
    /\ g.pc # "idle" => g.req.chars \in Nat /\ g.req.max_output \in Nat
    /\ g.pc = "idle" => g.reserved = 0
    /\ g.reserved > 0 => g.req.card \in DOMAIN Cards /\ g.reserved = Estimate(g.req)
    /\ g.work.done => /\ g.pc \in {"wire", "done"}
                      /\ g.work.input \in InputTokens(g.req.chars)
                      /\ g.work.output \in 0 .. g.req.max_output
    /\ g.pc = "done" => EndsOf(g)
    /\ g.pc # "done" => g.phase = "underway"

AttemptsInv == DOMAIN att = Actors /\ \A a \in Actors : AttemptOK(att[a])

-----------------------------------------------------------------------------
(* The tool and the installed module.                                      *)

\* What the tool may have written.
Good == {Rendered(e) : e \in {x \in Exports : ValidExport(x) /\ x.hash = PortedHash}}

\* A run that goes on has a module to write or to compare, and has changed nothing
\* yet; the temporary file is complete before it replaces anything.
SyncInv ==
    /\ generated \in Good /\ policy \in Good \cup {NoFile}
    /\ sync.n \in Nat
    /\ sync = Idle \/ sync \in [pc : {"idle", "check", "write", "replace"}, n : Nat \ {0},
                                mode : Modes, facts : Modules \cup {NoFile}, before : Good,
                                exit : Int]
    /\ sync.pc # "idle" =>
          /\ sync.facts \in Good /\ sync.before = generated
          /\ sync.mode = IF sync.pc = "check" THEN "check" ELSE "write"
    /\ sync.pc = "replace" => temporary = sync.facts
    /\ ExitTellsTheTruth

-----------------------------------------------------------------------------
(* The calls.                                                              *)

CallStates == {"idle", "router", "lock", "build", "health", "try", "attempt",
               "answered", "unavailable", "misconfigured", "failed"}

\* The shape of a call, and what it knows of the shared routers.
CallOK(g) ==
    /\ g \in [pc : CallStates, lane : {g.lane}, key : {g.key}, i : Nat, live : BOOLEAN,
              router : Nat \cup {NoRouter}, doubt : {g.doubt}, tried : {g.tried},
              seen : {g.seen}]
    /\ g.pc \in {"router", "lock", "build"} => g.key \in RouterKeys /\ g.router = NoRouter
    /\ g.router # NoRouter => g.key \in RouterKeys /\ g.router = routers[g.key]

RoutersInv ==
    /\ routers \in [RouterKeys -> Nat \cup {NoRouter}] /\ built \in [RouterKeys -> Nat]
    /\ DOMAIN call = Actors /\ \A c \in Actors : CallOK(call[c])

\* A call that goes on has a lane of the policy with candidates, and is at one
\* of them; what it has tried are candidates of its lane.
Placed(c) ==
    policy # NoFile /\ call[c].lane \in DOMAIN policy.candidates /\ Chain(c) # <<>>

ChainOK(c) ==
    /\ plan = "paid" \/ policy = NoFile => call[c] = NotCalled
    /\ Placed(c) \/ (~Running(c) /\ call[c].tried = <<>> /\ call[c].router = NoRouter)
    /\ Placed(c) => call[c].tried \in Seq(ToSet(Chain(c)))
    /\ call[c].pc \in {"health", "try", "attempt"} => call[c].i \in DOMAIN Chain(c)
    /\ call[c].pc = "attempt" => att[c].req.live /\ Current(c) \in ToSet(call[c].tried)

ChainInv == \A c \in Actors : ChainOK(c)

\* The catalog, and what the last look at it before the dispatch showed.
CatalogTyped == catalog \in [reachable : BOOLEAN, entries : [Models -> Seq(Pricing)]]

Proven(c) ==
    call[c].pc = "attempt" /\ att[c].pc \in {"build", "open", "wire"} =>
        \E pricing \in ToSet(call[c].seen) :
            /\ call[c].seen = <<pricing>>
            /\ \E i \in {"prompt", "input"}, o \in {"completion", "output"} :
                  {i, o} \subseteq DOMAIN pricing
            /\ \A k \in DOMAIN pricing : pricing[k] = "zero"

BoundaryInv == CatalogTyped /\ \A c \in Actors : Proven(c)

\* A candidate had its chance.
Chance(c, n) == n \in ToSet(call[c].tried) \/ Model(n) \in call[c].doubt \/ ~credential

\* The candidates that a call is past have had theirs.
ChanceOK(c) ==
    /\ Running(c) => \A m \in Offered(call[c].lane) : ModelIsFree(m) \/ m \in call[c].doubt
    /\ call[c].pc = "health" /\ ~call[c].live =>
          \A j \in DOMAIN Chain(c) : j < call[c].i =>
              Model(Chain(c)[j]) \in call[c].doubt \/ ~credential
    /\ call[c].pc \in {"try", "attempt"} =>
          \A j \in DOMAIN Chain(c) : j < call[c].i => Chance(c, Chain(c)[j])
    /\ call[c].pc = "unavailable" /\ call[c].router # NoRouter =>
          \A n \in ToSet(Chain(c)) : Chance(c, n)

ChanceInv == \A c \in Actors : ChanceOK(c)

-----------------------------------------------------------------------------
(* Attempts.                                                               *)

\* One attempt that changes within its invariant leaves the invariant true.
LEMMA OneAttempt ==
    ASSUME AttemptsInv, NEW a \in Actors, NEW g, AttemptOK(g), att' = [att EXCEPT ![a] = g]
    PROVE  AttemptsInv'
<1>1. DOMAIN att' = Actors
  BY DEF AttemptsInv
<1>2. \A b \in Actors : att'[b] = g \/ att'[b] = att[b]
  BY DEF AttemptsInv
<1>3. \A b \in Actors : AttemptOK(att'[b])
  BY <1>2 DEF AttemptsInv
<1> QED  BY <1>1, <1>3 DEF AttemptsInv, AttemptOK, EndsOf

\* No attempt, with no work done.
LEMMA NoAttemptIs ==
    \E w : /\ ~w.done /\ w.done \in BOOLEAN
           /\ NoAttempt = [pc |-> "idle", req |-> NoReq, reserved |-> 0, phase |-> "underway",
                           charge |-> 0, work |-> w, answer |-> "awaited"]
<1> DEFINE w == [done |-> FALSE]
<1>1. NoAttempt = [pc |-> "idle", req |-> NoReq, reserved |-> 0, phase |-> "underway", charge |-> 0,
                   work |-> w, answer |-> "awaited"]
  BY Zenon DEF NoAttempt
<1>2. ~w.done /\ w.done \in BOOLEAN
  BY Zenon
<1> HIDE DEF w
<1> QED  BY <1>1, <1>2

\* It is in order.
LEMMA NoAttemptOK == AttemptOK(NoAttempt)
<1>1. PICK w : /\ ~w.done /\ w.done \in BOOLEAN
               /\ NoAttempt = [pc |-> "idle", req |-> NoReq, reserved |-> 0, phase |-> "underway",
                               charge |-> 0, work |-> w, answer |-> "awaited"]
  BY NoAttemptIs
<1> QED  BY <1>1 DEF AttemptOK, Phases

\* A request of the free client, or of a paid attempt, is a good one to begin with.
LEMMA BeginKeepsAttempts ==
    ASSUME AttemptsInv, NEW a \in Actors, NEW req, NEW reserved \in Nat,
           req.chars \in Nat, req.max_output \in Nat,
           reserved > 0 => req.card \in DOMAIN Cards /\ reserved = Estimate(req),
           Begin(a, req, reserved)
    PROVE  AttemptsInv'
<1>1. PICK w : /\ ~w.done /\ w.done \in BOOLEAN
               /\ NoAttempt = [pc |-> "idle", req |-> NoReq, reserved |-> 0, phase |-> "underway",
                               charge |-> 0, work |-> w, answer |-> "awaited"]
  BY NoAttemptIs
<1> DEFINE g == [NoAttempt EXCEPT !.pc = "check", !.req = req, !.reserved = reserved]
<1>2. att' = [att EXCEPT ![a] = g]
  BY DEF Begin
<1>3. g \in [pc : {"check"}, req : {req}, reserved : {reserved}, phase : {"underway"},
             charge : {0}, work : {w}, answer : {"awaited"}]
  BY <1>1
<1> HIDE DEF g
<1>4. AttemptOK(g)
  BY <1>1, <1>3 DEF AttemptOK, Phases
<1> QED  BY <1>2, <1>4, OneAttempt

\* Every step of the adapter keeps the invariant of the attempts.
LEMMA AdapterKeepsAttempts ==
    ASSUME AttemptsInv, NEW a \in Actors, AdapterStep(a)
    PROVE  AttemptsInv'
<1> DEFINE g == att[a]
<1>0. AttemptOK(g) /\ DOMAIN att = Actors
  BY DEF AttemptsInv
<1>1. CASE LiveCheck(a)
  <2>1. CASE att' = [att EXCEPT ![a].pc = "build"]
    <3>1. AttemptOK([g EXCEPT !.pc = "build"])
      BY <1>0, <1>1 DEF AttemptOK, LiveCheck
    <3> QED  BY <2>1, <3>1, OneAttempt
  <2>2. CASE End(a, "pre_dispatch", 0)
    <3>1. AttemptOK([g EXCEPT !.pc = "done", !.phase = "pre_dispatch", !.charge = 0])
      BY <1>0, <1>1 DEF AttemptOK, EndsOf, LiveCheck, Phases
    <3>2. att' = [att EXCEPT ![a] = [g EXCEPT !.pc = "done", !.phase = "pre_dispatch",
                                              !.charge = 0]]
      BY <2>2, <1>0 DEF End
    <3> QED  BY <3>1, <3>2, OneAttempt
  <2> QED  BY <1>1, <2>1, <2>2 DEF LiveCheck
<1>2. CASE Build(a)
  <2>1. CASE att' = [att EXCEPT ![a].pc = "open"]
    <3>1. AttemptOK([g EXCEPT !.pc = "open"])
      BY <1>0, <1>2 DEF AttemptOK, Build
    <3> QED  BY <2>1, <3>1, OneAttempt
  <2>2. CASE End(a, "pre_dispatch", 0)
    <3>1. AttemptOK([g EXCEPT !.pc = "done", !.phase = "pre_dispatch", !.charge = 0])
      BY <1>0, <1>2 DEF AttemptOK, EndsOf, Build, Phases
    <3>2. att' = [att EXCEPT ![a] = [g EXCEPT !.pc = "done", !.phase = "pre_dispatch",
                                              !.charge = 0]]
      BY <2>2, <1>0 DEF End
    <3> QED  BY <3>1, <3>2, OneAttempt
  <2> QED  BY <1>2, <2>1, <2>2 DEF Build
<1>3. CASE Send(a)
  <2>1. CASE att' = [att EXCEPT ![a].pc = "wire"]
    <3>1. AttemptOK([g EXCEPT !.pc = "wire"])
      BY <1>0, <1>3 DEF AttemptOK, Send
    <3> QED  BY <2>1, <3>1, OneAttempt
  <2>2. ASSUME NEW input \in InputTokens(g.req.chars), NEW output \in 0 .. g.req.max_output,
               att' = [att EXCEPT ![a].pc = "wire",
                          ![a].work = [done |-> TRUE, input |-> input, output |-> output]]
        PROVE  AttemptsInv'
    <3> DEFINE work == [done |-> TRUE, input |-> input, output |-> output]
               h == [g EXCEPT !.pc = "wire", !.work = work]
    <3>1. AttemptOK(h)
      BY <1>0, <1>3 DEF AttemptOK, Send
    <3>2. att' = [att EXCEPT ![a] = h]
      BY <2>2, <1>0
    <3> QED  BY <3>1, <3>2, OneAttempt
  <2> QED  BY <1>3, <2>1, <2>2 DEF Send
<1>4. CASE Rejected(a)
  <2>1. AttemptOK([g EXCEPT !.pc = "done", !.phase = "definitive", !.answer = "status"])
    BY <1>0, <1>4 DEF AttemptOK, EndsOf, Rejected, Phases
  <2>2. att' = [att EXCEPT ![a] = [g EXCEPT !.pc = "done", !.phase = "definitive",
                                            !.answer = "status"]]
    BY <1>0, <1>4 DEF Rejected
  <2> QED  BY <2>1, <2>2, OneAttempt
<1>5. CASE NoAnswer(a)
  <2>1. AttemptOK([g EXCEPT !.pc = "done", !.phase = "unknown", !.answer = "none"])
    BY <1>0, <1>5 DEF AttemptOK, EndsOf, NoAnswer, Phases
  <2>2. att' = [att EXCEPT ![a] = [g EXCEPT !.pc = "done", !.phase = "unknown",
                                            !.answer = "none"]]
    BY <1>0, <1>5 DEF NoAnswer
  <2> QED  BY <2>1, <2>2, OneAttempt
<1>6. CASE Unusable(a)
  <2>1. AttemptOK([g EXCEPT !.pc = "done", !.phase = "unknown", !.answer = "unusable"])
    BY <1>0, <1>6 DEF AttemptOK, EndsOf, Unusable, Phases
  <2>2. att' = [att EXCEPT ![a] = [g EXCEPT !.pc = "done", !.phase = "unknown",
                                            !.answer = "unusable"]]
    BY <1>0, <1>6 DEF Unusable
  <2> QED  BY <2>1, <2>2, OneAttempt
<1>7. ASSUME NEW usage \in BOOLEAN, NEW text \in BOOLEAN, Answered(a, usage, text)
      PROVE  AttemptsInv'
  <2> DEFINE said == IF ~usage THEN "no_usage" ELSE IF text THEN "text" ELSE "other"
             charge == IF usage
                       THEN Charge(Cards[g.req.card], g.work.input, g.work.output, FALSE)
                       ELSE Charge(Cards[g.req.card], 0, 0, FALSE)
             h == [g EXCEPT !.pc = "done", !.phase = "success", !.answer = said,
                            !.charge = charge]
  <2>1. att' = [att EXCEPT ![a] = h] /\ g.pc = "wire" /\ g.work.done
    BY <1>0, <1>7 DEF Answered
  <2>2. /\ said \in {"no_usage", "text", "other"}
        /\ said # "no_usage" =>
              charge = Charge(Cards[g.req.card], g.work.input, g.work.output, FALSE)
    BY <1>7
  <2>3. AttemptOK(h)
    <3> HIDE DEF said, charge
    <3> QED  BY <1>0, <2>1, <2>2 DEF AttemptOK, EndsOf, Phases
  <2> QED  BY <2>1, <2>3, OneAttempt
<1> QED  BY <1>1, <1>2, <1>3, <1>4, <1>5, <1>6, <1>7 DEF AdapterStep

\* Every step keeps the attempts within their invariant.
LEMMA AttemptsStep ==
    ASSUME AttemptsInv, [Next]_vars
    PROVE  AttemptsInv'
<1>1. CASE UNCHANGED att
  BY <1>1 DEF AttemptsInv, AttemptOK, EndsOf
<1>2. ASSUME NEW c \in Actors, Try(c) PROVE AttemptsInv'
  <2> DEFINE req == [model |-> Model(Current(c)), card |-> FreeCard, live |-> TRUE,
                     chars |-> 1, max_output |-> 0]
  <2>1. Begin(c, req, 0)
    BY <1>2 DEF Try
  <2>2. req.chars \in Nat /\ req.max_output \in Nat
    OBVIOUS
  <2> HIDE DEF req
  <2> QED  BY <2>1, <2>2, BeginKeepsAttempts
<1>3. ASSUME NEW c \in Actors, Finish(c) PROVE AttemptsInv'
  BY <1>3, NoAttemptOK, OneAttempt DEF Finish
<1>4. ASSUME NEW a \in Payers, NEW req \in PaidRequests, PaidAttempt(a, req)
      PROVE  AttemptsInv'
  <2>1. req.chars \in Nat /\ req.max_output \in Nat /\ a \in Actors
    BY ClientAssumption
  <2>2. req.card \in DOMAIN Cards /\ Begin(a, req, Estimate(req))
    BY <1>4 DEF PaidAttempt
  <2>3. Estimate(req) \in Nat
    BY <2>1, <2>2, EstimateIsANumber
  <2> QED  BY <2>1, <2>2, <2>3, BeginKeepsAttempts
<1>5. ASSUME NEW a \in Actors, AdapterStep(a) PROVE AttemptsInv'
  BY <1>5, AdapterKeepsAttempts
<1>6. \/ UNCHANGED att
      \/ \E c \in Actors : Try(c) \/ Finish(c) \/ AdapterStep(c)
      \/ \E a \in Payers : AdapterStep(a) \/ \E req \in PaidRequests : PaidAttempt(a, req)
  <2>1. CASE Next
    BY <2>1 DEF Next, Sync, Install, Call, CallStep, CachedRouter, NoCachedRouter, Lock,
                BuildRouter, Health, InvalidRequest, Skip, Attempt, PaidStep, Repricing,
                adapterVars, clientVars
  <2>2. CASE UNCHANGED vars
    BY <2>2 DEF vars, adapterVars
  <2> QED  BY <2>1, <2>2
<1> QED  BY <1>1, <1>2, <1>3, <1>4, <1>5, <1>6, ClientAssumption

\* The attempts of every run are in order: what was reserved is the estimate, and
\* a provider's work is within the bounds of a request that was sent
\* (GenericHTTPAdapter.complete, PriceCard.estimate_max_charge).
THEOREM AttemptsInvAlways == Spec => []AttemptsInv
<1>1. Init => AttemptsInv
  <2>1. Init => att = [a \in Actors |-> NoAttempt]
    BY DEF Init, AdapterInit
  <2> QED  BY <2>1, NoAttemptOK DEF AttemptsInv
<1> QED  BY <1>1, AttemptsStep, PTL DEF Spec

\* The bill of an attempt is covered by what the ledger keeps of it.
LEMMA AttemptIsCovered ==
    ASSUME NEW a \in Actors, AttemptOK(att[a])
    PROVE  /\ att[a].phase = "pre_dispatch" => ~att[a].work.done
           /\ att[a].pc = "done" /\ att[a].reserved > 0
                  /\ att[a].answer \notin {"status", "no_usage"} =>
                 Bill(a) <= Kept(a) /\ Kept(a) <= att[a].reserved
<1> DEFINE g == att[a]
<1>1. g.phase = "pre_dispatch" => ~g.work.done
  BY DEF AttemptOK, EndsOf
<1>2. ASSUME g.pc = "done", g.reserved > 0, g.answer \notin {"status", "no_usage"}
      PROVE  Bill(a) <= Kept(a) /\ Kept(a) <= g.reserved
  <2>1. /\ g.req.card \in DOMAIN Cards /\ g.reserved = Estimate(g.req) /\ g.reserved \in Nat
        /\ g.req.chars \in Nat /\ g.req.max_output \in Nat /\ EndsOf(g)
    BY <1>2 DEF AttemptOK
  <2>2. CASE ~g.work.done
    <3>1. Bill(a) = 0 /\ g.phase \in {"pre_dispatch", "unknown"}
      BY <2>2, <2>1, <1>2 DEF Bill, EndsOf
    <3>2. Kept(a) = IF g.phase = "unknown" THEN g.reserved ELSE 0
      BY <3>1 DEF Kept
    <3> QED  BY <3>1, <3>2, <2>1
  <2>3. CASE g.work.done
    <3> DEFINE bill == Charge(Cards[g.req.card], g.work.input, g.work.output, FALSE)
    <3>1. /\ g.work.input \in InputTokens(g.req.chars)
          /\ g.work.output \in 0 .. g.req.max_output
      BY <2>3 DEF AttemptOK
    <3>2. /\ g.work.input \in Nat /\ EstimatedInputTokens(g.req.chars) \in Nat
          /\ g.work.input <= EstimatedInputTokens(g.req.chars)
      BY <3>1, <2>1, TokensFit
    <3>3. g.work.output \in Nat /\ g.work.output <= g.req.max_output
      BY <3>1, <2>1
    <3>4. bill \in Nat /\ bill <= g.reserved
      <4>1. PICK i, j, o, p \in Nat :
                /\ i = g.work.input /\ j = EstimatedInputTokens(g.req.chars) /\ i <= j
                /\ o = g.work.output /\ p = g.req.max_output /\ o <= p
        BY <3>2, <3>3, <2>1
      <4>2. /\ Charge(Cards[g.req.card], i, o, FALSE) \in Nat
            /\ Charge(Cards[g.req.card], i, o, FALSE) <= Charge(Cards[g.req.card], j, p, TRUE)
        BY <4>1, <2>1, ChargeGrows
      <4>3. g.reserved = Charge(Cards[g.req.card], j, p, TRUE)
        BY <4>1, <2>1 DEF Estimate
      <4> QED  BY <4>1, <4>2, <4>3
    <3>5. Bill(a) = bill
      BY <2>3 DEF Bill
    <3> HIDE DEF bill
    <3>6. Kept(a) = bill \/ Kept(a) = g.reserved
      BY <2>1, <2>3, <1>2 DEF EndsOf, Kept, bill
    <3> QED  BY <3>4, <3>5, <3>6, <2>1
  <2> QED  BY <2>2, <2>3 DEF AttemptOK
<1> QED  BY <1>1, <1>2

\* Work that is billed is booked at its bill at least, and never above what was
\* reserved for it; before a failure said to precede the dispatch nothing went out
\* (adapters.py; Router._settle_success, Router._handle_paid_failure).
THEOREM BillsCovered == Spec => []BillIsCovered
<1>1. AttemptsInv => BillIsCovered
  BY AttemptIsCovered DEF AttemptsInv, BillIsCovered
<1> QED  BY <1>1, AttemptsInvAlways, PTL

-----------------------------------------------------------------------------
(* The tool.                                                               *)

\* A module rendered from an accepted export is a module.
LEMMA GoodIsAModule == Good \subseteq Modules
BY DEF Good, Modules

\* A module is no missing and no partial file.
LEMMA ModulesAreWhole == \A m \in Modules : m # NoFile /\ m # Partial
BY SyncAssumption

\* Every step of the tool keeps its invariant.
LEMMA SyncStep ==
    ASSUME SyncInv, SyncNext, UNCHANGED policy
    PROVE  SyncInv'
<1> DEFINE Facts == Modules \cup {NoFile}
           PCs == {"idle", "check", "write", "replace"}
           Full == [pc : PCs, n : Nat \ {0}, mode : Modes, facts : Facts, before : Good,
                    exit : Int]
<1>0. /\ generated \in Good /\ policy \in Good \cup {NoFile} /\ sync.n \in Nat
      /\ sync = Idle \/ sync \in Full
  BY DEF SyncInv
<1>1. ASSUME NEW mode \in Modes, ExportFails(mode) PROVE SyncInv'
  <2>1. /\ sync' = [pc |-> "idle", n |-> sync.n + 1, mode |-> mode, facts |-> NoFile,
                    before |-> generated, exit |-> 2]
        /\ UNCHANGED <<generated, temporary>>
    BY <1>1 DEF ExportFails
  <2>2. sync' \in Full
    BY <2>1, <1>0
  <2> QED  BY <1>0, <2>1, <2>2 DEF SyncInv, ExitTellsTheTruth
<1>2. ASSUME NEW mode \in Modes, NEW e \in Exports, Export(mode, e) PROVE SyncInv'
  <2> DEFINE accepted == ValidExport(e) /\ (mode = "accept" \/ e.hash = PortedHash)
             facts == IF accepted THEN Rendered(e) ELSE NoFile
             pc == IF ~accepted \/ mode = "accept" THEN "idle" ELSE mode
             exit == IF accepted THEN 0 ELSE 2
  <2>1. /\ sync' = [pc |-> pc, n |-> sync.n + 1, mode |-> mode, facts |-> facts,
                    before |-> generated, exit |-> exit]
        /\ UNCHANGED <<generated, temporary>>
    BY <1>2 DEF Export
  <2>2. facts \in Facts /\ (pc # "idle" => facts \in Good)
    BY <1>2 DEF Modules, Good
  <2>3. /\ pc \in {"idle", "check", "write"} /\ (pc # "idle" => mode = pc)
        /\ pc = "idle" => mode = "accept" \/ exit = 2
        /\ exit \in {0, 2}
    BY <1>2 DEF Modes
  <2> HIDE DEF facts, pc, exit, accepted
  <2>4. sync' \in Full
    BY <2>1, <2>2, <2>3, <1>0
  <2>5. ExitTellsTheTruth'
    BY <2>1, <2>3 DEF ExitTellsTheTruth
  <2> QED  BY <1>0, <2>1, <2>2, <2>3, <2>4, <2>5 DEF SyncInv
<1>3. ASSUME sync.pc # "idle"
      PROVE  sync \in Full /\ sync.facts \in Good /\ sync.before = generated
             /\ sync.mode = IF sync.pc = "check" THEN "check" ELSE "write"
  BY <1>3 DEF SyncInv, Idle
<1>4. ASSUME NEW status \in Int, sync.pc # "idle", Exit(status), generated' \in Good,
             status = 0 => generated' = sync.facts,
             status = 1 => generated' # sync.facts,
             status \in {1, 2} \/ sync.pc = "check" => generated' = generated
      PROVE  SyncInv'
  <2>1. sync' = [sync EXCEPT !.pc = "idle", !.exit = status] /\ sync' \in Full
    BY <1>3, <1>4 DEF Exit
  <2>2. /\ sync'.pc = "idle" /\ sync'.exit = status /\ sync'.mode = sync.mode
        /\ sync'.facts = sync.facts /\ sync'.before = generated
    BY <2>1, <1>3, <1>4
  <2>3. ExitTellsTheTruth'
    BY <2>2, <1>3, <1>4 DEF ExitTellsTheTruth
  <2>4. policy' \in Good \cup {NoFile}
    BY <1>0
  <2> QED  BY <2>1, <2>2, <2>3, <2>4, <1>4 DEF SyncInv
<1>5. CASE Check
  BY <1>5, <1>4, <1>0 DEF Check
<1>6. CASE WriteTemporary
  <2>1. CASE temporary' = sync.facts /\ sync' = [sync EXCEPT !.pc = "replace"]
    <3>1. sync.pc = "write" /\ generated' = generated
      BY <1>6 DEF WriteTemporary
    <3>2. /\ sync' \in Full /\ sync'.pc = "replace" /\ sync'.mode = sync.mode
          /\ sync'.facts = sync.facts /\ sync'.before = sync.before
      BY <2>1, <3>1, <1>3
    <3> QED  BY <2>1, <3>1, <3>2, <1>0, <1>3 DEF SyncInv, ExitTellsTheTruth
  <2>2. CASE Exit(2)
    BY <2>2, <1>4, <1>6, <1>0 DEF WriteTemporary
  <2> QED  BY <1>6, <2>1, <2>2 DEF WriteTemporary
<1>7. CASE ReplaceModule
  <2>1. temporary = sync.facts /\ sync.pc = "replace"
    BY <1>7 DEF ReplaceModule, SyncInv
  <2> QED  BY <2>1, <1>7, <1>4, <1>3, <1>0 DEF ReplaceModule
<1>8. CASE Kill
  <2>1. sync.pc # "idle" /\ \E status \in Int \ {0, 1, 2} : Exit(status)
    BY <1>8, SMT DEF Kill
  <2>2. /\ generated' \in {generated, sync.facts}
        /\ sync.pc = "check" => generated' = generated
    BY <1>8, SMT DEF Kill, SyncInv
  <2>3. generated' \in Good
    BY <2>1, <2>2, <1>0, <1>3
  <2> QED  BY <2>1, <2>2, <2>3, <1>4
<1> QED  BY <1>1, <1>2, <1>5, <1>6, <1>7, <1>8 DEF SyncNext

\* Whatever the process does, the tool's invariant stays.
LEMMA SyncInvStep ==
    ASSUME SyncInv, [Next]_vars
    PROVE  SyncInv'
<1>1. CASE Sync
  BY <1>1, SyncStep DEF Sync, clientVars
<1>2. CASE Install
  <2>1. /\ policy' = generated /\ sync' = Idle /\ generated' = generated
    BY <1>2 DEF Install
  <2>2. generated \in Good
    BY DEF SyncInv
  <2>3. ExitTellsTheTruth'
    BY <2>1 DEF ExitTellsTheTruth, Idle
  <2> QED  BY <2>1, <2>2, <2>3 DEF SyncInv, Idle
<1>3. CASE UNCHANGED <<syncVars, policy>>
  BY <1>3 DEF SyncInv, ExitTellsTheTruth, syncVars
<1>4. Sync \/ Install \/ UNCHANGED <<syncVars, policy>>
  <2>1. CASE Next
    BY <2>1 DEF Next, Call, CallStep, CachedRouter, NoCachedRouter, Lock, BuildRouter, Health,
                InvalidRequest, Skip, Try, Attempt, Finish, PaidStep, PaidAttempt, Repricing,
                clientVars
  <2>2. CASE UNCHANGED vars
    BY <2>2 DEF vars, clientVars
  <2> QED  BY <2>1, <2>2
<1> QED  BY <1>1, <1>2, <1>3, <1>4

\* The working tree only ever holds a module that the tool could write, and the
\* package that is installed one of those (sync_from_harness.main).
THEOREM SyncInvAlways == Spec => []SyncInv
<1>1. Init => SyncInv
  <2>1. Init => generated = Rendered(Committed) /\ sync = Idle /\ policy = NoFile
    BY DEF Init, SyncInit
  <2>2. Rendered(Committed) \in Good
    BY SyncAssumption DEF Good
  <2> QED  BY <2>1, <2>2 DEF SyncInv, Idle, ExitTellsTheTruth
<1> QED  BY <1>1, SyncInvStep, PTL DEF Spec

-----------------------------------------------------------------------------
(* What a good module says.                                                *)

\* A lane's free candidates are picked from its escalation chain.
LEMMA FreeCandidatesFit ==
    ASSUME NEW e \in Exports, ValidExport(e), NEW l \in DOMAIN e.lanes,
           NEW n \in ToSet(FreeCandidates(e, l))
    PROVE  n \in ToSet(e.lanes[l].escalation) /\ e.backends[n].kind = "or-free"
<1> DEFINE chain == e.lanes[l].escalation
           free == {i \in DOMAIN chain : /\ e.backends[chain[i]].kind = "or-free"
                                         /\ Automatic(e.backends[chain[i]])}
           P == {i \in free : \A j \in free : chain[j] = chain[i] => i <= j}
<1>1. chain \in Seq(ToSet(chain))
  BY SyncAssumption
<1>2. P \in SUBSET DOMAIN chain /\ FreeCandidates(e, l) = At(chain, P)
  BY DEF FreeCandidates
<1>3. PICK k \in DOMAIN At(chain, P) : n = At(chain, P)[k]
  BY <1>2 DEF ToSet
<1>4. PICK i \in P : n = chain[i]
  <2> HIDE DEF P
  <2> QED  BY <1>1, <1>2, <1>3, AtFacts
<1>5. i \in DOMAIN chain /\ e.backends[chain[i]].kind = "or-free"
  OBVIOUS
<1> HIDE DEF chain
<1> QED  BY <1>4, <1>5 DEF ToSet, chain

\* The backends that an accepted export names in a chain are OpenRouter's and free.
LEMMA ChainsAreSafe ==
    ASSUME NEW e \in Exports, ValidExport(e), NEW l \in DOMAIN e.lanes,
           NEW n \in ToSet(e.lanes[l].http) \cup ToSet(FreeCandidates(e, l))
    PROVE  /\ n \in DOMAIN e.backends /\ n \notin Claude
           /\ e.backends[n].kind = "or-free" /\ e.backends[n].model # NoModel
<1>1. \A m \in DOMAIN e.backends : ValidBackend(e.backends[m])
  BY DEF ValidExport
<1>2. ValidLane(e, e.lanes[l])
  BY DEF ValidExport
<1>3. CASE n \in ToSet(e.lanes[l].http)
  <2>1. n \in DOMAIN e.backends /\ n \notin Claude /\ e.backends[n].http_openrouter
    BY <1>2, <1>3 DEF ValidLane
  <2> QED  BY <2>1, <1>1 DEF ValidBackend
<1>4. CASE n \in ToSet(FreeCandidates(e, l))
  <2>1. n \in ToSet(e.lanes[l].escalation) /\ e.backends[n].kind = "or-free"
    BY <1>4, FreeCandidatesFit
  <2>2. n \in DOMAIN e.backends /\ n \notin Claude
    BY <1>2, <2>1 DEF ValidLane
  <2> QED  BY <2>1, <2>2, <1>1 DEF ValidBackend
<1> QED  BY <1>3, <1>4

\* A module the tool may write is safe to route by.
LEMMA GoodIsSafe ==
    ASSUME SyncInv
    PROVE  GeneratedIsSafe
<1>1. PICK e \in Exports : ValidExport(e) /\ e.hash = PortedHash /\ generated = Rendered(e)
  BY DEF SyncInv, Good
<1>2. generated \notin {NoFile, Partial} /\ ExitTellsTheTruth
  BY ModulesAreWhole, GoodIsAModule DEF SyncInv
<1>3. /\ generated.hash = PortedHash
      /\ generated.http_chain = [l \in DOMAIN e.lanes |-> e.lanes[l].http]
      /\ generated.candidates = [l \in DOMAIN e.lanes |-> FreeCandidates(e, l)]
      /\ generated.backends = [n \in DOMAIN e.backends |->
                                  [kind      |-> e.backends[n].kind,
                                   paid      |-> e.backends[n].kind \in Paid,
                                   model     |-> e.backends[n].model,
                                   automatic |-> Automatic(e.backends[n])]]
  BY <1>1 DEF Rendered
<1>4. ASSUME NEW l \in DOMAIN generated.http_chain,
             NEW n \in ToSet(generated.http_chain[l]) \cup ToSet(generated.candidates[l])
      PROVE  /\ n \notin Claude /\ ~generated.backends[n].paid
             /\ generated.backends[n].kind = "or-free"
             /\ generated.backends[n].model # NoModel
  <2>1. l \in DOMAIN e.lanes /\ n \in ToSet(e.lanes[l].http) \cup ToSet(FreeCandidates(e, l))
    BY <1>3, <1>4
  <2>2. /\ n \in DOMAIN e.backends /\ n \notin Claude
        /\ e.backends[n].kind = "or-free" /\ e.backends[n].model # NoModel
    BY <2>1, <1>1, ChainsAreSafe
  <2>3. /\ generated.backends[n].kind = "or-free" /\ generated.backends[n].model # NoModel
        /\ generated.backends[n].paid = (e.backends[n].kind \in Paid)
    BY <2>2, <1>3
  <2>4. e.backends[n].kind \notin Paid
    BY <2>2 DEF Paid
  <2> QED  BY <2>2, <2>3, <2>4
<1>5. ASSUME NEW n \in DOMAIN generated.backends, generated.backends[n].automatic
      PROVE  n # Glm /\ ~generated.backends[n].paid
  <2>1. /\ n \in DOMAIN e.backends
        /\ generated.backends[n].automatic = Automatic(e.backends[n])
        /\ generated.backends[n].paid = (e.backends[n].kind \in Paid)
    BY <1>3, <1>5
  <2>2. Automatic(e.backends[n])
    BY <2>1, <1>5
  <2>3. n # Glm
    BY <2>1, <2>2, <1>1 DEF ValidExport
  <2>4. e.backends[n].kind \notin Paid
    BY <2>2 DEF Automatic
  <2> QED  BY <2>1, <2>3, <2>4
<1> QED  BY <1>2, <1>3, <1>4, <1>5 DEF GeneratedIsSafe

\* Whatever was exported and wherever a run of the tool stopped, the module on disk
\* is whole, as the exit status says, and safe to route by (sync_from_harness.py).
THEOREM GeneratedSafely == Spec => []GeneratedIsSafe
BY GoodIsSafe, SyncInvAlways, PTL

-----------------------------------------------------------------------------
(* Calls and the shared routers.                                           *)

\* One call that moves on within its invariant leaves the invariant true.
LEMMA OneCall ==
    ASSUME RoutersInv, NEW c \in Actors, NEW g, CallOK(g), call' = [call EXCEPT ![c] = g],
           UNCHANGED <<routers, built>>
    PROVE  RoutersInv'
<1>1. DOMAIN call' = Actors
  BY DEF RoutersInv
<1>2. \A d \in Actors : call'[d] = g \/ call'[d] = call[d]
  BY DEF RoutersInv
<1>3. \A d \in Actors : CallOK(call'[d])
  BY <1>2 DEF RoutersInv
<1>4. routers' = routers /\ built' = built
  OBVIOUS
<1> QED  BY <1>1, <1>3, <1>4 DEF RoutersInv, CallOK

\* What a call becomes when it goes on to the next candidate.
LEMMA AdvanceIs ==
    ASSUME NEW c \in Actors, CallOK(call[c])
    PROVE  /\ CallOK(Advance(c))
           /\ Advance(c).pc \in {"try", "unavailable"}
           /\ Advance(c).pc = "unavailable" <=> call[c].i = Len(Chain(c))
           /\ Advance(c).pc = "try" => Advance(c).i = call[c].i + 1
           /\ Advance(c).lane = call[c].lane /\ Advance(c).tried = call[c].tried
           /\ Advance(c).doubt = call[c].doubt /\ Advance(c).router = call[c].router
<1>1. CASE call[c].i = Len(Chain(c))
  <2>1. Advance(c) = [call[c] EXCEPT !.pc = "unavailable", !.seen = <<>>]
    BY <1>1 DEF Advance
  <2> QED  BY <1>1, <2>1 DEF CallOK, CallStates
<1>2. CASE call[c].i # Len(Chain(c))
  <2>1. Advance(c) = [call[c] EXCEPT !.pc = "try", !.i = call[c].i + 1, !.seen = <<>>]
    BY <1>2 DEF Advance
  <2>2. call[c].i \in Nat /\ call[c].i + 1 \in Nat
    BY DEF CallOK
  <2>3. PICK n \in Nat : n = call[c].i + 1
    BY <2>2
  <2>4. Advance(c) = [call[c] EXCEPT !.pc = "try", !.i = n, !.seen = <<>>]
    BY <2>1, <2>3
  <2>5. CallOK(Advance(c))
    BY <2>4 DEF CallOK, CallStates
  <2>6. /\ Advance(c).pc = "try" /\ Advance(c).i = n
        /\ Advance(c).lane = call[c].lane /\ Advance(c).tried = call[c].tried
        /\ Advance(c).doubt = call[c].doubt /\ Advance(c).router = call[c].router
    BY <2>4 DEF CallOK
  <2> QED  BY <1>2, <2>3, <2>5, <2>6
<1> QED  BY <1>1, <1>2

\* A look at a candidate for health: what the call becomes.
LEMMA HealthIs ==
    ASSUME NEW c \in Actors, DOMAIN call = Actors, CallOK(call[c]), Health(c)
    PROVE  \E pc \in {"health", "try", "unavailable"}, i \in Nat, live \in BOOLEAN :
              /\ call' = [call EXCEPT ![c] = [call[c] EXCEPT !.live = live, !.i = i, !.pc = pc]]
              /\ live <=> call[c].live \/ Eligible(c)
              /\ call[c].i = Len(Chain(c)) =>
                    i = 1 /\ pc = IF live THEN "try" ELSE "unavailable"
              /\ call[c].i # Len(Chain(c)) => i = call[c].i + 1 /\ pc = "health"
<1>1. PICK n \in Nat, eligible \in BOOLEAN, last \in BOOLEAN :
          n = call[c].i /\ (eligible <=> Eligible(c)) /\ (last <=> call[c].i = Len(Chain(c)))
  BY DEF CallOK
<1>2. PICK was \in BOOLEAN : was = call[c].live
  BY DEF CallOK
<1> DEFINE live == was \/ eligible
           i == IF last THEN 1 ELSE n + 1
           pc == IF ~last THEN "health" ELSE IF live THEN "try" ELSE "unavailable"
<1>3. call' = [call EXCEPT ![c] = [call[c] EXCEPT !.live = live, !.i = i, !.pc = pc]]
  BY <1>1, <1>2 DEF Health
<1>4. live \in BOOLEAN /\ i \in Nat /\ pc \in {"health", "try", "unavailable"}
  OBVIOUS
<1> QED  BY <1>1, <1>2, <1>3, <1>4

\* Threads that find no router build one for their key, and only one.
LEMMA BuildKeepsRouters ==
    ASSUME RoutersInv, NEW c \in Actors, BuildRouter(c)
    PROVE  RoutersInv'
<1> DEFINE h == call[c]
           k == h.key
<1>1. /\ h.pc = "build" /\ h.key \in RouterKeys /\ h.router = NoRouter /\ CallOK(h)
      /\ DOMAIN call = Actors
      /\ routers \in [RouterKeys -> Nat \cup {NoRouter}] /\ built \in [RouterKeys -> Nat]
  BY DEF BuildRouter, RoutersInv, CallOK
<1>2. /\ routers' \in [RouterKeys -> Nat \cup {NoRouter}] /\ built' \in [RouterKeys -> Nat]
      /\ \A j \in RouterKeys : routers[j] # NoRouter => routers'[j] = routers[j]
  <2>1. CASE routers[k] = NoRouter /\ CanBuild
    <3>1. /\ built' = [built EXCEPT ![k] = built[k] + 1]
          /\ routers' = [routers EXCEPT ![k] = built'[k]]
      BY <2>1 DEF BuildRouter
    <3>2. built' \in [RouterKeys -> Nat] /\ built'[k] \in Nat
      BY <3>1, <1>1
    <3> QED  BY <2>1, <3>1, <3>2, <1>1
  <2>2. CASE ~(routers[k] = NoRouter /\ CanBuild)
    BY <2>2, <1>1 DEF BuildRouter
  <2> QED  BY <2>1, <2>2
<1>3. PICK g : /\ call' = [call EXCEPT ![c] = g]
               /\ \/ /\ routers'[k] # NoRouter
                     /\ g = [h EXCEPT !.pc = "health", !.i = 1, !.router = routers'[k]]
                  \/ \E pc \in {"unavailable", "misconfigured"} : g = [h EXCEPT !.pc = pc]
  <2>1. CASE routers'[k] # NoRouter
    <3>1. call' = [call EXCEPT ![c] = [h EXCEPT !.pc = "health", !.i = 1, !.router = routers'[k]]]
      BY <2>1, <1>1 DEF BuildRouter
    <3> QED  BY <2>1, <3>1
  <2>2. CASE routers'[k] = NoRouter
    <3>1. PICK pc \in {"unavailable", "misconfigured"} : call' = [call EXCEPT ![c].pc = pc]
      BY <2>2 DEF BuildRouter
    <3>2. call' = [call EXCEPT ![c] = [h EXCEPT !.pc = pc]]
      BY <3>1, <1>1
    <3> QED  BY <3>2
  <2> QED  BY <2>1, <2>2
<1>4. CallOK(g)'
  <2>1. CASE /\ routers'[k] # NoRouter
             /\ g = [h EXCEPT !.pc = "health", !.i = 1, !.router = routers'[k]]
    BY <2>1, <1>1, <1>2 DEF CallOK, CallStates
  <2>2. ASSUME NEW pc \in {"unavailable", "misconfigured"}, g = [h EXCEPT !.pc = pc]
        PROVE  CallOK(g)'
    BY <2>2, <1>1 DEF CallOK, CallStates
  <2> QED  BY <1>3, <2>1, <2>2
<1>5. ASSUME NEW d \in Actors PROVE CallOK(call[d])'
  <2>1. CASE d = c
    <3>1. call'[d] = g
      BY <2>1, <1>3, <1>1
    <3> QED  BY <3>1, <1>4 DEF CallOK
  <2>2. CASE d # c
    <3>1. call'[d] = call[d] /\ CallOK(call[d])
      BY <2>2, <1>3, <1>1 DEF RoutersInv
    <3>2. call[d].router # NoRouter => call[d].router = routers'[call[d].key]
      BY <3>1, <1>2 DEF CallOK
    <3> QED  BY <3>1, <3>2 DEF CallOK
  <2> QED  BY <2>1, <2>2
<1>6. DOMAIN call' = Actors
  BY <1>1, <1>3
<1> QED  BY <1>2, <1>5, <1>6 DEF RoutersInv

\* The start of a call.
LEMMA NotCalledOK == CallOK(NotCalled)
BY DEF CallOK, CallStates, NotCalled

\* Every step keeps the calls and the routers in order.
LEMMA RoutersStep ==
    ASSUME RoutersInv, [Next]_vars
    PROVE  RoutersInv'
<1>0. /\ DOMAIN call = Actors /\ \A c \in Actors : CallOK(call[c])
      /\ routers \in [RouterKeys -> Nat \cup {NoRouter}]
  BY DEF RoutersInv
<1>1. ASSUME NEW c \in Actors, NEW l \in Lanes, NEW k \in RouterKeys, Call(c, l, k)
      PROVE  RoutersInv'
  <2> DEFINE doubt == {m \in Offered(l) : ~ModelIsFree(m)}
  <2>1. PICK g : /\ call' = [call EXCEPT ![c] = g]
                 /\ \/ \E pc \in {"misconfigured", "unavailable"} : g = [NotCalled EXCEPT !.pc = pc]
                    \/ g = [NotCalled EXCEPT !.lane = l, !.key = k, !.pc = "router",
                                             !.doubt = doubt]
    BY <1>1 DEF Call
  <2> HIDE DEF doubt
  <2>2. CallOK(g)
    BY <2>1, NotCalledOK DEF CallOK, CallStates, NotCalled
  <2> QED  BY <1>1, <2>1, <2>2, OneCall DEF Call
<1>2. ASSUME NEW c \in Actors, CachedRouter(c) PROVE RoutersInv'
  <2> DEFINE r == routers[call[c].key]
             g == [call[c] EXCEPT !.pc = "health", !.i = 1, !.router = r]
  <2>1. call' = [call EXCEPT ![c] = g] /\ UNCHANGED <<routers, built>> /\ r # NoRouter
    BY <1>0, <1>2 DEF CachedRouter
  <2>2. call[c].key \in RouterKeys /\ r \in Nat \cup {NoRouter}
    BY <1>0, <1>2 DEF CachedRouter, CallOK
  <2>3. PICK k \in RouterKeys, x \in Nat \cup {NoRouter} :
            k = call[c].key /\ x = r /\ x = routers[k]
    BY <2>2
  <2>4. CallOK([call[c] EXCEPT !.pc = "health", !.i = 1, !.router = x])
    BY <1>0, <2>3 DEF CallOK, CallStates
  <2> QED  BY <2>1, <2>3, <2>4, OneCall
<1>3. ASSUME NEW c \in Actors, NEW pc \in CallStates, Step(c, pc),
             UNCHANGED <<routers, built>>,
             pc \in {"router", "lock", "build"} => call[c].pc \in {"router", "lock", "build"}
      PROVE  RoutersInv'
  <2>1. call' = [call EXCEPT ![c] = [call[c] EXCEPT !.pc = pc]]
    BY <1>0, <1>3 DEF Step
  <2>2. CallOK([call[c] EXCEPT !.pc = pc])
    BY <1>0, <1>3 DEF CallOK
  <2> QED  BY <1>3, <2>1, <2>2, OneCall
<1>4. ASSUME NEW c \in Actors, NoCachedRouter(c) \/ Lock(c) \/ InvalidRequest(c)
      PROVE  RoutersInv'
  BY <1>3, <1>4 DEF NoCachedRouter, Lock, InvalidRequest, CallStates
<1>5. ASSUME NEW c \in Actors, Health(c) PROVE RoutersInv'
  <2>1. PICK pc \in {"health", "try", "unavailable"}, i \in Nat, live \in BOOLEAN :
            call' = [call EXCEPT ![c] = [call[c] EXCEPT !.live = live, !.i = i, !.pc = pc]]
    BY HealthIs, <1>0, <1>5
  <2>2. CallOK([call[c] EXCEPT !.live = live, !.i = i, !.pc = pc])
    BY <1>0, <1>5 DEF CallOK, CallStates
  <2>3. UNCHANGED <<routers, built>>
    BY <1>5 DEF Health
  <2> QED  BY <2>1, <2>2, <2>3, OneCall
<1>6. ASSUME NEW c \in Actors, Skip(c) PROVE RoutersInv'
  <2>1. CallOK(Advance(c))
    BY <1>0, AdvanceIs
  <2> QED  BY <1>6, <2>1, OneCall DEF Skip
<1>7. ASSUME NEW c \in Actors, Try(c) PROVE RoutersInv'
  <2> DEFINE tried == Append(call[c].tried, Current(c))
             g == [call[c] EXCEPT !.pc = "attempt", !.tried = tried]
  <2>1. call' = [call EXCEPT ![c] = g] /\ UNCHANGED <<routers, built>> /\ call[c].pc = "try"
    BY <1>0, <1>7 DEF Try
  <2> HIDE DEF tried
  <2>2. CallOK(g)
    BY <1>0, <2>1 DEF CallOK, CallStates
  <2> QED  BY <2>1, <2>2, OneCall
<1>8. ASSUME NEW c \in Actors, Attempt(c) PROVE RoutersInv'
  <2>1. CASE att[c].pc = "check"
    <3> DEFINE seen == IF catalog.reachable THEN catalog.entries[att[c].req.model] ELSE <<>>
    <3>1. call' = [call EXCEPT ![c] = [call[c] EXCEPT !.seen = seen]]
      BY <1>0, <1>8, <2>1 DEF Attempt
    <3> HIDE DEF seen
    <3>2. CallOK([call[c] EXCEPT !.seen = seen])
      BY <1>0 DEF CallOK
    <3> QED  BY <1>8, <3>1, <3>2, OneCall DEF Attempt
  <2>2. CASE att[c].pc # "check"
    BY <2>2, <1>8 DEF Attempt, RoutersInv, CallOK
  <2> QED  BY <2>1, <2>2
<1>9. ASSUME NEW c \in Actors, Finish(c) PROVE RoutersInv'
  <2>1. CASE att[c].phase = "success"
    <3>1. PICK pc \in {"failed", "answered"} :
             call' = [call EXCEPT ![c] = [call[c] EXCEPT !.pc = pc]]
      BY <2>1, <1>0, <1>9 DEF Finish
    <3>2. CallOK([call[c] EXCEPT !.pc = pc])
      BY <1>0 DEF CallOK, CallStates
    <3> QED  BY <1>9, <3>1, <3>2, OneCall DEF Finish
  <2>2. CASE att[c].phase # "success"
    <3>1. call' = [call EXCEPT ![c] = Advance(c)]
      BY <2>2, <1>9 DEF Finish
    <3> QED  BY <1>0, <1>9, <3>1, AdvanceIs, OneCall DEF Finish
  <2> QED  BY <2>1, <2>2
<1>10. CASE Repricing
  <2>1. /\ DOMAIN call' = Actors
        /\ \A c \in Actors : call'[c] = call[c]
              \/ \E doubt : call'[c] = [call[c] EXCEPT !.doubt = doubt]
    BY <1>10 DEF Repricing
  <2>2. ASSUME NEW c \in Actors PROVE CallOK(call'[c])
    BY <2>1, <1>0 DEF CallOK
  <2>3. routers' = routers /\ built' = built
    BY <1>10 DEF Repricing
  <2> QED  BY <2>1, <2>2, <2>3 DEF RoutersInv, CallOK
<1>11. CASE UNCHANGED <<routers, built, call>>
  BY <1>11 DEF RoutersInv, CallOK
<1>12. \/ UNCHANGED <<routers, built, call>> \/ Repricing
       \/ \E c \in Actors : CallStep(c) \/ \E l \in Lanes, k \in RouterKeys : Call(c, l, k)
  <2>1. CASE Next
    BY <2>1 DEF Next, Sync, Install, PaidStep, PaidAttempt, clientVars
  <2>2. CASE UNCHANGED vars
    BY <2>2 DEF vars, clientVars
  <2> QED  BY <2>1, <2>2
<1> QED  BY <1>1, <1>2, <1>4, <1>5, <1>6, <1>7, <1>8, <1>9, <1>10, <1>11, <1>12, BuildKeepsRouters
            DEF CallStep

\* The calls know the routers of their keys (_get_router).
THEOREM RoutersInvAlways == Spec => []RoutersInv
<1>1. Init => RoutersInv
  <2>1. Init => /\ routers = [k \in RouterKeys |-> NoRouter] /\ built = [k \in RouterKeys |-> 0]
                /\ call = [c \in Actors |-> NotCalled]
    BY DEF Init
  <2> QED  BY <2>1, NotCalledOK DEF RoutersInv
<1> QED  BY <1>1, RoutersStep, PTL DEF Spec

\* Threads that ask for a router of a key at once are given the same one, and no
\* call works with a router that was replaced (_get_router).
THEOREM RoutersShared == Spec => []OneRouterPerKey
<1>1. RoutersInv => OneRouterPerKey
  BY DEF RoutersInv, CallOK, OneRouterPerKey
<1> QED  BY <1>1, RoutersInvAlways, PTL

-----------------------------------------------------------------------------
(* Calls and the candidates of their lanes.                                *)

\* The candidates of a lane are a sequence of what is fit on its HTTP chain.
LEMMA CandidatesFit ==
    ASSUME SyncInv, policy # NoFile, NEW l \in DOMAIN policy.candidates
    PROVE  /\ DOMAIN Candidates(l) = 1 .. Len(Candidates(l)) /\ Len(Candidates(l)) \in Nat
           /\ Candidates(l) # <<>> => 1 \in DOMAIN Candidates(l)
           /\ \A n \in ToSet(Candidates(l)) :
                 /\ n \in ToSet(policy.http_chain[l])
                 /\ policy.backends[n].kind = "or-free" /\ policy.backends[n].automatic
<1>1. PICK e \in Exports : ValidExport(e) /\ policy = Rendered(e)
  BY DEF SyncInv, Good
<1>2. /\ policy.http_chain = [x \in DOMAIN e.lanes |-> e.lanes[x].http]
      /\ policy.candidates = [x \in DOMAIN e.lanes |-> FreeCandidates(e, x)]
  BY <1>1 DEF Rendered
<1>3. PICK chain : chain = policy.http_chain[l] /\ chain \in Seq(ToSet(chain))
  BY <1>2, SyncAssumption
<1> DEFINE fit(b) == b.kind = "or-free" /\ b.automatic /\ ~b.paid /\ b.model # NoModel
           P == {i \in DOMAIN chain : fit(policy.backends[chain[i]])}
<1>4. Candidates(l) = At(chain, P)
  BY <1>3 DEF Candidates
<1>5. P \in SUBSET DOMAIN chain /\ \A i \in P : fit(policy.backends[chain[i]])
  OBVIOUS
<1> HIDE DEF P
<1>6. /\ DOMAIN At(chain, P) = 1 .. Len(At(chain, P)) /\ Len(At(chain, P)) \in Nat
      /\ \A k \in DOMAIN At(chain, P) : \E i \in P : At(chain, P)[k] = chain[i]
      /\ At(chain, P) # <<>> => 1 \in DOMAIN At(chain, P)
  BY <1>3, <1>5, AtFacts
<1>7. ASSUME NEW n \in ToSet(Candidates(l))
      PROVE  /\ n \in ToSet(chain)
             /\ policy.backends[n].kind = "or-free" /\ policy.backends[n].automatic
  <2>1. PICK k \in DOMAIN At(chain, P) : n = At(chain, P)[k]
    BY <1>4 DEF ToSet
  <2>2. PICK i \in P : n = chain[i]
    BY <1>6, <2>1
  <2> QED  BY <1>5, <2>2 DEF ToSet
<1> QED  BY <1>3, <1>4, <1>6, <1>7

\* A call that stays in its lane keeps its candidates.
LEMMA SameChain ==
    ASSUME NEW c \in Actors, UNCHANGED policy, call'[c].lane = call[c].lane
    PROVE  Chain(c)' = Chain(c) /\ (Placed(c) => Placed(c)')
BY DEF Chain, Candidates, Placed

\* The chain of a call that has a lane.
LEMMA ChainOf ==
    ASSUME SyncInv, NEW c \in Actors, Placed(c)
    PROVE  /\ DOMAIN Chain(c) = 1 .. Len(Chain(c)) /\ Len(Chain(c)) \in Nat
           /\ 1 \in DOMAIN Chain(c)
           /\ \A n \in ToSet(Chain(c)) :
                 /\ n \in ToSet(policy.http_chain[call[c].lane])
                 /\ policy.backends[n].kind = "or-free" /\ policy.backends[n].automatic
BY CandidatesFit DEF Placed, Chain

\* A step of one call, on a lane it keeps or is given.
LEMMA OneChain ==
    ASSUME ChainInv, NEW c \in Actors, ChainOK(c)', UNCHANGED <<plan, policy>>,
           \A d \in Actors \ {c} : call'[d] = call[d] /\ att'[d] = att[d]
    PROVE  ChainInv'
<1>1. ASSUME NEW d \in Actors \ {c} PROVE ChainOK(d)'
  <2>1. Chain(d)' = Chain(d) /\ call'[d] = call[d] /\ att'[d] = att[d]
    BY SameChain
  <2> QED  BY <2>1 DEF ChainInv, ChainOK, Placed, Running, Current
<1> QED  BY <1>1 DEF ChainInv

\* A call that has not begun.
LEMMA NotCalledChain ==
    ASSUME NEW c \in Actors, call[c] = NotCalled
    PROVE  ChainOK(c)
<1>1. /\ call[c].pc = "idle" /\ call[c].tried = <<>> /\ call[c].router = NoRouter
  BY DEF NotCalled
<1>2. \A S : <<>> \in Seq(S)
  OBVIOUS
<1> QED  BY <1>1, <1>2 DEF ChainOK, Running

\* And one that has not begun after a step.
LEMMA NotCalledChainNext ==
    ASSUME NEW c \in Actors, call'[c] = NotCalled
    PROVE  ChainOK(c)'
<1>1. /\ call'[c].pc = "idle" /\ call'[c].tried = <<>> /\ call'[c].router = NoRouter
  BY DEF NotCalled
<1>2. \A S : <<>> \in Seq(S)
  OBVIOUS
<1> QED  BY <1>1, <1>2 DEF ChainOK, Running

\* A sequence with one element more.
LEMMA Appended ==
    ASSUME NEW S, NEW s \in Seq(S), NEW x \in S
    PROVE  /\ Append(s, x) \in Seq(S)
           /\ ToSet(Append(s, x)) = ToSet(s) \cup {x}
<1>1. /\ Append(s, x) \in Seq(S) /\ Len(Append(s, x)) = Len(s) + 1 /\ Len(s) \in Nat
      /\ DOMAIN s = 1 .. Len(s) /\ DOMAIN Append(s, x) = 1 .. Len(s) + 1
      /\ \A i \in 1 .. Len(s) : Append(s, x)[i] = s[i]
      /\ Append(s, x)[Len(s) + 1] = x
  OBVIOUS
<1>2. 1 .. Len(s) + 1 = (1 .. Len(s)) \cup {Len(s) + 1}
  BY <1>1
<1> QED  BY <1>1, <1>2 DEF ToSet

\* A step of the adapter changes nothing but its own attempt, and not the request.
LEMMA AdapterStepIs ==
    ASSUME AttemptsInv, NEW a \in Actors, AdapterStep(a)
    PROVE  /\ att'[a].req = att[a].req
           /\ \A b \in Actors \ {a} : att'[b] = att[b]
           /\ UNCHANGED <<credential, catalog>>
<1>1. DOMAIN att = Actors /\ AttemptOK(att[a])
  BY DEF AttemptsInv
<1>2. att[a] \in [pc : {"idle", "check", "build", "open", "wire", "done"}, req : {att[a].req},
                  reserved : Nat, phase : Phases, charge : {att[a].charge},
                  work : {att[a].work},
                  answer : {"awaited", "status", "none", "unusable", "no_usage", "text", "other"}]
  BY <1>1 DEF AttemptOK
<1>3. UNCHANGED <<credential, catalog>>
  BY DEF AdapterStep, LiveCheck, Build, Send, Rejected, NoAnswer, Unusable, Answered
<1> DEFINE Same == att'[a].req = att[a].req /\ \A b \in Actors \ {a} : att'[b] = att[b]
<1>4. CASE LiveCheck(a)
  BY <1>1, <1>2, <1>4 DEF LiveCheck, End
<1>5. CASE Build(a)
  BY <1>1, <1>2, <1>5 DEF Build, End
<1>6. CASE Send(a)
  BY <1>1, <1>2, <1>6 DEF Send
<1>7. CASE Rejected(a) \/ NoAnswer(a) \/ Unusable(a)
  BY <1>1, <1>2, <1>7 DEF Rejected, NoAnswer, Unusable
<1>8. ASSUME NEW usage \in BOOLEAN, NEW text \in BOOLEAN, Answered(a, usage, text) PROVE Same
  <2>1. PICK said, charge : att' = [att EXCEPT ![a].pc = "done", ![a].phase = "success",
                                               ![a].answer = said, ![a].charge = charge]
    BY <1>8 DEF Answered
  <2> QED  BY <1>1, <1>2, <2>1
<1> QED  BY <1>3, <1>4, <1>5, <1>6, <1>7, <1>8 DEF AdapterStep

-----------------------------------------------------------------------------
(* What a step of a call is to the call.                                   *)

\* It looks for the router of its key.
Seeks(c) ==
    /\ call[c].pc \in {"router", "lock"} /\ call'[c].pc \in {"lock", "build"}
    /\ call'[c].router = call[c].router /\ call'[c].tried = call[c].tried

\* It has found one.
Starts(c) ==
    /\ call[c].pc \in {"router", "build"} /\ call'[c].pc = "health" /\ call'[c].i = 1
    /\ call'[c].tried = call[c].tried

\* It looks at the candidates.
Looks(c) ==
    /\ call[c].pc = "health" /\ call'[c].pc \in {"health", "try", "unavailable"}
    /\ call'[c].tried = call[c].tried
    /\ call'[c].live \in BOOLEAN /\ (call'[c].live <=> call[c].live \/ Eligible(c))
    /\ call[c].i = Len(Chain(c)) =>
          call'[c].i = 1 /\ call'[c].pc = IF call'[c].live THEN "try" ELSE "unavailable"
    /\ call[c].i # Len(Chain(c)) => call'[c].i = call[c].i + 1 /\ call'[c].pc = "health"

\* It ends, otherwise than for want of a candidate.
Ends(c) ==
    /\ call'[c].tried = call[c].tried
    /\ \/ call'[c].pc \in {"answered", "failed", "misconfigured"}
       \/ call'[c].pc = "unavailable" /\ call'[c].router = NoRouter

\* It goes on to the next candidate.
GoesOn(c) ==
    /\ call[c].pc = "attempt" \/ (call[c].pc = "try" /\ ~Eligible(c))
    /\ call'[c] = Advance(c)

\* It begins an attempt on a candidate.
Tries(c) ==
    /\ call[c].pc = "try" /\ call'[c].pc = "attempt" /\ call'[c].i = call[c].i
    /\ call'[c].tried = Append(call[c].tried, Current(c)) /\ att'[c].req.live
    /\ att'[c].pc = "check"

\* The adapter works at it.
Works(c) ==
    /\ call[c].pc = "attempt" /\ call'[c].pc = "attempt" /\ call'[c].i = call[c].i
    /\ call'[c].tried = call[c].tried /\ att'[c].req = att[c].req

\* A step of a call is one of the kinds above, and leaves its lane, the other calls
\* and the prices alone.
LEMMA CallStepIs ==
    ASSUME RoutersInv, AttemptsInv, NEW c \in Actors, CallStep(c)
    PROVE  /\ Running(c) /\ call[c] # NotCalled
           /\ call'[c].lane = call[c].lane /\ call'[c].doubt = call[c].doubt
           /\ \A d \in Actors \ {c} : call'[d] = call[d] /\ att'[d] = att[d]
           /\ UNCHANGED <<plan, policy, credential, catalog>>
           /\ \/ Seeks(c) \/ Starts(c) \/ Looks(c) \/ Ends(c) \/ GoesOn(c) \/ Tries(c)
              \/ Works(c)
<1>0. /\ DOMAIN call = Actors /\ DOMAIN att = Actors /\ CallOK(call[c])
      /\ call[c] \in [pc : CallStates, lane : {call[c].lane}, key : {call[c].key}, i : Nat,
                      live : BOOLEAN, router : Nat \cup {NoRouter}, doubt : {call[c].doubt},
                      tried : {call[c].tried}, seen : {call[c].seen}]
  BY DEF RoutersInv, AttemptsInv, CallOK
<1>1. call[c].pc \in {"router", "lock", "build", "health", "try", "attempt"}
  BY DEF CallStep, CachedRouter, NoCachedRouter, Lock, BuildRouter, Health, InvalidRequest,
         Skip, Try, Attempt, Finish
<1>2. Running(c) /\ call[c] # NotCalled
  BY <1>1 DEF Running, NotCalled
<1>3. CASE CachedRouter(c)
  <2>1. Starts(c) /\ call'[c].lane = call[c].lane /\ call'[c].doubt = call[c].doubt
    BY <1>0, <1>3 DEF CachedRouter, Starts
  <2>2. \A d \in Actors \ {c} : call'[d] = call[d]
    BY <1>0, <1>3 DEF CachedRouter
  <2> QED  BY <1>2, <1>3, <2>1, <2>2 DEF CachedRouter, adapterVars
<1>4. CASE NoCachedRouter(c)
  <2>1. Seeks(c) /\ call'[c].lane = call[c].lane /\ call'[c].doubt = call[c].doubt
    BY <1>0, <1>4 DEF NoCachedRouter, Step, Seeks
  <2> QED  BY <1>2, <1>4, <2>1 DEF NoCachedRouter, Step, adapterVars
<1>5. CASE Lock(c)
  <2>1. Seeks(c) /\ call'[c].lane = call[c].lane /\ call'[c].doubt = call[c].doubt
    BY <1>0, <1>5 DEF Lock, Step, Seeks
  <2> QED  BY <1>2, <1>5, <2>1 DEF Lock, Step, adapterVars
<1>6. CASE BuildRouter(c)
  <2>1. call[c].router = NoRouter /\ call[c].pc = "build"
    BY <1>0, <1>6 DEF BuildRouter, CallOK
  <2>2. CASE call' = [call EXCEPT ![c].pc = "health", ![c].i = 1,
                                  ![c].router = routers'[call[c].key]]
    <3>1. Starts(c) /\ call'[c].lane = call[c].lane /\ call'[c].doubt = call[c].doubt
      BY <1>0, <2>1, <2>2 DEF Starts
    <3>2. \A d \in Actors \ {c} : call'[d] = call[d]
      BY <1>0, <2>2
    <3> QED  BY <1>2, <1>6, <3>1, <3>2 DEF BuildRouter, adapterVars
  <2>3. ASSUME NEW pc \in {"unavailable", "misconfigured"}, call' = [call EXCEPT ![c].pc = pc]
        PROVE  /\ Ends(c) /\ call'[c].lane = call[c].lane /\ call'[c].doubt = call[c].doubt
               /\ \A d \in Actors \ {c} : call'[d] = call[d]
    BY <1>0, <2>1, <2>3 DEF Ends
  <2>4. UNCHANGED <<att, plan, policy, credential, catalog>>
    BY <1>6 DEF BuildRouter, adapterVars
  <2> QED  BY <1>2, <1>6, <2>2, <2>3, <2>4 DEF BuildRouter
<1>7. CASE Health(c)
  <2>1. PICK pc \in {"health", "try", "unavailable"}, i \in Nat, live \in BOOLEAN :
              /\ call' = [call EXCEPT ![c] = [call[c] EXCEPT !.live = live, !.i = i, !.pc = pc]]
              /\ live <=> call[c].live \/ Eligible(c)
              /\ call[c].i = Len(Chain(c)) =>
                    i = 1 /\ pc = IF live THEN "try" ELSE "unavailable"
              /\ call[c].i # Len(Chain(c)) => i = call[c].i + 1 /\ pc = "health"
    BY <1>0, <1>7, HealthIs
  <2>2. /\ call'[c].pc = pc /\ call'[c].i = i /\ call'[c].live = live
        /\ call'[c].tried = call[c].tried
        /\ call'[c].lane = call[c].lane /\ call'[c].doubt = call[c].doubt
    BY <1>0, <2>1
  <2>3. Looks(c)
    BY <1>7, <2>1, <2>2 DEF Looks, Health
  <2> QED  BY <1>0, <1>2, <1>7, <2>1, <2>2, <2>3 DEF Health, adapterVars
<1>8. CASE InvalidRequest(c)
  <2>1. Ends(c) /\ call'[c].lane = call[c].lane /\ call'[c].doubt = call[c].doubt
    BY <1>0, <1>8 DEF InvalidRequest, Step, Ends
  <2> QED  BY <1>2, <1>8, <2>1 DEF InvalidRequest, Step, adapterVars
<1>9. CASE Skip(c)
  <2>1. GoesOn(c)
    BY <1>0, <1>9 DEF Skip, GoesOn
  <2>2. call'[c].lane = call[c].lane /\ call'[c].doubt = call[c].doubt
    BY <1>0, <2>1, AdvanceIs DEF GoesOn
  <2> QED  BY <1>2, <1>9, <2>1, <2>2 DEF Skip, adapterVars
<1>10. CASE Try(c)
  <2> DEFINE req == [model |-> Model(Current(c)), card |-> FreeCard, live |-> TRUE,
                     chars |-> 1, max_output |-> 0]
             tried == Append(call[c].tried, Current(c))
  <2>1. /\ call' = [call EXCEPT ![c].pc = "attempt", ![c].tried = tried]
        /\ att' = [att EXCEPT ![c] = [NoAttempt EXCEPT !.pc = "check", !.req = req,
                                                       !.reserved = 0]]
    BY <1>10 DEF Try, Begin
  <2>2. req.live
    OBVIOUS
  <2>3. PICK w : NoAttempt = [pc |-> "idle", req |-> NoReq, reserved |-> 0, phase |-> "underway",
                              charge |-> 0, work |-> w, answer |-> "awaited"]
    BY NoAttemptIs
  <2> HIDE DEF req, tried
  <2>4. att'[c].req = req /\ att'[c].pc = "check"
    BY <1>0, <2>1, <2>3
  <2>5. att'[c].req.live
    BY <2>2, <2>4
  <2>6. /\ call'[c].pc = "attempt" /\ call'[c].i = call[c].i /\ call'[c].tried = tried
        /\ call'[c].lane = call[c].lane /\ call'[c].doubt = call[c].doubt
        /\ \A d \in Actors \ {c} : call'[d] = call[d] /\ att'[d] = att[d]
    BY <1>0, <2>1
  <2>7. Tries(c)
    BY <1>10, <2>4, <2>5, <2>6 DEF Tries, Try, tried
  <2> QED  BY <1>2, <1>10, <2>6, <2>7 DEF Try
<1>11. CASE Attempt(c)
  <2>1. /\ att'[c].req = att[c].req /\ \A d \in Actors \ {c} : att'[d] = att[d]
        /\ UNCHANGED <<credential, catalog>> /\ call[c].pc = "attempt"
    BY <1>11, AdapterStepIs DEF Attempt
  <2>2. PICK seen : call' = [call EXCEPT ![c].seen = seen] \/ call' = call
    BY <1>11 DEF Attempt
  <2>3. /\ Works(c) /\ call'[c].lane = call[c].lane /\ call'[c].doubt = call[c].doubt
        /\ \A d \in Actors \ {c} : call'[d] = call[d]
    BY <1>0, <2>1, <2>2 DEF Works
  <2> QED  BY <1>2, <1>11, <2>1, <2>3 DEF Attempt
<1>12. CASE Finish(c)
  <2>1. CASE att[c].phase = "success"
    <3>1. PICK pc \in {"failed", "answered"} :
             call' = [call EXCEPT ![c] = [call[c] EXCEPT !.pc = pc]]
      BY <2>1, <1>12 DEF Finish
    <3>2. Ends(c) /\ call'[c].lane = call[c].lane /\ call'[c].doubt = call[c].doubt
      BY <1>0, <3>1 DEF Ends
    <3> QED  BY <1>0, <1>2, <1>12, <3>1, <3>2 DEF Finish
  <2>2. CASE att[c].phase # "success"
    <3>1. call' = [call EXCEPT ![c] = Advance(c)] /\ call[c].pc = "attempt"
      BY <2>2, <1>12 DEF Finish
    <3>2. GoesOn(c)
      BY <1>0, <3>1 DEF GoesOn
    <3>3. call'[c].lane = call[c].lane /\ call'[c].doubt = call[c].doubt
      BY <1>0, <3>2, AdvanceIs DEF GoesOn
    <3> QED  BY <1>0, <1>2, <1>12, <3>1, <3>2, <3>3 DEF Finish
  <2> QED  BY <2>1, <2>2
<1> QED  BY <1>3, <1>4, <1>5, <1>6, <1>7, <1>8, <1>9, <1>10, <1>11, <1>12 DEF CallStep

\* A step of a call keeps it in its lane, at a candidate of it.
LEMMA CallStepKeepsChain ==
    ASSUME SyncInv, AttemptsInv, RoutersInv, ChainInv, NEW c \in Actors, CallStep(c)
    PROVE  ChainInv'
<1>1. /\ Running(c) /\ call[c] # NotCalled /\ call'[c].lane = call[c].lane
      /\ \A d \in Actors \ {c} : call'[d] = call[d] /\ att'[d] = att[d]
      /\ UNCHANGED <<plan, policy>>
      /\ \/ Seeks(c) \/ Starts(c) \/ Looks(c) \/ Ends(c) \/ GoesOn(c) \/ Tries(c) \/ Works(c)
  BY CallStepIs
<1>2. ChainOK(c) /\ Placed(c) /\ CallOK(call[c])
  BY <1>1 DEF ChainInv, ChainOK, RoutersInv
<1>3. ~(plan' = "paid" \/ policy' = NoFile)
  BY <1>1, <1>2 DEF ChainOK
<1>4. Chain(c)' = Chain(c) /\ Placed(c)'
  BY <1>1, <1>2, SameChain
<1> DEFINE S == ToSet(Chain(c))
           n == Len(Chain(c))
           i == call[c].i
<1>5. DOMAIN Chain(c) = 1 .. n /\ n \in Nat /\ 1 \in DOMAIN Chain(c)
  BY <1>2, ChainOf
<1>6. call[c].tried \in Seq(S)
  BY <1>2 DEF ChainOK
<1>7. i \in DOMAIN Chain(c) \/ call[c].pc \notin {"health", "try", "attempt"}
  BY <1>2 DEF ChainOK
<1>8. ASSUME call'[c].tried \in Seq(S),
             call'[c].pc \in {"health", "try", "attempt"} => call'[c].i \in DOMAIN Chain(c),
             call'[c].pc = "attempt" =>
                 att'[c].req.live /\ Chain(c)[call'[c].i] \in ToSet(call'[c].tried)
      PROVE  ChainInv'
  <2>1. ChainOK(c)'
    BY <1>3, <1>4, <1>8 DEF ChainOK, Current
  <2> QED  BY <1>1, <2>1, OneChain
<1>9. CASE Seeks(c)
  BY <1>6, <1>8, <1>9 DEF Seeks
<1>10. CASE Starts(c)
  BY <1>5, <1>6, <1>8, <1>10 DEF Starts
<1>11. CASE Looks(c)
  <2>1. call'[c].i \in DOMAIN Chain(c)
    BY <1>5, <1>7, <1>11 DEF Looks
  <2>2. call'[c].pc # "attempt" /\ call'[c].tried = call[c].tried
    BY <1>11 DEF Looks
  <2> QED  BY <1>6, <1>8, <2>1, <2>2
<1>12. CASE Ends(c)
  BY <1>6, <1>8, <1>12 DEF Ends
<1>13. CASE GoesOn(c)
  <2>1. /\ call'[c].pc \in {"try", "unavailable"}
        /\ call'[c].pc = "unavailable" <=> i = n
        /\ call'[c].pc = "try" => call'[c].i = i + 1
        /\ call'[c].tried = call[c].tried
    BY <1>2, <1>13, AdvanceIs DEF GoesOn
  <2>2. i \in 1 .. n
    BY <1>5, <1>7, <1>13 DEF GoesOn
  <2>3. call'[c].pc = "try" => call'[c].i \in DOMAIN Chain(c)
    BY <1>5, <2>1, <2>2
  <2> QED  BY <1>6, <1>8, <2>1, <2>3
<1>14. CASE Tries(c)
  <2>1. i \in DOMAIN Chain(c)
    BY <1>7, <1>14 DEF Tries
  <2>2. Current(c) \in S
    BY <2>1 DEF ToSet, Current
  <2>3. /\ call'[c].tried \in Seq(S)
        /\ Current(c) \in ToSet(call'[c].tried)
    BY <1>6, <1>14, <2>2, Appended DEF Tries
  <2> QED  BY <1>8, <1>14, <2>1, <2>3 DEF Tries, Current
<1>15. CASE Works(c)
  <2>1. att[c].req.live /\ Current(c) \in ToSet(call[c].tried) /\ i \in DOMAIN Chain(c)
    BY <1>2, <1>15 DEF Works, ChainOK
  <2> QED  BY <1>6, <1>8, <1>15, <2>1 DEF Works, Current
<1> QED  BY <1>1, <1>9, <1>10, <1>11, <1>12, <1>13, <1>14, <1>15

\* So does every other step: it begins a call, or changes none.
LEMMA ChainStep ==
    ASSUME SyncInv, AttemptsInv, RoutersInv, ChainInv, [Next]_vars
    PROVE  ChainInv'
<1>1. ASSUME NEW c \in Actors, CallStep(c) PROVE ChainInv'
  BY <1>1, CallStepKeepsChain
<1>2. ASSUME NEW c \in Actors, NEW l \in Lanes, NEW k \in RouterKeys, Call(c, l, k)
      PROVE  ChainInv'
  <2> DEFINE doubt == {m \in Offered(l) : ~ModelIsFree(m)}
  <2>1. /\ DOMAIN call = Actors /\ plan = "free" /\ policy # NoFile
        /\ UNCHANGED <<plan, policy, att>>
    BY <1>2 DEF Call, adapterVars, RoutersInv
  <2>2. PICK g : /\ call' = [call EXCEPT ![c] = g]
                 /\ \/ \E pc \in {"misconfigured", "unavailable"} : g = [NotCalled EXCEPT !.pc = pc]
                    \/ /\ l \in DOMAIN policy.candidates /\ Candidates(l) # <<>>
                       /\ g = [NotCalled EXCEPT !.lane = l, !.key = k, !.pc = "router",
                                                !.doubt = doubt]
    BY <1>2 DEF Call
  <2>3. call'[c] = g /\ \A d \in Actors \ {c} : call'[d] = call[d] /\ att'[d] = att[d]
    BY <2>1, <2>2
  <2> HIDE DEF doubt
  <2>4. \A T : <<>> \in Seq(T)
    OBVIOUS
  <2>5. ChainOK(c)'
    <3>1. CASE \E pc \in {"misconfigured", "unavailable"} : g = [NotCalled EXCEPT !.pc = pc]
      <4>1. /\ g.pc \in {"misconfigured", "unavailable"} /\ g.tried = <<>>
            /\ g.router = NoRouter
        BY <3>1 DEF NotCalled
      <4> QED  BY <2>1, <2>3, <2>4, <4>1 DEF ChainOK, Running
    <3>2. CASE /\ l \in DOMAIN policy.candidates /\ Candidates(l) # <<>>
               /\ g = [NotCalled EXCEPT !.lane = l, !.key = k, !.pc = "router",
                                        !.doubt = doubt]
      <4>1. g.pc = "router" /\ g.tried = <<>> /\ g.lane = l
        BY <3>2 DEF NotCalled
      <4>2. Candidates(l)' = Candidates(l)
        BY <2>1 DEF Candidates
      <4>3. Chain(c)' = Candidates(l)
        BY <2>3, <4>1, <4>2, <2>1 DEF Chain, Candidates
      <4>4. Placed(c)'
        BY <2>1, <2>3, <3>2, <4>1, <4>3 DEF Placed
      <4> QED  BY <2>1, <2>3, <2>4, <4>1, <4>4 DEF ChainOK
    <3> QED  BY <2>2, <3>1, <3>2
  <2> QED  BY <2>1, <2>3, <2>5, OneChain
<1>3. CASE Install
  <2>1. policy = NoFile /\ UNCHANGED call
    BY <1>3 DEF Install
  <2>2. \A c \in Actors : call'[c] = NotCalled
    BY <2>1 DEF ChainInv, ChainOK
  <2> QED  BY <2>2, NotCalledChain, NotCalledChainNext DEF ChainInv
<1>4. CASE plan = "paid" /\ UNCHANGED call
  <2>1. \A c \in Actors : call'[c] = NotCalled
    BY <1>4 DEF ChainInv, ChainOK
  <2> QED  BY <2>1, NotCalledChainNext DEF ChainInv
<1>5. CASE UNCHANGED <<plan, policy, call, att>>
  <2>1. ASSUME NEW c \in Actors PROVE ChainOK(c)'
    <3>1. Chain(c)' = Chain(c) /\ ChainOK(c)
      BY <1>5, SameChain DEF ChainInv
    <3> QED  BY <1>5, <3>1 DEF ChainOK, Placed, Running, Current
  <2> QED  BY <2>1 DEF ChainInv
<1>6. CASE Repricing
  <2>1. ASSUME NEW c \in Actors PROVE ChainOK(c)'
    <3>1. /\ UNCHANGED <<plan, policy, att>> /\ ChainOK(c) /\ CallOK(call[c])
          /\ call'[c] = call[c]
             \/ (Running(c) /\ \E doubt : call'[c] = [call[c] EXCEPT !.doubt = doubt])
      BY <1>6 DEF Repricing, ChainInv, RoutersInv
    <3>2. /\ call'[c].pc = call[c].pc /\ call'[c].tried = call[c].tried
          /\ call'[c].router = call[c].router /\ call'[c].i = call[c].i
          /\ call'[c].lane = call[c].lane
      BY <3>1 DEF CallOK
    <3>3. Chain(c)' = Chain(c)
      BY <3>1, <3>2, SameChain
    <3>4. plan = "paid" \/ policy = NoFile => call'[c] = NotCalled
      BY <3>1 DEF ChainOK, Running, NotCalled
    <3> QED  BY <3>1, <3>2, <3>3, <3>4 DEF ChainOK, Placed, Running, Current
  <2> QED  BY <2>1 DEF ChainInv
<1>7. \/ UNCHANGED <<plan, policy, call, att>> \/ Install \/ Repricing
      \/ plan = "paid" /\ UNCHANGED call
      \/ \E c \in Actors : CallStep(c) \/ \E l \in Lanes, k \in RouterKeys : Call(c, l, k)
  <2>1. CASE Next
    BY <2>1 DEF Next, Sync, PaidStep, PaidAttempt, adapterVars, clientVars
  <2>2. CASE UNCHANGED vars
    BY <2>2 DEF vars, adapterVars, clientVars
  <2> QED  BY <2>1, <2>2
<1> QED  BY <1>1, <1>2, <1>3, <1>4, <1>5, <1>6, <1>7

\* A call is at a candidate of its lane, and has tried only candidates of its lane
\* (Router._run_free_sync, _lane_candidates).
THEOREM ChainInvAlways == Spec => []ChainInv
<1>1. Init => ChainInv
  <2>1. ASSUME Init, NEW c \in Actors PROVE ChainOK(c)
    BY <2>1, NotCalledChain DEF Init
  <2> QED  BY <2>1 DEF ChainInv
<1> QED  BY <1>1, ChainStep, SyncInvAlways, AttemptsInvAlways, RoutersInvAlways, PTL DEF Spec

\* What an accepted export offers for a lane is all that a call of it tries.
LEMMA TriedIsOffered ==
    ASSUME SyncInv, ChainInv
    PROVE  OnlyWhatTheHarnessOffers
<1> SUFFICES ASSUME NEW c \in Actors, call[c].tried # <<>>
             PROVE  \E x \in Origins :
                       /\ x[2] = policy
                       /\ \A n \in ToSet(call[c].tried) :
                             /\ n \in ToSet(x[1].lanes[call[c].lane].http)
                             /\ x[1].backends[n].kind = "or-free"
                             /\ ~x[1].backends[n].auto_disabled
  BY DEF OnlyWhatTheHarnessOffers
<1>1. Placed(c) /\ call[c].tried \in Seq(ToSet(Chain(c)))
  BY DEF ChainInv, ChainOK
<1>2. PICK e \in Exports : ValidExport(e) /\ e.hash = PortedHash /\ policy = Rendered(e)
  BY <1>1 DEF SyncInv, Good, Placed
<1>3. /\ policy.http_chain = [l \in DOMAIN e.lanes |-> e.lanes[l].http]
      /\ policy.candidates = [l \in DOMAIN e.lanes |-> FreeCandidates(e, l)]
      /\ policy.backends = [n \in DOMAIN e.backends |->
                               [kind      |-> e.backends[n].kind,
                                paid      |-> e.backends[n].kind \in Paid,
                                model     |-> e.backends[n].model,
                                automatic |-> Automatic(e.backends[n])]]
  BY <1>2 DEF Rendered
<1>4. ASSUME NEW n \in ToSet(call[c].tried)
      PROVE  /\ n \in ToSet(e.lanes[call[c].lane].http)
             /\ e.backends[n].kind = "or-free" /\ ~e.backends[n].auto_disabled
  <2>1. n \in ToSet(Chain(c))
    <3> DEFINE S == ToSet(Chain(c))
               tried == call[c].tried
    <3>1. tried \in Seq(S)
      BY <1>1
    <3> HIDE DEF S, tried
    <3>2. \A j \in DOMAIN tried : tried[j] \in S
      BY <3>1
    <3> QED  BY <3>2 DEF ToSet, S, tried
  <2>2. n \in ToSet(policy.http_chain[call[c].lane]) /\ policy.backends[n].automatic
    BY <1>1, <2>1, ChainOf
  <2>3. call[c].lane \in DOMAIN e.lanes /\ n \in ToSet(e.lanes[call[c].lane].http)
    BY <1>1, <1>3, <2>2 DEF Placed
  <2>4. n \in DOMAIN e.backends /\ e.backends[n].kind = "or-free"
    BY <1>2, <2>3, ChainsAreSafe
  <2>5. policy.backends[n].automatic = Automatic(e.backends[n])
    BY <1>3, <2>4
  <2>6. ~e.backends[n].auto_disabled
    BY <2>2, <2>5 DEF Automatic
  <2> QED  BY <2>3, <2>4, <2>6
<1>5. <<e, policy>> \in Origins
  BY <1>2 DEF Origins
<1> QED  BY <1>4, <1>5

\* What goes out was offered for its lane by an export the tool accepted, and not
\* opted out of (_lane_candidates).
THEOREM OnlyOffered == Spec => []OnlyWhatTheHarnessOffers
BY TriedIsOffered, SyncInvAlways, ChainInvAlways, PTL

-----------------------------------------------------------------------------
(* The catalog at the dispatch boundary.                                   *)

\* What a free model's entry looks like.
LEMMA FreeIsProven ==
    ASSUME CatalogTyped, NEW m, ModelIsFree(m)
    PROVE  \E pricing \in ToSet(catalog.entries[m]) :
              /\ catalog.entries[m] = <<pricing>>
              /\ \E i \in {"prompt", "input"}, o \in {"completion", "output"} :
                    {i, o} \subseteq DOMAIN pricing
              /\ \A k \in DOMAIN pricing : pricing[k] = "zero"
<1>1. m \in Models /\ Len(catalog.entries[m]) = 1 /\ ZeroPricing(catalog.entries[m][1])
  BY DEF ModelIsFree
<1>2. PICK s \in Seq(Pricing) : s = catalog.entries[m]
  BY <1>1 DEF CatalogTyped
<1> DEFINE S == Pricing
<1> HIDE DEF S
<1>3. PICK p : p = s[1]
  OBVIOUS
<1>4. s = <<p>> /\ p \in ToSet(s)
  <2>1. s \in Seq(S) /\ Len(s) = 1
    BY <1>1, <1>2 DEF S
  <2>2. DOMAIN s = {1}
    BY <2>1
  <2> QED  BY <1>3, <2>1, <2>2 DEF ToSet
<1>5. ZeroPricing(p)
  BY <1>1, <1>2, <1>3
<1> QED  BY <1>2, <1>4, <1>5 DEF ZeroPricing

\* The catalog at the start.
LEMMA CatalogShape ==
    ASSUME CatalogInit
    PROVE  \E f \in [Models -> UNION {Listings[m] : m \in Models}] :
              /\ \A m \in Models : f[m] \in Listings[m]
              /\ catalog = [reachable |-> TRUE, entries |-> f]
<1> DEFINE F == {f \in [Models -> UNION {Listings[m] : m \in Models}] :
                    \A m \in Models : f[m] \in Listings[m]}
<1>1. catalog \in [reachable : {TRUE}, entries : F]
  BY DEF CatalogInit
<1> HIDE DEF F
<1>2. \E f \in F : catalog = [reachable |-> TRUE, entries |-> f]
  BY <1>1, Zenon
<1> QED  BY <1>2 DEF F

\* The catalog stays one, however it changes.
LEMMA CatalogStep ==
    ASSUME CatalogTyped, [Next]_vars
    PROVE  CatalogTyped'
<1>1. CASE Relist
  <2>1. ASSUME NEW m \in Models, NEW entries \in Listings[m],
               catalog' = [catalog EXCEPT !.entries[m] = entries]
        PROVE  CatalogTyped'
    <3>1. entries \in Seq(Pricing)
      BY ListingAssumption
    <3>2. PICK S : S = Seq(Pricing)
      OBVIOUS
    <3>3. catalog \in [reachable : BOOLEAN, entries : [Models -> S]] /\ entries \in S
      BY <3>1, <3>2 DEF CatalogTyped
    <3>4. catalog' \in [reachable : BOOLEAN, entries : [Models -> S]]
      BY <2>1, <3>3
    <3> QED  BY <3>2, <3>4 DEF CatalogTyped
  <2>2. CASE catalog' = [catalog EXCEPT !.reachable = ~catalog.reachable]
    <3>1. PICK S : S = Seq(Pricing)
      OBVIOUS
    <3>2. catalog \in [reachable : BOOLEAN, entries : [Models -> S]]
      BY <3>1 DEF CatalogTyped
    <3>3. catalog' \in [reachable : BOOLEAN, entries : [Models -> S]]
      BY <2>2, <3>2
    <3> QED  BY <3>1, <3>3 DEF CatalogTyped
  <2> QED  BY <1>1, <2>1, <2>2 DEF Relist
<1>2. CASE UNCHANGED catalog
  BY <1>2 DEF CatalogTyped
<1>3. Relist \/ UNCHANGED catalog
  <2>0. ASSUME NEW a, AdapterStep(a) PROVE UNCHANGED catalog
    BY <2>0 DEF AdapterStep, LiveCheck, Build, Send, Rejected, NoAnswer, Unusable, Answered
  <2>1. CASE Next
    BY <2>0, <2>1 DEF Next, Sync, Install, Call, CallStep, CachedRouter, NoCachedRouter, Lock,
           BuildRouter, Health, InvalidRequest, Skip, Try, Attempt, Finish, PaidStep,
           PaidAttempt, Repricing, adapterVars
  <2>2. CASE UNCHANGED vars
    BY <2>2 DEF vars, adapterVars
  <2> QED  BY <2>1, <2>2
<1> QED  BY <1>1, <1>2, <1>3

\* A call's attempt goes past the adapter's check only on proof.
LEMMA AttemptIsProven ==
    ASSUME AttemptsInv, RoutersInv, ChainInv, BoundaryInv, NEW c \in Actors, Attempt(c)
    PROVE  Proven(c)'
<1>1. /\ call[c].pc = "attempt" /\ att[c].req.live /\ Proven(c) /\ CatalogTyped
      /\ DOMAIN call = Actors /\ CallOK(call[c]) /\ DOMAIN att = Actors /\ AttemptOK(att[c])
  BY DEF Attempt, ChainInv, ChainOK, BoundaryInv, RoutersInv, AttemptsInv
<1>2. CASE att[c].pc = "check"
  <2>1. LiveCheck(c)
    BY <1>2 DEF Attempt, AdapterStep, Build, Send, Rejected, NoAnswer, Unusable, Answered
  <2>2. CASE ModelIsFree(att[c].req.model)
    <3>1. catalog.reachable
      BY <2>2 DEF ModelIsFree
    <3>2. call'[c].seen = catalog.entries[att[c].req.model]
      BY <1>1, <1>2, <3>1 DEF Attempt, CallOK
    <3> QED  BY <1>1, <2>2, <3>2, FreeIsProven DEF Proven
  <2>3. CASE ~ModelIsFree(att[c].req.model)
    <3>1. att'[c].pc = "done"
      BY <1>1, <2>1, <2>3 DEF LiveCheck, End, AttemptOK
    <3> QED  BY <3>1 DEF Proven
  <2> QED  BY <2>2, <2>3
<1>3. CASE att[c].pc # "check"
  <2>1. call' = call
    BY <1>3 DEF Attempt
  <2>2. att[c].pc \in {"build", "open", "wire"}
    BY <1>3 DEF Attempt, AdapterStep, LiveCheck, Build, Send, Rejected, NoAnswer, Unusable,
                Answered
  <2> QED  BY <1>1, <2>1, <2>2 DEF Proven
<1> QED  BY <1>2, <1>3

\* Every step keeps the proof of what is under way.
LEMMA BoundaryStep ==
    ASSUME AttemptsInv, RoutersInv, ChainInv, BoundaryInv, [Next]_vars
    PROVE  BoundaryInv'
<1>1. CatalogTyped'
  BY CatalogStep DEF BoundaryInv
<1>2. ASSUME NEW c \in Actors PROVE Proven(c)'
  <2>0. Proven(c) /\ DOMAIN call = Actors /\ CallOK(call[c])
    BY DEF BoundaryInv, RoutersInv
  <2>1. CASE call'[c] = call[c] /\ att'[c] = att[c]
    BY <2>0, <2>1 DEF Proven
  <2>2. CASE CallStep(c)
    <3>1. CASE Attempt(c)
      BY <3>1, AttemptIsProven
    <3>2. CASE ~Attempt(c)
      <4>1. call'[c].pc # "attempt" \/ att'[c].pc = "check"
        <5>1. CASE Seeks(c) \/ Starts(c) \/ Looks(c) \/ Ends(c) \/ Tries(c)
          BY <5>1 DEF Seeks, Starts, Looks, Ends, Tries
        <5>2. CASE GoesOn(c)
          BY <2>0, <5>2, AdvanceIs DEF GoesOn
        <5>3. CASE Works(c)
          <6>1. Finish(c)
            BY <2>2, <3>2, <5>3 DEF CallStep, Works, CachedRouter, NoCachedRouter, Lock,
                   BuildRouter, Health, InvalidRequest, Skip, Try
          <6>2. call'[c].pc # "attempt"
            <7>1. CASE att[c].phase = "success"
              BY <2>0, <6>1, <7>1 DEF Finish, CallOK
            <7>2. CASE att[c].phase # "success"
              <8>1. call' = [call EXCEPT ![c] = Advance(c)]
                BY <6>1, <7>2 DEF Finish
              <8> QED  BY <2>0, <8>1, AdvanceIs
            <7> QED  BY <7>1, <7>2
          <6> QED  BY <6>2
        <5> QED  BY <2>2, <5>1, <5>2, <5>3, CallStepIs
      <4> QED  BY <4>1 DEF Proven
    <3> QED  BY <3>1, <3>2
  <2>3. ASSUME NEW d \in Actors \ {c}, CallStep(d) PROVE Proven(c)'
    BY <2>1, <2>3, CallStepIs
  <2>4. ASSUME NEW d \in Actors, NEW l \in Lanes, NEW k \in RouterKeys, Call(d, l, k)
        PROVE  Proven(c)'
    <3>1. CASE d # c
      BY <2>0, <2>1, <2>4, <3>1 DEF Call, adapterVars
    <3>2. CASE d = c
      <4> DEFINE doubt == {m \in Offered(l) : ~ModelIsFree(m)}
      <4>1. PICK g : /\ call' = [call EXCEPT ![c] = g]
                     /\ \/ \E pc \in {"misconfigured", "unavailable"} :
                              g = [NotCalled EXCEPT !.pc = pc]
                        \/ g = [NotCalled EXCEPT !.lane = l, !.key = k, !.pc = "router",
                                                 !.doubt = doubt]
        BY <2>4, <3>2 DEF Call
      <4> HIDE DEF doubt
      <4>2. g.pc # "attempt"
        BY <4>1 DEF NotCalled
      <4> QED  BY <2>0, <4>1, <4>2 DEF Proven
    <3> QED  BY <3>1, <3>2
  <2>5. CASE plan = "paid" /\ UNCHANGED call
    <3>1. call'[c].pc = "idle"
      BY <2>5 DEF ChainInv, ChainOK, NotCalled
    <3> QED  BY <3>1 DEF Proven
  <2>6. CASE Repricing
    <3>1. /\ att'[c] = att[c]
          /\ call'[c] = call[c] \/ \E doubt : call'[c] = [call[c] EXCEPT !.doubt = doubt]
      BY <2>6 DEF Repricing
    <3>2. call'[c].pc = call[c].pc /\ call'[c].seen = call[c].seen
      BY <2>0, <3>1 DEF CallOK
    <3> QED  BY <2>0, <3>1, <3>2 DEF Proven
  <2>7. \/ UNCHANGED <<call, att>> \/ Repricing
        \/ plan = "paid" /\ UNCHANGED call
        \/ \E d \in Actors : CallStep(d) \/ \E l \in Lanes, k \in RouterKeys : Call(d, l, k)
    <3>1. CASE Next
      BY <3>1 DEF Next, Sync, Install, PaidStep, PaidAttempt, adapterVars, clientVars
    <3>2. CASE UNCHANGED vars
      BY <3>2 DEF vars, adapterVars, clientVars
    <3> QED  BY <3>1, <3>2
  <2> QED  BY <2>1, <2>2, <2>3, <2>4, <2>5, <2>6, <2>7
<1> QED  BY <1>1, <1>2 DEF BoundaryInv

\* An attempt that is past the adapter's check has its proof
\* (GenericHTTPAdapter.complete, model_is_free).
THEOREM BoundaryInvAlways == Spec => []BoundaryInv
<1>1. Init => BoundaryInv
  <2>1. ASSUME Init PROVE CatalogTyped
    <3>1. PICK S : S = Seq(Pricing)
      OBVIOUS
    <3>2. PICK f \in [Models -> UNION {Listings[m] : m \in Models}] :
              /\ \A m \in Models : f[m] \in Listings[m]
              /\ catalog = [reachable |-> TRUE, entries |-> f]
      BY <2>1, CatalogShape DEF Init, AdapterInit
    <3>3. f \in [Models -> S]
      BY <3>1, <3>2, ListingAssumption
    <3> QED  BY <3>1, <3>2, <3>3 DEF CatalogTyped
  <2>2. ASSUME Init, NEW c \in Actors PROVE Proven(c)
    BY <2>2 DEF Init, NotCalled, Proven
  <2> QED  BY <2>1, <2>2 DEF BoundaryInv
<1> QED  BY <1>1, BoundaryStep, AttemptsInvAlways, RoutersInvAlways, ChainInvAlways, PTL DEF Spec

\* A request of a call goes out only for a model that the catalog listed, at the
\* moment of the adapter's check, once and at no price.
THEOREM ProvenThere == Spec => []ProvenAtTheBoundary
<1>1. BoundaryInv => ProvenAtTheBoundary
  BY DEF BoundaryInv, Proven, ProvenAtTheBoundary
<1> QED  BY <1>1, BoundaryInvAlways, PTL

-----------------------------------------------------------------------------
(* Every candidate has its chance.                                         *)

\* While the policy stays, so do the models of the candidates.
LEMMA SameOffered ==
    ASSUME NEW c \in Actors, UNCHANGED policy, call'[c].lane = call[c].lane
    PROVE  Offered(call[c].lane)' = Offered(call[c].lane) /\ \A n : Model(n)' = Model(n)
BY DEF Offered, Model, Candidates

\* What a call has not found eligible has had its chance, or has no credential.
LEMMA NotEligible ==
    ASSUME NEW c \in Actors, Running(c), ChanceOK(c), call[c].i \in DOMAIN Chain(c), ~Eligible(c)
    PROVE  Model(Current(c)) \in call[c].doubt \/ ~credential
<1>1. Current(c) \in ToSet(Candidates(call[c].lane))
  BY DEF Current, Chain, ToSet
<1>2. Model(Current(c)) \in Offered(call[c].lane)
  BY <1>1 DEF Offered
<1> QED  BY <1>2 DEF ChanceOK, Eligible

\* A step of a call that passes a candidate has given it its chance.
LEMMA CallStepKeepsChances ==
    ASSUME SyncInv, AttemptsInv, RoutersInv, ChainInv, ChanceInv, NEW c \in Actors, CallStep(c)
    PROVE  ChanceOK(c)'
<1>1. /\ Running(c) /\ call'[c].lane = call[c].lane /\ call'[c].doubt = call[c].doubt
      /\ UNCHANGED <<policy, credential, catalog>>
      /\ \/ Seeks(c) \/ Starts(c) \/ Looks(c) \/ Ends(c) \/ GoesOn(c) \/ Tries(c) \/ Works(c)
  BY CallStepIs
<1>2. ChainOK(c) /\ Placed(c) /\ CallOK(call[c]) /\ ChanceOK(c)
  BY <1>1 DEF ChainInv, ChainOK, RoutersInv, ChanceInv
<1>3. Chain(c)' = Chain(c)
  BY <1>1, SameChain
<1>4. Offered(call[c].lane)' = Offered(call[c].lane) /\ \A n : Model(n)' = Model(n)
  BY <1>1, SameOffered DEF Offered, Candidates
<1>5. \A m \in Offered(call[c].lane) : ModelIsFree(m)' \/ m \in call'[c].doubt
  BY <1>1, <1>2 DEF ChanceOK, ModelIsFree
<1> DEFINE n == Len(Chain(c))
           i == call[c].i
           Had(x) == x \in ToSet(call'[c].tried) \/ Model(x) \in call'[c].doubt \/ ~credential
<1>6. DOMAIN Chain(c) = 1 .. n /\ n \in Nat /\ i \in Nat
  BY <1>2, ChainOf DEF CallOK
<1>7. i \in 1 .. n \/ call[c].pc \notin {"health", "try", "attempt"}
  BY <1>2, <1>6 DEF ChainOK
<1>8. \A x : Chance(c, x)' <=> Had(x)
  BY <1>1, <1>4 DEF Chance
<1>9. ASSUME call'[c].pc = "health" /\ ~call'[c].live =>
                 \A j \in 1 .. n : j < call'[c].i =>
                     Model(Chain(c)[j]) \in call'[c].doubt \/ ~credential,
             call'[c].pc \in {"try", "attempt"} =>
                 \A j \in 1 .. n : j < call'[c].i => Had(Chain(c)[j]),
             call'[c].pc = "unavailable" /\ call'[c].router # NoRouter =>
                 \A j \in 1 .. n : Had(Chain(c)[j])
      PROVE  ChanceOK(c)'
  <2> HIDE DEF Had
  <2>1. Running(c)' =>
            \A m \in Offered(call[c].lane)' : ModelIsFree(m)' \/ m \in call'[c].doubt
    BY <1>4, <1>5
  <2>2. call'[c].pc = "unavailable" /\ call'[c].router # NoRouter =>
            \A x \in ToSet(Chain(c)) : Had(x)
    BY <1>6, <1>9 DEF ToSet
  <2> QED  BY <1>1, <1>3, <1>4, <1>6, <1>8, <1>9, <2>1, <2>2 DEF ChanceOK
<1>10. CASE Seeks(c)
  BY <1>9, <1>10 DEF Seeks
<1>11. CASE Starts(c)
  <2>1. \A j \in 1 .. n : ~(j < 1)
    BY <1>6
  <2> QED  BY <1>9, <1>11, <2>1 DEF Starts
<1>12. CASE Looks(c)
  <2>1. i \in 1 .. n /\ i \in DOMAIN Chain(c) /\ call[c].pc = "health"
    BY <1>6, <1>7, <1>12 DEF Looks
  <2>2. ASSUME ~call'[c].live
        PROVE  \A j \in 1 .. n : j < i + 1 => Model(Chain(c)[j]) \in call'[c].doubt \/ ~credential
    <3>1. ~call[c].live /\ ~Eligible(c)
      BY <2>2, <1>12 DEF Looks
    <3>2. Model(Chain(c)[i]) \in call[c].doubt \/ ~credential
      BY <1>1, <1>2, <2>1, <3>1, NotEligible DEF Current
    <3>3. \A j \in 1 .. n : j < i => Model(Chain(c)[j]) \in call[c].doubt \/ ~credential
      BY <1>2, <1>6, <2>1, <3>1 DEF ChanceOK
    <3>4. \A j \in 1 .. n : j < i + 1 => j < i \/ j = i
      BY <2>1
    <3> QED  BY <1>1, <3>2, <3>3, <3>4
  <2>3. CASE i = n
    <3>1. call'[c].i = 1 /\ call'[c].pc = IF call'[c].live THEN "try" ELSE "unavailable"
      BY <1>12, <2>3 DEF Looks
    <3>2. \A j \in 1 .. n : ~(j < 1) /\ j < i + 1
      BY <1>6, <2>3
    <3> QED  BY <1>9, <2>2, <3>1, <3>2
  <2>4. CASE i # n
    <3>1. call'[c].i = i + 1 /\ call'[c].pc = "health"
      BY <1>12, <2>4 DEF Looks
    <3> QED  BY <1>9, <2>2, <3>1
  <2> QED  BY <2>3, <2>4
<1>13. CASE Ends(c)
  BY <1>9, <1>13 DEF Ends
<1>14. CASE GoesOn(c)
  <2>1. /\ call'[c].pc \in {"try", "unavailable"}
        /\ call'[c].pc = "unavailable" <=> i = n
        /\ call'[c].pc = "try" => call'[c].i = i + 1
        /\ call'[c].tried = call[c].tried
    BY <1>2, <1>14, AdvanceIs DEF GoesOn
  <2>2. i \in 1 .. n /\ call[c].pc \in {"try", "attempt"}
    BY <1>7, <1>14 DEF GoesOn
  <2>3. Had(Chain(c)[i])
    <3>1. CASE call[c].pc = "attempt"
      BY <1>2, <2>1, <3>1 DEF ChainOK, Current
    <3>2. CASE ~Eligible(c)
      BY <1>1, <1>2, <1>6, <2>2, <3>2, NotEligible DEF Current
    <3> QED  BY <1>14, <3>1, <3>2 DEF GoesOn
  <2>4. \A j \in 1 .. n : j < i => Had(Chain(c)[j])
    BY <1>1, <1>2, <1>6, <2>1, <2>2 DEF ChanceOK, Chance
  <2> HIDE DEF Had
  <2>5. \A j \in 1 .. n : j < i + 1 => Had(Chain(c)[j])
    <3>1. \A j \in 1 .. n : j < i + 1 => j < i \/ j = i
      BY <2>2
    <3> QED  BY <2>3, <2>4, <3>1
  <2>6. CASE call'[c].pc = "try"
    BY <1>9, <2>1, <2>5, <2>6
  <2>7. CASE call'[c].pc = "unavailable"
    <3>1. \A j \in 1 .. n : j < i + 1
      BY <1>6, <2>1, <2>7
    <3> QED  BY <1>9, <2>5, <2>7, <3>1
  <2> QED  BY <2>1, <2>6, <2>7
<1>15. CASE Tries(c)
  <2> DEFINE S == ToSet(Chain(c))
             old == call[c].tried
  <2>1. ToSet(old) \subseteq ToSet(call'[c].tried)
    <3>1. old \in Seq(S) /\ Current(c) \in S
      BY <1>2, <1>6, <1>7, <1>15 DEF ChainOK, Tries, Current, ToSet
    <3>2. call'[c].tried = Append(old, Current(c))
      BY <1>15 DEF Tries
    <3> HIDE DEF S, old
    <3> QED  BY <3>1, <3>2, Appended
  <2>2. \A j \in 1 .. n : j < i => Had(Chain(c)[j])
    BY <1>1, <1>2, <1>6, <1>15, <2>1 DEF ChanceOK, Chance, Tries
  <2> QED  BY <1>9, <1>15, <2>2 DEF Tries
<1>16. CASE Works(c)
  <2>1. \A j \in 1 .. n : j < i => Had(Chain(c)[j])
    BY <1>1, <1>2, <1>6, <1>16 DEF ChanceOK, Chance, Works
  <2> QED  BY <1>9, <1>16, <2>1 DEF Works
<1> QED  BY <1>1, <1>10, <1>11, <1>12, <1>13, <1>14, <1>15, <1>16

\* A call that did not change, on a catalog that did not.
LEMMA SameChance ==
    ASSUME NEW c \in Actors, ChanceOK(c), call'[c] = call[c],
           UNCHANGED <<policy, credential, catalog>>
    PROVE  ChanceOK(c)'
<1>1. /\ Chain(c)' = Chain(c) /\ \A n : Model(n)' = Model(n)
      /\ Offered(call[c].lane)' = Offered(call[c].lane)
  BY SameChain, SameOffered DEF Offered, Candidates
<1>2. \A m : ModelIsFree(m)' <=> ModelIsFree(m)
  BY DEF ModelIsFree
<1> QED  BY <1>1, <1>2 DEF ChanceOK, Chance, Running

\* Every step keeps the candidates' chances.
LEMMA ChanceStep ==
    ASSUME SyncInv, AttemptsInv, RoutersInv, ChainInv, ChanceInv, [Next]_vars
    PROVE  ChanceInv'
<1> SUFFICES ASSUME NEW c \in Actors PROVE ChanceOK(c)'
  BY DEF ChanceInv
<1>0. ChanceOK(c) /\ ChainOK(c) /\ DOMAIN call = Actors /\ CallOK(call[c])
  BY DEF ChanceInv, ChainInv, RoutersInv
<1>1. CASE call'[c] = call[c] /\ UNCHANGED <<policy, credential, catalog>>
  BY <1>0, <1>1, SameChance
<1>2. CASE CallStep(c)
  BY <1>2, CallStepKeepsChances
<1>3. ASSUME NEW d \in Actors \ {c}, CallStep(d) PROVE ChanceOK(c)'
  BY <1>1, <1>3, CallStepIs
<1>4. ASSUME NEW d \in Actors, NEW l \in Lanes, NEW k \in RouterKeys, Call(d, l, k)
      PROVE  ChanceOK(c)'
  <2>1. /\ UNCHANGED <<policy, credential, catalog>>
        /\ \E g : call' = [call EXCEPT ![d] = g]
    BY <1>4 DEF Call, adapterVars
  <2>2. CASE d # c
    BY <1>0, <1>1, <2>1, <2>2
  <2>3. CASE d = c
    <3> DEFINE doubt == {m \in Offered(l) : ~ModelIsFree(m)}
    <3>1. PICK g : /\ call' = [call EXCEPT ![c] = g]
                   /\ \/ \E pc \in {"misconfigured", "unavailable"} :
                            g = [NotCalled EXCEPT !.pc = pc]
                      \/ g = [NotCalled EXCEPT !.lane = l, !.key = k, !.pc = "router",
                                               !.doubt = doubt]
      BY <1>4, <2>3 DEF Call
    <3>2. CASE g = [NotCalled EXCEPT !.lane = l, !.key = k, !.pc = "router", !.doubt = doubt]
      <4>1. g.pc = "router" /\ g.lane = l /\ g.doubt = doubt
        BY <3>2 DEF NotCalled
      <4>2. call'[c] = g
        BY <1>0, <3>1
      <4>3. Offered(call[c].lane)' = Offered(l)
        <5>1. call'[c].lane = l /\ policy' = policy
          BY <2>1, <4>1, <4>2
        <5>2. \A n : Model(n)' = Model(n)
          BY <5>1 DEF Model
        <5>3. Candidates(call[c].lane)' = Candidates(l)
          BY <5>1 DEF Candidates
        <5> QED  BY <5>2, <5>3 DEF Offered
      <4>4. \A m : ModelIsFree(m)' <=> ModelIsFree(m)
        BY <2>1 DEF ModelIsFree
      <4>5. \A m \in Offered(call[c].lane)' : ModelIsFree(m)' \/ m \in call'[c].doubt
        BY <4>1, <4>2, <4>3, <4>4
      <4> QED  BY <4>1, <4>2, <4>5 DEF ChanceOK
    <3>3. CASE \E pc \in {"misconfigured", "unavailable"} : g = [NotCalled EXCEPT !.pc = pc]
      <4>1. g.pc \in {"misconfigured", "unavailable"} /\ g.router = NoRouter
        BY <3>3 DEF NotCalled
      <4>2. call'[c] = g
        BY <1>0, <3>1
      <4> QED  BY <4>1, <4>2 DEF ChanceOK, Running
    <3> QED  BY <3>1, <3>2, <3>3
  <2> QED  BY <2>2, <2>3
<1>5. CASE (plan = "paid" \/ policy = NoFile) /\ UNCHANGED call
  <2>1. call'[c].pc = "idle"
    BY <1>0, <1>5 DEF ChainOK, NotCalled
  <2> QED  BY <2>1 DEF ChanceOK, Running
<1>6. CASE Repricing
  <2>1. UNCHANGED <<policy, credential>>
    BY <1>6 DEF Repricing
  <2>2. CASE Running(c)
    <3> DEFINE new == {m \in Offered(call[c].lane) : ~ModelIsFree(m)'}
    <3>1. call'[c] = [call[c] EXCEPT !.doubt = call[c].doubt \cup new]
      BY <1>6, <2>2 DEF Repricing
    <3>2. PICK g, doubt : g = call[c] /\ doubt = g.doubt \cup new
      OBVIOUS
    <3>3. call'[c] = [g EXCEPT !.doubt = doubt]
      BY <3>1, <3>2
    <3>4. /\ call'[c].pc = call[c].pc /\ call'[c].tried = call[c].tried
          /\ call'[c].router = call[c].router /\ call'[c].i = call[c].i
          /\ call'[c].lane = call[c].lane /\ call'[c].live = call[c].live
          /\ call'[c].doubt = doubt
      BY <1>0, <3>2, <3>3 DEF CallOK
    <3>5. /\ Chain(c)' = Chain(c) /\ \A n : Model(n)' = Model(n)
          /\ Offered(call[c].lane)' = Offered(call[c].lane)
      BY <2>1, <3>4, SameChain, SameOffered DEF Offered, Candidates
    <3>6. \A m \in Offered(call[c].lane) : ModelIsFree(m)' \/ m \in doubt
      BY <3>2
    <3>7. call[c].doubt \subseteq doubt
      BY <3>2
    <3> HIDE DEF new
    <3> QED  BY <1>0, <2>1, <3>4, <3>5, <3>6, <3>7 DEF ChanceOK, Chance
  <2>3. CASE ~Running(c)
    <3>1. call'[c] = call[c]
      BY <1>6, <2>3 DEF Repricing
    <3>2. Chain(c)' = Chain(c) /\ \A n : Model(n)' = Model(n)
      BY <2>1, <3>1, SameChain, SameOffered
    <3> QED  BY <1>0, <2>1, <2>3, <3>1, <3>2 DEF ChanceOK, Chance, Running
  <2> QED  BY <2>2, <2>3
<1>7. \/ UNCHANGED <<call, policy, credential, catalog>> \/ Repricing
      \/ (plan = "paid" \/ policy = NoFile) /\ UNCHANGED call
      \/ \E d \in Actors : CallStep(d) \/ \E l \in Lanes, k \in RouterKeys : Call(d, l, k)
  <2>1. CASE Next
    BY <2>1 DEF Next, Sync, Install, PaidStep, PaidAttempt, adapterVars, clientVars
  <2>2. CASE UNCHANGED vars
    BY <2>2 DEF vars, adapterVars, clientVars
  <2> QED  BY <2>1, <2>2
<1> QED  BY <1>1, <1>2, <1>3, <1>4, <1>5, <1>6, <1>7

\* The candidates a call is past have had their chance (Router._run_free_sync).
THEOREM ChanceInvAlways == Spec => []ChanceInv
<1>1. Init => ChanceInv
  <2>1. ASSUME Init, NEW c \in Actors PROVE ChanceOK(c)
    <3>1. call[c].pc = "idle"
      BY <2>1 DEF Init, NotCalled
    <3> QED  BY <3>1 DEF ChanceOK, Running
  <2> QED  BY <2>1 DEF ChanceInv
<1> QED  BY <1>1, ChanceStep, SyncInvAlways, AttemptsInvAlways, RoutersInvAlways,
            ChainInvAlways, PTL DEF Spec

\* A call that ends as unavailable, though it has a router and a credential, has
\* given every candidate of its lane its chance.
THEOREM GivesUpRightly == Spec => []GivesUpForAReason
<1>1. ChanceInv => GivesUpForAReason
  BY DEF ChanceInv, ChanceOK, Chance, GivesUpForAReason
<1> QED  BY <1>1, ChanceInvAlways, PTL
=============================================================================
