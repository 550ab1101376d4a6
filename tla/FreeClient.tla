----------------------------- MODULE FreeClient -----------------------------
(***************************************************************************)
(* complete_text (client.py): free text completion by capability lane.     *)
(* The package installed in a process holds the policy module that         *)
(* sync_from_harness generated (HarnessSync); calls of several threads     *)
(* share one router per endpoint and credential, built at first use under  *)
(* a lock; the router (Router.health, Router._run_free_sync) tries the     *)
(* lane's candidates in order, each through the adapter (Adapter), and     *)
(* asks the live catalog (FreeCheck) before every one of them.             *)
(*                                                                         *)
(* The requests of free-only calls carry no reservation.  The same adapter *)
(* class also serves the paid attempts of a deployment's own routers: one  *)
(* plan is that of such attempts.  complete_text ends at its first error.  *)
(* The catalog reads of _lane_candidates, whose answer is thrown away, and *)
(* the large-data note on the prompt change nothing and are left out.      *)
(***************************************************************************)
EXTENDS HarnessSync, Adapter

CONSTANTS
    NoRouter,       \* a key for which no router has been built
    Special,        \* _SPECIAL_CAPABILITY_LANES
    Lanes,          \* the lanes callers name
    RouterKeys,     \* the pairs of endpoint and credential variable in use
    NoKey,          \* no lock holder
    GlmModels,      \* the models with "glm" in their name
    FreeCard,       \* _FREE_PRICE_CARD_VERSION
    Payers,         \* those of the actors that make the paid attempts
    PaidRequests,   \* the requests of the paid attempts
    Plans           \* what the process does: {"free"}, {"paid"}

ASSUME ClientAssumption ==
    /\ Payers \subseteq Actors
    /\ \A req \in PaidRequests : {req.chars, req.max_output} \subseteq Nat
    /\ NoRouter \notin Nat

VARIABLES
    plan,           \* what this process does
    policy,         \* the installed policy module
    routers,        \* _ROUTERS: a router, by its number, for each key
    holder,         \* the holder of _ROUTERS_LOCK
    built,          \* history: the routers built for each key
    call            \* call[c]: the call of thread c

clientVars == <<plan, policy, routers, holder, built, call>>
vars == <<syncVars, adapterVars, clientVars>>

\* The state of the call's own: its lane and key, the candidate it is at, and
\* whether health() has found one available.  "doubt" and "tried" are history:
\* the models that were not free at some moment of the call, and the backends
\* it has had an attempt on; "seen": what the catalog listed for the model at the
\* moment of the check at the dispatch boundary.
NotCalled == [pc |-> "idle", lane |-> NoFile, key |-> NoKey, i |-> 0, live |-> FALSE,
              router |-> NoRouter, doubt |-> {}, tried |-> <<>>, seen |-> <<>>]

Init ==
    /\ SyncInit /\ AdapterInit
    /\ plan \in Plans
    /\ policy = NoFile
    /\ routers = [k \in RouterKeys |-> NoRouter]
    /\ holder = NoKey
    /\ built = [k \in RouterKeys |-> 0]
    /\ call = [c \in Actors |-> NotCalled]

-----------------------------------------------------------------------------
(* Candidates and routers, from the installed policy. *)

\* Faulty: a backend that is not automatic stays a candidate.
Candidates_AnyBackend(l) ==
    LET chain == policy.http_chain[l]
    IN At(chain, {i \in DOMAIN chain : policy.backends[chain[i]].kind = "or-free"})

\* _lane_candidates, for a lane of the policy: its HTTP chain, without what is
\* not a free, automatic OpenRouter backend with a model.
Candidates(l) ==
    LET chain == policy.http_chain[l]
        Fit(b) == b.kind = "or-free" /\ b.automatic /\ ~b.paid /\ b.model # NoModel
    IN At(chain, {i \in DOMAIN chain : Fit(policy.backends[chain[i]])})

Model(n) == policy.backends[n].model

\* The lanes _build_router makes routes of.
Routed == {l \in DOMAIN policy.candidates \ Special : Candidates(l) # <<>>}

\* RoutePolicy refuses GLM's models, Router a candidate named twice.
CanBuild ==
    /\ Routed # {}
    /\ \A l \in Routed :
          /\ \A n \in ToSet(Candidates(l)) : n # Glm /\ Model(n) \notin GlmModels
          /\ IsInjective(Candidates(l))

-----------------------------------------------------------------------------
(* complete_text. *)

Running(c) == call[c].pc \notin {"idle", "answered", "unavailable", "misconfigured", "failed"}

\* The models of a lane's candidates.
Offered(l) == {Model(n) : n \in ToSet(Candidates(l))}

Step(c, pc) == call' = [call EXCEPT ![c].pc = pc]

\* The package is installed.  What becomes of the working tree does not reach it
\* any more and is left out from here on.
Install ==
    /\ policy = NoFile /\ sync.pc = "idle"
    /\ policy' = generated
    /\ sync' = Idle /\ temporary' = NoFile
    /\ UNCHANGED <<generated, adapterVars, plan, routers, holder, built, call>>

\* The lane is resolved: an unknown or a special one is a configuration error,
\* and one without a candidate is unavailable.
Call(c, l, k) ==
    /\ plan = "free" /\ policy # NoFile /\ call[c] = NotCalled
    /\ call' = [call EXCEPT ![c] =
          IF l \notin DOMAIN policy.candidates \/ l \in Special
          THEN [NotCalled EXCEPT !.pc = "misconfigured"]
          ELSE IF Candidates(l) = <<>> THEN [NotCalled EXCEPT !.pc = "unavailable"]
          ELSE [NotCalled EXCEPT !.lane = l, !.key = k, !.pc = "router",
                                 !.doubt = {m \in Offered(l) : ~ModelIsFree(m)}]]
    /\ UNCHANGED <<syncVars, adapterVars, plan, policy, routers, holder, built>>

\* _get_router: the router is there ...
CachedRouter(c) ==
    /\ call[c].pc = "router" /\ routers[call[c].key] # NoRouter
    /\ call' = [call EXCEPT ![c].pc = "health", ![c].i = 1,
                            ![c].router = routers[call[c].key]]
    /\ UNCHANGED <<syncVars, adapterVars, plan, policy, routers, holder, built>>

\* ... or it is not, and the lock is waited for ...
NoCachedRouter(c) ==
    /\ call[c].pc = "router" /\ routers[call[c].key] = NoRouter
    /\ Step(c, "lock")
    /\ UNCHANGED <<syncVars, adapterVars, plan, policy, routers, holder, built>>

Lock(c) ==
    /\ call[c].pc = "lock" /\ holder = NoKey
    /\ holder' = c
    /\ Step(c, "build")
    /\ UNCHANGED <<syncVars, adapterVars, plan, policy, routers, built>>

\* Faulty: another thread's router is not looked for again under the lock.
Build_Unchecked(c) ==
    LET k == call[c].key
    IN /\ call[c].pc = "build" /\ CanBuild
       /\ built' = [built EXCEPT ![k] = @ + 1]
       /\ routers' = [routers EXCEPT ![k] = built'[k]]
       /\ call' = [call EXCEPT ![c].pc = "health", ![c].i = 1, ![c].router = routers'[k]]
       /\ holder' = NoKey
       /\ UNCHANGED <<syncVars, adapterVars, plan, policy>>

\* Faulty: a router that cannot be built leaves the lock taken.
BuildRouter_Held(c) ==
    LET k == call[c].key
    IN /\ call[c].pc = "build"
       /\ IF routers[k] = NoRouter /\ CanBuild
          THEN /\ built' = [built EXCEPT ![k] = @ + 1]
               /\ routers' = [routers EXCEPT ![k] = built'[k]]
          ELSE UNCHANGED <<built, routers>>
       /\ IF routers'[k] # NoRouter
          THEN /\ call' = [call EXCEPT ![c].pc = "health", ![c].i = 1, ![c].router = routers'[k]]
               /\ holder' = NoKey
          ELSE Step(c, "misconfigured") /\ UNCHANGED holder
       /\ UNCHANGED <<syncVars, adapterVars, plan, policy>>

\* Under the lock: another thread has built it meanwhile, or it is built now,
\* or the policy does not make a router.
BuildRouter(c) ==
    LET k == call[c].key
    IN /\ call[c].pc = "build"
       /\ IF routers[k] = NoRouter /\ CanBuild
          THEN /\ built' = [built EXCEPT ![k] = @ + 1]
               /\ routers' = [routers EXCEPT ![k] = built'[k]]
          ELSE UNCHANGED <<built, routers>>
       /\ call' = IF routers'[k] # NoRouter
                  THEN [call EXCEPT ![c].pc = "health", ![c].i = 1, ![c].router = routers'[k]]
                  ELSE [call EXCEPT ![c].pc = IF Routed = {} THEN "unavailable"
                                              ELSE "misconfigured"]
       /\ holder' = NoKey
       /\ UNCHANGED <<syncVars, adapterVars, plan, policy>>

Chain(c) == Candidates(call[c].lane)
Current(c) == Chain(c)[call[c].i]

\* Router._free_is_eligible: the model is free now, and there is a credential.
Eligible(c) == ModelIsFree(Model(Current(c))) /\ credential

\* Router.health looks at every candidate; with none available the call ends.
Health(c) ==
    /\ call[c].pc = "health"
    /\ LET live == call[c].live \/ Eligible(c)
           last == call[c].i = Len(Chain(c))
       IN call' = [call EXCEPT ![c].live = live,
                     ![c].i = IF last THEN 1 ELSE @ + 1,
                     ![c].pc = IF ~last THEN "health" ELSE IF live THEN "try" ELSE "unavailable"]
    /\ UNCHANGED <<syncVars, adapterVars, plan, policy, routers, holder, built>>

\* The bounds of the request are checked by LLMRequest and the route.
InvalidRequest(c) ==
    /\ call[c].pc = "try" /\ call[c].i = 1 /\ call[c].tried = <<>>
    /\ Step(c, "failed")
    /\ UNCHANGED <<syncVars, adapterVars, plan, policy, routers, holder, built>>

\* The next candidate, or none is left.
Advance(c) ==
    IF call[c].i = Len(Chain(c)) THEN [call[c] EXCEPT !.pc = "unavailable", !.seen = <<>>]
    ELSE [call[c] EXCEPT !.pc = "try", !.i = @ + 1, !.seen = <<>>]

Skip(c) ==
    /\ call[c].pc = "try" /\ ~Eligible(c)
    /\ call' = [call EXCEPT ![c] = Advance(c)]
    /\ UNCHANGED <<syncVars, adapterVars, plan, policy, routers, holder, built>>

Try(c) ==
    /\ call[c].pc = "try" /\ Eligible(c)
    /\ Begin(c, [model |-> Model(Current(c)), card |-> FreeCard, live |-> TRUE,
                 chars |-> 1, max_output |-> 0], 0)
    /\ call' = [call EXCEPT ![c].pc = "attempt", ![c].tried = Append(@, Current(c))]
    /\ UNCHANGED <<syncVars, credential, catalog, plan, policy, routers, holder, built>>

\* The adapter works at the attempt of a call.
Attempt(c) ==
    /\ call[c].pc = "attempt" /\ AdapterStep(c)
    /\ call' = IF att[c].pc = "check"
               THEN [call EXCEPT ![c].seen = IF catalog.reachable
                                             THEN catalog.entries[att[c].req.model] ELSE <<>>]
               ELSE call
    /\ UNCHANGED <<syncVars, plan, policy, routers, holder, built>>

\* Faulty: a failure whose outcome is unknown ends the call.
Finish_UnknownEnds(c) ==
    /\ call[c].pc = "attempt" /\ att[c].pc = "done"
    /\ att' = [att EXCEPT ![c] = NoAttempt]
    /\ call' = [call EXCEPT ![c] =
          CASE att[c].phase = "success" -> [@ EXCEPT !.pc = "answered"]
            [] att[c].phase = "unknown" -> [@ EXCEPT !.pc = "unavailable"]
            [] OTHER -> Advance(c)]
    /\ UNCHANGED <<syncVars, credential, catalog, plan, policy, routers, holder, built>>

\* An answer ends the call, in an error where it is not text; after any failure
\* the next candidate is tried.
Finish(c) ==
    /\ call[c].pc = "attempt" /\ att[c].pc = "done"
    /\ att' = [att EXCEPT ![c] = NoAttempt]
    /\ call' = [call EXCEPT ![c] =
          IF att[c].phase = "success"
          THEN [@ EXCEPT !.pc = IF att[c].answer = "other" THEN "failed" ELSE "answered"]
          ELSE Advance(c)]
    /\ UNCHANGED <<syncVars, credential, catalog, plan, policy, routers, holder, built>>

CallStep(c) ==
    \/ CachedRouter(c) \/ NoCachedRouter(c) \/ Lock(c) \/ BuildRouter(c)
    \/ Health(c) \/ InvalidRequest(c) \/ Skip(c) \/ Try(c) \/ Attempt(c) \/ Finish(c)

-----------------------------------------------------------------------------
(* The paid attempts of another router, and the others. *)

\* estimate_max_charge bounds the request and the router reserves that much.
\* Nothing is sent where there is no price card, or the bound is zero.
PaidAttempt(a, req) ==
    /\ plan = "paid" /\ att[a].pc = "idle"
    /\ req.card \in DOMAIN Cards /\ Estimate(req) > 0
    /\ Begin(a, req, Estimate(req))
    /\ UNCHANGED <<syncVars, credential, catalog, clientVars>>

PaidStep(a) ==
    /\ plan = "paid" /\ AdapterStep(a)
    /\ UNCHANGED <<syncVars, clientVars>>

\* The tool runs on the working tree the package is installed from.
Sync ==
    /\ policy = NoFile /\ plan = "free"
    /\ SyncNext
    /\ UNCHANGED <<adapterVars, clientVars>>

\* The catalog changes while a call runs.
Repricing ==
    /\ \E c \in Actors : Running(c)
    /\ Relist
    /\ call' = [c \in Actors |->
                  IF Running(c)
                  THEN [call[c] EXCEPT !.doubt = @ \cup
                            {m \in Offered(call[c].lane) : ~ModelIsFree(m)'}]
                  ELSE call[c]]
    /\ UNCHANGED <<syncVars, credential, att, plan, policy, routers, holder, built>>

Next ==
    \/ Sync \/ Install
    \/ \E c \in Actors :
          \/ \E l \in Lanes, k \in RouterKeys : Call(c, l, k)
          \/ CallStep(c)
    \/ \E a \in Payers : PaidStep(a) \/ \E req \in PaidRequests : PaidAttempt(a, req)
    \/ Repricing

\* The catalog, the provider and the builder all answer within a timeout.
Fairness == \A c \in Actors : WF_vars(CallStep(c))

Spec == Init /\ [][Next]_vars /\ Fairness

-----------------------------------------------------------------------------
(* Properties. *)

TypeOK ==
    /\ SyncTypeOK /\ AdapterTypeOK
    /\ policy \in Modules \cup {NoFile}
    /\ \A k \in RouterKeys : routers[k] \in Nat \cup {NoRouter}
    /\ holder \in Actors \cup {NoKey}
    /\ \A c \in Actors : call[c].pc = "build" <=> holder = c
    /\ \A c \in Actors : call[c].pc \in {"health", "try", "attempt"} =>
          call[c].i \in DOMAIN Chain(c)

\* One router per endpoint and credential, however many threads ask for it
\* first: no call works with one that was replaced.
OneRouterPerKey ==
    \A c \in Actors : call[c].router # NoRouter => call[c].router = routers[call[c].key]

\* The accepted exports, each with the module rendered from it.
Origins ==
    {<<e, Rendered(e)>> : e \in {x \in Exports : ValidExport(x) /\ x.hash = PortedHash}}

\* What goes out was offered for that lane by the export the installed policy
\* comes from: on its HTTP chain, an OpenRouter free backend the harness has
\* not opted out, in an export the tool accepted.
OnlyWhatTheHarnessOffers ==
    \A c \in Actors : call[c].tried # <<>> =>
        \E x \in Origins :
            /\ x[2] = policy
            /\ \A n \in ToSet(call[c].tried) :
                  /\ n \in ToSet(x[1].lanes[call[c].lane].http)
                  /\ x[1].backends[n].kind = "or-free" /\ ~x[1].backends[n].auto_disabled

\* A request goes out only for a model that the catalog listed when the adapter
\* looked, after the router had chosen it, once, with a zero price for what goes
\* in and for what comes out and no other price: an answer obtained earlier, by
\* health() or for the choice, is never relied on.
ProvenAtTheBoundary ==
    \A c \in Actors :
        call[c].pc = "attempt" /\ att[c].pc \in {"build", "open", "wire"} =>
            \E pricing \in ToSet(call[c].seen) :
                /\ call[c].seen = <<pricing>>
                /\ \E i \in {"prompt", "input"}, o \in {"completion", "output"} :
                      {i, o} \subseteq DOMAIN pricing
                /\ \A k \in DOMAIN pricing : pricing[k] = "zero"

\* A call that ends as unavailable has given every candidate of its lane its
\* chance: it had an attempt on it, or the model was not free at some moment of
\* the call, or there is no credential to call it with.
GivesUpForAReason ==
    \A c \in Actors :
        call[c].pc = "unavailable" /\ call[c].router # NoRouter /\ credential =>
            \A n \in ToSet(Chain(c)) : n \in ToSet(call[c].tried) \/ Model(n) \in call[c].doubt

\* Every call ends, whatever the catalog lists and the provider answers.
EveryCallEnds == \A c \in Actors : Running(c) ~> ~Running(c)
=============================================================================
