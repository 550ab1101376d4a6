----------------------------- MODULE HarnessSync -----------------------------
(***************************************************************************)
(* sync_from_harness.py: the tool that turns the harness's routing export  *)
(* into the generated policy module (policies/harness_derived.py) the free *)
(* client imports.  An export is validated, its free-check hash compared   *)
(* with the one the router's own check was ported from, and the module     *)
(* written to a temporary file that replaces the old one.  The tool is run *)
(* by hand or, in check mode, by CI: one run at a time on a working tree.  *)
(*                                                                         *)
(* An export is a record; whether its JSON has the right shape (schema,    *)
(* types, required fields) is one of its fields.  The text of the module   *)
(* is rendered from the facts without loss, so the facts stand for it.     *)
(***************************************************************************)
EXTENDS Integers, SequencesExt

CONSTANTS
    Exports,        \* what the harness may export
    Claude,         \* the backend names that begin with "claude"
    Glm,            \* the backend named "glm"
    NoModel,        \* the model of a backend that has none
    Prefixed,       \* the models that begin with "openrouter/"
    PortedHash,     \* PORTED_FROM_HARNESS_SHA256 of free_check.py
    Committed,      \* the export the committed module was generated from
    NoFile,         \* a file that does not exist
    Partial,        \* a file cut short
    MaxSyncs        \* bound on the runs of the tool

VARIABLES
    generated,      \* the generated module, by its facts
    temporary,      \* its ".tmp" sibling
    sync            \* the run of the tool under way, or the last one

syncVars == <<generated, temporary, sync>>

-----------------------------------------------------------------------------
(* parse_routing_export and the facts. *)

Paid == {"API$$"}
Subscription == {"sub", "sub-free", "sub-anthropic", "sub-glm", "sub-kimi"}
FreeService == {"or-free", "omni-free", "media"}

\* _classify_kind; an unknown kind has no class.
KnownKind(kind) == kind \in Paid \cup Subscription \cup FreeService

Automatic(b) == ~b.auto_disabled /\ b.kind # "sub-anthropic" /\ b.kind \notin Paid

ValidBackend(b) ==
    /\ KnownKind(b.kind)
    /\ b.http_openrouter <=> b.kind = "or-free"
    /\ b.kind = "or-free" => b.model # NoModel /\ b.model \notin Prefixed

ValidLane(e, lane) ==
    /\ {lane.primary, lane.fallback} \subseteq DOMAIN e.backends
    /\ \A n \in ToSet(lane.escalation) \cup ToSet(lane.http) :
          n \in DOMAIN e.backends /\ n \notin Claude /\ e.backends[n].kind \notin Paid
    /\ \A n \in ToSet(lane.http) : e.backends[n].http_openrouter

\* parse_routing_export accepts the export.
ValidExport(e) ==
    /\ e.well_formed
    /\ \A n \in DOMAIN e.backends : ValidBackend(e.backends[n])
    /\ IsInjective(e.free_backends)
    /\ \A n \in ToSet(e.free_backends) :
          n \in DOMAIN e.backends /\ e.backends[n].kind = "or-free"
    /\ \A l \in DOMAIN e.lanes : ValidLane(e, e.lanes[l])
    /\ e.default_lane \in DOMAIN e.lanes
    /\ Glm \in DOMAIN e.backends => ~Automatic(e.backends[Glm])

\* The elements of a sequence at some of its positions, in their order.
At(s, positions) ==
    [k \in 1 .. Cardinality(positions) |->
        s[CHOOSE i \in positions : Cardinality({j \in positions : j <= i}) = k]]

\* free_candidate_backends_by_lane: the automatic OpenRouter backends of the
\* escalation chain, each once, in its order.
FreeCandidates(e, l) ==
    LET chain == e.lanes[l].escalation
        free == {i \in DOMAIN chain : /\ e.backends[chain[i]].kind = "or-free"
                                      /\ Automatic(e.backends[chain[i]])}
    IN At(chain, {i \in free : \A j \in free : chain[j] = chain[i] => i <= j})

\* What render_policy_module writes.
Rendered(e) ==
    [backends   |-> [n \in DOMAIN e.backends |->
                        [kind      |-> e.backends[n].kind,
                         paid      |-> e.backends[n].kind \in Paid,
                         model     |-> e.backends[n].model,
                         automatic |-> Automatic(e.backends[n])]],
     candidates |-> [l \in DOMAIN e.lanes |-> FreeCandidates(e, l)],
     http_chain |-> [l \in DOMAIN e.lanes |-> e.lanes[l].http],
     order      |-> [l \in DOMAIN e.lanes |-> <<e.lanes[l].primary, e.lanes[l].fallback>>],
     free       |-> e.free_backends,
     hash       |-> e.hash,
     default    |-> e.default_lane]

Modules == {Rendered(e) : e \in {x \in Exports : ValidExport(x)}}

ASSUME SyncAssumption ==
    /\ MaxSyncs \in Nat
    /\ \A e \in Exports : \A l \in DOMAIN e.lanes :
          \A chain \in {e.lanes[l].http, e.lanes[l].escalation} : chain \in Seq(ToSet(chain))
    /\ {NoFile, Partial} \cap Modules = {}
    /\ Committed \in Exports /\ ValidExport(Committed) /\ Committed.hash = PortedHash

-----------------------------------------------------------------------------
(* The tool. *)

Modes == {"write", "check", "accept"}
Idle == [pc |-> "idle", n |-> 0]

SyncInit ==
    /\ generated = Rendered(Committed)
    /\ temporary = NoFile
    /\ sync = Idle

\* The run ends and returns its exit status.
Exit(status) == sync' = [sync EXCEPT !.pc = "idle", !.exit = status]

\* read_harness_policy raises: the export timed out, could not be run, exited
\* with an error or printed no JSON.
ExportFails(mode) ==
    /\ sync.pc = "idle" /\ sync.n < MaxSyncs
    /\ sync' = [pc |-> "idle", n |-> sync.n + 1, mode |-> mode, facts |-> NoFile,
                before |-> generated, exit |-> 2]
    /\ UNCHANGED <<generated, temporary>>

\* The export is read, validated, and its hash compared; accept mode prints
\* the hash and ends before that.
Export(mode, e) ==
    /\ sync.pc = "idle" /\ sync.n < MaxSyncs
    /\ LET accepted == ValidExport(e) /\ (mode = "accept" \/ e.hash = PortedHash)
       IN sync' = [pc     |-> IF ~accepted \/ mode = "accept" THEN "idle" ELSE mode,
                   n      |-> sync.n + 1,
                   mode   |-> mode,
                   facts  |-> IF accepted THEN Rendered(e) ELSE NoFile,
                   before |-> generated,
                   exit   |-> IF accepted THEN 0 ELSE 2]
    /\ UNCHANGED <<generated, temporary>>

\* --check: the committed module is read and compared.
Check ==
    /\ sync.pc = "check"
    /\ \E readable \in BOOLEAN :
          Exit(IF ~readable THEN 2 ELSE IF generated = sync.facts THEN 0 ELSE 1)
    /\ UNCHANGED <<generated, temporary>>

\* Faulty: the module is written in place.
WriteTemporary_InPlace ==
    /\ sync.pc = "write"
    /\ \/ /\ temporary' = sync.facts
          /\ generated' = sync.facts
          /\ sync' = [sync EXCEPT !.pc = "replace"]
       \/ /\ temporary' = Partial
          /\ generated' = Partial
          /\ Exit(2)

\* The temporary file is written, or the write raises with a part of it done.
WriteTemporary ==
    /\ sync.pc = "write"
    /\ \/ /\ temporary' = sync.facts
          /\ sync' = [sync EXCEPT !.pc = "replace"]
       \/ /\ temporary' \in {temporary, Partial}
          /\ Exit(2)
    /\ UNCHANGED generated

\* It replaces the module, or the rename raises.
ReplaceModule ==
    /\ sync.pc = "replace"
    /\ \/ /\ generated' = temporary
          /\ temporary' = NoFile
          /\ Exit(0)
       \/ /\ UNCHANGED <<generated, temporary>>
          /\ Exit(2)

\* The run is killed: a write may have been cut short, a rename done.
Kill ==
    /\ sync.pc # "idle"
    /\ \/ /\ temporary' \in IF sync.pc = "write" THEN {temporary, Partial} ELSE {temporary}
          /\ UNCHANGED generated
       \/ /\ sync.pc = "replace"
          /\ generated' = temporary
          /\ temporary' = NoFile
    /\ Exit(-9)

SyncNext ==
    \/ \E mode \in Modes : ExportFails(mode) \/ \E e \in Exports : Export(mode, e)
    \/ Check \/ WriteTemporary \/ ReplaceModule \/ Kill

-----------------------------------------------------------------------------
(* Properties. *)

SyncTypeOK ==
    /\ generated \in Modules
    /\ temporary \in Modules \cup {NoFile, Partial}
    /\ sync.pc \in {"idle", "check", "write", "replace"} /\ sync.n \in 0 .. MaxSyncs
    /\ sync.n > 0 => sync.mode \in Modes /\ sync.exit \in {-9, 0, 1, 2}

\* The exit status is what CI and the maintainer go by: 0 says that the module
\* is that of the export read, 1 that it has drifted; a check, an acceptance
\* and a run that failed leave the module as it was.
ExitTellsTheTruth ==
    sync.n > 0 /\ sync.pc = "idle" =>
        /\ sync.exit = 0 /\ sync.mode # "accept" => generated = sync.facts
        /\ sync.exit = 1 => generated # sync.facts
        /\ sync.exit \in {1, 2} \/ sync.mode # "write" => generated = sync.before

\* Whatever was exported and wherever a run stopped, the module on disk is whole,
\* what the last run said of it, and safe to route by: its free check is the
\* ported one, its chains name neither a paid nor a Claude backend, an HTTP chain
\* only OpenRouter backends with a model, and GLM is not automatic.
GeneratedIsSafe ==
    /\ generated \notin {NoFile, Partial}
    /\ ExitTellsTheTruth
    /\ generated.hash = PortedHash
    /\ \A l \in DOMAIN generated.http_chain :
          \A n \in ToSet(generated.http_chain[l]) \cup ToSet(generated.candidates[l]) :
              /\ n \notin Claude /\ ~generated.backends[n].paid
              /\ generated.backends[n].kind = "or-free"
              /\ generated.backends[n].model # NoModel
    /\ \A n \in DOMAIN generated.backends :
          generated.backends[n].automatic => n # Glm /\ ~generated.backends[n].paid
=============================================================================
