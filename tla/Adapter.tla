------------------------------- MODULE Adapter -------------------------------
(***************************************************************************)
(* PriceCard and GenericHTTPAdapter (adapters.py): one attempt of a router *)
(* on a provider over HTTP.  The adapter looks at the live catalog again,  *)
(* reads the credential, builds the request, sends it, and says how it     *)
(* ended: with an answer and its charge, or with a failure before the      *)
(* dispatch, a definitive one, or one whose outcome is unknown.  The       *)
(* ledger is told accordingly (Router._settle_success,                     *)
(* Router._handle_paid_failure).                                           *)
(*                                                                         *)
(* The provider is another party's.  It does the work of a request that    *)
(* reached it, or not, whatever the answer says; it bills the work by the  *)
(* price card and stays within the bounds of the request.                  *)
(***************************************************************************)
EXTENDS FreeCheck

CONSTANTS
    Actors,         \* those that run attempts, one at a time each
    Cards,          \* Cards[v]: the price card of version v
    NoReq           \* the request of an actor with no attempt

ASSUME AdapterAssumption ==
    \A v \in DOMAIN Cards :
        {Cards[v].input, Cards[v].output, Cards[v].fixed, Cards[v].margin} \subseteq Nat

Million == 1000000

\* PriceCard.charge: prices are per million tokens, each product rounded up.
Charge(card, input, output, margin) ==
    card.fixed + (input * card.input + 999999) \div Million
               + (output * card.output + 999999) \div Million
               + (IF margin THEN card.margin ELSE 0)

\* Faulty: rounded down.
EstimatedInputTokens_Floor(chars) == IF chars < 3 THEN 1 ELSE chars \div 3

\* One token per three characters, rounded up, and one at least.
EstimatedInputTokens(chars) == IF chars = 0 THEN 1 ELSE (chars + 2) \div 3

\* estimate_max_charge.
Estimate(req) ==
    Charge(Cards[req.card], EstimatedInputTokens(req.chars), req.max_output, TRUE)

VARIABLES
    credential,     \* the environment has the adapter's API key
    att             \* att[a]: the attempt of a

adapterVars == <<credential, att, catalog>>

NoAttempt == [pc |-> "idle", req |-> NoReq, reserved |-> 0, phase |-> "underway", charge |-> 0,
              work |-> [done |-> FALSE], answer |-> "awaited"]

AdapterInit ==
    /\ CatalogInit
    /\ credential \in BOOLEAN
    /\ att = [a \in Actors |-> NoAttempt]

-----------------------------------------------------------------------------
\* adapter.complete() is called with a reservation of this size.
Begin(a, req, reserved) ==
    att' = [att EXCEPT ![a] = [NoAttempt EXCEPT !.pc = "check", !.req = req,
                                                !.reserved = reserved]]

End(a, phase, charge) ==
    att' = [att EXCEPT ![a].pc = "done", ![a].phase = phase, ![a].charge = charge]

\* Faulty: the catalog is not looked at again.
LiveCheck_Skipped(a) ==
    /\ att[a].pc = "check"
    /\ att' = [att EXCEPT ![a].pc = "build"]
    /\ UNCHANGED <<credential, catalog>>

\* The model is checked again at the dispatch boundary.
LiveCheck(a) ==
    /\ att[a].pc = "check"
    /\ IF att[a].req.live /\ ~ModelIsFree(att[a].req.model)
       THEN End(a, "pre_dispatch", 0)
       ELSE att' = [att EXCEPT ![a].pc = "build"]
    /\ UNCHANGED <<credential, catalog>>

\* No credential, or a payload that cannot be built.
Build(a) ==
    /\ att[a].pc = "build"
    /\ \/ End(a, "pre_dispatch", 0)
       \/ credential /\ att' = [att EXCEPT ![a].pc = "open"]
    /\ UNCHANGED <<credential, catalog>>

\* External: a provider counts at most a token for every three characters begun,
\* and one for a request without any.
InputTokens(chars) == {n \in 1 .. (chars + 3) : n = 1 \/ 3 * (n - 1) < chars}

\* The request goes out.  The provider may do its work, within its bounds.
Send(a) ==
    /\ att[a].pc = "open"
    /\ \/ att' = [att EXCEPT ![a].pc = "wire"]
       \/ \E input \in InputTokens(att[a].req.chars),
             output \in 0 .. att[a].req.max_output :
             att' = [att EXCEPT ![a].pc = "wire",
                        ![a].work = [done |-> TRUE, input |-> input, output |-> output]]
    /\ UNCHANGED <<credential, catalog>>

\* An HTTP error status, whatever it is.
Rejected(a) ==
    /\ att[a].pc = "wire"
    /\ att' = [att EXCEPT ![a].pc = "done", ![a].phase = "definitive", ![a].answer = "status"]
    /\ UNCHANGED <<credential, catalog>>

\* The connection fails, times out, or breaks while the body is read.
NoAnswer(a) ==
    /\ att[a].pc = "wire"
    /\ att' = [att EXCEPT ![a].pc = "done", ![a].phase = "unknown", ![a].answer = "none"]
    /\ UNCHANGED <<credential, catalog>>

\* A body that cannot be used: no JSON, no output, a negative usage; or an
\* adapter without the price card.
Unusable(a) ==
    /\ att[a].pc = "wire"
    /\ att' = [att EXCEPT ![a].pc = "done", ![a].phase = "unknown", ![a].answer = "unusable"]
    /\ UNCHANGED <<credential, catalog>>

\* An answer, of text or of something else, with the usage it reports or with
\* none, which counts as zero tokens.
Answered(a, usage, text) ==
    LET req == att[a].req
        work == att[a].work
    IN /\ att[a].pc = "wire" /\ work.done /\ req.card \in DOMAIN Cards
       /\ att' = [att EXCEPT ![a].pc = "done", ![a].phase = "success",
                    ![a].answer = IF ~usage THEN "no_usage"
                                  ELSE IF text THEN "text" ELSE "other",
                    ![a].charge = IF usage
                                  THEN Charge(Cards[req.card], work.input, work.output, FALSE)
                                  ELSE Charge(Cards[req.card], 0, 0, FALSE)]
    /\ UNCHANGED <<credential, catalog>>

AdapterStep(a) ==
    \/ LiveCheck(a) \/ Build(a) \/ Send(a)
    \/ Rejected(a) \/ NoAnswer(a) \/ Unusable(a)
    \/ \E usage, text \in BOOLEAN : Answered(a, usage, text)

-----------------------------------------------------------------------------
(* Properties. *)

Phases == {"underway", "pre_dispatch", "definitive", "unknown", "success"}

AdapterTypeOK ==
    /\ CatalogOK
    /\ credential \in BOOLEAN
    /\ \A a \in Actors :
          /\ att[a].pc \in {"idle", "check", "build", "open", "wire", "done"}
          /\ att[a].phase \in Phases /\ (att[a].phase # "underway" <=> att[a].pc = "done")
          /\ att[a].charge \in Nat /\ att[a].reserved \in Nat

\* What the provider bills for the attempt.
Bill(a) ==
    IF att[a].work.done
    THEN Charge(Cards[att[a].req.card], att[a].work.input, att[a].work.output, FALSE)
    ELSE 0

\* What the ledger keeps of it: the charge of an answer, the whole reservation
\* where the outcome is unknown, and nothing after a failure that is sure.
Kept(a) ==
    CASE att[a].phase = "success" -> att[a].charge
      [] att[a].phase = "unknown" -> att[a].reserved
      [] OTHER -> 0

\* Work that is billed is never booked below its bill, and never above what was
\* reserved for it, whether it was answered, timed out or broke off: except
\* where the provider says otherwise, by an error status or an answer that
\* reports no usage.  And before a failure that is said to precede the dispatch
\* nothing went out, billed or not: the router gives the key back on this word.
BillIsCovered ==
    \A a \in Actors :
        /\ att[a].phase = "pre_dispatch" => ~att[a].work.done
        /\ att[a].pc = "done" /\ att[a].reserved > 0
               /\ att[a].answer \notin {"status", "no_usage"} =>
              Bill(a) <= Kept(a) /\ Kept(a) <= att[a].reserved
=============================================================================
