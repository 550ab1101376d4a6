------------------------------ MODULE FreeCheck ------------------------------
(***************************************************************************)
(* model_is_free (free_check.py): whether OpenRouter's live catalog lists  *)
(* exactly this model at no price.  The catalog is fetched anew for every  *)
(* answer, and every failure answers no.                                   *)
(*                                                                         *)
(* The catalog is another party's: what it lists changes at any time, and  *)
(* it may be out of reach or answer something that is no catalog.  An id   *)
(* may be listed more than once; an entry's pricing maps the names it uses *)
(* to "zero" or to "other", a price or a value that is no finite number.   *)
(***************************************************************************)
EXTENDS Integers, Sequences

CONSTANTS
    Models,     \* model ids
    Listings    \* Listings[m]: the entries the catalog may have for m

PriceNames == {"prompt", "input", "completion", "output"}
Pricing == UNION {[names -> {"zero", "other"}] : names \in SUBSET PriceNames}

ASSUME ListingAssumption ==
    /\ DOMAIN Listings = Models
    /\ \A m \in Models : Listings[m] \subseteq Seq(Pricing)

VARIABLE catalog    \* the catalog: whether it can be had, and what it lists

CatalogOK ==
    /\ catalog.reachable \in BOOLEAN
    /\ \A m \in Models : catalog.entries[m] \in Listings[m]

\* _has_unambiguous_zero_io_pricing: an input and an output price are given,
\* and whatever is given, under either name, is exactly zero.
ZeroPricing(pricing) ==
    /\ {"prompt", "input"} \cap DOMAIN pricing # {}
    /\ {"completion", "output"} \cap DOMAIN pricing # {}
    /\ \A k \in DOMAIN pricing : pricing[k] = "zero"

ModelIsFree(m) ==
    /\ catalog.reachable /\ m \in Models
    /\ Len(catalog.entries[m]) = 1
    /\ ZeroPricing(catalog.entries[m][1])

CatalogInit ==
    catalog \in [reachable : {TRUE},
                 entries : {f \in [Models -> UNION {Listings[m] : m \in Models}] :
                               \A m \in Models : f[m] \in Listings[m]}]

\* External: a model is listed otherwise, or the catalog goes or comes back.
Relist ==
    \/ \E m \in Models : \E entries \in Listings[m] \ {catalog.entries[m]} :
          catalog' = [catalog EXCEPT !.entries[m] = entries]
    \/ catalog' = [catalog EXCEPT !.reachable = ~@]
=============================================================================
