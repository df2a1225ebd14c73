----------------------------- MODULE MCFilters -----------------------------
(* Filters for TLC: two handlers, up to three filters each, the same one     *)
(* twice among them, and names the factories do not know.                    *)
EXTENDS Filters

CONSTANTS get, post, auth, log, unknown

MCHandlers == {get, post}
MCFilterNames == {auth, log, unknown}
MCKnown == {get, post, auth, log}
============================================================================
