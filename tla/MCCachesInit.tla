---------------------------- MODULE MCCachesInit ----------------------------
(* CachesInit for TLC: the service's two caches, the rates reading the       *)
(* currencies; a third one that reads the rates; and one more that reads the *)
(* currencies, so that a wait chains and two threads sleep for one cache.    *)
EXTENDS CachesInit, TLC

CONSTANTS currencies, rates, derived, other

MCSource == [c \in Caches |-> CASE c = currencies -> NoCache
                                [] c = derived -> rates
                                [] OTHER -> currencies]
============================================================================
