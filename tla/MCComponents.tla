---------------------------- MODULE MCComponents ----------------------------
(* Components for TLC.  With all ranks different every acyclic dependence of *)
(* the components occurs, up to their names.  One name is not registered.    *)
EXTENDS Components

CONSTANTS io, pg, currencies, rates, unknown

MCNames == {io, pg, currencies, rates, unknown}
MCRegistered == MCNames \ {unknown}
MCRank == [n \in MCNames |-> CASE n = io -> 1 [] n = pg -> 2
                               [] n = currencies -> 3 [] n = rates -> 4
                               [] n = unknown -> 3]
============================================================================
