------------------------------ MODULE MCServer ------------------------------
(* Server for TLC: two threads for the server's io_context, one for another  *)
(* that has work, one for one that has none.                                 *)
EXTENDS Server

CONSTANTS t1, t2, u1, v1, server, other, unused

MCThreads == {t1, t2, u1, v1}
MCContexts == {server, other, unused}
MCContextOf == [t \in MCThreads |-> CASE t \in {t1, t2} -> server
                                      [] t = u1 -> other
                                      [] t = v1 -> unused]
MCIdle == {unused}
============================================================================
