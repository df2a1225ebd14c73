------------------------------- MODULE Table -------------------------------
(* One table of the service's database (db/curr_exchange.sql), seen by its   *)
(* readers: which version of each row a committed state holds.  The service  *)
(* inserts rows and updates them and never deletes one, so the version of a  *)
(* row is the number of the commit that last wrote it, 0 while it is absent. *)
(* history[t] is the state after commit t: a query answered at moment t      *)
(* returns exactly history[t].                                               *)
EXTENDS Naturals

CONSTANTS Rows,        \* the rows the table can hold
          MaxCommits   \* bound on the number of commits

ASSUME MaxCommitsAssumption == MaxCommits \in Nat

VARIABLES clock,       \* number of commits so far
          history      \* history[t], t \in 0..clock

tableVars == <<clock, history>>

Versions == [Rows -> Nat]

NoRows == [r \in Rows |-> 0]

TableTypeOK == /\ clock \in 0..MaxCommits
               /\ history \in [0..clock -> Versions]

TableInit == /\ clock = 0
             /\ history = [t \in 0..0 |-> NoRows]

\* A commit of an INSERT or an UPDATE of row r, by any client of the database.
DbWrite(r) ==
    /\ clock < MaxCommits
    /\ clock' = clock + 1
    /\ history' = [t \in 0..(clock + 1) |->
                     IF t = clock + 1
                       THEN [history[clock] EXCEPT ![r] = clock + 1]
                       ELSE history[t]]

\* v is at least as recent as w, row by row.
AtLeast(v, w) == \A r \in Rows : w[r] <= v[r]
============================================================================
