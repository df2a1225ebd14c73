---------------------------- MODULE SnapshotView ----------------------------
(* What a cache of the service promises its readers, whatever the machinery  *)
(* of timers, queries and completion handlers behind it: the view is always  *)
(* one committed state of the whole table, never a mixture of two, and       *)
(* a refresh never replaces a row by an older version of it.                 *)
EXTENDS Table

VARIABLE view          \* what readers of the cache see

viewVars == <<clock, history, view>>

Init == TableInit /\ view = NoRows

Write == (\E r \in Rows : DbWrite(r)) /\ UNCHANGED view

Refresh == /\ \E t \in 0..clock : view' = history[t]
           /\ AtLeast(view', view)
           /\ UNCHANGED tableVars

Next == Write \/ Refresh

Spec == Init /\ [][Next]_viewVars

-----------------------------------------------------------------------------
TypeOK == TableTypeOK /\ view \in Versions

\* A reader never sees rows of two different database states together.
IsSnapshot == \E t \in 0..clock : view = history[t]

\* A reader that has seen a row version never sees an older one later.
NeverGoesBack == [][AtLeast(view', view)]_viewVars
=============================================================================
