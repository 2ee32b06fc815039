---------------------------- MODULE MCThreadPool ----------------------------
(* Instances of ThreadPool for TLC. *)
EXTENDS ThreadPool

CONSTANTS c1, c2, t1, t2, t3, t4

\* No task submits another; task t1 submits t2.
NoSpawn == [k \in Tasks |-> NoTask]
T1SpawnsT2 == [k \in Tasks |-> IF k = t1 THEN t2 ELSE NoTask]

=============================================================================
