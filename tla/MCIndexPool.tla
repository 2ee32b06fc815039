----------------------------- MODULE MCIndexPool -----------------------------
(* An instance of ThreadSafeIndexPool for TLC: more threads than indexes. *)
EXTENDS ThreadSafeIndexPool

CONSTANTS a, b, c

=============================================================================
