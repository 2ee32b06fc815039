-------------------------- MODULE MCAtomicRingBuffer --------------------------
(* Instances of AtomicRingBuffer for TLC. *)
EXTENDS RingProofs, TLC

CONSTANTS p1, p2, c1, c2, v1, v2

\* Producers, consumers and payloads are interchangeable.
Symmetry == Permutations(Producers) \cup Permutations(Consumers) \cup Permutations(Values)

\* A negative count is converted to a large std::size_t by the clamp.
Counts == -1 .. 3

=============================================================================
