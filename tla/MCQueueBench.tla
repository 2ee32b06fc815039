---------------------------- MODULE MCQueueBench ----------------------------
(* An instance of QueueBench for TLC: req has three slots, rep has two and a  *)
(* payload that may throw, and the third ring has a single slot.              *)
EXTENDS QueueBench

CONSTANTS t0, t1, One

ProducerOf == [r \in Rings |-> IF r = Rep THEN t1 ELSE t0]
ConsumerOf == [r \in Rings |-> IF r = Rep THEN t0 ELSE t1]
SizeOf == [r \in Rings |-> CASE r = Req -> 3 [] r = Rep -> 2 [] r = One -> 1]

=============================================================================
