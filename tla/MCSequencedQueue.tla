-------------------------- MODULE MCSequencedQueue --------------------------
(* SequencedQueue for TLC: producers are interchangeable.                  *)
EXTENDS SequencedQueue, TLC

ProducerSymmetry == Permutations(Producers)
=============================================================================
