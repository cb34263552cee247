------------------------------ MODULE MCOutbox ------------------------------
EXTENDS Outbox, TLC

CONSTANTS d1, d2

TwoDispatchers == {d1, d2}

Symmetry == Permutations(TwoDispatchers)
=============================================================================
