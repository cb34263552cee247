---------------------------- MODULE MCPollOwner ----------------------------
EXTENDS PollOwner, TLC

CONSTANTS p1, p2

TwoPartitions == {p1, p2}

TwoAndOne == (p1 :> 2) @@ (p2 :> 1)

OnePartition == {p1}

OnlyTwo == (p1 :> 2)

OneEach == [p \in TwoPartitions |-> 1]
=============================================================================
