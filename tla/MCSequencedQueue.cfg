SPECIFICATION FairSpec
CONSTANTS
  Producers = {p1, p2}
  SegmentLen = 1
  SequenceLimit = 2
  MaxOffers = 2
INVARIANTS TypeOK FifoExactlyOnce DrainIsFinal StoppedMeansSettled SegmentsIntact
PROPERTY ClosedQueueEmpties
CHECK_DEADLOCK FALSE
