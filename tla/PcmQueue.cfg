\* The prebuffer mark at the capacity and packets larger than the ring; pops and
\* packets straddle the half mark, and a stream is longer than two rings.
CONSTANTS
  Capacity = 4
  PrebufferMark = 4
  MaxFrames = 9
  MaxPacket = 5
  MaxPop = 3
SPECIFICATION FairThreads
INVARIANTS NoLostWake EndOnlyWhenDrained
PROPERTIES ImplementsStream CancelStopsTheThread PlaysToTheEnd
\* Once the thread and the callback are done, nothing is left to do.
CHECK_DEADLOCK FALSE
