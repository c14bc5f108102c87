SPECIFICATION FairSpec
CONSTANTS
  Requests = {r1, r2, r3}
  None = None
  ConcurrentRequestsUnlimited = 0
  Settings <- MCSettings
INVARIANTS TypeOK SlotsBounded WaitersQueued InlineHolds
PROPERTIES LockReleased WaitEnds NoOvertaking
