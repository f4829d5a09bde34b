\* Two producers, two usable slots, three frames and a rebuild.
SPECIFICATION FairSpec
CONSTANTS
  Producers = {p1, p2}
  Slots = 3
  MissMax = 2
  BusyTimeout = TRUE
  MaxFrames = 3
  MaxRebuilds = 1
INVARIANTS KeyUpSound
PROPERTIES UnkeyGap RingIsQueue FrameLeaves
CHECK_DEADLOCK FALSE
