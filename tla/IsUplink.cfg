\* Three slots, one save, one change of the network, one competing bring-up.
SPECIFICATION IsFairSpec
CONSTANTS
  N = 3
  Filters = {"", "r"}
  MaxSaves = 1
  MaxToggles = 1
  MaxDefers = 1
INVARIANTS UplinkKept
PROPERTIES LeftBehind ServersServed
