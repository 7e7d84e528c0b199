\* Three commands, whichever they are, at once or one after the other.
CONSTANTS
  Command = {c1, c2, c3}
  MaxPid = 3
CHECK_DEADLOCK FALSE
SPECIFICATION FairSpec
INVARIANTS DaemonTypeOK OneAtMost Tracked
  
