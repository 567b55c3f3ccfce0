SPECIFICATION VoiceSpec
CONSTANTS
  Creators = {k1}
  Closers = {c1, c2, c3}
  MaxMinutes = 3
SYMMETRY CloserSymmetry
CHECK_DEADLOCK FALSE
INVARIANTS EndedIsCharged
