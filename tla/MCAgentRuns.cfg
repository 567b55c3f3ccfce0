SPECIFICATION FairSpec
CONSTANTS
  Runs = {r1}
  Triggered = {}
  PageOf <- MCPageOf
  Workers = {w1, w2}
  NoWorker = NoWorker
  StepCount = 1
  Packets = {p1}
  MaxControls = 2
INVARIANTS NeverReplayed OfficeAgrees
PROPERTIES CancelledIsFinal EveryRunEnds
CONSTRAINT OffBeforePackets
