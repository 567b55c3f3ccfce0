SPECIFICATION FairSpec
CONSTANTS
  order = order
  notice = notice
  finance = finance
  Events = {order, notice}
  Workers = {w1, w2}
  Mortal = {w1}
  Handlers = {finance}
  HandlersFor <- MCHandlersFor
  MaxAttempts = 2
  BatchSize = 2
  Concurrency = 2
  NoWorker = NoWorker
CHECK_DEADLOCK FALSE
INVARIANTS RepeatsAreBounded
PROPERTIES ImplementsContract EveryEventEnds
CONSTRAINT OrderFirst
