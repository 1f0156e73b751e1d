\* The whole bus: subscription races, full queues, one subscriber too many.
SPECIFICATION FairSpec
CONSTANTS
  ctrl = ctrl
  wifi = wifi
  gui = gui
  web = web
  scpi = scpi
  Publisher = {ctrl, wifi}
  Subscriber = {gui, web, scpi}
  NoQueue = NoQueue
  MaxSubscribers = 2
  Capacity <- MCCapacity
  MaxMessages = 2
INVARIANTS
  TypeOK
  QueueOrdered
  Accounted
  PanicOnlyInSubscribe
PROPERTIES
  PublishReturns
  ImplementsService
\* A panic stops every task, and each publisher stops at its bound.
CHECK_DEADLOCK FALSE
