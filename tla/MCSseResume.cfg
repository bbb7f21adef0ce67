SPECIFICATION FairSpec
CONSTANTS
  Clients = {a}
  MaxConns = 2
  Nobody = Nobody
  MaxEvents = 2
  Capacity = 1
  MaxSkips = 1
  FaultKinds = {"disconnect"}
INVARIANT ResumeMissesNothing
\* Senders, browsers and connections are bounded, and a dead subscriber's full
\* channel stops its publisher.
CHECK_DEADLOCK FALSE
