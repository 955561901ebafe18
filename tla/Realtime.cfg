CONSTANTS
  w1 = w1
  w2 = w2
  s1 = s1
  here = here
  there = there
  t1 = t1
  Anonymous = Anonymous
  Sockets = {w1, w2}
  Streams = {s1}
  Addresses = {here, there}
  IpOf <- Where
  Tokens = {t1}
  Admins = {}
  Rules <- EventRules
  MaxConnections = 2
  MaxPerIp = 2
  MaxTopics = 2
  InlineMax = 1
  MaxBacklog = 3
  MaxEvents = 2
  MaxAsks = 1
  Listeners = {w1, s1}
CHECK_DEADLOCK FALSE
SPECIFICATION FairSpec
INVARIANTS InOrder GoneHoldsNothing
PROPERTIES NothingSkipped NothingAfterLeaving RevokedForgotten
