SPECIFICATION LifecycleFairSpec
CONSTANTS
  Streams = {st1, st2}
  Publishers = {p1, p2}
  Subscribers = {s1, s2}
  Offers = {o1, o2}
  Ssrcs = {}
  RetryDelays = 4
  NoStream = NoStream
  NoSource = NoSource
  NoSsrc = NoSsrc
  NoSession = NoSession
  MaxGeneration = 4
  MaxQueued = 0
  MaxToken = 0
  PortCount = 3
INVARIANTS
  RegistryAgrees
  LeasesMatchSessions
PROPERTIES
  SilentSessionsEnd
CHECK_DEADLOCK FALSE
