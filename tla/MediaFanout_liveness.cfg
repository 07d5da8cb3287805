SPECIFICATION FairSpec
CONSTANTS
  Streams = {st1}
  Publishers = {p1}
  Subscribers = {s1, s2}
  Offers = {o1}
  Ssrcs = {r1}
  RetryDelays = 4
  NoStream = NoStream
  NoSource = NoSource
  NoSsrc = NoSsrc
  MaxGeneration = 4
  MaxQueued = 2
  MaxToken = 6
PROPERTIES OrphansAreResolved WaitsAreRetried
CHECK_DEADLOCK FALSE
