SPECIFICATION Spec
CONSTANTS
  Streams = {st1}
  Publishers = {p1}
  Subscribers = {s1, s2}
  Offers = {o1, o2}
  Ssrcs = {}
  RetryDelays = 4
  NoStream = NoStream
  NoSource = NoSource
  NoSsrc = NoSsrc
  MaxGeneration = 4
  MaxQueued = 2
  MaxToken = 1
PROPERTIES KeptOnRepublish
CHECK_DEADLOCK FALSE
