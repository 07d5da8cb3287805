SPECIFICATION Spec
CONSTANTS
  Streams = {st1}
  Publishers = {p1}
  Subscribers = {s1, s2}
  Offers = {o1}
  Ssrcs = {r1, r2}
  RetryDelays = 2
  NoStream = NoStream
  NoSource = NoSource
  NoSsrc = NoSsrc
  MaxGeneration = 2
  MaxQueued = 2
  MaxToken = 3
SYMMETRY Symmetry
INVARIANTS
  WaitersAgree
  BurstIsBounded
CHECK_DEADLOCK FALSE
