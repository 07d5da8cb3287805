SPECIFICATION Spec
CONSTANTS
  Streams = {st1, st2}
  Publishers = {p1, p2}
  Subscribers = {s1, s2}
  Offers = {o1, o2}
  Ssrcs = {r1}
  RetryDelays = 4
  NoStream = NoStream
  NoSource = NoSource
  NoSsrc = NoSsrc
  MaxGeneration = 4
  MaxQueued = 1
  MaxToken = 2
SYMMETRY Symmetry
INVARIANTS
  TypeOK
  GenerationsAgree
  ViewIsCurrent
  TimingsAgree
  OrphansAreTimed
PROPERTIES
  RecoverySparesPublished
  ViewMovesForward
CHECK_DEADLOCK FALSE
