SPECIFICATION Spec
CONSTANTS
  Keys = {k1, k2, k3}
  Sizes = {1, 3}
  MaxAge = 2
  MaxPackets = 2
  MaxBytes = 4
  Interval = 2
  MaxHits = 1
  MaxTime = 3
  MaxSerial = 4
  Media = {1}
  Sources = {r1, r2}
  Sessions = {p1, p2}
  ReportLimit = 3
  SeqMod = 4
  HistoryLimit = 2
  HistoryAge = 1
  None = None
CONSTANT Settings <- MCSettings
SYMMETRY Symmetry
INVARIANTS
  AccountsAgree
  ReportsAreTrue
  FeedbackFindsPackets
PROPERTIES
  OldestLeaveFirst
  RetransmissionsAreSpaced
