SPECIFICATION Spec
CONSTANTS
  Ssrcs = {1, 2, 3}
  Codecs <- AudioVideo
  MaxSources = 2
  MaxBlocks = 1
  SeqMod = 8
  Dropout = 3
  Misorder = 3
  MaxJump = 2
  StatusLimit = 2
  HistoryLimit = 2
  MaxDatagrams = 2
  FirstNumbers = {7}
  MaxNumber = 20
  MaxPackets = 3
  None = None
INVARIANTS
  NumbersAreTrue
  ReportsAddUp
  ArrivalsAreReported
