SPECIFICATION Spec
CONSTANTS
  Settings <- MCSettings
  AllSsrcs = {s1, s2, s3}
  InitialNumber = 0
  InitialOffset = 0
  None = None
SYMMETRY SsrcSymmetry
INVARIANTS
  SourceIsWhole
  BindingsAgree
  OnOneLine
  RepairNamesItsPacket
PROPERTIES
  TimelineContinues
  NumbersGoOn
