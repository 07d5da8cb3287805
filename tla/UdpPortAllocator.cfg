SPECIFICATION Spec
CONSTANTS
  MinPort = 65532
  MaxPort = 65535
  NoPort = NoPort
INVARIANTS
  ScannedPortsAreUsed
PROPERTIES
  ImplementsPool
