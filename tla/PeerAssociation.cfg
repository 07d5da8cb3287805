SPECIFICATION Spec
CONSTANTS
  Endpoints = {e1, e2, e3}
  Ipv6 = {e3}
  NoEndpoint = NoEndpoint
  NoPeer = NoPeer
  MaxSsl = 4
INVARIANTS
  PeersFollowSelection
  KeysAgree
PROPERTIES
  AssociationSurvives
  FailedNominationChangesNothing
  SessionsMadeOnce
CHECK_DEADLOCK FALSE
