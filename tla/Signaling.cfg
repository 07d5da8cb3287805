CONSTANTS
  None = None
  Refused = Refused
  MaxCandidates = 2
  MaxPerPatch = 4
  MaxBody = 20
  MaxText = 100
  MaxMline = 2
  Offers <- MCOffers
  Requests <- MCRequests
  Trickling = {"pcmu publisher", "pcmu subscriber"}
  Credentials <- MCCredentials
  Packets <- MCPackets
  Endpoints <- MCEndpoints
SPECIFICATION Spec
INVARIANTS AnswerFitsOffer MappingFitsAnswer CandidatesAreSound PatchesAreKept ChecksAreAnswered
