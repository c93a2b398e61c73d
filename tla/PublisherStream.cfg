SPECIFICATION FairSpec
CONSTANTS
  Publishers = {p, q}
  Completer = p
  Items <- TwoEach
  MaxGrants = 5
CHECK_DEADLOCK FALSE
INVARIANTS OwnersCounted CallbackJoined ProcessingHasCredit
PROPERTIES ImplementsStream PublishedArrive StreamReleased
