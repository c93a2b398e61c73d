SPECIFICATION FairSpec
CONSTANTS
  MaxItems = 3
  MaxGrants = 3
  MaxPauses = 2
CHECK_DEADLOCK FALSE
INVARIANTS OwnersCounted CreditsConserved
PROPERTIES ImplementsStream NoLostWakeup BridgeReleased
