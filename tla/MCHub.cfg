CONSTANTS
  Actors = {a1, a2, a3}
  Names = {alice, bob}
  SESSION_QUEUE_DEPTH = 1
  MaxSend = 0
  None = None
SPECIFICATION Spec
SYMMETRY Symmetry
INVARIANTS TypeOK RegistryMatchesClaims OccupancyCountsClaims
           NeverEchoed HoldersDoNotInterleave
PROPERTIES FanOutComplete WelcomeNearOccupancy
