\* Tokens that live three milliseconds, a clock that may go on between readings.
CONSTANTS
  k1 = k1
  k2 = k2
  k3 = k3
  alice = alice
  bob = bob
  None = None
  Claims     <- ThreeClaims
  Users      <- TwoUsers
  TimeToLive = 3
  MaxPause   = 2
  MaxTime    = 8
SPECIFICATION Spec
CHECK_DEADLOCK FALSE
INVARIANTS
  TypeOK
  SpentClaimsAreRemembered
  AcceptedAtMostTwice
PROPERTIES
  ReplayOnlyAcrossExpiry
SYMMETRY Interchangeable
