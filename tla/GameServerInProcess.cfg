\* The build as it is: guests, stores in the process.
CONSTANTS
  alice = alice
  bob   = bob
  carol = carol
  dan   = dan
  ann   = ann
  ben   = ben
  eve   = eve
  g1    = g1
  None  = None
  Users       <- ThreeUsers
  AuthUsers   <- Nobody
  Usernames   <- FourNames
  GameNames   <- OneGame
  Conns       <- FiveConns
  MaxForwards = 2
  Services    = "inProcess"
  Quirks      <- Plain
SPECIFICATION Spec
CHECK_DEADLOCK FALSE
INVARIANTS
  TypeOK
  RecordHasOpportunity
  ManagerHoldsActive
  OneConnectionPerUser
  RegisteredHasEndpoint
  RecordMeansAway
  NoInputWhileSomeoneIsMissing
  PausedGameHasWayOut
PROPERTIES
  ClaimReseats
  TimeoutNeverKicksConnected
  SeatsAreKept
SYMMETRY Interchangeable
