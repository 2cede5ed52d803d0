\* Central stores: other events run while a store call is out.
CONSTANTS
  alice = alice
  bob   = bob
  carol = carol
  dan   = dan
  ann   = ann
  ben   = ben
  eve   = eve
  g1    = g1
  None  = None
  Users       <- TwoUsers
  AuthUsers   <- Nobody
  Usernames   <- ThreeNames
  GameNames   <- OneGame
  Conns       <- FourConns
  MaxForwards = 2
  Services    = "failing"
  Quirks      <- Plain
SPECIFICATION FairSpec
CHECK_DEADLOCK FALSE
INVARIANTS
  OneConnectionPerUser
  OnlyTheUnheardIsMissed
  PausedGameHasWayOut
PROPERTIES
  ClaimReseats
  TimeoutNeverKicksConnected
  PausedGameResumes
  SeatsAreSettled
