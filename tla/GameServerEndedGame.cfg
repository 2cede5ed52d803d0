\* A game ends and its status record is to go.
CONSTANTS
  alice = alice
  bob   = bob
  carol = carol
  dan   = dan
  ann   = ann
  ben   = ben
  eve   = eve
  g1    = g1
  None  = None
  Users       <- TwoUsers
  AuthUsers   <- Nobody
  Usernames   <- ThreeNames
  GameNames   <- OneGame
  Conns       <- FourConns
  MaxForwards = 2
  Services    = "inProcess"
  Quirks      <- Plain
SPECIFICATION Spec
CHECK_DEADLOCK FALSE
INVARIANTS
  ActiveStatusMeansGame
