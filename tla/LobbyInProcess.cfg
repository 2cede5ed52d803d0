\* Guests whose requests may be pipelined; everything in one process.
CONSTANTS
  c1 = c1
  c2 = c2
  c3 = c3
  ann = ann
  ben = ben
  eve = eve
  g1 = g1
  g2 = g2
  None = None
  Conns     <- ThreeConns
  Usernames <- TwoNames
  GameNames <- TwoGames
  MaxGames  = 2
  Services  = "inProcess"
  Quirks    <- Pipelining
SPECIFICATION FairSpec
CHECK_DEADLOCK FALSE
INVARIANTS
  TypeOK
  PlayersAreSessions
  LobbyStaysUp
  ClaimsHaveSeats
  SeatsHaveClaims
  NamesStayUnique
PROPERTIES
  EveryoneIsInstructed
