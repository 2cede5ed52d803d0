\* Pipelined requests, names that collide, players who ready up again.
CONSTANTS
  c1 = c1
  c2 = c2
  c3 = c3
  ann = ann
  ben = ben
  eve = eve
  g1 = g1
  g2 = g2
  None = None
  Conns     <- ThreeConns
  Usernames <- ThreeNames
  GameNames <- TwoGames
  MaxGames  = 2
  Services  = "inProcess"
  Quirks    <- Untidy
SPECIFICATION Spec
CHECK_DEADLOCK FALSE
INVARIANTS
  PlayersAreSessions
  LobbyStaysUp
SYMMETRY Interchangeable
