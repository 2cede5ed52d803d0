\* Remote services: other events run while an answer is out.
CONSTANTS
  c1 = c1
  c2 = c2
  c3 = c3
  ann = ann
  ben = ben
  eve = eve
  g1 = g1
  g2 = g2
  None = None
  Conns     <- ThreeConns
  Usernames <- ThreeNames
  GameNames <- TwoGames
  MaxGames  = 2
  Services  = "remote"
  Quirks    <- Plain
SPECIFICATION Spec
CHECK_DEADLOCK FALSE
INVARIANTS
  PlayersAreSessions
  ClaimsHaveSeats
SYMMETRY Interchangeable
