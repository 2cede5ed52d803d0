\* A player who stayed behind readies up again after the handoff.
CONSTANTS
  c1 = c1
  c2 = c2
  c3 = c3
  ann = ann
  ben = ben
  eve = eve
  g1 = g1
  g2 = g2
  None = None
  Conns     <- TwoConns
  Usernames <- TwoNames
  GameNames <- TwoGames
  MaxGames  = 2
  Services  = "inProcess"
  Quirks    <- ReadyAgain
SPECIFICATION Spec
CHECK_DEADLOCK FALSE
INVARIANTS
  ClaimsHaveSeats
