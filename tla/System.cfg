\* Both servers: guests gather, play, drop and come back through the lobby.
CONSTANTS
  c1 = c1
  c2 = c2
  c3 = c3
  ann = ann
  ben = ben
  eve = eve
  g1 = g1
  g2 = g2
  None = None
  LobbyConns <- ThreeGuests
  GameConns  <- ThreeArrivals
  Usernames  <- ThreeNames
  GameNames  <- TwoGames
  MaxGames   = 2
  MaxOpened  = 4
SPECIFICATION Spec
CHECK_DEADLOCK FALSE
INVARIANTS
  SetupsMatchClaims
  NamesAreOfOneGame
PROPERTIES
  ImplementsGameServer
  SeatsAreKept
  ReturnersAreRedirected
  FirstComersGetIn
SYMMETRY Interchangeable
