---------------------------- MODULE MCLobbyServer ----------------------------
(***************************************************************************)
(* Instances of LobbyServer for TLC.                                        *)
(***************************************************************************)
EXTENDS LobbyServer, TLC

CONSTANTS c1, c2, c3,    \* connections
          ann, ben, eve, \* names of guests
          g1, g2         \* names of games

TwoConns   == {c1, c2}
ThreeConns == {c1, c2, c3}
ThreeNames == {ann, ben, eve}
TwoNames   == {ann, ben}
TwoGames   == {g1, g2}
Plain      == {}
Pipelining == {"pipelined"}
ReadyAgain == {"readyAgain"}
Untidy     == {"pipelined", "readyAgain", "unluckyNames"}

Interchangeable ==
  Permutations(ThreeConns) \cup Permutations(ThreeNames) \cup Permutations(TwoGames)
=============================================================================
