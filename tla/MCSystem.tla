------------------------------ MODULE MCSystem ------------------------------
(***************************************************************************)
(* An instance of System for TLC.                                           *)
(***************************************************************************)
EXTENDS System, TLC

CONSTANTS c1, c2, c3,    \* connections to the lobby
          ann, ben, eve, \* names of guests
          g1, g2         \* names of games

ThreeGuests   == {c1, c2, c3}
ThreeNames    == {ann, ben, eve}
TwoGames      == {g1, g2}
ThreeArrivals == 1 .. 3

(* Guests, names and games are interchangeable. *)
Interchangeable ==
  Permutations(LobbyConns) \cup Permutations(Usernames) \cup Permutations(GameNames)
=============================================================================
