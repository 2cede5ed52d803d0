---------------------------- MODULE MCGameServer ----------------------------
(***************************************************************************)
(* Instances of GameServer for TLC.  Users, names and games are model       *)
(* values; connections are numbers, since they are drawn in order.          *)
(***************************************************************************)
EXTENDS GameServer, TLC

CONSTANTS alice, bob, carol,    \* users
          ann, ben, dan, eve,     \* names: of the seats, and of a visitor
          g1                      \* the game

TwoUsers   == {alice, bob}
ThreeNames == {ann, ben, eve}
OneGame    == {g1}
FourConns  == 1 .. 4
FiveConns  == 1 .. 5
ThreeUsers == {alice, bob, carol}
FourNames  == {ann, ben, dan, eve}
Nobody     == {}
Plain      == {}

(* Where all are guests, users, names and games are interchangeable. *)
Interchangeable ==
  Permutations(Users) \cup Permutations(Usernames) \cup Permutations(GameNames)
=============================================================================
