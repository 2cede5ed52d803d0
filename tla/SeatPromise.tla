----------------------------- MODULE SeatPromise -----------------------------
(***************************************************************************)
(* What the reconnection machinery is for, with nothing of how it works: a  *)
(* player who was handed off takes a seat, may lose it and take it back, and *)
(* is given up only while away; and a game is open for input only while all  *)
(* its seats are taken or given up.  GameServer implements this.            *)
(***************************************************************************)
CONSTANTS Users, GameNames

VARIABLES
  seat,  \* game name -> user -> where they stand in that game
  open   \* the games somebody can act in

vars == <<seat, open>>

Stages == {"none", "expected", "taken", "vacant", "given up", "lost"}

(* A player may be waited for, be there, or be out of the game. *)
Settled(n) == \A u \in Users : seat[n][u] \in {"none", "taken", "given up"}

(* A game opens only with a change of one of its own seats, and it is never
   open while somebody is waited for. *)
Opening(n) ==
  /\ open' \subseteq open \cup {n}
  /\ open \ {n} \subseteq open'
  /\ n \in open' => Settled(n)'

Init == seat = [n \in GameNames |-> [u \in Users |-> "none"]] /\ open = {}

Move(n, u, from, to) ==
  /\ seat[n][u] = from
  /\ seat' = [seat EXCEPT ![n][u] = to]
  /\ Opening(n)

(* A game is handed off, once, to the users in S. *)
HandOff(n, S) ==
  /\ \A u \in Users : seat[n][u] = "none"
  /\ seat' = [seat EXCEPT ![n] = [u \in Users |-> IF u \in S THEN "expected" ELSE "none"]]
  /\ UNCHANGED open

Arrive(n, u) == Move(n, u, "expected", "taken")
Drop(n, u)   == Move(n, u, "taken", "vacant")
Return(n, u) == Move(n, u, "vacant", "taken")
GiveUp(n, u) == Move(n, u, "vacant", "given up")

(* Somebody without a seat, turned away, may still pause a game. *)
Pause(n) ==
  /\ open' = open \ {n}
  /\ UNCHANGED seat

(* The process ends: every seat is lost. *)
Crash ==
  /\ seat' = [n \in GameNames |->
       [u \in Users |-> IF seat[n][u] = "none" THEN "none" ELSE "lost"]]
  /\ open' = {}

Next ==
  \/ Crash
  \/ \E n \in GameNames, S \in SUBSET Users : HandOff(n, S)
  \/ \E n \in GameNames : Pause(n)
  \/ \E n \in GameNames, u \in Users :
       Arrive(n, u) \/ Drop(n, u) \/ Return(n, u) \/ GiveUp(n, u)

Spec == Init /\ [][Next]_vars

(* Nobody is waited for without end once they have been there. *)
NobodyHangs ==
  \A n \in GameNames, u \in Users : seat[n][u] = "vacant" ~> seat[n][u] # "vacant"

LiveSpec == Spec /\ NobodyHangs
=============================================================================
