-------------------------- MODULE GameServerReturns --------------------------
(***************************************************************************)
(* What a player who comes back may count on, proved for every set of guests,*)
(* names, games and connections when the lobby hands nobody and no name off *)
(* twice: their claim ends in their seat, no timer removes them while they  *)
(* sit, and no record of them is left.  All three rest on one more fact than*)
(* the refinement: whoever stands for a seat still has it (Boarded).  Then,  *)
(* that no user has two connections, whatever the stores (EntersAlone).     *)
(***************************************************************************)
EXTENDS GameServerRefinement

(* Whoever has not been here yet is on the roster of their game. *)
NewcomersHaveSeats ==
  \A n \in registry : \A u \in DOMAIN seats[n] :
    SeenOf(u) = {} => seats[n][u] \in game[n].players

(* So is whoever sits, returns, or left to a timer, in their own name. *)
StandersHaveSeats ==
  \A c \in Conns : phase[c] \notin {"unused", "loading"} /\ StandsIn(c) =>
    seats[sess[c].game][sess[c].user] \in game[sess[c].game].players

Boarded == serverUp => NewcomersHaveSeats /\ StandersHaveSeats

(* What becomes of a roster *)
LEMMA RosterStep ==
  ASSUME Base, Amounts, NEW n \in GameNames
  PROVE  \/ game'[n].players = game[n].players
         \/ seats' = seats /\ game'[n].players = Range(seats[n])
         \/ \E e \in Conns : /\ Removed(e) /\ sess[e].game = n
                             /\ game'[n].players = game[n].players \ {sess[e].name}
<1>1. ASSUME \/ Still \/ (\E m \in GameNames, f \in Seatings : Handed(m, f))
             \/ (\E k \in Keys : Sent(k)) \/ \E e \in Conns : Rang(e) \/ Fell(e)
      PROVE  game' = game
  BY <1>1 DEF Still, Handed, Sent, Rang, Fell
<1>2. ASSUME NEW e \in Conns, NEW cl \in Claims, Came(e, cl)
      PROVE  game' = game
  BY <1>2 DEF Came
<1>3. ASSUME NEW e \in Conns, Dropped(e)
      PROVE  game'[n].players = game[n].players
  BY <1>3, DroppedGame
<1>4. ASSUME NEW e \in Conns, Removed(e)
      PROVE  \/ game'[n].players = game[n].players
             \/ sess[e].game = n /\ game'[n].players = game[n].players \ {sess[e].name}
  BY <1>4, RemovedGame
<1>5. ASSUME NEW e \in Conns, NEW s \in BuiltSessions, NEW gm \in Games, Sat(e, s, gm),
             Joining(e, s, gm) \/ Loading(e, s, gm) \/ Returning(e, s, gm)
      PROVE  \/ game'[n].players = game[n].players
             \/ seats' = seats /\ game'[n].players = Range(seats[n])
  <2>1. CASE n # s.game
    BY <1>5, <2>1 DEF Sat
  <2>2. CASE n = s.game
    BY <1>5, <2>2 DEF Sat, Joining, Loading, Returning
  <2> QED  BY <2>1, <2>2
<1> QED  BY <1>1, <1>2, <1>3, <1>4, <1>5 DEF Amounts

(* A timer takes the seat of the user who left it. *)
LEMMA RemovedIsOwner ==
  ASSUME Base, serverUp, NEW e \in Conns, Removed(e)
  PROVE  /\ phase[e] = "closed" /\ e \notin registered' /\ ~Live(e)'
         /\ InTheirName(e) /\ StandsIn(e)
         /\ \A n \in GameNames : \A u \in DOMAIN seats[n] :
              seats[n][u] = sess[e].name => u = sess[e].user /\ n = sess[e].game
<1>1. phase[e] = "closed" /\ opp'[e] = "expired" /\ registered' = registered
  BY DEF Removed, Base, Shape, TypeOK, OpportunitiesAreLeft
<1>2. OwnsSeat(sess[e]) /\ sess[e].game \in GameNames
  BY <1>1 DEF Removed, BuiltSessions, Base, Owned
<1>3. sess[e].name \in Range(seats[sess[e].game])
  BY <1>2 DEF Removed, Base, Table, PlayersAreSeated
<1>4. InTheirName(e)
  BY <1>2, <1>3, NameOfSeat DEF InTheirName
<1>5. StandsIn(e)
  BY <1>4 DEF StandsIn, Live, Removed
<1>6. e \notin registered'
  BY <1>1 DEF Base, Seated, RefusedHasNoSeat
<1> QED  BY <1>1, <1>2, <1>4, <1>5, <1>6 DEF OwnsSeat, Live

LEMMA NewcomersStep ==
  ASSUME AuthUsers = {}, Base, NewcomersHaveSeats, serverUp, Amounts
  PROVE  NewcomersHaveSeats'
<1> SUFFICES ASSUME NEW n \in registry', NEW u \in DOMAIN seats'[n], SeenOf(u)' = {}
             PROVE  seats'[n][u] \in game'[n].players
  BY DEF NewcomersHaveSeats
<1>1. SeenOf(u) = {}
  BY SeenStep
<1>2. CASE n \in registry
  <2>1. n \in GameNames /\ DOMAIN seats[n] # {}
    BY <1>2 DEF Base, Shape, TypeOK, Table, PlayersAreSeated
  <2>2. seats'[n] = seats[n]
    BY <2>1, SeatsStay
  <2>3. seats[n][u] \in game[n].players
    BY <1>1, <1>2, <2>2 DEF NewcomersHaveSeats
  <2>4. ASSUME NEW e \in Conns, Removed(e), seats[n][u] = sess[e].name
        PROVE  FALSE
    <3>1. e \in SeenOf(u)
      BY <2>1, <2>2, <2>4, RemovedIsOwner DEF SeenOf
    <3> QED  BY <1>1, <3>1
  <2>5. CASE game'[n].players = Range(seats[n])
    BY <2>2, <2>5 DEF Range
  <2> QED  BY <2>1, <2>2, <2>3, <2>4, <2>5, RosterStep
(* the game has just been loaded *)
<1>3. CASE n \notin registry
  <2>1. ASSUME \/ Still \/ (\E m \in GameNames, f \in Seatings : Handed(m, f))
               \/ (\E k \in Keys : Sent(k))
               \/ \E e \in Conns : Rang(e) \/ Fell(e) \/ Dropped(e) \/ Removed(e)
        PROVE  FALSE
    BY <1>3, <2>1 DEF Still, Handed, Sent, Rang, Fell, Dropped, Removed
  <2>2. ASSUME NEW e \in Conns, NEW cl \in Claims, Came(e, cl)
        PROVE  FALSE
    BY <1>3, <2>2 DEF Came
  <2>3. PICK e \in Conns, s \in BuiltSessions, gm \in Games :
          Sat(e, s, gm) /\ (Joining(e, s, gm) \/ Loading(e, s, gm) \/ Returning(e, s, gm))
    BY <2>1, <2>2 DEF Amounts
  <2>4. Loading(e, s, gm) /\ n = s.game
    BY <1>3, <2>3 DEF Joining, Loading, Returning
  <2> QED  BY <2>3, <2>4 DEF Sat, Loading, Range
<1> QED  BY <1>2, <1>3

LEMMA StandersStep ==
  ASSUME AuthUsers = {}, Base, Base', Held, NewcomersHaveSeats, StandersHaveSeats, serverUp, Amounts
  PROVE  StandersHaveSeats'
<1> SUFFICES ASSUME NEW c \in Conns, phase'[c] \notin {"unused", "loading"}, StandsIn(c)'
             PROVE  seats'[sess'[c].game][sess'[c].user] \in game'[sess'[c].game].players
  BY DEF StandersHaveSeats
(* it was there before *)
<1>1. ASSUME phase[c] \notin {"unused", "loading"}, StandsIn(c), sess'[c] = sess[c]
      PROVE  seats'[sess'[c].game][sess'[c].user] \in game'[sess'[c].game].players
  <2> DEFINE n == sess[c].game
             u == sess[c].user
  <2>1. n \in GameNames /\ u \in DOMAIN seats[n] /\ seats[n][u] \in game[n].players
    BY <1>1, AllAreSeated DEF StandersHaveSeats
  <2>2. seats'[n] = seats[n]
    BY <2>1, SeatsStay
  <2>3. ASSUME NEW e \in Conns, Removed(e), seats[n][u] = sess[e].name
        PROVE  FALSE
    <3>1. StandsIn(e) /\ sess[e].user = u /\ phase[e] = "closed" /\ ~Live(e)' /\ e \notin registered'
      BY <2>1, <2>3, RemovedIsOwner
    <3>2. e = c
      BY <1>1, <3>1 DEF Held, OneStandsIn
    <3>3. phase'[c] = "closed"
      BY <2>3, <3>1, <3>2 DEF Removed
    <3> QED  BY <3>1, <3>2, <3>3 DEF StandsIn
  <2>4. seats[n][u] \in Range(seats[n])
    BY <2>1 DEF Range
  <2>5. seats[n][u] \in game'[n].players
    BY <2>1, <2>3, <2>4, RosterStep
  <2> QED  BY <1>1, <2>2, <2>5
<1>2. ASSUME phase[c] \notin {"unused", "loading"}, sess'[c] = sess[c],
             c \in registered' => c \in registered, Live(c)' => Live(c) \/ c \in registered,
             phase'[c] = "claiming" =>
               phase[c] = "claiming" /\ claimOf'[c] = claimOf[c] /\ sess'[claimOf[c]] = sess[claimOf[c]]
      PROVE  StandsIn(c)
  BY <1>2, StandsStay
<1>3. ASSUME phase[c] = "claiming"
      PROVE  claimOf[c] \in Conns /\ phase[claimOf[c]] = "closed"
  BY <1>3 DEF Base, Shape, ClaimsAreOfLeft, OpportunitiesAreLeft
<1>4. ASSUME \/ Still \/ (\E m \in GameNames, f \in Seatings : Handed(m, f))
             \/ (\E k \in Keys : Sent(k)) \/ \E e \in Conns : Rang(e) \/ Removed(e)
      PROVE  phase[c] \notin {"unused", "loading"} /\ StandsIn(c) /\ sess'[c] = sess[c]
  <2>1. UNCHANGED <<sess, phase, registered, claimOf>> /\ (Live(c)' => Live(c))
    BY <1>4 DEF Still, Handed, Sent, Rang, Removed, Live, Base, Shape, TypeOK
  <2> QED  BY <1>2, <2>1
<1>5. ASSUME NEW e \in Conns, Fell(e) \/ Dropped(e)
      PROVE  phase[c] \notin {"unused", "loading"} /\ StandsIn(c) /\ sess'[c] = sess[c]
  <2>1. /\ UNCHANGED <<sess, claimOf>> /\ (c \in registered' => c \in registered)
        /\ phase'[c] = phase[c] \/ (c = e /\ phase'[c] \in {"closed", "refused"})
        /\ Live(c)' => Live(c) \/ c \in registered
    BY <1>5 DEF Fell, Dropped, Live
  <2>2. phase[c] # "unused"
    BY <1>5, <2>1 DEF Fell, Dropped
  (* whose load fails stands for nothing afterwards *)
  <2>3. phase[c] # "loading"
    <3>1. ASSUME phase[c] = "loading" PROVE FALSE
      <4>1. c = e /\ Fell(e) /\ phase'[c] = "closed"
        BY <1>5, <2>1, <3>1 DEF Fell, Dropped
      <4>2. c \notin registered' /\ ~Live(c)'
        BY <4>1 DEF Fell, Live
      <4> QED  BY <4>1, <4>2 DEF StandsIn
    <3> QED  BY <3>1
  <2> QED  BY <1>2, <2>1, <2>2, <2>3
<1>6. ASSUME NEW e \in Conns, NEW cl \in Claims, Came(e, cl),
             Waiting(e, cl) \/ Refused(e, cl) \/ Claiming(e, cl)
      PROVE  seats'[sess'[c].game][sess'[c].user] \in game'[sess'[c].game].players
  <2>1. /\ cl \in claims /\ sess'[e] = SessionOf(cl) /\ phase[e] = "unused" /\ opp[e] = "none"
        /\ e \notin registered /\ UNCHANGED <<seats, registered, game>>
        /\ \A x \in Conns \ {e} : sess'[x] = sess[x] /\ phase'[x] = phase[x] /\ claimOf'[x] = claimOf[x]
    BY <1>6 DEF Came, Elsewhere
  <2>2. opp' = opp \/ \E d \in Conns : opp[d] = "active" /\ opp' = [opp EXCEPT ![d] = "claimed"]
    BY <1>6 DEF Waiting, Refused, Claiming
  <2>3. \A x \in Conns : Live(x)' => Live(x)
    BY <2>2 DEF Live, Base, Shape, TypeOK
  <2>4. CASE c # e
    <3>1. phase[c] = "claiming" => sess'[claimOf[c]] = sess[claimOf[c]]
      BY <1>3, <2>1
    <3> QED  BY <1>1, <1>2, <2>1, <2>3, <2>4, <3>1
  <2>5. CASE c = e
    <3>1. phase'[e] = "claiming" /\ InTheirName(claimOf[e])'
      BY <2>1, <2>3, <2>5 DEF StandsIn, Live
    <3>2. PICK d \in Conns \ {e} : /\ claimOf'[e] = d /\ phase[d] = "closed" /\ opp[d] = "active"
                                   /\ sess[d].user = cl.user /\ sess[d].game = cl.game
      BY <1>6, <3>1 DEF Waiting, Refused, Claiming
    <3>3. InTheirName(d)
      BY <2>1, <3>1, <3>2 DEF InTheirName
    <3>4. StandsIn(d)
      BY <3>2, <3>3 DEF StandsIn, Live
    <3>5. seats[cl.game][cl.user] \in game[cl.game].players
      BY <3>2, <3>4 DEF StandersHaveSeats
    <3> QED  BY <2>1, <2>5, <3>5 DEF SessionOf
  <2> QED  BY <2>4, <2>5
<1>7. ASSUME NEW e \in Conns, NEW s \in BuiltSessions, NEW gm \in Games, Sat(e, s, gm),
             Joining(e, s, gm) \/ Loading(e, s, gm) \/ Returning(e, s, gm)
      PROVE  seats'[sess'[c].game][sess'[c].user] \in game'[sess'[c].game].players
  <2>1. /\ sess'[e].user = s.user /\ sess'[e].game = s.game /\ sess'[e].name = s.name
        /\ \A x \in Conns \ {e} : sess'[x] = sess[x] /\ phase'[x] = phase[x]
        /\ UNCHANGED <<opp, claimOf, seats>> /\ registered' = registered \cup {e}
        /\ phase[e] \in {"unused", "loading", "claiming"} /\ phase'[e] \in {"joined", "refused"}
        /\ game'[s.game].players = gm.players
    BY <1>7 DEF Sat, Elsewhere
  <2>2. CASE c # e
    <3>1. phase[c] = "claiming" => sess'[claimOf[c]] = sess[claimOf[c]]
      BY <1>3, <2>1
    <3>2. Live(c)' => Live(c)
      BY <2>1 DEF Live
    <3> QED  BY <1>1, <1>2, <2>1, <2>2, <3>1, <3>2
  <2>3. CASE c = e
    <3>1. s.game \in GameNames /\ s.user \in DOMAIN seats[s.game]
      BY <1>7, SatAbout
    <3>2. opp'[e] = "none"
      BY <1>7 DEF Sat
    <3>3. s.name = seats[s.game][s.user]
      BY <2>1, <2>3, <3>2 DEF StandsIn, InTheirName, Live
    <3>4. CASE Joining(e, s, gm)
      <4>1. SeenOf(s.user) = {} /\ gm = game[s.game] /\ s.game \in registry
        BY <1>7, <3>3, <3>4, JoiningIsFirst DEF Held, Joining
      <4> QED  BY <2>1, <2>3, <3>1, <4>1 DEF NewcomersHaveSeats
    <3>5. CASE Loading(e, s, gm)
      BY <2>1, <2>3, <3>1, <3>5 DEF Loading, Range
    <3>6. CASE Returning(e, s, gm)
      <4>1. /\ phase[e] = "claiming" /\ s.user = sess[e].user /\ s.game = sess[e].game
            /\ s.name = sess[claimOf[e]].name /\ gm = game[s.game]
        BY <3>6 DEF Returning
      <4>2. sess[claimOf[e]].user = s.user /\ sess[claimOf[e]].game = s.game
        BY <4>1 DEF Base, Owned
      <4>3. StandsIn(e)
        BY <3>3, <4>1, <4>2 DEF StandsIn, InTheirName
      <4> QED  BY <2>1, <2>3, <4>1, <4>3 DEF StandersHaveSeats
    <3> QED  BY <1>7, <3>4, <3>5, <3>6
  <2> QED  BY <2>2, <2>3
<1> QED  BY <1>1, <1>4, <1>5, <1>6, <1>7 DEF Amounts

LEMMA BoardedStep ==
  ASSUME HandsOffOnce, AuthUsers = {}, Base, Held, Boarded, [Next]_vars
  PROVE  Base' /\ Held' /\ Boarded'
<1>1. Base' /\ Held'
  BY HeldStep
<1>2. ASSUME serverUp'
      PROVE  NewcomersHaveSeats' /\ StandersHaveSeats'
  <2>1. serverUp /\ Amounts
    BY <1>2, UpWasUp, StepAmounts DEF Base, Shape
  <2> QED  BY <1>1, <2>1, NewcomersStep, StandersStep DEF Boarded
<1> QED  BY <1>1, <1>2 DEF Boarded

LEMMA BoardedInit == Init => Base /\ Held /\ Boarded
BY KeptInit DEF Init, Boarded, NewcomersHaveSeats, StandersHaveSeats

-----------------------------------------------------------------------------
(* Whoever claims the opportunity a seated player left sits in that seat
   again, as the same player of the same game, whatever was delayed meanwhile. *)
THEOREM ClaimsReseat ==
  ASSUME "sharedUsername" \notin Quirks, AuthUsers = {}
  PROVE  Spec => ClaimReseats
<1> DEFINE Reseats ==
      \A c \in Conns :
        FinishClaim(c) /\ InTheirName(claimOf[c]) =>
          /\ phase'[c] = "joined" /\ InTheirName(c)'
          /\ sess'[c].user = sess[claimOf[c]].user
          /\ sess'[c].game = sess[claimOf[c]].game
<1>1. ASSUME Base, Boarded
      PROVE  Reseats
  <2> SUFFICES ASSUME NEW c \in Conns, FinishClaim(c), InTheirName(claimOf[c])
               PROVE  /\ phase'[c] = "joined" /\ InTheirName(c)'
                      /\ sess'[c].user = sess[claimOf[c]].user
                      /\ sess'[c].game = sess[claimOf[c]].game
    OBVIOUS
  <2>1. /\ TakeSeat(c, Renamed(c), game[sess[c].game]) /\ phase[c] = "claiming" /\ serverUp
        /\ seats' = seats
    BY DEF FinishClaim, lobbyVars
  <2>2. /\ sess[c] \in BuiltSessions /\ sess[claimOf[c]] \in BuiltSessions
        /\ sess[claimOf[c]].user = sess[c].user /\ sess[claimOf[c]].game = sess[c].game
    BY <1>1, <2>1 DEF Base, Shape, SessionsAreBuilt, ClaimsAreOfLeft, OpportunitiesAreLeft, Owned
  <2>3. /\ Renamed(c) \in BuiltSessions
        /\ Renamed(c).user = sess[c].user /\ Renamed(c).game = sess[c].game
        /\ Renamed(c).name = sess[claimOf[c]].name
    BY <2>2 DEF Renamed, BuiltSessions
  <2>4. game[sess[c].game] \in Games
    BY <1>1, <2>2 DEF Base, Shape, TypeOK, BuiltSessions
  <2>5. Renamed(c).name \in game[sess[c].game].players
    <3>1. StandsIn(c)
      BY <2>1 DEF StandsIn
    <3>2. seats[sess[c].game][sess[c].user] \in game[sess[c].game].players
      BY <1>1, <2>1, <3>1 DEF Boarded, StandersHaveSeats
    <3> QED  BY <2>2, <2>3, <3>2 DEF InTheirName
  <2>6. phase'[c] = "joined" /\ sess'[c].name = Renamed(c).name
    BY <1>1, <2>1, <2>3, <2>4, <2>5, TakeSeatGame DEF Base, Shape
  <2>7. sess'[c].user = sess[c].user /\ sess'[c].game = sess[c].game
    BY <1>1, <2>1, <2>3, <2>4, TakeSeatShape DEF Base, Shape
  <2> QED  BY <2>1, <2>2, <2>3, <2>6, <2>7 DEF InTheirName
<1>2. Base /\ Boarded /\ [Next]_vars => [Reseats]_vars
  BY <1>1
<1>3. Init => Base /\ Held /\ Boarded
  BY BoardedInit
<1>4. Base /\ Held /\ Boarded /\ [Next]_vars => Base' /\ Held' /\ Boarded'
  BY BoardedStep, PlainHandsOffOnce
<1> QED  BY <1>2, <1>3, <1>4, PTL DEF Spec, ClaimReseats

(* The roster outlives the process. *)
LEMMA DownRostersStay ==
  ASSUME TypeOK, [Next]_vars, ~serverUp', NEW n \in GameNames
  PROVE  game'[n].players = game[n].players
<1>1. ASSUME NEW s, game' = [game EXCEPT ![s.game] = Paused(s)]
                    \/ game' = [game EXCEPT ![s.game] = Unpaused(s)]
      PROVE  game'[n].players = game[n].players
  <2>1. game[n] \in Games
    BY DEF TypeOK
  <2>2. CASE n # s.game
    BY <1>1, <2>2 DEF TypeOK
  <2>3. CASE n = s.game
    BY <1>1, <2>1, <2>3 DEF TypeOK, Paused, Unpaused, Games
  <2> QED  BY <2>2, <2>3
<1>2. ASSUME NEW c \in Conns, Disconnect(c) \/ TimeoutThrows(c)
      PROVE  game'[n].players = game[n].players
  BY <1>1, <1>2 DEF Disconnect, TimeoutThrows
<1>3. ASSUME NEW c \in Conns, DisconnectThrows(c)
      PROVE  game' = game
  BY <1>3 DEF DisconnectThrows, gameVars
<1>4. ASSUME \/ HandoffSome \/ ForwardSome \/ (\E cl \in claims : RejectClaim(cl))
             \/ \E c \in Conns : CloseUnheard(c) \/ Expire(c)
      PROVE  game' = game
  BY <1>4 DEF HandoffSome, Handoff, ForwardSome, Forward, RejectClaim, CloseUnheard, Expire,
              gameVars, connVars
<1>5. ASSUME NEW cl \in claims, NEW c \in Conns,
             \/ AwaitSetup(c, cl) \/ FindNoGame(c, cl) \/ JoinBeforeStart(c, cl)
             \/ ClaimOpportunity(c, cl) \/ RefuseReconnection(c, cl)
      PROVE  FALSE
  BY <1>5 DEF AwaitSetup, FindNoGame, JoinBeforeStart, ClaimOpportunity, RefuseReconnection,
              Arrive, MayDispatch
<1>6. ASSUME NEW c \in Conns, Continue(c) \/ FinishTimeout(c)
      PROVE  FALSE
  BY <1>6 DEF Continue, LoadGame, LoseLoadRace, FinishClaim, ClaimFails, FinishTimeout
<1>7. CASE UNCHANGED vars
  BY <1>7 DEF vars, gameVars
<1> QED  BY <1>2, <1>3, <1>4, <1>5, <1>6, <1>7 DEF Next, ArriveSome, DepartSome, TimeOut

(* No timer takes the seat of a player who sits in it. *)
THEOREM TimersTakeNoSeat ==
  ASSUME "sharedUsername" \notin Quirks, AuthUsers = {}
  PROVE  Spec => TimeoutNeverKicksConnected
<1> DEFINE Kicks ==
      \A n \in GameNames : \A name \in game[n].players \ game'[n].players :
        ~\E c \in registered : /\ phase[c] = "joined"
                               /\ sess[c].game = n /\ sess[c].name = name
<1>1. ASSUME Base, Held, [Next]_vars
      PROVE  Kicks
  <2> USE PlainHandsOffOnce
  <2> SUFFICES ASSUME NEW n \in GameNames, NEW name \in game[n].players \ game'[n].players,
                      NEW c \in registered, phase[c] = "joined", sess[c].game = n, sess[c].name = name
               PROVE  FALSE
    OBVIOUS
  <2>1. serverUp /\ serverUp'
    <3>1. TypeOK
      BY <1>1 DEF Base, Shape
    <3>2. serverUp'
      BY <1>1, <3>1, DownRostersStay
    <3> QED  BY <1>1, <3>1, <3>2, UpWasUp
  <2>2. Amounts /\ c \in Conns
    <3>1. Amounts
      BY <1>1, <2>1, StepAmounts
    <3>2. registered \subseteq Conns
      BY <1>1 DEF Base, Shape, TypeOK
    <3> QED  BY <3>1, <3>2
  <2>3. PICK e \in Conns : /\ Removed(e) /\ sess[e].game = n
                           /\ game'[n].players = game[n].players \ {sess[e].name}
    <3>1. game[n].players \subseteq Range(seats[n])
      BY <1>1 DEF Base, Table, PlayersAreSeated
    <3> QED  BY <1>1, <2>2, <3>1, RosterStep
  <2>4. StandsIn(e) /\ phase[e] = "closed" /\ sess[e].name = name
    BY <1>1, <2>1, <2>3, RemovedIsOwner
  <2>5. InTheirName(c) /\ StandsIn(c)
    BY <1>1, <2>1, <2>2 DEF Held, JoinedInName, StandsIn
  <2>6. sess[c].user = sess[e].user
    <3>1. seats[n][sess[c].user] = sess[e].name /\ sess[c].user \in DOMAIN seats[n]
      BY <1>1, <2>2, <2>4, <2>5, AllAreSeated DEF InTheirName
    <3> QED  BY <1>1, <2>1, <2>3, <3>1, RemovedIsOwner
  <2> QED  BY <1>1, <2>1, <2>2, <2>4, <2>5, <2>6 DEF Held, OneStandsIn
<1>2. Base /\ Held /\ [Next]_vars => [Kicks]_vars
  BY <1>1
<1>3. Init => Base /\ Held
  BY KeptInit
<1>4. Base /\ Held /\ [Next]_vars => Base' /\ Held'
  BY HeldStep, PlainHandsOffOnce
<1> QED  BY <1>2, <1>3, <1>4, PTL DEF Spec, TimeoutNeverKicksConnected

(* When deletes do not fail, nobody who sits in a game has a record left: the
   lobby forwards only players who are away. *)
THEOREM RecordsAreOfTheAway ==
  ASSUME "sharedUsername" \notin Quirks, AuthUsers = {}, Services # "failing"
  PROVE  Spec => []RecordMeansAway
<1>1. ASSUME Base, Held, Boarded
      PROVE  RecordMeansAway
  <2> SUFFICES ASSUME serverUp, NEW k \in Keys, NEW c \in registered, records[k] # None,
                      phase[c] = "joined", records[k].user = sess[c].user
               PROVE  FALSE
    BY DEF RecordMeansAway
  <2>1. c \in Conns /\ InTheirName(c) /\ StandsIn(c)
    BY <1>1 DEF Base, Shape, TypeOK, Held, JoinedInName, StandsIn
  <2> DEFINE d == manager[k]
  <2>2. /\ d \in Conns /\ opp[d] = "active" /\ phase[d] = "closed"
        /\ sess[d].user = sess[c].user /\ sess[d].game = records[k].game
    BY <1>1 DEF Base, Promise, RecordHasOpportunity, ManagerHoldsActive, Shape, TypeOK,
                OpportunitiesAreLeft
  <2>3. d \in SeenOf(sess[c].user)
    BY <2>2 DEF SeenOf
  <2>4. CASE ~game[sess[c].game].started
    BY <1>1, <2>1, <2>2, <2>3, <2>4 DEF Held, EarlyAreAlone, Early
  <2>5. CASE game[sess[c].game].started
    <3>1. seats[sess[c].game][sess[c].user] \in game[sess[c].game].players
      BY <1>1, <2>1 DEF Boarded, StandersHaveSeats
    <3>2. sess[d].game = sess[c].game
      <4>1. OwnsSeat(sess[c]) /\ OwnsSeat(sess[d]) /\ SeatsApart
        BY <1>1, <2>1, <2>2 DEF Base, Owned
      <4>2. sess[c].game \in GameNames /\ sess[d].game \in GameNames
        BY <1>1, <2>1, <2>2, AllAreSeated
      <4> QED  BY <2>2, <4>1, <4>2 DEF OwnsSeat, SeatsApart
    <3>3. InTheirName(d)
      BY <1>1, <2>2, <2>5, <3>1, <3>2 DEF Held, PlayersKeepTheirName, Plays, Live
    <3>4. StandsIn(d)
      BY <2>2, <3>3 DEF StandsIn, Live
    <3> QED  BY <1>1, <2>1, <2>2, <3>4 DEF Held, OneStandsIn
  <2> QED  BY <2>4, <2>5
<1>2. Init => Base /\ Held /\ Boarded
  BY BoardedInit
<1>3. Base /\ Held /\ Boarded /\ [Next]_vars => Base' /\ Held' /\ Boarded'
  BY BoardedStep, PlainHandsOffOnce
<1> QED  BY <1>1, <1>2, <1>3, PTL DEF Spec

-----------------------------------------------------------------------------
(* One connection per user, whatever the stores *)

(* c is a user's session here, or its handler may still make it one. *)
Entering(c) == c \in registered \/ phase[c] \in {"loading", "claiming"}

OneEnters ==
  \A c, d \in Conns :
    phase[c] # "unused" /\ phase[d] # "unused" /\ sess[c].user = sess[d].user
      => (Entering(c) /\ Entering(d) => c = d)

(* The manager holds an opportunity of u under k. *)
Managed(u, k) == manager[k] # None /\ sess[manager[k]].user = u

OneOpportunity ==
  \A u : \A k, l \in Keys : Managed(u, k) /\ Managed(u, l) => k = l

(* Who is being let in spent the only opportunity of that user, and what is
   kept for a user with a session is under the key of that session. *)
ClaimWasTheLast ==
  \A c \in Conns : phase[c] = "claiming" => \A k \in Keys : ~Managed(sess[c].user, k)

KeptUnderItsKey ==
  \A c \in registered : \A k \in Keys : Managed(sess[c].user, k) => k = KeyOf(sess[c])

(* k is a key u has used, left a record under, or is sent back with. *)
HasKey(u, k) ==
  \/ \E c \in SeenOf(u) : KeyOf(sess[c]) = k
  \/ k \in Keys /\ records[k] # None /\ records[k].user = u
  \/ \E cl \in claims : /\ cl.user = u /\ cl.name # seats[cl.game][u]
                        /\ KeyOf(SessionOf(cl)) = k

OneKey(u) == \A k, l : HasKey(u, k) /\ HasKey(u, l) => k = l

(* Nobody gets a second key before the start. *)
OneKeyBeforeStart ==
  \A n \in GameNames : \A u \in DOMAIN seats[n] : ~game[n].started => OneKey(u)

EntersAlone ==
  serverUp => /\ OneEnters /\ OneOpportunity /\ ClaimWasTheLast /\ KeptUnderItsKey
              /\ OneKeyBeforeStart

-----------------------------------------------------------------------------
(* What a step does to the manager *)

(* An opportunity of the manager is of a session that has ended, which left it
   under its key. *)
LEMMA ManagedHasLeft ==
  ASSUME Base, NEW k \in Keys, manager[k] # None
  PROVE  /\ manager[k] \in Conns /\ phase[manager[k]] = "closed" /\ opp[manager[k]] = "active"
         /\ KeyOf(sess[manager[k]]) = k
         /\ manager[k] \in SeenOf(sess[manager[k]].user)
BY DEF Base, Promise, ManagerHoldsActive, Shape, TypeOK, OpportunitiesAreLeft, SeenOf

(* It was there before, or is that of a session that just dropped. *)
LEMMA ManagerStep ==
  ASSUME Base, [Next]_vars, serverUp', NEW u, NEW k \in Keys, Managed(u, k)'
  PROVE  \/ Managed(u, k) /\ manager'[k] = manager[k]
         \/ \E c \in registered : /\ Disconnect(c) /\ sess[c].user = u /\ k = KeyOf(sess[c])
                                  /\ manager'[k] = c
<1> USE DEF Base
<1>1. Shape'
  BY ShapeStep
<1>2. ASSUME \A j \in Keys : manager'[j] \in {manager[j], None}
      PROVE  Managed(u, k) /\ manager'[k] = manager[k]
  <2>1. manager'[k] = manager[k] /\ manager[k] # None
    BY <1>2 DEF Managed
  <2>2. phase[manager[k]] # "unused" /\ manager[k] \in Conns
    BY <2>1, ManagedHasLeft
  <2>3. sess'[manager[k]].user = sess[manager[k]].user
    BY <2>2, SessionStep, UsedStays
  <2> QED  BY <2>1, <2>3 DEF Managed
<1>3. ASSUME NEW c \in Conns, Disconnect(c)
      PROVE  \/ Managed(u, k) /\ manager'[k] = manager[k]
             \/ /\ c \in registered /\ Disconnect(c) /\ sess[c].user = u /\ k = KeyOf(sess[c])
                /\ manager'[k] = c
  <2>1. c \in registered /\ sess' = sess /\ manager' = [manager EXCEPT ![KeyOf(sess[c])] = c]
        /\ manager \in [Keys -> Conns \cup {None}]
    BY <1>3 DEF Disconnect, Shape, TypeOK
  <2> QED  BY <1>3, <2>1 DEF Managed
<1>4. ASSUME NEW c \in Conns, Expire(c) \/ FinishTimeout(c)
      PROVE  \A j \in Keys : manager'[j] \in {manager[j], None}
  BY <1>4 DEF Expire, FinishTimeout, Withdrawn, Shape, TypeOK
<1>5. ASSUME NEW c \in Conns, NEW cl \in claims, ClaimOpportunity(c, cl)
      PROVE  \A j \in Keys : manager'[j] \in {manager[j], None}
  BY <1>5 DEF ClaimOpportunity, Withdrawn, Shape, TypeOK
<1>6. ASSUME NEW c \in Conns, DisconnectThrows(c) \/ TimeoutThrows(c)
      PROVE  FALSE
  BY <1>6 DEF DisconnectThrows, TimeoutThrows
<1>7. ASSUME \/ \E c \in Conns, cl \in claims : \/ AwaitSetup(c, cl) \/ FindNoGame(c, cl)
                                                \/ JoinBeforeStart(c, cl) \/ RefuseReconnection(c, cl)
             \/ \E c \in Conns : Continue(c) \/ CloseUnheard(c)
             \/ HandoffSome \/ ForwardSome \/ (\E cl \in claims : RejectClaim(cl))
             \/ UNCHANGED vars
      PROVE  manager' = manager
  BY <1>7 DEF AwaitSetup, FindNoGame, JoinBeforeStart, RefuseReconnection, Continue, LoadGame,
              LoseLoadRace, FinishClaim, ClaimFails, CloseUnheard, HandoffSome, Handoff, ForwardSome,
              Forward, RejectClaim, vars, returnVars
<1> HIDE DEF Base
<1> QED  BY <1>2, <1>3, <1>4, <1>5, <1>6, <1>7 DEF Next, ArriveSome, DepartSome, TimeOut

(* Who is being let in now spent an opportunity of the manager. *)
LEMMA NewClaimant ==
  ASSUME Base, [Next]_vars, NEW c \in Conns, phase'[c] = "claiming", phase[c] # "claiming"
  PROVE  \E cl \in claims : ClaimOpportunity(c, cl)
<1> USE DEF Base, Shape, TypeOK
<1>1. ASSUME NEW d \in Conns, NEW s, NEW gm, TakeSeat(d, s, gm)
      PROVE  FALSE
  BY <1>1 DEF TakeSeat
<1>2. ASSUME NEW d \in Conns, \/ \E cl \in claims : JoinBeforeStart(d, cl)
                              \/ LoadGame(d) \/ FinishClaim(d)
      PROVE  FALSE
  BY <1>1, <1>2 DEF JoinBeforeStart, LoadGame, FinishClaim
<1>3. ASSUME NEW d \in Conns,
             \/ \E cl \in claims : AwaitSetup(d, cl) \/ FindNoGame(d, cl) \/ RefuseReconnection(d, cl)
             \/ LoseLoadRace(d) \/ ClaimFails(d) \/ Disconnect(d) \/ DisconnectThrows(d)
      PROVE  FALSE
  BY <1>3 DEF AwaitSetup, FindNoGame, RefuseReconnection, LoseLoadRace, ClaimFails, Disconnect,
              DisconnectThrows
<1>4. ASSUME NEW d \in Conns, NEW cl \in claims, ClaimOpportunity(d, cl)
      PROVE  d = c
  BY <1>4 DEF ClaimOpportunity
<1>5. ASSUME \/ HandoffSome \/ ForwardSome \/ (\E cl \in claims : RejectClaim(cl))
             \/ \E d \in Conns : CloseUnheard(d) \/ TimeOut(d)
             \/ UNCHANGED vars
      PROVE  FALSE
  BY <1>5 DEF HandoffSome, Handoff, ForwardSome, Forward, RejectClaim, CloseUnheard,
              TimeOut, Expire, FinishTimeout, TimeoutThrows, vars, connVars
<1> QED  BY <1>2, <1>3, <1>4, <1>5 DEF Next, ArriveSome, DepartSome, Continue

-----------------------------------------------------------------------------
(* Each part stays *)

(* Sessions of one user are in one game. *)
LEMMA OneUserOneGame ==
  ASSUME AuthUsers = {}, Base, NEW c \in Conns, NEW d \in Conns,
         phase[c] # "unused", phase[d] # "unused", sess[c].user = sess[d].user
  PROVE  sess[c].game = sess[d].game
<1>1. OwnsSeat(sess[c]) /\ OwnsSeat(sess[d]) /\ SeatsApart
  BY DEF Base, Owned
<1>2. sess[c].game \in GameNames /\ sess[d].game \in GameNames
  BY AllAreSeated
<1> QED  BY <1>1, <1>2 DEF OwnsSeat, SeatsApart

(* The key of a managed opportunity is one its user has used. *)
LEMMA ManagedIsKey ==
  ASSUME Base, NEW u, NEW k \in Keys, Managed(u, k)
  PROVE  /\ manager[k] \in SeenOf(u) /\ phase[manager[k]] = "closed"
         /\ HasKey(u, k)
BY ManagedHasLeft DEF Managed, HasKey

(* Nobody of the user who arrives is registered. *)
LEMMA ArrivalsAreChecked ==
  ASSUME Base, [Next]_vars, NEW c \in Conns, phase[c] = "unused", phase'[c] # "unused",
         NEW d \in registered
  PROVE  sess[d].user # sess'[c].user
<1> USE DEF Base, Shape, TypeOK
<1>1. ASSUME NEW e \in Conns, NEW cl \in claims, Arrive(e, cl),
             sess'[e].user = cl.user, \A b \in Conns \ {e} : phase'[b] = phase[b]
      PROVE  sess[d].user # sess'[c].user
  BY <1>1 DEF Arrive, AlreadyConnected
<1>2. ASSUME NEW e \in Conns, NEW cl \in claims,
             \/ AwaitSetup(e, cl) \/ FindNoGame(e, cl) \/ ClaimOpportunity(e, cl)
             \/ RefuseReconnection(e, cl)
      PROVE  sess[d].user # sess'[c].user
  BY <1>1, <1>2 DEF AwaitSetup, FindNoGame, ClaimOpportunity, RefuseReconnection, SessionOf
<1>3. ASSUME NEW e \in Conns, NEW cl \in claims, JoinBeforeStart(e, cl)
      PROVE  sess[d].user # sess'[c].user
  <2>1. Arrive(e, cl) /\ TakeSeat(e, SessionOf(cl), game[cl.game])
    BY <1>3 DEF JoinBeforeStart
  <2>2. SessionOf(cl) \in BuiltSessions /\ cl.game \in GameNames /\ SessionOf(cl).user = cl.user
    BY <2>1, ArriveShape DEF SessionOf
  <2>3. game[cl.game] \in Games
    BY <2>2
  <2> QED  BY <1>1, <2>1, <2>2, <2>3, TakeSeatShape
<1>4. ASSUME NEW e \in Conns, LoadGame(e) \/ FinishClaim(e)
      PROVE  FALSE
  BY <1>4 DEF LoadGame, FinishClaim, TakeSeat
<1>5. ASSUME NEW e \in Conns,
             LoseLoadRace(e) \/ ClaimFails(e) \/ Disconnect(e) \/ DisconnectThrows(e)
      PROVE  FALSE
  BY <1>5 DEF LoseLoadRace, ClaimFails, Disconnect, DisconnectThrows, Listening
<1>6. ASSUME \/ HandoffSome \/ ForwardSome \/ (\E cl \in claims : RejectClaim(cl))
             \/ \E e \in Conns : CloseUnheard(e) \/ TimeOut(e)
             \/ UNCHANGED vars
      PROVE  FALSE
  BY <1>6 DEF HandoffSome, Handoff, ForwardSome, Forward, RejectClaim, CloseUnheard,
              TimeOut, Expire, FinishTimeout, TimeoutThrows, vars, connVars
<1> QED  BY <1>2, <1>3, <1>4, <1>5, <1>6 DEF Next, ArriveSome, DepartSome, Continue

(* Who comes in now found nobody of their user registered, and the game not
   started or an opportunity in the manager. *)
LEMMA NewcomerStep ==
  ASSUME AuthUsers = {}, Base, [Next]_vars, Amounts, serverUp',
         NEW c \in Conns, Entering(c)', phase'[c] # "unused"
  PROVE  \/ Entering(c) /\ phase[c] # "unused" /\ sess'[c].user = sess[c].user
         \/ \E cl \in claims :
              /\ phase[c] = "unused" /\ sess'[c].user = cl.user /\ sess'[c].game = cl.game
              /\ \A d \in registered : sess[d].user # cl.user
              /\ \A d \in Conns \ {c} : sess'[d] = sess[d] /\ phase'[d] = phase[d]
              /\ registered' \subseteq registered \cup {c}
              /\ \/ cl.game \in pending \/ ~game[cl.game].started
                 \/ \E k \in Keys : Managed(cl.user, k)
<1> DEFINE Goal ==
         \/ Entering(c) /\ phase[c] # "unused" /\ sess'[c].user = sess[c].user
         \/ \E cl \in claims :
              /\ phase[c] = "unused" /\ sess'[c].user = cl.user /\ sess'[c].game = cl.game
              /\ \A d \in registered : sess[d].user # cl.user
              /\ \A d \in Conns \ {c} : sess'[d] = sess[d] /\ phase'[d] = phase[d]
              /\ registered' \subseteq registered \cup {c}
              /\ \/ cl.game \in pending \/ ~game[cl.game].started
                 \/ \E k \in Keys : Managed(cl.user, k)
<1>1. ASSUME sess'[c] = sess[c], Entering(c), phase[c] # "unused"
      PROVE  Goal
  BY <1>1
<1>2. c \in registered => phase[c] # "unused"
  BY UpWasUp DEF Base, Shape, TypeOK, Seated, RefusedHasNoSeat
<1>3. CASE \/ Still \/ (\E n \in GameNames, f \in Seatings : Handed(n, f))
           \/ \E k \in Keys : Sent(k)
           \/ \E e \in Conns : Rang(e) \/ Removed(e)
  <2>1. UNCHANGED <<sess, phase, registered>>
    BY <1>3 DEF Still, Handed, Sent, Rang, Removed
  <2> QED  BY <1>1, <2>1 DEF Entering
<1>4. ASSUME NEW e \in Conns, Fell(e) \/ Dropped(e)
      PROVE  Goal
  <2>1. /\ sess' = sess /\ registered' \subseteq registered
        /\ \A d \in Conns \ {e} : phase'[d] = phase[d]
        /\ phase'[e] \in {"closed", "refused"}
    BY <1>4 DEF Fell, Dropped
  <2> QED  BY <1>1, <1>2, <2>1 DEF Entering
<1>5. ASSUME NEW e \in Conns, NEW cl \in Claims, Came(e, cl),
             Waiting(e, cl) \/ Refused(e, cl) \/ Claiming(e, cl)
      PROVE  Goal
  <2>1. /\ cl \in claims /\ phase[e] = "unused" /\ registered' = registered /\ e \notin registered
        /\ \A d \in registered : sess[d].user # cl.user
        /\ \A d \in Conns \ {e} : sess'[d] = sess[d] /\ phase'[d] = phase[d]
        /\ sess'[e].user = cl.user /\ sess'[e].game = cl.game
    BY <1>5 DEF Came, Elsewhere, SessionOf
  <2>2. CASE c # e
    BY <1>1, <2>1, <2>2 DEF Entering
  <2>3. CASE c = e /\ phase'[c] # "claiming"
    <3>1. cl.game \in pending
      BY <1>5, <2>1, <2>3 DEF Entering, Waiting, Refused, Claiming
    <3> QED  BY <2>1, <2>3, <3>1
  <2>4. CASE c = e /\ phase'[c] = "claiming"
    <3>1. PICK x \in claims : ClaimOpportunity(c, x)
      BY <2>1, <2>4, NewClaimant
    <3>2. /\ KeyOf(SessionOf(x)) # None /\ manager[KeyOf(SessionOf(x))] # None
          /\ sess' = [sess EXCEPT ![c] = SessionOf(x)]
      BY <3>1 DEF ClaimOpportunity, Claimable
    <3>3. sess'[c].user = x.user
      BY <2>1, <3>2 DEF SessionOf, Base, Shape, TypeOK
    <3>4. sess[manager[KeyOf(SessionOf(x))]].user = x.user
      BY <3>1, ClaimantIsOwner DEF Base
    <3>5. KeyOf(SessionOf(x)) \in Keys
      BY <3>2, SessionOfClaim, KeyIsKey DEF Base, Shape, TypeOK
    <3> QED  BY <2>1, <2>4, <3>2, <3>3, <3>4, <3>5 DEF Managed
  <2> QED  BY <2>2, <2>3, <2>4
<1>6. ASSUME NEW e \in Conns, NEW s \in BuiltSessions, NEW gm \in Games, Sat(e, s, gm),
             Loading(e, s, gm) \/ Returning(e, s, gm)
      PROVE  Goal
  <2>1. /\ phase[e] \in {"loading", "claiming"} /\ registered' = registered \cup {e}
        /\ sess'[e].user = sess[e].user
        /\ \A d \in Conns \ {e} : sess'[d] = sess[d] /\ phase'[d] = phase[d]
    BY <1>6 DEF Sat, Loading, Returning, Elsewhere
  <2>2. CASE c # e
    BY <1>1, <2>1, <2>2 DEF Entering
  <2> QED  BY <2>1, <2>2 DEF Entering
<1>7. ASSUME NEW e \in Conns, NEW s \in BuiltSessions, NEW gm \in Games, Sat(e, s, gm),
             Joining(e, s, gm)
      PROVE  Goal
  <2>1. PICK cl \in claims : s = SessionOf(cl)
    BY <1>7 DEF Joining
  <2>2. /\ phase[e] = "unused" /\ registered' = registered \cup {e} /\ e \notin registered
        /\ sess'[e].user = cl.user /\ sess'[e].game = cl.game
        /\ \A d \in Conns \ {e} : sess'[d] = sess[d] /\ phase'[d] = phase[d]
        /\ ~game[cl.game].started
    BY <1>7, <2>1 DEF Sat, Joining, Elsewhere, SessionOf
  <2>3. CASE c # e
    BY <1>1, <2>2, <2>3 DEF Entering
  <2>4. ASSUME c = e, NEW d \in registered
        PROVE  sess[d].user # cl.user
    <3>1. phase'[e] # "unused"
      BY <1>7 DEF Sat
    <3> QED  BY <2>2, <2>4, <3>1, ArrivalsAreChecked
  <2> QED  BY <2>2, <2>3, <2>4
<1> QED  BY <1>3, <1>4, <1>5, <1>6, <1>7 DEF Amounts

(* A newcomer would have to find somebody of their user already coming in:
   nobody waits for a setup a claim is out for, and who is being let in spent
   the opportunity the newcomer needs. *)
LEMMA OneEntersStep ==
  ASSUME AuthUsers = {}, Base, Held, EntersAlone, [Next]_vars, Amounts, serverUp, serverUp', Base'
  PROVE  OneEnters'
<1>1. ASSUME NEW c \in Conns, NEW d \in Conns, c # d, phase'[c] # "unused", phase'[d] # "unused",
             sess'[c].user = sess'[d].user, Entering(c)', Entering(d)', phase[c] = "unused"
      PROVE  FALSE
  <2>1. PICK cl \in claims :
              /\ sess'[c].user = cl.user /\ sess'[c].game = cl.game
              /\ \A b \in registered : sess[b].user # cl.user
              /\ \A b \in Conns \ {c} : sess'[b] = sess[b] /\ phase'[b] = phase[b]
              /\ registered' \subseteq registered \cup {c}
              /\ \/ cl.game \in pending \/ ~game[cl.game].started
                 \/ \E k \in Keys : Managed(cl.user, k)
    BY <1>1, NewcomerStep
  <2>2. /\ phase[d] # "unused" /\ sess[d].user = cl.user /\ Entering(d) /\ d \notin registered
        /\ sess[d].game = cl.game
    <3>1. phase[d] # "unused" /\ sess[d].user = cl.user /\ Entering(d) /\ d \notin registered
      BY <1>1, <2>1 DEF Entering
    <3>2. /\ OwnsSeat(SessionOf(cl)) /\ OwnsSeat(sess[d]) /\ SeatsApart
          /\ SessionOf(cl).user = cl.user /\ SessionOf(cl).game = cl.game
      BY <3>1 DEF Base, Owned, SessionOf
    <3>3. sess[d].game \in GameNames /\ cl.game \in GameNames
      BY <3>1, AllAreSeated
    <3> QED  BY <3>1, <3>2, <3>3 DEF OwnsSeat, SeatsApart
  <2>3. CASE phase[d] = "loading"
    BY <2>2, <2>3 DEF Held, EarlyAreAlone, Early
  <2>4. CASE phase[d] = "claiming"
    <3>1. game[cl.game].started
      BY <2>2, <2>4 DEF Held, ReturnsAreLate
    <3>2. cl.game \notin pending
      BY <2>2, <2>4 DEF Base, Table, PendingIsUntouched
    <3> QED  BY <2>1, <2>2, <2>4, <3>1, <3>2 DEF EntersAlone, ClaimWasTheLast
  <2> QED  BY <2>2, <2>3, <2>4 DEF Entering
<1>2. SUFFICES ASSUME NEW c \in Conns, NEW d \in Conns, c # d, phase'[c] # "unused",
                      phase'[d] # "unused", sess'[c].user = sess'[d].user, Entering(c)', Entering(d)'
               PROVE  FALSE
  BY DEF OneEnters
<1>3. /\ Entering(c) /\ phase[c] # "unused" /\ sess'[c].user = sess[c].user
      /\ Entering(d) /\ phase[d] # "unused" /\ sess'[d].user = sess[d].user
  BY <1>1, <1>2, NewcomerStep
<1> QED  BY <1>2, <1>3 DEF EntersAlone, OneEnters

(* A second opportunity is left under the key of the first, or none was there. *)
LEMMA OneOpportunityStep ==
  ASSUME Base, EntersAlone, OneConnectionPerUser, [Next]_vars, serverUp, serverUp'
  PROVE  OneOpportunity'
<1> SUFFICES ASSUME NEW u, NEW k \in Keys, NEW l \in Keys, Managed(u, k)', Managed(u, l)'
             PROVE  k = l
  BY DEF OneOpportunity
<1> DEFINE Left(c, j) == Disconnect(c) /\ sess[c].user = u /\ j = KeyOf(sess[c])
<1>1. Managed(u, k) \/ \E c \in registered : Left(c, k)
  BY ManagerStep
<1>2. Managed(u, l) \/ \E c \in registered : Left(c, l)
  BY ManagerStep
<1>3. ASSUME NEW c \in registered, NEW i \in Keys, NEW j \in Keys, Left(c, i), Managed(u, j)
      PROVE  i = j
  BY <1>3 DEF EntersAlone, KeptUnderItsKey
<1>4. ASSUME NEW c \in registered, NEW d \in registered, Left(c, k), Left(d, l)
      PROVE  k = l
  BY <1>4 DEF OneConnectionPerUser
<1> HIDE DEF Left
<1> QED  BY <1>1, <1>2, <1>3, <1>4 DEF EntersAlone, OneOpportunity

(* The session of a connection that was here keeps its user. *)
LEMMA UserStays ==
  ASSUME Base, [Next]_vars, NEW c \in Conns, phase[c] # "unused"
  PROVE  phase'[c] # "unused" /\ sess'[c].user = sess[c].user
BY SessionStep, UsedStays DEF Base

LEMMA ClaimWasTheLastStep ==
  ASSUME Base, EntersAlone, [Next]_vars, serverUp, serverUp'
  PROVE  ClaimWasTheLast'
<1> SUFFICES ASSUME NEW c \in Conns, phase'[c] = "claiming", NEW k \in Keys, NEW u,
                    u = sess'[c].user, Managed(u, k)'
             PROVE  FALSE
  BY DEF ClaimWasTheLast, Managed
<1>1. CASE phase[c] = "claiming"
  <2>1. sess[c].user = u
    BY <1>1, UserStays
  <2>2. ~Managed(u, k)
    BY <1>1, <2>1 DEF EntersAlone, ClaimWasTheLast
  <2>3. PICK e \in registered : Disconnect(e) /\ sess[e].user = u
    BY <2>2, ManagerStep
  <2>4. e \in Conns /\ phase[e] \in {"joined", "refused"}
    BY DEF Base, Shape, TypeOK, Seated, RefusedHasNoSeat
  <2>5. Entering(c) /\ Entering(e)
    BY <1>1 DEF Entering
  <2> QED  BY <1>1, <2>1, <2>3, <2>4, <2>5 DEF EntersAlone, OneEnters
<1>2. CASE phase[c] # "claiming"
  <2>1. PICK cl \in claims : ClaimOpportunity(c, cl)
    BY <1>2, NewClaimant
  <2> DEFINE l == KeyOf(SessionOf(cl))
  <2>2. /\ l # None /\ manager[l] # None /\ manager' = [manager EXCEPT ![l] = None]
        /\ sess' = [sess EXCEPT ![c] = SessionOf(cl)] /\ registered' = registered
        /\ phase[c] = "unused"
    BY <2>1 DEF ClaimOpportunity, Claimable, Withdrawn, Arrive
  <2>3. u = cl.user /\ l \in Keys /\ manager'[l] = None
    BY <2>2, SessionOfClaim, KeyIsKey DEF SessionOf, Base, Shape, TypeOK
  <2>4. Managed(u, l)
    BY <2>1, <2>2, <2>3, ClaimantIsOwner DEF Base, Managed
  <2> HIDE DEF l
  <2>5. k # l
    BY <2>3 DEF Managed
  <2>6. \/ Managed(u, k)
        \/ \E e \in registered : Disconnect(e)
    BY ManagerStep
  <2>7. ASSUME NEW e \in registered, Disconnect(e)
        PROVE  FALSE
    BY <2>2, <2>7 DEF Disconnect
  <2> QED  BY <2>3, <2>4, <2>5, <2>6, <2>7 DEF EntersAlone, OneOpportunity
<1> QED  BY <1>1, <1>2

(* How a session comes to be registered. *)
LEMMA RegisteredStep ==
  ASSUME Base, [Next]_vars, serverUp, NEW c \in Conns, c \in registered'
  PROVE  \/ c \in registered /\ sess'[c] = sess[c]
         \/ /\ registered' = registered \cup {c}
            /\ LoadGame(c) \/ FinishClaim(c) \/ \E cl \in claims : JoinBeforeStart(c, cl)
<1> USE DEF Base, Shape, TypeOK
<1>1. c \in registered => phase[c] \in {"joined", "refused"}
  BY DEF Seated, RefusedHasNoSeat
<1>2. ASSUME NEW d \in Conns,
             LoadGame(d) \/ FinishClaim(d) \/ \E cl \in claims : JoinBeforeStart(d, cl)
      PROVE  /\ registered' = registered \cup {d}
             /\ c # d => sess'[c] = sess[c]
  BY <1>2 DEF LoadGame, FinishClaim, JoinBeforeStart, TakeSeat
<1>3. ASSUME NEW d \in Conns, NEW cl \in claims,
             \/ AwaitSetup(d, cl) \/ FindNoGame(d, cl) \/ ClaimOpportunity(d, cl)
             \/ RefuseReconnection(d, cl)
      PROVE  c \in registered /\ sess'[c] = sess[c]
  <2>1. registered' = registered /\ sess' = [sess EXCEPT ![d] = SessionOf(cl)] /\ phase[d] = "unused"
    BY <1>3 DEF AwaitSetup, FindNoGame, ClaimOpportunity, RefuseReconnection, Arrive
  <2> QED  BY <1>1, <2>1
<1>4. ASSUME \/ \E d \in Conns : \/ LoseLoadRace(d) \/ ClaimFails(d) \/ Disconnect(d)
                                 \/ DisconnectThrows(d) \/ CloseUnheard(d) \/ TimeOut(d)
             \/ HandoffSome \/ ForwardSome \/ (\E cl \in claims : RejectClaim(cl))
             \/ UNCHANGED vars
      PROVE  c \in registered /\ sess' = sess
  BY <1>4 DEF LoseLoadRace, ClaimFails, Disconnect, DisconnectThrows, HandoffSome, Handoff,
              ForwardSome, Forward, RejectClaim, CloseUnheard, TimeOut, Expire, FinishTimeout,
              TimeoutThrows, vars, connVars
<1>5. ASSUME NEW d \in Conns,
             LoadGame(d) \/ FinishClaim(d) \/ \E cl \in claims : JoinBeforeStart(d, cl)
      PROVE  \/ c \in registered /\ sess'[c] = sess[c]
             \/ /\ registered' = registered \cup {c}
                /\ LoadGame(c) \/ FinishClaim(c) \/ \E cl \in claims : JoinBeforeStart(c, cl)
  BY <1>2, <1>5
<1> HIDE DEF Base, Shape, TypeOK
<1> QED  BY <1>3, <1>4, <1>5 DEF Next, ArriveSome, DepartSome, Continue

(* Whoever gets a seat or is refused one before the start has at most the one
   key they came with. *)
LEMMA KeptUnderItsKeyStep ==
  ASSUME AuthUsers = {}, Base, Held, EntersAlone, [Next]_vars, serverUp, serverUp'
  PROVE  KeptUnderItsKey'
<1> SUFFICES ASSUME NEW c \in registered', NEW k \in Keys, NEW u, u = sess'[c].user, Managed(u, k)'
             PROVE  k = KeyOf(sess'[c])
  BY DEF KeptUnderItsKey, Managed, KeyOf
<1>1. c \in Conns /\ Shape'
  <2>1. Shape'
    BY ShapeStep DEF Base
  <2> QED  BY <2>1 DEF Shape, TypeOK
<1>2. CASE c \in registered /\ sess'[c] = sess[c]
  <2>1. CASE Managed(u, k)
    BY <1>2, <2>1 DEF EntersAlone, KeptUnderItsKey
  <2>2. ASSUME NEW e \in registered, Disconnect(e), sess[e].user = u
        PROVE  FALSE
    <3>1. Entering(c) /\ Entering(e) /\ e \in Conns /\ registered' = registered \ {e}
      BY <1>2, <2>2 DEF Entering, Disconnect, Base, Shape, TypeOK
    <3>2. phase[c] # "unused" /\ phase[e] # "unused"
      BY <1>2 DEF Base, Seated, RefusedHasNoSeat
    <3> QED  BY <1>1, <1>2, <2>2, <3>1, <3>2 DEF EntersAlone, OneEnters
  <2> QED  BY <2>1, <2>2, ManagerStep
<1>3. ASSUME registered' = registered \cup {c},
             LoadGame(c) \/ FinishClaim(c) \/ \E cl \in claims : JoinBeforeStart(c, cl)
      PROVE  k = KeyOf(sess'[c])
  <2>1. Managed(u, k)
    <3>1. ASSUME NEW e \in registered, Disconnect(e) PROVE FALSE
      BY <1>3, <3>1 DEF Disconnect
    <3> QED  BY <3>1, ManagerStep
  <2>2. manager[k] \in SeenOf(u) /\ phase[manager[k]] = "closed" /\ HasKey(u, k)
    BY <2>1, ManagedIsKey
  <2>3. CASE LoadGame(c)
    <3>1. phase[c] = "loading"
      BY <2>3 DEF LoadGame
    <3>2. SeenOf(u) = {c}
      BY <1>1, <3>1, UserStays DEF Held, EarlyAreAlone, Early
    <3> QED  BY <2>2, <3>1, <3>2
  <2>4. CASE FinishClaim(c)
    <3>1. phase[c] = "claiming"
      BY <2>4 DEF FinishClaim
    <3> QED  BY <1>1, <2>1, <3>1, UserStays DEF EntersAlone, ClaimWasTheLast
  <2>5. ASSUME NEW cl \in claims, JoinBeforeStart(c, cl)
        PROVE  k = KeyOf(sess'[c])
    <3>1. /\ Arrive(c, cl) /\ TakeSeat(c, SessionOf(cl), game[cl.game]) /\ ~game[cl.game].started
      BY <2>5 DEF JoinBeforeStart
    <3>2. /\ SessionOf(cl) \in BuiltSessions /\ cl.game \in GameNames /\ SessionOf(cl).game = cl.game
          /\ SessionOf(cl).user = cl.user /\ SessionOf(cl).name = cl.name
      BY <1>1, <3>1, ArriveShape DEF SessionOf, Base
    <3>3. game[cl.game] \in Games /\ game[cl.game].players \subseteq Range(seats[cl.game])
          /\ OwnsSeat(SessionOf(cl)) /\ cl.user \in DOMAIN seats[cl.game]
      BY <3>2, AllAreSeated DEF Base, Shape, TypeOK, Table, PlayersAreSeated, Owned
    <3>4. u = cl.user
      BY <1>1, <3>1, <3>2, <3>3, TakeSeatShape DEF Base, Shape
    <3>5. cl.name # seats[cl.game][cl.user]
      BY <2>2, <3>4 DEF Held, FirstClaims
    <3>6. cl.name \notin game[cl.game].players
      BY <3>2, <3>3, <3>5, NameOfSeat
    <3>7. sess'[c] = SessionOf(cl)
      BY <1>1, <3>1, <3>2, <3>6 DEF TakeSeat, Base, Shape, TypeOK
    <3>8. HasKey(u, KeyOf(SessionOf(cl)))
      BY <3>4, <3>5 DEF HasKey
    <3> QED  BY <2>2, <3>1, <3>2, <3>3, <3>4, <3>7, <3>8 DEF EntersAlone, OneKeyBeforeStart, OneKey
  <2> QED  BY <1>3, <2>3, <2>4, <2>5
<1> QED  BY <1>1, <1>2, <1>3, RegisteredStep

(* A session gets a key of its own only with its seat. *)
LEMMA TokensComeWithSeats ==
  ASSUME Base, [Next]_vars, NEW c \in Conns, phase[c] # "unused"
  PROVE  sess'[c].token = sess[c].token \/ phase'[c] = "joined"
<1> USE DEF Base, Shape, TypeOK
<1>1. ASSUME NEW d \in Conns, NEW s \in BuiltSessions, NEW gm \in Games, TakeSeat(d, s, gm),
             c = d => s.token = sess[c].token
      PROVE  sess'[c].token = sess[c].token \/ phase'[c] = "joined"
  BY <1>1 DEF TakeSeat
<1>2. ASSUME NEW d \in Conns, NEW cl \in claims, Arrive(d, cl),
             \A b \in Conns \ {d} : sess'[b] = sess[b]
      PROVE  sess'[c] = sess[c]
  BY <1>2 DEF Arrive
<1>3. ASSUME NEW d \in Conns, NEW cl \in claims,
             \/ AwaitSetup(d, cl) \/ FindNoGame(d, cl) \/ ClaimOpportunity(d, cl)
             \/ RefuseReconnection(d, cl)
      PROVE  sess'[c] = sess[c]
  BY <1>2, <1>3 DEF AwaitSetup, FindNoGame, ClaimOpportunity, RefuseReconnection
<1>4. ASSUME NEW d \in Conns, NEW cl \in claims, JoinBeforeStart(d, cl)
      PROVE  sess'[c] = sess[c]
  <2>1. Arrive(d, cl) /\ \A b \in Conns \ {d} : sess'[b] = sess[b]
    BY <1>4 DEF JoinBeforeStart, TakeSeat
  <2> QED  BY <1>2, <2>1
<1>5. ASSUME NEW d \in Conns, LoadGame(d)
      PROVE  sess'[c].token = sess[c].token \/ phase'[c] = "joined"
  BY <1>5 DEF LoadGame, TakeSeat
<1>6. ASSUME NEW d \in Conns, FinishClaim(d)
      PROVE  sess'[c].token = sess[c].token \/ phase'[c] = "joined"
  BY <1>6 DEF FinishClaim, TakeSeat, Renamed
<1>7. ASSUME \/ \E d \in Conns : \/ LoseLoadRace(d) \/ ClaimFails(d) \/ Disconnect(d)
                                 \/ DisconnectThrows(d) \/ CloseUnheard(d) \/ TimeOut(d)
             \/ HandoffSome \/ ForwardSome \/ (\E cl \in claims : RejectClaim(cl))
             \/ UNCHANGED vars
      PROVE  sess' = sess
  BY <1>7 DEF LoseLoadRace, ClaimFails, Disconnect, DisconnectThrows, HandoffSome, Handoff,
              ForwardSome, Forward, RejectClaim, CloseUnheard, TimeOut, Expire, FinishTimeout,
              TimeoutThrows, vars, connVars
<1> HIDE DEF Base, Shape, TypeOK
<1> QED  BY <1>3, <1>4, <1>5, <1>6, <1>7 DEF Next, ArriveSome, DepartSome, Continue

(* Whoever arrives for the first time is seated or waits for the setup;
   anybody else brings a key the lobby sent them back with. *)
LEMMA ArrivalStep ==
  ASSUME Base, Held, [Next]_vars, serverUp, NEW c \in Conns, phase[c] = "unused", phase'[c] # "unused"
  PROVE  \/ phase'[c] \in {"loading", "joined"}
         \/ \E cl \in claims : /\ sess'[c] = SessionOf(cl) /\ sess'[c].user = cl.user
                               /\ cl.name # seats[cl.game][cl.user]
<1> USE DEF Base, Shape, TypeOK
<1> DEFINE Goal ==
         \/ phase'[c] \in {"loading", "joined"}
         \/ \E cl \in claims : /\ sess'[c] = SessionOf(cl) /\ sess'[c].user = cl.user
                               /\ cl.name # seats[cl.game][cl.user]
<1>1. ASSUME NEW cl \in claims, cl.name = seats[cl.game][cl.user]
      PROVE  IF cl.game \in registry
             THEN ~game[cl.game].started /\ cl.name \in game[cl.game].players
             ELSE cl.game \in pending
  <2>1. OwnsSeat(SessionOf(cl)) /\ cl \in Claims
    BY DEF Owned
  <2>2. cl.game \in GameNames /\ cl.user \in DOMAIN seats[cl.game]
    BY <2>1 DEF OwnsSeat, SessionOf, Claims
  <2>3. Unseen(cl.user)
    BY <1>1 DEF Held, FirstClaims, SeenOf, Unseen
  <2> QED  BY <1>1, <2>2, <2>3 DEF Owned, SeatsWait
<1>2. ASSUME NEW d \in Conns, NEW cl \in claims,
             \/ AwaitSetup(d, cl) \/ FindNoGame(d, cl) \/ ClaimOpportunity(d, cl)
             \/ RefuseReconnection(d, cl)
      PROVE  Goal
  <2>1. sess' = [sess EXCEPT ![d] = SessionOf(cl)] /\ \A b \in Conns \ {d} : phase'[b] = phase[b]
    BY <1>2 DEF AwaitSetup, FindNoGame, ClaimOpportunity, RefuseReconnection
  <2>2. d = c
    BY <2>1
  <2>3. AwaitSetup(d, cl) => phase'[c] = "loading"
    BY <2>2 DEF AwaitSetup
  <2>4. ~AwaitSetup(d, cl) => cl.name # seats[cl.game][cl.user]
    BY <1>1, <1>2 DEF FindNoGame, ClaimOpportunity, RefuseReconnection
  <2>5. SessionOf(cl).user = cl.user
    BY DEF SessionOf
  <2> QED  BY <2>1, <2>2, <2>3, <2>4, <2>5
<1>3. ASSUME NEW d \in Conns, NEW cl \in claims, JoinBeforeStart(d, cl)
      PROVE  Goal
  <2>1. Arrive(d, cl) /\ TakeSeat(d, SessionOf(cl), game[cl.game]) /\ cl.game \in registry
    BY <1>3 DEF JoinBeforeStart
  <2>2. d = c
    BY <2>1 DEF TakeSeat
  <2>3. SessionOf(cl).user = cl.user /\ SessionOf(cl).name = cl.name
    BY DEF SessionOf
  <2>4. \/ cl.name \in game[cl.game].players /\ phase'[c] = "joined"
        \/ cl.name \notin game[cl.game].players /\ sess'[c] = SessionOf(cl)
    BY <2>1, <2>2, <2>3 DEF TakeSeat
  <2>5. cl.name \notin game[cl.game].players => cl.name # seats[cl.game][cl.user]
    BY <1>1, <2>1
  <2> QED  BY <2>3, <2>4, <2>5
<1>4. ASSUME NEW d \in Conns, LoadGame(d) \/ FinishClaim(d)
      PROVE  Goal
  BY <1>4 DEF LoadGame, FinishClaim, TakeSeat
<1>5. ASSUME NEW d \in Conns,
             LoseLoadRace(d) \/ ClaimFails(d) \/ Disconnect(d) \/ DisconnectThrows(d)
      PROVE  FALSE
  BY <1>5 DEF LoseLoadRace, ClaimFails, Disconnect, DisconnectThrows, Listening
<1>6. ASSUME \/ HandoffSome \/ ForwardSome \/ (\E cl \in claims : RejectClaim(cl))
             \/ \E e \in Conns : CloseUnheard(e) \/ TimeOut(e)
             \/ UNCHANGED vars
      PROVE  FALSE
  BY <1>6 DEF HandoffSome, Handoff, ForwardSome, Forward, RejectClaim, CloseUnheard,
              TimeOut, Expire, FinishTimeout, TimeoutThrows, vars, connVars
<1> HIDE DEF Goal, Base, Shape, TypeOK
<1> QED  BY <1>2, <1>3, <1>4, <1>5, <1>6 DEF Next, ArriveSome, DepartSome, Continue, Goal

(* Only users with a seat have keys. *)
LEMMA KeysAreOfSeated ==
  ASSUME AuthUsers = {}, Base, NEW u, NEW k, HasKey(u, k)
  PROVE  u \in SeatedUsers
<1>1. ASSUME NEW n \in GameNames, u \in DOMAIN seats[n]
      PROVE  u \in SeatedUsers
  BY <1>1 DEF SeatedUsers
<1>2. CASE \E c \in SeenOf(u) : KeyOf(sess[c]) = k
  BY <1>1, <1>2, AllAreSeated DEF SeenOf
<1>3. CASE k \in Keys /\ records[k] # None /\ records[k].user = u
  BY <1>1, <1>3, AllAreSeated
<1>4. CASE \E cl \in claims : cl.user = u
  BY <1>1, <1>4, AllAreSeated
<1> QED  BY <1>2, <1>3, <1>4 DEF HasKey

(* A key of the next state was one before, or is of somebody who waits for the
   setup or sits in the game. *)
LEMMA KeyStep ==
  ASSUME AuthUsers = {}, Base, Held, [Next]_vars, serverUp, NEW u, NEW k, HasKey(u, k)'
  PROVE  \/ HasKey(u, k)
         \/ \E c \in Conns : phase'[c] \in {"loading", "joined"} /\ sess'[c].user = u
<1>1. ASSUME NEW c \in Conns, phase'[c] # "unused", sess'[c].user = u, KeyOf(sess'[c]) = k,
             phase'[c] \notin {"loading", "joined"}
      PROVE  HasKey(u, k)
  <2>1. CASE phase[c] # "unused"
    <3>1. sess'[c].token = sess[c].token /\ sess[c].user = u
      BY <1>1, <2>1, TokensComeWithSeats, UserStays
    <3> QED  BY <1>1, <2>1, <3>1 DEF HasKey, SeenOf, KeyOf
  <2>2. CASE phase[c] = "unused"
    BY <1>1, <2>2, ArrivalStep DEF HasKey
  <2> QED  BY <2>1, <2>2
<1>2. CASE k \in Keys /\ records'[k] # None /\ records'[k].user = u
  <2>1. CASE records'[k] = records[k]
    BY <1>2, <2>1 DEF HasKey
  <2>2. ASSUME NEW c \in Conns, phase[c] \notin {"unused", "loading", "closed"}, KeyOf(sess[c]) = k,
               records'[k].user = sess[c].user
        PROVE  HasKey(u, k)
    BY <1>2, <2>2 DEF HasKey, SeenOf
  <2> QED  BY <1>2, <2>1, <2>2, RecordStep DEF Base
<1>3. ASSUME NEW cl \in claims', cl.user = u, cl.name # seats'[cl.game][u], KeyOf(SessionOf(cl)) = k
      PROVE  HasKey(u, k)
  <2>1. CASE seats' = seats /\ claims' \subseteq claims
    BY <1>3, <2>1 DEF HasKey
  <2>2. CASE HandoffSome
    <3>1. PICK n \in GameNames, S \in SUBSET Users : \E f \in [S -> Usernames] : Handoff(n, f)
      BY <2>2 DEF HandoffSome
    <3>2. PICK f \in [S -> Usernames] : Handoff(n, f)
      BY <3>1
    <3>3. DOMAIN seats[n] = {} /\ seats' = [seats EXCEPT ![n] = f] /\ seats'[n] = f
      BY <3>2 DEF Handoff, Base, Shape, TypeOK
    <3>4. PICK tokenOf \in [DOMAIN f -> IssuedTokens \cup {None}] :
            claims' = claims \cup {[user |-> v, name |-> f[v], token |-> tokenOf[v],
                                    game |-> n, nonce |-> n] : v \in DOMAIN f}
      BY <3>2 DEF Handoff
    <3>5. cl \in claims
      BY <1>3, <3>3, <3>4
    <3>6. cl.game \in GameNames /\ u \in DOMAIN seats[cl.game]
      BY <1>3, <3>5, AllAreSeated
    <3>7. seats'[cl.game] = seats[cl.game]
      BY <3>3, <3>6 DEF Base, Shape, TypeOK
    <3> QED  BY <1>3, <3>5, <3>7 DEF HasKey
  <2>3. CASE ForwardSome
    <3>1. PICK j \in Keys, name \in Usernames : Forward(j, name)
      BY <2>3 DEF ForwardSome
    <3>2. records[j] # None /\ seats' = seats
          /\ claims' = claims \cup {[user |-> records[j].user, name |-> name, token |-> j,
                                     game |-> records[j].game, nonce |-> forwards + 1]}
      BY <3>1 DEF Forward
    <3>3. CASE cl \in claims
      BY <1>3, <3>2, <3>3 DEF HasKey
    <3>4. CASE cl \notin claims
      <4>1. cl.token = j /\ records[j].user = cl.user
        BY <3>2, <3>4
      <4>2. k = j
        BY <1>3, <4>1 DEF KeyOf, SessionOf
      <4> QED  BY <1>3, <3>2, <4>1, <4>2 DEF HasKey
    <3> QED  BY <3>3, <3>4
  <2> QED  BY <2>1, <2>2, <2>3, OnlyLobbyIssues
<1> QED  BY <1>1, <1>2, <1>3 DEF HasKey, SeenOf

(* While the setup of a game waits its players have at most the key they
   came with. *)
LEMMA PendingHaveOneKey ==
  ASSUME AuthUsers = {}, Base, Held, serverUp, NEW n \in pending, NEW u \in DOMAIN seats[n]
  PROVE  OneKey(u)
<1>1. n \in GameNames
  BY DEF Base, Shape, TypeOK
<1>2. ASSUME NEW m \in GameNames, u \in DOMAIN seats[m]
      PROVE  m = n
  BY <1>1, <1>2 DEF Base, Owned, SeatsApart
<1>3. ASSUME NEW c \in SeenOf(u)
      PROVE  OneKey(u)
  <2>1. c \in Conns /\ phase[c] # "unused" /\ sess[c].user = u /\ sess[c].game = n
    BY <1>2, AllAreSeated DEF SeenOf
  <2>2. phase[c] = "loading"
    BY <2>1 DEF Base, Table, PendingIsUntouched
  <2>3. SeenOf(u) = {c} /\ ~OnRecord(u) /\ \A cl \in claims : cl.user # u
    BY <2>1, <2>2 DEF Held, EarlyAreAlone, Early
  <2> QED  BY <2>3 DEF OneKey, HasKey, OnRecord
<1>4. CASE SeenOf(u) = {}
  <2>1. \A cl \in claims : cl.user = u => cl.name = seats[cl.game][u]
    BY <1>2, AllAreSeated DEF Held, PendingIsNew
  <2>2. ~OnRecord(u)
    BY <1>4, AllAreSeated DEF OnRecord
  <2> QED  BY <1>4, <2>1, <2>2 DEF OneKey, HasKey, OnRecord
<1> QED  BY <1>3, <1>4

(* A player gets a key of their own when they are seated; if the game has not
   started they are there then, alone. *)
LEMMA OneKeyBeforeStartStep ==
  ASSUME AuthUsers = {}, Base, Held, EntersAlone, [Next]_vars, Amounts, serverUp, serverUp',
         Base', Held'
  PROVE  OneKeyBeforeStart'
<1> SUFFICES ASSUME NEW n \in GameNames, NEW u \in DOMAIN seats'[n], ~game'[n].started,
                    NEW k, NEW l, HasKey(u, k)', HasKey(u, l)'
             PROVE  k = l
  BY DEF OneKeyBeforeStart, OneKey
<1>1. ASSUME NEW c \in Conns, phase'[c] \in {"loading", "joined"}, sess'[c].user = u
      PROVE  k = l
  <2>1. OwnsSeat(sess[c])' /\ SeatsApart' /\ sess'[c].game \in GameNames
    BY <1>1 DEF Base, Owned, Shape, SessionsAreBuilt, BuiltSessions
  <2>2. sess'[c].game = n
    BY <1>1, <2>1 DEF OwnsSeat, SeatsApart
  <2>3. Early(c)'
    BY <1>1, <2>2 DEF Early
  <2>4. SeenOf(u)' = {c} /\ ~OnRecord(u)' /\ \A cl \in claims' : cl.user # u
    BY <1>1, <2>3 DEF Held, EarlyAreAlone, SeenOf, OnRecord
  <2> QED  BY <2>4 DEF HasKey, OnRecord
<1>2. CASE HasKey(u, k) /\ HasKey(u, l)
  <2>1. u \in SeatedUsers
    BY <1>2, KeysAreOfSeated
  <2>2. u \in DOMAIN seats[n]
    BY <2>1, NothingGranted DEF Handed, Sent
  <2>3. CASE n \in pending
    BY <1>2, <2>2, <2>3, PendingHaveOneKey DEF OneKey
  <2>4. CASE n \notin pending
    BY <1>2, <2>2, <2>4, StartedStays DEF EntersAlone, OneKeyBeforeStart, OneKey
  <2> QED  BY <2>3, <2>4
<1> QED  BY <1>1, <1>2, KeyStep

(* When the process ends nobody becomes registered any more. *)
LEMMA DownSessionsStay ==
  ASSUME [Next]_vars, ~serverUp'
  PROVE  registered' \subseteq registered /\ sess' = sess
<1>1. ASSUME NEW c \in Conns, Disconnect(c) \/ DisconnectThrows(c) \/ CloseUnheard(c) \/ TimeOut(c)
      PROVE  registered' \subseteq registered /\ sess' = sess
  BY <1>1 DEF Disconnect, DisconnectThrows, CloseUnheard, TimeOut, Expire, FinishTimeout,
              TimeoutThrows, connVars
<1>2. ASSUME \/ HandoffSome \/ ForwardSome \/ (\E cl \in claims : RejectClaim(cl))
             \/ UNCHANGED vars
      PROVE  registered' \subseteq registered /\ sess' = sess
  BY <1>2 DEF HandoffSome, Handoff, ForwardSome, Forward, RejectClaim, vars, connVars
<1>3. ASSUME NEW cl \in claims, NEW c \in Conns,
             \/ AwaitSetup(c, cl) \/ FindNoGame(c, cl) \/ JoinBeforeStart(c, cl)
             \/ ClaimOpportunity(c, cl) \/ RefuseReconnection(c, cl)
      PROVE  FALSE
  BY <1>3 DEF AwaitSetup, FindNoGame, JoinBeforeStart, ClaimOpportunity, RefuseReconnection,
              Arrive, MayDispatch
<1>4. ASSUME NEW c \in Conns, Continue(c)
      PROVE  FALSE
  BY <1>4 DEF Continue, LoadGame, LoseLoadRace, FinishClaim, ClaimFails
<1> QED  BY <1>1, <1>2, <1>3, <1>4 DEF Next, ArriveSome, DepartSome

LEMMA EntersAloneStep ==
  ASSUME HandsOffOnce, AuthUsers = {}, Base, Held, EntersAlone,
         OneConnectionPerUser, [Next]_vars
  PROVE  EntersAlone' /\ OneConnectionPerUser'
<1>1. CASE ~serverUp'
  BY <1>1, DownSessionsStay DEF EntersAlone, OneConnectionPerUser
<1>2. CASE serverUp'
  <2>1. serverUp /\ Amounts /\ Base' /\ Held'
    BY <1>2, UpWasUp, StepAmounts, HeldStep DEF Base, Shape
  <2>2. EntersAlone'
    BY <1>2, <2>1, OneEntersStep, OneOpportunityStep, ClaimWasTheLastStep, KeptUnderItsKeyStep,
       OneKeyBeforeStartStep DEF EntersAlone
  <2>3. OneConnectionPerUser'
    <3>1. \A c \in registered' : c \in Conns /\ phase'[c] # "unused"
      BY <1>2, <2>1 DEF Base, Shape, TypeOK, Seated, RefusedHasNoSeat
    <3> QED  BY <1>2, <2>2, <3>1 DEF EntersAlone, OneEnters, OneConnectionPerUser, Entering
  <2> QED  BY <2>2, <2>3
<1> QED  BY <1>1, <1>2

(* "Only one connection per user is permitted on a single game server", also
   with stores that answer later: a second claim of a user may pass the check
   while the first one waits, but it then finds the game started and the
   opportunity spent. *)
THEOREM OneConnectionRemotely ==
  ASSUME "sharedUsername" \notin Quirks, AuthUsers = {}
  PROVE  Spec => []OneConnectionPerUser
<1>1. Init => Base /\ Held /\ EntersAlone /\ OneConnectionPerUser
  <2>1. Init => Base /\ Held
    BY KeptInit
  <2>2. Init => EntersAlone /\ OneConnectionPerUser
    BY DEF Init, EntersAlone, OneEnters, OneOpportunity, Managed, ClaimWasTheLast, KeptUnderItsKey,
           OneKeyBeforeStart, OneKey, HasKey, SeenOf, OneConnectionPerUser
  <2> QED  BY <2>1, <2>2
<1>2. Base /\ Held /\ EntersAlone /\ OneConnectionPerUser /\ [Next]_vars
        => Base' /\ Held' /\ EntersAlone' /\ OneConnectionPerUser'
  BY HeldStep, EntersAloneStep, PlainHandsOffOnce
<1> QED  BY <1>1, <1>2, PTL DEF Spec

-----------------------------------------------------------------------------
(* What a lobby before the game server relies on *)

(* Who has not come is untouched. *)
LEMMA NotYetCome ==
  ASSUME Shape, [Next]_vars, NEW c \in Conns, phase'[c] = "unused"
  PROVE  sess'[c] = sess[c]
<1>1. ASSUME NEW d \in Conns, NEW s, NEW gm, TakeSeat(d, s, gm)
      PROVE  sess'[c] = sess[c]
  <2>1. phase'[d] # "unused"
    BY <1>1 DEF TakeSeat, Shape, TypeOK
  <2> QED  BY <1>1, <2>1 DEF TakeSeat, Shape, TypeOK
<1>2. ASSUME NEW d \in Conns,
             \/ \E cl \in claims : AwaitSetup(d, cl) \/ FindNoGame(d, cl)
                                  \/ ClaimOpportunity(d, cl) \/ RefuseReconnection(d, cl)
      PROVE  sess'[c] = sess[c]
  BY <1>2 DEF AwaitSetup, FindNoGame, ClaimOpportunity, RefuseReconnection, Shape, TypeOK
<1>3. ASSUME NEW d \in Conns, \/ \E cl \in claims : JoinBeforeStart(d, cl)
                              \/ LoadGame(d) \/ FinishClaim(d)
      PROVE  sess'[c] = sess[c]
  BY <1>1, <1>3 DEF JoinBeforeStart, LoadGame, FinishClaim
<1>4. ASSUME \/ HandoffSome \/ ForwardSome \/ DepartSome \/ (\E cl \in claims : RejectClaim(cl))
             \/ \E d \in Conns : LoseLoadRace(d) \/ ClaimFails(d) \/ TimeOut(d)
             \/ UNCHANGED vars
      PROVE  sess' = sess
  BY <1>4 DEF HandoffSome, Handoff, ForwardSome, Forward, RejectClaim, DepartSome, Disconnect,
              DisconnectThrows, CloseUnheard, LoseLoadRace, ClaimFails, TimeOut, Expire,
              FinishTimeout, TimeoutThrows, vars, connVars
<1> QED  BY <1>2, <1>3, <1>4 DEF Next, ArriveSome, Continue

(* A running game has its status in the store, and whoever may still return
   to it has a record there: the converse of RecordHasOpportunity. *)
OpportunitiesAreRecorded ==
  \A k \in Keys : manager[k] # None /\ sess[manager[k]].game \in registry =>
    records[k] # None /\ records[k].game = sess[manager[k]].game

Findable == registry \subseteq activeGames /\ OpportunitiesAreRecorded

LEMMA LeftRecordsStay ==
  ASSUME Ground, OpportunitiesAreRecorded, NEW c \in Conns, opp[c] = "none",
         \A d \in Conns \ {c} : sess'[d] = sess[d],
         UNCHANGED <<manager, records>>,
         \/ registry' = registry
         \/ \E n \in pending : phase[c] = "loading" /\ registry' = registry \cup {n}
  PROVE  OpportunitiesAreRecorded'
<1> SUFFICES ASSUME NEW k \in Keys, manager[k] # None, sess'[manager[k]].game \in registry'
             PROVE  records[k] # None /\ records[k].game = sess'[manager[k]].game
  BY DEF OpportunitiesAreRecorded
<1>1. /\ manager[k] \in Conns \ {c} /\ sess'[manager[k]] = sess[manager[k]]
      /\ phase[manager[k]] = "closed"
  BY DEF Ground, Promise, ManagerHoldsActive, Shape, TypeOK, OpportunitiesAreLeft
<1>2. sess[manager[k]].game \in registry
  <2>1. ASSUME NEW n \in pending PROVE sess[manager[k]].game # n
    BY <1>1 DEF Ground, Table, PendingIsUntouched
  <2> QED  BY <1>1, <2>1
<1> QED  BY <1>1, <1>2 DEF OpportunitiesAreRecorded

LEMMA FindableStep ==
  ASSUME Services # "failing", Ground, Findable, [Next]_vars
  PROVE  Findable'
<1> USE DEF Findable
<1>1. CASE UNCHANGED <<records, manager, sess, registry, activeGames>>
  BY <1>1 DEF OpportunitiesAreRecorded
<1>2. ASSUME NEW c \in Conns, NEW cl \in claims,
             \/ AwaitSetup(c, cl) \/ FindNoGame(c, cl) \/ RefuseReconnection(c, cl)
             \/ JoinBeforeStart(c, cl)
      PROVE  Findable'
  <2>1. opp[c] = "none"
    BY <1>2, ArriveShape DEF AwaitSetup, FindNoGame, RefuseReconnection, JoinBeforeStart, Ground
  <2>2. UNCHANGED <<manager, records, registry, activeGames>>
    BY <1>2 DEF AwaitSetup, FindNoGame, RefuseReconnection, JoinBeforeStart,
                storeVars, gameVars, returnVars
  <2>3. ASSUME NEW d \in Conns \ {c} PROVE sess'[d] = sess[d]
    BY <1>2 DEF AwaitSetup, FindNoGame, RefuseReconnection, JoinBeforeStart, TakeSeat,
                Ground, Shape, TypeOK
  <2> QED  BY <2>1, <2>2, <2>3, LeftRecordsStay
<1>3. ASSUME NEW c \in Conns, LoadGame(c) \/ FinishClaim(c)
      PROVE  Findable'
  <2>1. opp[c] = "none"
    BY <1>3 DEF LoadGame, FinishClaim, Ground, Shape, OpportunitiesAreLeft
  <2>2. UNCHANGED <<manager, records>>
    BY <1>3 DEF LoadGame, FinishClaim, storeVars, returnVars
  <2>3. ASSUME NEW d \in Conns \ {c} PROVE sess'[d] = sess[d]
    BY <1>3 DEF LoadGame, FinishClaim, TakeSeat, Ground, Shape, TypeOK
  <2>4. CASE FinishClaim(c)
    <3>1. UNCHANGED <<registry, activeGames>>
      BY <2>4 DEF FinishClaim, storeVars
    <3> QED  BY <2>1, <2>2, <2>3, <3>1, LeftRecordsStay
  <2>5. CASE LoadGame(c)
    <3>1. /\ phase[c] = "loading" /\ registry' = registry \cup {sess[c].game}
          /\ activeGames' = activeGames \cup {sess[c].game} /\ sess[c].game \notin registry
      BY <2>5 DEF LoadGame
    <3>2. sess[c].game \in pending
      BY <3>1 DEF Ground, Table, LoadingIsAwaited
    <3> QED  BY <2>1, <2>2, <2>3, <3>1, <3>2, LeftRecordsStay
  <2> QED  BY <1>3, <2>4, <2>5
<1>4. ASSUME NEW c \in Conns, NEW cl \in claims, ClaimOpportunity(c, cl)
      PROVE  Findable'
  <2> DEFINE k == KeyOf(SessionOf(cl))
  <2>1. opp[c] = "none" /\ k \in Keys
    <3>1. Arrive(c, cl) /\ k # None
      BY <1>4 DEF ClaimOpportunity, Claimable
    <3> QED  BY <3>1, ArriveShape, KeyIsKey DEF Ground
  <2>2. /\ manager' = [manager EXCEPT ![k] = None]
        /\ records' = [records EXCEPT ![k] = None]
        /\ sess' = [sess EXCEPT ![c] = SessionOf(cl)]
        /\ UNCHANGED <<registry, activeGames>>
    BY <1>4 DEF ClaimOpportunity, Withdrawn, Forgotten, gameVars
  <2> HIDE DEF k
  <2>3. ASSUME NEW j \in Keys, manager'[j] # None
        PROVE  /\ manager'[j] = manager[j] /\ records'[j] = records[j]
               /\ sess'[manager[j]] = sess[manager[j]]
    BY <2>1, <2>2, <2>3 DEF Ground, Promise, ManagerHoldsActive, Shape, TypeOK
  <2> QED  BY <2>2, <2>3 DEF OpportunitiesAreRecorded
<1>5. ASSUME NEW c \in Conns, Disconnect(c)
      PROVE  Findable'
  <2> DEFINE s == sess[c]
             k == KeyOf(s)
  <2>1. k \in Keys
    <3>1. s \in BuiltSessions
      BY <1>5 DEF Disconnect, Listening, Ground, Shape, SessionsAreBuilt
    <3> QED  BY <1>5, <3>1, KeyIsKey DEF Disconnect
  <2>2. /\ records' = [records EXCEPT ![k] = [user |-> s.user, game |-> s.game]]
        /\ manager' = [manager EXCEPT ![k] = c]
        /\ UNCHANGED <<sess, registry, activeGames>>
    BY <1>5 DEF Disconnect
  <2> HIDE DEF k
  <2>3. /\ manager'[k] = c /\ records'[k] = [user |-> s.user, game |-> s.game]
        /\ records'[k] # None
    <3>1. s \in BuiltSessions
      BY <1>5 DEF Disconnect, Listening, Ground, Shape, SessionsAreBuilt
    <3>2. [user |-> s.user, game |-> s.game] \in Records
      BY <3>1 DEF BuiltSessions, Records
    <3> QED  BY <2>1, <2>2, <3>2, NoneIsNoRecord DEF Ground, Shape, TypeOK
  <2>4. \A j \in Keys \ {k} : records'[j] = records[j] /\ manager'[j] = manager[j]
    BY <2>1, <2>2 DEF Ground, Shape, TypeOK
  <2> QED  BY <2>2, <2>3, <2>4 DEF OpportunitiesAreRecorded
<1>6. ASSUME NEW c \in Conns, Expire(c)
      PROVE  Findable'
  <2> DEFINE k == KeyOf(sess[c])
  <2>1. /\ manager' = [manager EXCEPT ![k] = None]
        /\ records' = [records EXCEPT ![k] = None]
        /\ UNCHANGED <<sess, registry, activeGames>>
    BY <1>6 DEF Expire, Withdrawn, Forgotten, connVars, gameVars
  <2> HIDE DEF k
  <2>2. ASSUME NEW j \in Keys, manager'[j] # None
        PROVE  manager'[j] = manager[j] /\ records'[j] = records[j]
    BY <2>1, <2>2 DEF Ground, Shape, TypeOK
  <2> QED  BY <2>1, <2>2 DEF OpportunitiesAreRecorded
<1>7. ASSUME NEW c \in Conns, FinishTimeout(c)
      PROVE  Findable'
  <2>1. UNCHANGED <<manager, sess, activeGames>>
    BY <1>7 DEF FinishTimeout, connVars
  <2>2. CASE UNCHANGED <<registry, records>>
    BY <2>1, <2>2 DEF OpportunitiesAreRecorded
  <2>3. CASE registry' = registry \ {sess[c].game} /\ records' = ForgottenIn(sess[c].game)
    <3>1. ASSUME NEW k \in Keys, records[k] # None, records[k].game # sess[c].game
          PROVE  records'[k] = records[k]
      BY <2>3, <3>1 DEF ForgottenIn
    <3> QED  BY <2>1, <2>3, <3>1 DEF OpportunitiesAreRecorded
  <2> QED  BY <1>7, <2>2, <2>3 DEF FinishTimeout
<1>8. ASSUME \/ HandoffSome \/ ForwardSome \/ (\E cl \in claims : RejectClaim(cl))
             \/ \E c \in Conns : \/ LoseLoadRace(c) \/ ClaimFails(c) \/ DisconnectThrows(c)
                                 \/ CloseUnheard(c) \/ TimeoutThrows(c)
             \/ UNCHANGED vars
      PROVE  UNCHANGED <<records, manager, sess, registry, activeGames>>
  BY <1>8 DEF HandoffSome, Handoff, ForwardSome, Forward, RejectClaim, LoseLoadRace, ClaimFails,
              DisconnectThrows, CloseUnheard, TimeoutThrows, vars, storeVars, connVars, gameVars,
              returnVars
<1> HIDE DEF Findable
<1> QED  BY <1>1, <1>2, <1>3, <1>4, <1>5, <1>6, <1>7, <1>8
         DEF Next, ArriveSome, DepartSome, Continue, TimeOut

(* A claim handed out with the game, shown by somebody not seen before, lets
   its bearer in: no timer has taken the seat and the game has not started. *)
LEMMA NewcomerGetsIn ==
  ASSUME Base, [Next]_vars, NEW cl \in claims, cl \notin claims',
         Unseen(cl.user), cl.name = seats[cl.game][cl.user]
  PROVE  \E c \in Conns : phase[c] = "unused" /\ phase'[c] \in {"loading", "joined"}
<1>1. /\ cl \in Claims /\ cl.game \in GameNames /\ cl.user \in DOMAIN seats[cl.game]
      /\ SessionOf(cl) \in BuiltSessions /\ SessionOf(cl).name = cl.name /\ SessionOf(cl).game = cl.game
  <2>1. cl \in Claims
    BY DEF Base, Shape, TypeOK
  <2>2. /\ SessionOf(cl).name = cl.name /\ SessionOf(cl).game = cl.game
        /\ SessionOf(cl).user = cl.user
    BY DEF SessionOf
  <2>3. cl.game \in GameNames
    BY <2>1 DEF Claims
  <2>4. OwnsSeat(SessionOf(cl))
    BY DEF Base, Owned
  <2>5. cl.user \in DOMAIN seats[cl.game]
    BY <2>2, <2>4 DEF OwnsSeat
  <2> QED  BY SessionOfClaim, <2>1, <2>2, <2>3, <2>5
<1>2. /\ cl.game \in registry => ~game[cl.game].started /\ cl.name \in game[cl.game].players
      /\ cl.game \notin registry => cl.game \in pending
  BY <1>1 DEF Base, Owned, SeatsWait
<1>3. serverUp => ~AlreadyConnected(cl.user)
  BY DEF AlreadyConnected, Base, Seated, RefusedHasNoSeat, Unseen, Shape, TypeOK
<1>4. ASSUME NEW d \in claims, RejectClaim(d)
      PROVE  FALSE
  BY <1>3, <1>4 DEF RejectClaim, MayDispatch
<1>5. ASSUME NEW d \in claims, NEW c \in Conns, Arrive(c, d)
      PROVE  d = cl /\ phase[c] = "unused" /\ c \in DOMAIN phase
  BY <1>5 DEF Arrive, Base, Shape, TypeOK
<1>6. ASSUME NEW c \in Conns, AwaitSetup(c, cl)
      PROVE  phase[c] = "unused" /\ phase'[c] = "loading"
  BY <1>5, <1>6 DEF AwaitSetup
<1>7. ASSUME NEW c \in Conns, JoinBeforeStart(c, cl)
      PROVE  phase[c] = "unused" /\ phase'[c] = "joined"
  <2>1. phase[c] = "unused" /\ TakeSeat(c, SessionOf(cl), game[cl.game]) /\ cl.game \in registry
    BY <1>5, <1>7 DEF JoinBeforeStart
  <2>2. game[cl.game] \in Games
    BY <1>1 DEF Base, Shape, TypeOK
  <2> QED  BY <1>1, <1>2, <2>1, <2>2, TakeSeatGame DEF Base, Shape
<1>8. ASSUME NEW c \in Conns,
             FindNoGame(c, cl) \/ ClaimOpportunity(c, cl) \/ RefuseReconnection(c, cl)
      PROVE  FALSE
  BY <1>2, <1>8 DEF FindNoGame, ClaimOpportunity, RefuseReconnection
<1>9. ArriveSome
  <2>1. ASSUME NEW c \in Conns, Continue(c) \/ TimeOut(c)
        PROVE  claims' = claims
    BY <2>1 DEF Continue, LoadGame, LoseLoadRace, FinishClaim, ClaimFails, TimeOut, Expire,
                FinishTimeout, TimeoutThrows, lobbyVars
  <2>2. HandoffSome \/ ForwardSome => claims \subseteq claims'
    BY DEF HandoffSome, Handoff, ForwardSome, Forward
  <2>3. DepartSome \/ UNCHANGED vars => claims' = claims
    BY DEF DepartSome, Disconnect, DisconnectThrows, CloseUnheard, vars, lobbyVars
  <2> QED  BY <2>1, <2>2, <2>3 DEF Next
<1>10. PICK d \in claims, c \in Conns :
         \/ AwaitSetup(c, d) \/ FindNoGame(c, d) \/ JoinBeforeStart(c, d)
         \/ ClaimOpportunity(c, d) \/ RefuseReconnection(c, d)
  BY <1>4, <1>9 DEF ArriveSome
<1>11. d = cl
  BY <1>5, <1>10 DEF AwaitSetup, FindNoGame, JoinBeforeStart, ClaimOpportunity, RefuseReconnection
<1> QED  BY <1>6, <1>7, <1>8, <1>10, <1>11
=============================================================================
