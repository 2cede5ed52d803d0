-------------------------- MODULE LobbyServerProofs --------------------------
(***************************************************************************)
(* Theorems about the lobby, for any number of guests, names and games:     *)
(* players and sessions agree as long as no two guests share a name, and    *)
(* then no client can bring a lobby down whose stores are in its process.   *)
(***************************************************************************)
EXTENDS LobbyServer, FiniteSetTheorems, TLAPS

(* Whoever has come has a name. *)
NamesKnown == \A c \in Conns : phase[c] # "unused" => names[c] \in Usernames

(* A handler that creates a game belongs to a session that was registered. *)
CreatorsCame == \A t \in creating : phase[t.conn] \in {"present", "closed"}

(* Room is reserved for the games whose creation is under way. *)
RoomIsLeft == IsFiniteSet(creating) /\ created + Cardinality(creating) <= MaxGames

Shape == TypeOK /\ NamesKnown /\ CreatorsCame /\ RoomIsLeft

-----------------------------------------------------------------------------
(* What the operators of the model return *)

(* Replacing a handler under way by its next stage takes no more room. *)
LEMMA Replaced ==
  ASSUME NEW S, IsFiniteSet(S), NEW t \in S, NEW u
  PROVE  /\ IsFiniteSet((S \ {t}) \cup {u})
         /\ Cardinality((S \ {t}) \cup {u}) <= Cardinality(S)
<1>1. /\ IsFiniteSet(S \ {t}) /\ Cardinality(S \ {t}) = Cardinality(S) - 1
      /\ Cardinality(S) \in Nat /\ Cardinality(S \ {t}) \in Nat
  BY FS_RemoveElement, FS_CardinalityType
<1>2. /\ IsFiniteSet((S \ {t}) \cup {u})
      /\ Cardinality((S \ {t}) \cup {u}) \in {Cardinality(S \ {t}), Cardinality(S \ {t}) + 1}
  BY <1>1, FS_AddElement
<1> QED  BY <1>1, <1>2

(* Leaving a game gives a game without the name, or none. *)
LEMMA LeftType ==
  ASSUME TypeOK, NEW c \in Conns, inGame[c] # None, lobby[inGame[c]] # None
  PROVE  /\ Left(c) \in [GameNames -> Games \cup {None}]
         /\ \A n \in GameNames \ {inGame[c]} : Left(c)[n] = lobby[n]
         /\ Left(c)[inGame[c]] # None =>
              /\ Left(c)[inGame[c]].players = lobby[inGame[c]].players \ {names[c]}
              /\ Left(c)[inGame[c]].handedOff = lobby[inGame[c]].handedOff
              /\ Left(c)[inGame[c]].id = lobby[inGame[c]].id
         /\ Left(c)[inGame[c]] = None => lobby[inGame[c]].players \subseteq {names[c]}
<1>1. inGame[c] \in GameNames /\ lobby[inGame[c]] \in Games
  BY DEF TypeOK
<1>2. /\ Unseated(c) \in Games /\ Unseated(c).players = lobby[inGame[c]].players \ {names[c]}
      /\ Unseated(c).handedOff = lobby[inGame[c]].handedOff
      /\ Unseated(c).id = lobby[inGame[c]].id
  BY <1>1 DEF Unseated, Games
<1> QED  BY <1>1, <1>2, NoneIsNoGame DEF Left, TypeOK

-----------------------------------------------------------------------------
(* Shape is an invariant *)

LEMMA ShapeInit == Init => Shape
<1> SUFFICES ASSUME Init PROVE Shape
  OBVIOUS
<1>1. TypeOK
  <2>1. None \in Setups
    BY DEF Setups
  <2> QED  BY <2>1, MaxGamesAssumption DEF Init, TypeOK, Phases
<1>2. RoomIsLeft
  BY FS_EmptySet, MaxGamesAssumption DEF Init, RoomIsLeft
<1> QED  BY <1>1, <1>2 DEF Init, Shape, NamesKnown, CreatorsCame

LEMMA ShapeStep == Shape /\ [Next]_vars => Shape'
<1> SUFFICES ASSUME Shape, [Next]_vars PROVE Shape'
  OBVIOUS
<1> USE DEF Shape
<1>a. (\A t \in creating : t.conn \in Conns) /\ None \in Setups
  BY DEF TypeOK, Creations, Setups
<1>1. ASSUME NEW c \in Conns, NEW name \in Usernames, Connect(c, name)
      PROVE  Shape'
  BY <1>a, <1>1 DEF Connect, TypeOK, Phases, NamesKnown, CreatorsCame, RoomIsLeft, gameVars, taskVars, storeVars
<1>2. ASSUME NEW c \in Conns, Greet(c) \/ Redirect(c)
      PROVE  Shape'
  BY <1>a, <1>2 DEF Greet, Redirect, TypeOK, Phases, NamesKnown, CreatorsCame, RoomIsLeft, gameVars, taskVars, storeVars
<1>3. ASSUME NEW c \in Conns, CloseUnheard(c)
      PROVE  Shape'
  BY <1>3 DEF CloseUnheard, TypeOK, NamesKnown, CreatorsCame, RoomIsLeft, gameVars, taskVars, storeVars
<1>4. ASSUME NEW c \in Conns, Close(c)
      PROVE  Shape'
  <2>1. /\ phase[c] = "present" /\ phase' = [phase EXCEPT ![c] = "closed"]
        /\ UNCHANGED <<deaf, names, created, taskVars, claims, storeVars>>
    BY <1>4 DEF Close
  <2>2. /\ lobby' \in [GameNames -> Games \cup {None}]
        /\ inGame' \in [Conns -> GameNames \cup {None}] /\ serverUp' \in BOOLEAN
    <3>1. CASE UNCHANGED <<serverUp, inGame, lobby>>
      BY <3>1 DEF TypeOK
    <3>2. CASE /\ inGame[c] # None /\ lobby[inGame[c]] # None /\ UNCHANGED serverUp
               /\ lobby' = Left(c) /\ inGame' = [inGame EXCEPT ![c] = None]
      BY <3>2, LeftType DEF TypeOK
    <3>3. CASE serverUp' = FALSE /\ UNCHANGED <<inGame, lobby>>
      BY <3>3 DEF TypeOK
    <3> QED  BY <1>4, <3>1, <3>2, <3>3 DEF Close
  <2>3. phase' \in [Conns -> Phases]
    BY <1>a, <2>1 DEF TypeOK, Phases
  <2>4. TypeOK'
    BY <2>1, <2>2, <2>3 DEF TypeOK, taskVars, storeVars
  <2>5. NamesKnown'
    BY <2>1 DEF TypeOK, NamesKnown
  <2>6. CreatorsCame' /\ RoomIsLeft'
    BY <2>1 DEF TypeOK, CreatorsCame, RoomIsLeft, taskVars
  <2> QED  BY <2>4, <2>5, <2>6
<1>5. ASSUME NEW c \in Conns, NEW n \in GameNames, CreateGame(c, n)
      PROVE  Shape'
  <2>1. /\ phase[c] = "present" /\ creating' = creating \cup {Drawn(c, n)}
        /\ created + Cardinality(creating) < MaxGames
        /\ UNCHANGED <<serverUp, sessionVars, gameVars, handoffs, claims, storeVars>>
    BY <1>5 DEF CreateGame, MayHandle
  <2>2. Drawn(c, n) \in Creations /\ Drawn(c, n).conn = c
    BY DEF Drawn, Creations
  <2>3. RoomIsLeft'
    <3>1. IsFiniteSet(creating) /\ Cardinality(creating) \in Nat /\ created \in Nat
      BY FS_CardinalityType, MaxGamesAssumption DEF RoomIsLeft, TypeOK
    <3>2. /\ IsFiniteSet(creating')
          /\ Cardinality(creating') <= Cardinality(creating) + 1 /\ Cardinality(creating') \in Nat
      <4> DEFINE S == creating \cup {Drawn(c, n)}
      <4>1. /\ IsFiniteSet(S)
            /\ Cardinality(S) = Cardinality(creating) \/ Cardinality(S) = Cardinality(creating) + 1
        BY <3>1, FS_AddElement
      <4>2. creating' = S
        BY <2>1
      <4> QED  BY <3>1, <4>1, <4>2
    <3>3. created' = created
      BY <2>1 DEF gameVars
    <3> QED  BY <2>1, <3>1, <3>2, <3>3, MaxGamesAssumption DEF RoomIsLeft
  <2> QED  BY <2>1, <2>2, <2>3 DEF TypeOK, NamesKnown, CreatorsCame, sessionVars, gameVars, storeVars
<1>6. ASSUME NEW t \in creating, NEW u \in Creations, u.conn = t.conn,
             creating' = (creating \ {t}) \cup {u},
             UNCHANGED <<serverUp, sessionVars, gameVars, handoffs, claims, storeVars>>
      PROVE  Shape'
  <2>1. /\ IsFiniteSet(creating') /\ Cardinality(creating') <= Cardinality(creating)
        /\ Cardinality(creating') \in Nat /\ Cardinality(creating) \in Nat
    BY <1>6, Replaced, FS_CardinalityType DEF RoomIsLeft
  <2>2. RoomIsLeft'
    BY <1>6, <2>1, MaxGamesAssumption DEF RoomIsLeft, gameVars, TypeOK
  <2> QED  BY <1>6, <2>2 DEF TypeOK, NamesKnown, CreatorsCame, sessionVars, gameVars, storeVars
<1>7. ASSUME NEW t \in creating, AskStatus(t)
      PROVE  Shape'
  <2> DEFINE u == [t EXCEPT !.stage = IF OnGameServer(t.name) THEN "taken" ELSE "status"]
  <2>1. u \in Creations /\ u.conn = t.conn
    BY DEF TypeOK, Creations
  <2>2. /\ creating' = (creating \ {t}) \cup {u}
        /\ UNCHANGED <<serverUp, sessionVars, gameVars, handoffs, claims, storeVars>>
    BY <1>7 DEF AskStatus
  <2> HIDE DEF u
  <2> QED  BY <1>6, <2>1, <2>2
<1>8. ASSUME NEW t \in creating, NEW n \in GameNames, DrawAgain(t, n)
      PROVE  Shape'
  <2>1. Drawn(t.conn, n) \in Creations /\ Drawn(t.conn, n).conn = t.conn
    BY DEF Drawn, Creations, TypeOK
  <2>2. /\ creating' = (creating \ {t}) \cup {Drawn(t.conn, n)}
        /\ UNCHANGED <<serverUp, sessionVars, gameVars, handoffs, claims, storeVars>>
    BY <1>8 DEF DrawAgain
  <2> QED  BY <1>6, <2>1, <2>2
<1>9. ASSUME NEW t \in creating, Settle(t)
      PROVE  Shape'
  <2>1. /\ creating' = creating \ {t} /\ serverUp' \in BOOLEAN
        /\ UNCHANGED <<sessionVars, handoffs, claims, storeVars>>
    BY <1>9 DEF Settle, Reply
  <2>2. /\ t.conn \in Conns /\ t.name \in GameNames /\ names[t.conn] \in Usernames
        /\ created \in Nat
    BY MaxGamesAssumption DEF TypeOK, Creations, CreatorsCame, NamesKnown
  <2>3. /\ IsFiniteSet(creating') /\ Cardinality(creating') = Cardinality(creating) - 1
        /\ Cardinality(creating') \in Nat /\ Cardinality(creating) \in Nat
    BY <2>1, FS_RemoveElement, FS_CardinalityType DEF RoomIsLeft
  <2>4. CASE UNCHANGED gameVars
    BY <2>1, <2>2, <2>3, <2>4, MaxGamesAssumption
       DEF TypeOK, NamesKnown, CreatorsCame, RoomIsLeft, sessionVars, gameVars, storeVars
  <2>5. CASE ~UNCHANGED gameVars
    <3> DEFINE g == [id |-> created + 1,
                     players |-> IF inGame[t.conn] = None THEN {names[t.conn]} ELSE {},
                     readied |-> {}, handedOff |-> FALSE]
    <3>1. /\ created' = created + 1 /\ lobby' = [lobby EXCEPT ![t.name] = g]
          /\ inGame' \in {inGame, [inGame EXCEPT ![t.conn] = t.name]}
      BY <1>9, <2>5 DEF Settle, gameVars
    <3>2. created' \in 1 .. MaxGames /\ created' + Cardinality(creating') <= MaxGames
      BY <2>2, <2>3, <3>1, MaxGamesAssumption DEF RoomIsLeft
    <3>3. g \in Games
      BY <2>2, <3>1, <3>2 DEF Games
    <3> HIDE DEF g
    <3>4. TypeOK'
      BY <2>1, <2>2, <3>1, <3>2, <3>3, MaxGamesAssumption DEF TypeOK, sessionVars, storeVars
    <3> QED  BY <2>1, <2>3, <3>2, <3>4 DEF NamesKnown, CreatorsCame, RoomIsLeft, sessionVars
  <2> QED  BY <2>4, <2>5
<1>10. ASSUME NEW c \in Conns, NEW n \in GameNames, JoinGame(c, n)
       PROVE  Shape'
  <2> DEFINE g == [lobby[n] EXCEPT !.players = @ \cup {names[c]}]
  <2>1. /\ phase[c] = "present" /\ lobby[n] # None
        /\ inGame' = [inGame EXCEPT ![c] = n] /\ lobby' = [lobby EXCEPT ![n] = g]
        /\ UNCHANGED <<serverUp, sessionVars, created, taskVars, claims, storeVars>>
    BY <1>10 DEF JoinGame, MayHandle
  <2>2. g \in Games
    BY <2>1 DEF TypeOK, Games, NamesKnown
  <2> HIDE DEF g
  <2> QED  BY <2>1, <2>2 DEF TypeOK, NamesKnown, CreatorsCame, RoomIsLeft, sessionVars, taskVars, storeVars
<1>11. ASSUME NEW c \in Conns, LeaveGame(c)
       PROVE  Shape'
  <2>1. /\ lobby' = Left(c) /\ inGame' = [inGame EXCEPT ![c] = None]
        /\ UNCHANGED <<serverUp, sessionVars, created, taskVars, claims, storeVars>>
        /\ Left(c) \in [GameNames -> Games \cup {None}]
    BY <1>11, LeftType DEF LeaveGame
  <2> QED  BY <2>1 DEF TypeOK, NamesKnown, CreatorsCame, RoomIsLeft, sessionVars, taskVars, storeVars
<1>12. ASSUME NEW c \in Conns, ToggleReady(c)
       PROVE  Shape'
  <2> DEFINE n == inGame[c]
             g == Toggled(lobby[n], c)
             t == [conn |-> c, game |-> n, id |-> g.id, audience |-> Channel(n),
                   holders |-> {}, stage |-> "locating"]
  <2>1. /\ phase[c] = "present" /\ n # None /\ lobby[n] # None
        /\ lobby' \in {[lobby EXCEPT ![n] = [g EXCEPT !.handedOff = TRUE]], [lobby EXCEPT ![n] = g]}
        /\ handoffs' \in {handoffs, handoffs \cup {t}}
        /\ UNCHANGED <<serverUp, sessionVars, inGame, created, creating, claims, storeVars>>
    BY <1>12 DEF ToggleReady, MayHandle
  <2>2. n \in GameNames /\ lobby[n] \in Games /\ names[c] \in Usernames
    BY <2>1 DEF TypeOK, NamesKnown
  <2>3. g \in Games /\ [g EXCEPT !.handedOff = TRUE] \in Games
    BY <2>2 DEF Toggled, Games
  <2>4. t \in Handoffs
    BY <2>2, <2>3 DEF Handoffs, Channel, Registered, Games
  <2> HIDE DEF n, g, t
  <2> QED  BY <2>1, <2>2, <2>3, <2>4
           DEF TypeOK, NamesKnown, CreatorsCame, RoomIsLeft, sessionVars, storeVars
<1>13. ASSUME NEW t \in handoffs, Publish(t) \/ Issue(t)
       PROVE  Shape'
  <2>1. t \in Handoffs
    BY DEF TypeOK
  <2> DEFINE w == [t EXCEPT !.stage = "writing"]
             u == [t EXCEPT !.stage = "sealing", !.holders = Holders(t)]
  <2>2. w \in Handoffs /\ u \in Handoffs
    BY <2>1 DEF Handoffs, Holders, Channel, Registered
  <2>3. Roster(t) \in Setups /\ t.game \in GameNames
    BY <2>1, NoneIsNoGame DEF Roster, TypeOK, Handoffs, Games, Setups
  <2>4. /\ handoffs' \in {(handoffs \ {t}) \cup {w}, (handoffs \ {t}) \cup {u}, handoffs \ {t}}
        /\ pending' \in {pending, [pending EXCEPT ![t.game] = Roster(t)]}
        /\ UNCHANGED <<sessionVars, gameVars, creating, claims, active>>
    BY <1>13 DEF Publish, Issue, Reply, storeVars
  <2> HIDE DEF w, u
  <2>5. /\ handoffs' \subseteq Handoffs
        /\ pending' \in [GameNames -> Setups]
    BY <2>2, <2>3, <2>4 DEF TypeOK
  <2>6. serverUp' \in BOOLEAN
    <3>1. serverUp' = serverUp \/ Reply(t.conn)
      BY <1>13 DEF Publish, Issue
    <3>2. serverUp' = serverUp => serverUp' \in BOOLEAN
      BY DEF TypeOK
    <3>3. Reply(t.conn) => serverUp' \in BOOLEAN
      BY DEF Reply
    <3> QED  BY <3>1, <3>2, <3>3
  <2> QED  BY <2>4, <2>5, <2>6 DEF TypeOK, NamesKnown, CreatorsCame, RoomIsLeft, sessionVars, gameVars
<1>14. ASSUME NEW t \in handoffs, Deliver(t)
       PROVE  Shape'
  <2>1. PICK served \in SUBSET (t.holders \cap HasEndpoint) :
          claims' = claims \cup {[conn |-> c, name |-> names[c], game |-> t.game] : c \in served}
    BY <1>14 DEF Deliver
  <2>2. t \in Handoffs
    BY DEF TypeOK
  <2>3. ASSUME NEW c \in served
        PROVE  [conn |-> c, name |-> names[c], game |-> t.game] \in Claims
    BY <2>2 DEF Claims, Handoffs, HasEndpoint, NamesKnown
  <2>4. claims' \subseteq Claims
    BY <2>1, <2>3 DEF TypeOK
  <2>5. /\ handoffs' \subseteq handoffs /\ serverUp' \in BOOLEAN
        /\ UNCHANGED <<sessionVars, gameVars, creating, storeVars>>
    BY <1>14 DEF Deliver
  <2> QED  BY <2>4, <2>5 DEF TypeOK, NamesKnown, CreatorsCame, RoomIsLeft, sessionVars, gameVars, storeVars
<1>15. ASSUME NEW n \in GameNames, Load(n)
       PROVE  Shape'
  BY <1>a, <1>15 DEF Load, TypeOK, NamesKnown, CreatorsCame, RoomIsLeft, sessionVars, gameVars, taskVars
<1>16. CASE UNCHANGED vars
  BY <1>16 DEF vars, TypeOK, NamesKnown, CreatorsCame, RoomIsLeft, sessionVars, gameVars, taskVars, storeVars
<1> HIDE DEF Shape
<1> QED  BY <1>1, <1>2, <1>3, <1>4, <1>5, <1>7, <1>8, <1>9, <1>10, <1>11, <1>12, <1>13, <1>14,
            <1>15, <1>16
         DEF Next, ConnectSome, HandleSome, Welcome, CarryOn, DrawSome, HandOffSome

LEMMA ShapeAlways == Spec => []Shape
<1>1. Init => Shape
  BY ShapeInit
<1>2. Shape /\ [Next]_vars => Shape'
  BY ShapeStep
<1> QED  BY <1>1, <1>2, PTL DEF Spec

(* Type correctness: no handler, whatever overtakes it, leaves a value of the
   wrong kind behind; no more games come to be than were asked for. *)
THEOREM TypeCorrect == Spec => []TypeOK
<1>1. Shape => TypeOK
  BY DEF Shape
<1> QED  BY <1>1, ShapeAlways, PTL

-----------------------------------------------------------------------------
(* Players and sessions agree *)

NamesApart == \A c, d \in HasEndpoint : names[c] = names[d] => c = d

(* Whoever is in a game is registered and one of its players; every player
   of a game is somebody in it. *)
Agreed ==
  serverUp =>
    /\ \A c \in Conns : inGame[c] # None =>
         /\ c \in Registered
         /\ lobby[inGame[c]] # None /\ names[c] \in lobby[inGame[c]].players
    /\ \A n \in GameNames : lobby[n] # None =>
         \A name \in lobby[n].players : \E c \in Conns : inGame[c] = n /\ names[c] = name

Seats == NamesApart /\ Agreed

(* Leaving a game takes a session out of it and its name out of the players;
   the game goes only with its last player. *)
LEMMA LeaveAgrees ==
  ASSUME Shape, Seats, serverUp, NEW c \in Conns, inGame[c] # None, lobby[inGame[c]] # None,
         lobby' = Left(c), inGame' = [inGame EXCEPT ![c] = None], names' = names,
         Registered \ {c} \subseteq Registered'
  PROVE  Agreed'
<1> DEFINE n == inGame[c]
<1>1. n \in GameNames /\ c \in HasEndpoint
  BY DEF Shape, TypeOK, Seats, Agreed, Registered, HasEndpoint
<1>2. /\ \A m \in GameNames \ {n} : lobby'[m] = lobby[m]
      /\ lobby'[n] # None => lobby'[n].players = lobby[n].players \ {names[c]}
      /\ lobby'[n] = None => lobby[n].players \subseteq {names[c]}
  BY LeftType DEF Shape
<1>3. /\ inGame'[c] = None
      /\ \A d \in Conns \ {c} : inGame'[d] = inGame[d]
  BY DEF Shape, TypeOK
<1>4. ASSUME NEW d \in Conns, inGame'[d] # None
      PROVE  /\ d \in Registered'
             /\ lobby'[inGame'[d]] # None /\ names[d] \in lobby'[inGame'[d]].players
  <2>1. d # c /\ inGame'[d] = inGame[d] /\ inGame[d] \in GameNames
    BY <1>3, <1>4 DEF Shape, TypeOK
  <2>2. /\ d \in Registered /\ lobby[inGame[d]] # None
        /\ names[d] \in lobby[inGame[d]].players
    BY <1>4, <2>1 DEF Seats, Agreed
  <2>3. names[d] # names[c]
    BY <1>1, <2>1, <2>2 DEF Seats, NamesApart, Registered, HasEndpoint
  <2> QED  BY <1>2, <2>1, <2>2, <2>3
<1>5. ASSUME NEW m \in GameNames, lobby'[m] # None, NEW name \in lobby'[m].players
      PROVE  \E d \in Conns : inGame'[d] = m /\ names[d] = name
  <2>1. lobby[m] # None /\ name \in lobby[m].players /\ (m = n => name # names[c])
    BY <1>2, <1>5
  <2>2. PICK d \in Conns : inGame[d] = m /\ names[d] = name
    BY <2>1 DEF Seats, Agreed
  <2> QED  BY <1>3, <2>1, <2>2
<1> QED  BY <1>4, <1>5 DEF Agreed

LEMMA SeatsStep ==
  ASSUME "sameName" \notin Quirks, Shape, Seats, [Next]_vars
  PROVE  Seats'
<1> USE DEF Seats
<1>1. CASE UNCHANGED <<serverUp, phase, names, inGame, lobby>>
  BY <1>1 DEF NamesApart, Agreed, Registered, HasEndpoint
<1>2. ASSUME NEW c \in Conns, NEW name \in Usernames, Connect(c, name)
      PROVE  Seats'
  <2>1. /\ phase[c] = "unused" /\ phase' = [phase EXCEPT ![c] = "looking"]
        /\ names' = [names EXCEPT ![c] = name] /\ serverUp
        /\ \A d \in HasEndpoint : names[d] # name
        /\ UNCHANGED <<serverUp, inGame, lobby>>
    BY <1>2 DEF Connect, Quiet, gameVars
  <2>2. /\ HasEndpoint' = HasEndpoint \cup {c} /\ c \notin HasEndpoint
        /\ Registered' = Registered /\ c \notin Registered
    BY <2>1 DEF HasEndpoint, Registered, Shape, TypeOK
  <2>3. /\ \A d \in Conns \ {c} : names'[d] = names[d]
        /\ names'[c] = name /\ inGame[c] = None
    BY <2>1, <2>2 DEF Shape, TypeOK, Agreed
  <2>4. NamesApart'
    BY <2>1, <2>2, <2>3 DEF NamesApart, HasEndpoint
  <2>5. \A n \in GameNames : n # None
    BY NoneAssumption
  <2>6. Agreed'
    BY <2>1, <2>2, <2>3, <2>5 DEF Agreed
  <2> QED  BY <2>4, <2>6
<1>3. ASSUME NEW c \in Conns, Greet(c) \/ Redirect(c)
      PROVE  Seats'
  <2>1. /\ \E p \in {"present", "forwarded"} : phase' = [phase EXCEPT ![c] = p]
        /\ phase[c] = "looking"
        /\ UNCHANGED <<serverUp, names, inGame, lobby>>
    BY <1>3 DEF Greet, Redirect, gameVars
  <2>2. HasEndpoint' = HasEndpoint /\ Registered \subseteq Registered'
    BY <2>1 DEF HasEndpoint, Registered, Shape, TypeOK
  <2> QED  BY <2>1, <2>2 DEF NamesApart, Agreed
<1>4. ASSUME NEW c \in Conns, Close(c)
      PROVE  Seats'
  <2>1. phase' = [phase EXCEPT ![c] = "closed"] /\ names' = names /\ serverUp
    BY <1>4 DEF Close, Quiet
  <2>2. /\ HasEndpoint' = HasEndpoint \ {c} /\ Registered' = Registered \ {c}
    BY <2>1 DEF HasEndpoint, Registered, Shape, TypeOK
  <2>3. NamesApart'
    BY <2>1, <2>2 DEF NamesApart
  <2>4. CASE inGame[c] = None /\ UNCHANGED <<serverUp, inGame, lobby>>
    BY <2>1, <2>2, <2>3, <2>4 DEF Agreed
  <2>5. CASE /\ inGame[c] # None /\ lobby[inGame[c]] # None
             /\ lobby' = Left(c) /\ inGame' = [inGame EXCEPT ![c] = None]
    BY <2>1, <2>2, <2>3, <2>5, LeaveAgrees
  <2>6. CASE serverUp' = FALSE
    BY <2>3, <2>6 DEF Agreed
  <2> QED  BY <1>4, <2>4, <2>5, <2>6 DEF Close
<1>5. ASSUME NEW t \in creating, Settle(t)
      PROVE  Seats'
  <2>1. UNCHANGED <<phase, names>> /\ Reply(t.conn) /\ serverUp
    BY <1>5 DEF Settle, sessionVars
  <2>2. NamesApart' /\ Registered' = Registered
    BY <2>1 DEF NamesApart, HasEndpoint, Registered
  <2>3. CASE UNCHANGED gameVars
    BY <2>1, <2>2, <2>3 DEF Agreed, gameVars
  <2>4. CASE ~UNCHANGED gameVars
    <3> DEFINE c == t.conn
               n == t.name
               joins == inGame[c] = None
               g == [id |-> created + 1, players |-> IF joins THEN {names[c]} ELSE {},
                     readied |-> {}, handedOff |-> FALSE]
    <3>1. /\ lobby[n] = None /\ lobby' = [lobby EXCEPT ![n] = g]
          /\ inGame' = IF joins THEN [inGame EXCEPT ![c] = n] ELSE inGame
      BY <1>5, <2>4 DEF Settle
    <3>2. c \in Conns /\ n \in GameNames /\ n # None /\ phase[c] \in {"present", "closed"}
      BY NoneAssumption DEF Shape, CreatorsCame, TypeOK, Creations
    <3>3. g \in [id : {created + 1}, players : {{names[c]}, {}}, readied : {{}}, handedOff : {FALSE}]
      OBVIOUS
    <3>4. g.players = (IF joins THEN {names[c]} ELSE {})
      OBVIOUS
    <3>5. ASSUME serverUp' PROVE g # None /\ c \in Registered
      <4>1. c \in HasEndpoint
        BY <2>1, <3>5 DEF Reply
      <4>2. names[c] \in Usernames /\ created + 1 \in 1 .. MaxGames
        <5>1. Cardinality(creating) \in Nat /\ Cardinality(creating) # 0
          BY FS_CardinalityType, FS_EmptySet DEF Shape, RoomIsLeft
        <5> QED  BY <3>2, <5>1, MaxGamesAssumption DEF Shape, NamesKnown, RoomIsLeft, TypeOK
      <4>3. g \in Games
        BY <4>2 DEF Games
      <4> QED  BY <3>2, <4>1, <4>3, NoneIsNoGame DEF HasEndpoint, Registered
    <3> HIDE DEF g, c, n
    <3>6. /\ \A m \in GameNames \ {n} : lobby'[m] = lobby[m]
          /\ lobby'[n] = g
          /\ \A d \in Conns \ {c} : inGame'[d] = inGame[d]
          /\ inGame'[c] = IF joins THEN n ELSE inGame[c]
      BY <3>1, <3>2 DEF Shape, TypeOK
    <3>7. ASSUME serverUp', NEW d \in Conns, inGame'[d] # None
          PROVE  /\ d \in Registered'
                 /\ lobby'[inGame'[d]] # None /\ names[d] \in lobby'[inGame'[d]].players
      <4>1. CASE d = c /\ joins
        BY <2>2, <3>4, <3>5, <3>6, <3>7, <4>1
      <4>2. CASE ~(d = c /\ joins)
        <5>1. inGame'[d] = inGame[d]
          BY <3>6, <4>2
        <5>2. /\ d \in Registered /\ inGame[d] \in GameNames
              /\ lobby[inGame[d]] # None /\ names[d] \in lobby[inGame[d]].players
          BY <2>1, <3>7, <5>1 DEF Agreed, Shape, TypeOK
        <5> QED  BY <2>2, <3>1, <3>6, <5>1, <5>2
      <4> QED  BY <4>1, <4>2
    <3>8. ASSUME serverUp', NEW m \in GameNames, lobby'[m] # None, NEW name \in lobby'[m].players
          PROVE  \E d \in Conns : inGame'[d] = m /\ names[d] = name
      <4>1. CASE m = n
        BY <3>2, <3>4, <3>6, <3>8, <4>1
      <4>2. CASE m # n
        <5>1. lobby[m] # None /\ name \in lobby[m].players
          BY <3>6, <3>8, <4>2
        <5>2. PICK d \in Conns : inGame[d] = m /\ names[d] = name
          BY <2>1, <5>1 DEF Agreed
        <5>3. m # None
          BY NoneAssumption
        <5> QED  BY <3>6, <5>2, <5>3
      <4> QED  BY <4>1, <4>2
    <3> QED  BY <2>1, <2>2, <3>7, <3>8 DEF Agreed
  <2> QED  BY <2>3, <2>4
<1>6. ASSUME NEW c \in Conns, NEW n \in GameNames, JoinGame(c, n)
      PROVE  Seats'
  <2> DEFINE g == [lobby[n] EXCEPT !.players = @ \cup {names[c]}]
  <2>1. /\ lobby[n] # None /\ inGame[c] = None /\ c \in Registered /\ serverUp
        /\ inGame' = [inGame EXCEPT ![c] = n] /\ lobby' = [lobby EXCEPT ![n] = g]
        /\ UNCHANGED <<serverUp, phase, names>>
    BY <1>6 DEF JoinGame, MayHandle, sessionVars, Registered
  <2>2. NamesApart' /\ Registered' = Registered
    BY <2>1 DEF NamesApart, HasEndpoint, Registered
  <2>3. g \in Games /\ g # None /\ g.players = lobby[n].players \cup {names[c]}
    <3>1. lobby[n] \in Games /\ names[c] \in Usernames
      BY <2>1 DEF Shape, TypeOK, NamesKnown, Registered
    <3> QED  BY <3>1, NoneIsNoGame DEF Games
  <2> HIDE DEF g
  <2>4. /\ \A m \in GameNames \ {n} : lobby'[m] = lobby[m]
        /\ lobby'[n] = g /\ inGame'[c] = n /\ n # None
        /\ \A d \in Conns \ {c} : inGame'[d] = inGame[d]
        /\ \A d \in Conns : inGame[d] \in GameNames \cup {None}
    BY <2>1, NoneAssumption DEF Shape, TypeOK
  <2>5. \A d \in Conns : inGame'[d] # None =>
          /\ d \in Registered
          /\ lobby'[inGame'[d]] # None /\ names[d] \in lobby'[inGame'[d]].players
    BY <2>1, <2>3, <2>4 DEF Agreed
  <2>6. ASSUME NEW m \in GameNames, lobby'[m] # None, NEW name \in lobby'[m].players
        PROVE  \E d \in Conns : inGame'[d] = m /\ names[d] = name
    <3>1. CASE m = n /\ name = names[c]
      BY <2>4, <3>1
    <3>2. CASE ~(m = n /\ name = names[c])
      <4>1. lobby[m] # None /\ name \in lobby[m].players /\ m # None
        BY <2>1, <2>3, <2>4, <2>6, <3>2, NoneAssumption
      <4>2. PICK d \in Conns : inGame[d] = m /\ names[d] = name
        BY <2>1, <4>1 DEF Agreed
      <4> QED  BY <2>1, <2>4, <4>1, <4>2
    <3> QED  BY <3>1, <3>2
  <2> QED  BY <2>1, <2>2, <2>5, <2>6 DEF Agreed
<1>7. ASSUME NEW c \in Conns, LeaveGame(c)
      PROVE  Seats'
  <2>1. /\ inGame[c] # None /\ lobby[inGame[c]] # None /\ serverUp
        /\ lobby' = Left(c) /\ inGame' = [inGame EXCEPT ![c] = None]
        /\ UNCHANGED <<phase, names>>
    BY <1>7 DEF LeaveGame, MayHandle, sessionVars
  <2>2. NamesApart' /\ Registered' = Registered
    BY <2>1 DEF NamesApart, HasEndpoint, Registered
  <2> QED  BY <2>1, <2>2, LeaveAgrees
<1>8. ASSUME NEW c \in Conns, ToggleReady(c)
      PROVE  Seats'
  <2> DEFINE n == inGame[c]
             g == Toggled(lobby[n], c)
  <2>1. /\ n # None /\ lobby[n] # None
        /\ lobby' \in {[lobby EXCEPT ![n] = [g EXCEPT !.handedOff = TRUE]], [lobby EXCEPT ![n] = g]}
        /\ UNCHANGED <<serverUp, phase, names, inGame>>
    BY <1>8 DEF ToggleReady, MayHandle, sessionVars
  <2>2. n \in GameNames /\ lobby[n] \in Games
    BY <2>1 DEF Shape, TypeOK
  <2>3. /\ g \in Games /\ g.players = lobby[n].players
        /\ [g EXCEPT !.handedOff = TRUE] \in Games
        /\ [g EXCEPT !.handedOff = TRUE].players = lobby[n].players
    <3>1. names[c] \in Usernames
      BY <1>8 DEF ToggleReady, MayHandle, Shape, NamesKnown
    <3> QED  BY <2>2, <3>1 DEF Toggled, Games
  <2> HIDE DEF n, g
  <2>4. /\ \A m \in GameNames \ {n} : lobby'[m] = lobby[m]
        /\ lobby'[n] # None /\ lobby'[n].players = lobby[n].players
    BY <2>1, <2>2, <2>3, NoneIsNoGame DEF Shape, TypeOK
  <2>5. NamesApart' /\ Registered' = Registered
    BY <2>1 DEF NamesApart, HasEndpoint, Registered
  <2>6. \A m \in GameNames : (lobby'[m] # None <=> lobby[m] # None)
                             /\ (lobby[m] # None => lobby'[m].players = lobby[m].players)
    BY <2>1, <2>4
  <2>7. \A d \in Conns : inGame[d] \in GameNames \cup {None}
    BY DEF Shape, TypeOK
  <2> QED  BY <2>1, <2>5, <2>6, <2>7 DEF Agreed
<1>9. ASSUME NEW t \in handoffs, Publish(t) \/ Issue(t) \/ Deliver(t)
      PROVE  Seats'
  <2>1. UNCHANGED <<phase, names, inGame, lobby>> /\ serverUp
    BY <1>9 DEF Publish, Issue, Deliver, sessionVars, gameVars
  <2> QED  BY <2>1 DEF NamesApart, Agreed, Registered, HasEndpoint
<1>10. ASSUME \/ \E c \in Conns : CloseUnheard(c) \/ \E n \in GameNames : CreateGame(c, n)
              \/ \E t \in creating : AskStatus(t) \/ \E n \in GameNames : DrawAgain(t, n)
              \/ \E n \in GameNames : Load(n)
              \/ UNCHANGED vars
       PROVE  UNCHANGED <<serverUp, phase, names, inGame, lobby>>
  BY <1>10 DEF CloseUnheard, CreateGame, AskStatus, DrawAgain, Load, vars, sessionVars, gameVars
<1> HIDE DEF Seats
<1> QED  BY <1>1, <1>2, <1>3, <1>4, <1>5, <1>6, <1>7, <1>8, <1>9, <1>10
         DEF Next, ConnectSome, HandleSome, Welcome, CarryOn, DrawSome, HandOffSome

LEMMA SeatsAlways ==
  ASSUME "sameName" \notin Quirks
  PROVE  Spec => [](Shape /\ Seats)
<1>1. Init => Seats
  BY DEF Init, Seats, NamesApart, Agreed, HasEndpoint
<1>2. Shape /\ Seats /\ [Next]_vars => Seats'
  BY SeatsStep
<1> QED  BY <1>1, <1>2, ShapeAlways, PTL DEF Spec

(* Every player of a game is found by name, and is found once. *)
LEMMA SeatsAgree == Seats => PlayersAreSessions
<1>1. ASSUME Seats, serverUp, NEW n \in GameNames, lobby[n] # None, NEW name \in lobby[n].players
      PROVE  Cardinality({c \in Channel(n) : names[c] = name}) = 1
  <2>1. PICK d \in Conns : inGame[d] = n /\ names[d] = name
    BY <1>1 DEF Seats, Agreed
  <2>2. d \in Registered
    BY <1>1, <2>1, NoneAssumption DEF Seats, Agreed
  <2>3. \A c \in Registered : names[c] = name => c = d
    BY <1>1, <2>1, <2>2 DEF Seats, NamesApart, Registered, HasEndpoint
  <2>4. {c \in Channel(n) : names[c] = name} = {d}
    BY <2>1, <2>2, <2>3 DEF Channel
  <2> QED  BY <2>4, FS_Singleton
<1> QED  BY <1>1 DEF PlayersAreSessions, Seats, Agreed, Registered

(* As long as no two guests share a name, every player of a lobby game is
   exactly one registered session and every session in a game is a player of
   it, through every overtaking of handlers: the lookups of one from the other
   that leaving, closing and handing off rely on do not fail. *)
THEOREM PlayersAndSessionsAgree ==
  ASSUME "sameName" \notin Quirks
  PROVE  Spec => []PlayersAreSessions
BY SeatsAgree, SeatsAlways, PTL

-----------------------------------------------------------------------------
(* No client brings the lobby down *)

(* With stores in the process a handler is not overtaken by the close of its
   own socket. *)
Standing ==
  serverUp /\ \A t \in creating \cup handoffs : phase[t.conn] = "present"

LEMMA StandingStep ==
  ASSUME Services = "inProcess", Shape, Seats, Standing, [Next]_vars
  PROVE  Standing'
<1> USE DEF Standing
<1>1. ASSUME NEW c \in Conns, \/ \E name \in Usernames : Connect(c, name)
                              \/ Greet(c) \/ Redirect(c)
      PROVE  Standing'
  <2>1. /\ phase[c] \in {"unused", "looking"} /\ UNCHANGED <<serverUp, creating, handoffs>>
        /\ \A d \in Conns \ {c} : phase'[d] = phase[d]
    BY <1>1 DEF Connect, Greet, Redirect, taskVars, Shape, TypeOK
  <2>2. \A t \in creating \cup handoffs : t.conn \in Conns
    BY DEF Shape, TypeOK, Creations, Handoffs
  <2> QED  BY <2>1, <2>2
<1>2. ASSUME NEW c \in Conns, Close(c)
      PROVE  Standing'
  <2>1. creating = {} /\ handoffs = {} /\ UNCHANGED taskVars /\ phase[c] = "present"
    BY <1>2 DEF Close, Quiet
  <2>2. inGame[c] # None => lobby[inGame[c]] # None
    BY DEF Seats, Agreed
  <2> QED  BY <1>2, <2>1, <2>2 DEF Close, taskVars
<1>3. ASSUME NEW c \in Conns, \/ \E n \in GameNames : CreateGame(c, n) \/ JoinGame(c, n)
                              \/ LeaveGame(c) \/ ToggleReady(c)
      PROVE  Standing'
  <2>1. /\ phase[c] = "present" /\ UNCHANGED <<serverUp, phase>>
    BY <1>3 DEF CreateGame, JoinGame, LeaveGame, ToggleReady, MayHandle, sessionVars
  <2>2. \A t \in creating' \cup handoffs' : t \in creating \cup handoffs \/ t.conn = c
    <3>1. CASE \E n \in GameNames : CreateGame(c, n)
      <4>1. PICK n \in GameNames : creating' = creating \cup {Drawn(c, n)} /\ handoffs' = handoffs
        BY <3>1 DEF CreateGame
      <4>2. Drawn(c, n).conn = c
        BY DEF Drawn
      <4> QED  BY <4>1, <4>2
    <3>2. CASE (\E n \in GameNames : JoinGame(c, n)) \/ LeaveGame(c)
      BY <3>2 DEF JoinGame, LeaveGame, taskVars
    <3>3. CASE ToggleReady(c)
      <4> DEFINE h == [conn |-> c, game |-> inGame[c], id |-> Toggled(lobby[inGame[c]], c).id,
                       audience |-> Channel(inGame[c]), holders |-> {}, stage |-> "locating"]
      <4>1. creating' = creating /\ (handoffs' = handoffs \cup {h} \/ handoffs' = handoffs)
        BY <3>3 DEF ToggleReady
      <4>2. h.conn = c
        OBVIOUS
      <4> HIDE DEF h
      <4> QED  BY <4>1, <4>2
    <3> QED  BY <1>3, <3>1, <3>2, <3>3
  <2> QED  BY <2>1, <2>2
<1>4. ASSUME NEW t \in creating, \/ AskStatus(t) \/ Settle(t)
                                 \/ \E n \in GameNames : DrawAgain(t, n)
      PROVE  Standing'
  <2>1. phase' = phase /\ handoffs' = handoffs
    BY <1>4 DEF AskStatus, Settle, DrawAgain, sessionVars
  <2>2. serverUp'
    <3>1. t.conn \in HasEndpoint
      BY DEF HasEndpoint, Shape, TypeOK, Creations
    <3> QED  BY <1>4, <3>1 DEF AskStatus, Settle, DrawAgain, Reply
  <2>3. \A u \in creating' : u \in creating \/ u.conn = t.conn
    <3>1. [t EXCEPT !.stage = IF OnGameServer(t.name) THEN "taken" ELSE "status"].conn = t.conn
      BY DEF Shape, TypeOK, Creations
    <3>2. \A n \in GameNames : Drawn(t.conn, n).conn = t.conn
      BY DEF Drawn
    <3> QED  BY <1>4, <3>1, <3>2 DEF AskStatus, Settle, DrawAgain
  <2> QED  BY <2>1, <2>2, <2>3
<1>5. ASSUME NEW t \in handoffs, Publish(t) \/ Issue(t) \/ Deliver(t)
      PROVE  Standing'
  <2>1. phase' = phase /\ creating' = creating
    BY <1>5 DEF Publish, Issue, Deliver, sessionVars
  <2>2. t.conn \in HasEndpoint /\ t \in Handoffs
    BY DEF HasEndpoint, Shape, TypeOK, Handoffs
  <2>3. serverUp'
    BY <1>5, <2>2 DEF Publish, Issue, Deliver, Reply
  <2>4. \A u \in handoffs' : u \in handoffs \/ u.conn = t.conn
    <3>1. /\ [t EXCEPT !.stage = "writing"].conn = t.conn
          /\ [t EXCEPT !.stage = "sealing", !.holders = Holders(t)].conn = t.conn
      BY <2>2 DEF Handoffs
    <3> QED  BY <1>5, <3>1 DEF Publish, Issue, Deliver
  <2> QED  BY <2>1, <2>3, <2>4
<1>6. ASSUME \/ \E c \in Conns : CloseUnheard(c)
             \/ \E n \in GameNames : Load(n)
             \/ UNCHANGED vars
      PROVE  Standing'
  BY <1>6 DEF CloseUnheard, Load, vars, sessionVars, taskVars
<1> HIDE DEF Standing
<1> QED  BY <1>1, <1>2, <1>3, <1>4, <1>5, <1>6
         DEF Next, ConnectSome, HandleSome, Welcome, CarryOn, DrawSome, HandOffSome

(* No event of a client brings down a lobby whose stores are in its process,
   as long as no two guests share a name: pipelined requests, readiness toggled
   after the handoff and unlucky draws of game names included. *)
THEOREM LobbyKeepsStanding ==
  ASSUME Services = "inProcess", "sameName" \notin Quirks
  PROVE  Spec => []LobbyStaysUp
<1>1. Init => Standing
  BY DEF Init, Standing
<1>2. Shape /\ Seats /\ Standing /\ [Next]_vars => Standing'
  BY StandingStep
<1>3. Standing => LobbyStaysUp
  BY DEF Standing, LobbyStaysUp
<1> QED  BY <1>1, <1>2, <1>3, SeatsAlways, PTL DEF Spec

=============================================================================
