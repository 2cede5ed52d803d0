-------------------------- MODULE LobbyServerHandoffs --------------------------
(***************************************************************************)
(* Theorems about what the lobby hands off, for any number of guests, names *)
(* and games: a name stands for one game, a claim is good for a seat, and   *)
(* with stores in the process every seat has a claim.                       *)
(***************************************************************************)
EXTENDS LobbyServerProofs

(* Game names are drawn without collision and nobody readies up twice;
   requests may still be pipelined. *)
Orderliness == {"readyAgain", "unluckyNames"} \cap Quirks = {}

(* Who draws a name has it alone. *)
NamesDrawn ==
  \A t \in creating :
    /\ lobby[t.name] = None
    /\ \A u \in creating : u.name = t.name => u = t
    /\ \A h \in handoffs : h.game # t.name
    /\ t.stage \in {"setup", "status"} => pending[t.name] = None
    /\ t.stage = "status" => t.name \notin active

(* A handoff has its game alone, publishes it once, and seals claims for
   players of what it published. *)
GamesHandedOff ==
  \A h \in handoffs :
    /\ lobby[h.game] # None => lobby[h.game].id = h.id /\ lobby[h.game].handedOff
    /\ \A k \in handoffs : k.game = h.game => k = h
    /\ h.stage = "locating" => pending[h.game] = None /\ h.game \notin active
    /\ h.stage # "locating" => pending[h.game] # None
    /\ h.stage = "writing" => Roster(h) \subseteq pending[h.game]
    /\ h.stage = "sealing" =>
         \A c \in h.holders : phase[c] # "unused" /\ names[c] \in pending[h.game]

(* A claim outlives its handoff, and its game keeps the name for good. *)
ClaimsSent ==
  \A cl \in claims :
    /\ \A h \in handoffs : h.game # cl.game
    /\ cl.game \in active \/ pending[cl.game] # None
    /\ pending[cl.game] # None => cl.name \in pending[cl.game]

Orderly == NamesDrawn /\ GamesHandedOff /\ ClaimsSent /\ NamesStayUnique

LEMMA Typing ==
  ASSUME Shape
  PROVE  /\ \A t \in creating : t \in Creations /\ t.conn \in Conns /\ t.name \in GameNames
         /\ \A h \in handoffs : h \in Handoffs /\ h.conn \in Conns /\ h.game \in GameNames
         /\ \A cl \in claims : cl.game \in GameNames /\ cl.name \in Usernames
         /\ \A n \in GameNames : lobby[n] \in Games \cup {None} /\ pending[n] \in Setups
         /\ \A c \in Conns : inGame[c] \in GameNames \cup {None}
         /\ None \notin Games /\ None \notin GameNames
BY NoneAssumption, NoneIsNoGame DEF Shape, TypeOK, Creations, Handoffs, Claims

(* The roster of a handoff is read off the registry alone. *)
LEMMA RosterStays ==
  ASSUME NEW h, lobby'[h.game] = lobby[h.game]
  PROVE  Roster(h)' = Roster(h)
BY DEF Roster

-----------------------------------------------------------------------------
(* Steps that change no name, handoff, claim or setup *)

(* Connections come and go without changing any game. *)
LEMMA ComingsAreOrderly ==
  ASSUME Shape, Orderly, UNCHANGED <<gameVars, taskVars, claims, storeVars>>,
         \A d \in Conns : phase[d] # "unused" => phase'[d] # "unused" /\ names'[d] = names[d]
  PROVE  Orderly'
<1>1. UNCHANGED <<lobby, creating, handoffs, claims, pending, active>>
  BY DEF gameVars, taskVars, storeVars
<1>2. NamesDrawn' /\ ClaimsSent' /\ NamesStayUnique'
  BY <1>1 DEF Orderly, NamesDrawn, ClaimsSent, NamesStayUnique
<1>3. \A h \in handoffs : Roster(h)' = Roster(h) /\ h.holders \subseteq Conns
  BY <1>1, RosterStays, Typing DEF Handoffs
<1> QED  BY <1>1, <1>2, <1>3 DEF Orderly, GamesHandedOff

(* A game that is not handed off, or loses a player, or stays, disturbs
   nothing. *)
LEMMA GamesAreOrderly ==
  ASSUME Shape, Orderly, UNCHANGED <<names, taskVars, claims, storeVars>>,
         \A d \in Conns : phase[d] # "unused" => phase'[d] # "unused",
         NEW n \in GameNames, \A m \in GameNames \ {n} : lobby'[m] = lobby[m],
         lobby[n] # None,
         lobby'[n] # None =>
           /\ lobby'[n].id = lobby[n].id /\ lobby'[n].handedOff = lobby[n].handedOff
           /\ lobby[n].handedOff => lobby'[n].players \subseteq lobby[n].players
  PROVE  Orderly'
<1>1. UNCHANGED <<names, creating, handoffs, claims, pending, active>>
  BY DEF taskVars, storeVars
<1>2. NamesDrawn' /\ ClaimsSent' /\ NamesStayUnique'
  BY <1>1, Typing DEF Orderly, NamesDrawn, ClaimsSent, NamesStayUnique
<1>3. ASSUME NEW h \in handoffs
      PROVE  /\ Roster(h)' \subseteq Roster(h) /\ h.holders \subseteq Conns
             /\ lobby'[h.game] # None => lobby'[h.game].id = h.id /\ lobby'[h.game].handedOff
  <2>1. h.game \in GameNames /\ h.holders \subseteq Conns
    BY Typing DEF Handoffs
  <2>2. lobby[h.game] # None => lobby[h.game].id = h.id /\ lobby[h.game].handedOff
    BY DEF Orderly, GamesHandedOff
  <2>3. CASE h.game = n
    BY <1>1, <2>1, <2>2, <2>3 DEF Roster
  <2>4. CASE h.game # n
    BY <1>1, <2>1, <2>2, <2>4, RosterStays
  <2> QED  BY <2>3, <2>4
<1>4. GamesHandedOff'
  BY <1>1, <1>3 DEF Orderly, GamesHandedOff
<1> QED  BY <1>2, <1>4 DEF Orderly

-----------------------------------------------------------------------------
(* Drawing names *)

(* A name nobody has is drawn, by a new handler or by one that had another. *)
LEMMA DrawsAreOrderly ==
  ASSUME Orderliness, Shape, Orderly, NEW c \in Conns, NEW n \in GameNames, MayDraw(n),
         NEW S, creating' = (creating \ S) \cup {Drawn(c, n)},
         UNCHANGED <<serverUp, sessionVars, gameVars, handoffs, claims, storeVars>>
  PROVE  Orderly'
<1>1. UNCHANGED <<phase, names, lobby, handoffs, claims, pending, active>>
  BY DEF sessionVars, gameVars, storeVars
<1>2. /\ lobby[n] = None /\ \A t \in creating : t.name # n
      /\ \A h \in handoffs : h.game # n
  BY DEF MayDraw, Orderliness
<1>3. /\ Drawn(c, n).name = n /\ Drawn(c, n).stage # "status"
      /\ Drawn(c, n).stage = "setup" => pending[n] = None
  BY DEF Drawn
<1>4. NamesDrawn'
  BY <1>1, <1>2, <1>3 DEF Orderly, NamesDrawn
<1>5. ClaimsSent' /\ NamesStayUnique'
  BY <1>1 DEF Orderly, ClaimsSent, NamesStayUnique
<1>6. GamesHandedOff'
  BY <1>1, RosterStays DEF Orderly, GamesHandedOff
<1> QED  BY <1>4, <1>5, <1>6 DEF Orderly

LEMMA AskIsOrderly ==
  ASSUME Shape, Orderly, NEW t \in creating, AskStatus(t)
  PROVE  Orderly'
<1> DEFINE u == [t EXCEPT !.stage = IF OnGameServer(t.name) THEN "taken" ELSE "status"]
<1>1. /\ creating' = (creating \ {t}) \cup {u} /\ t.stage = "setup"
      /\ UNCHANGED <<phase, names, lobby, handoffs, claims, pending, active>>
  BY DEF AskStatus, sessionVars, gameVars, storeVars
<1>2. /\ u.name = t.name /\ u.stage \in {"taken", "status"}
      /\ u.stage = "status" => t.name \notin active
  BY Typing DEF Creations, OnGameServer
<1> HIDE DEF u
<1>3. NamesDrawn'
  <2>1. /\ lobby[t.name] = None /\ pending[t.name] = None
        /\ \A v \in creating \ {t} : v.name # t.name
        /\ \A h \in handoffs : h.game # t.name
    BY <1>1 DEF Orderly, NamesDrawn
  <2>2. \A v \in creating' : v = u \/ v \in creating \ {t}
    BY <1>1
  <2> QED  BY <1>1, <1>2, <2>1, <2>2 DEF Orderly, NamesDrawn
<1>4. ClaimsSent' /\ NamesStayUnique'
  BY <1>1 DEF Orderly, ClaimsSent, NamesStayUnique
<1>5. GamesHandedOff'
  BY <1>1, RosterStays DEF Orderly, GamesHandedOff
<1> QED  BY <1>3, <1>4, <1>5 DEF Orderly

(* What is settled was found free, and is nobody else's. *)
LEMMA SettleIsOrderly ==
  ASSUME Orderliness, Shape, Orderly, NEW t \in creating, Settle(t)
  PROVE  Orderly'
<1>1. /\ creating' = creating \ {t} /\ t.stage = "status"
      /\ UNCHANGED <<phase, names, handoffs, claims, pending, active>>
  BY DEF Settle, Orderliness, sessionVars, storeVars
<1>2. /\ lobby[t.name] = None /\ pending[t.name] = None /\ t.name \notin active
      /\ \A u \in creating' : u.name # t.name
      /\ \A h \in handoffs : h.game # t.name
  BY <1>1 DEF Orderly, NamesDrawn
<1>3. \A m \in GameNames \ {t.name} : lobby'[m] = lobby[m]
  <2>1. lobby' = lobby \/ \E g : lobby' = [lobby EXCEPT ![t.name] = g]
    BY DEF Settle, gameVars
  <2> QED  BY <2>1, Typing DEF Shape, TypeOK
<1>4. NamesDrawn' /\ ClaimsSent' /\ NamesStayUnique'
  BY <1>1, <1>2, <1>3, Typing DEF Orderly, NamesDrawn, ClaimsSent, NamesStayUnique
<1>5. \A h \in handoffs : Roster(h)' = Roster(h) /\ lobby'[h.game] = lobby[h.game]
  BY <1>2, <1>3, Typing, RosterStays
<1>6. GamesHandedOff'
  BY <1>1, <1>5 DEF Orderly, GamesHandedOff
<1> QED  BY <1>4, <1>6 DEF Orderly

-----------------------------------------------------------------------------
(* The handoff *)

LEMMA ToggleIsOrderly ==
  ASSUME Orderliness, Shape, Orderly, NEW c \in Conns, ToggleReady(c)
  PROVE  Orderly'
<1> DEFINE n == inGame[c]
           g == Toggled(lobby[n], c)
           h == [conn |-> c, game |-> n, id |-> g.id, audience |-> Channel(n),
                 holders |-> {}, stage |-> "locating"]
<1>1. /\ n \in GameNames /\ lobby[n] \in Games /\ lobby[n] # None /\ ~lobby[n].handedOff
      /\ phase[c] = "present" /\ names[c] \in Usernames
  BY Typing DEF ToggleReady, MayHandle, Orderliness, Shape, NamesKnown
<1>2. /\ g \in Games /\ g.players = lobby[n].players /\ g.id = lobby[n].id /\ ~g.handedOff
      /\ [g EXCEPT !.handedOff = TRUE] \in Games
      /\ [g EXCEPT !.handedOff = TRUE].players = lobby[n].players
      /\ [g EXCEPT !.handedOff = TRUE].id = lobby[n].id
      /\ [g EXCEPT !.handedOff = TRUE].handedOff
  BY <1>1 DEF Toggled, Games
<1>3. UNCHANGED <<phase, names, creating, claims, pending, active>>
  BY DEF ToggleReady, sessionVars, storeVars
<1>4. h.game = n /\ h.id = g.id /\ h.stage = "locating"
  OBVIOUS
<1>5. \/ lobby' = [lobby EXCEPT ![n] = [g EXCEPT !.handedOff = TRUE]] /\ handoffs' = handoffs \cup {h}
      \/ lobby' = [lobby EXCEPT ![n] = g] /\ handoffs' = handoffs
  BY DEF ToggleReady
<1> HIDE DEF n, g, h
<1>6. /\ \A m \in GameNames \ {n} : lobby'[m] = lobby[m]
      /\ lobby'[n] \in Games /\ lobby'[n] # None
      /\ lobby'[n].id = lobby[n].id
  <2>1. DOMAIN lobby = GameNames
    BY Typing DEF Shape, TypeOK
  <2>2. None \notin Games
    BY Typing
  <2>3. CASE lobby' = [lobby EXCEPT ![n] = [g EXCEPT !.handedOff = TRUE]]
    BY <1>1, <1>2, <2>1, <2>2, <2>3
  <2>4. CASE lobby' = [lobby EXCEPT ![n] = g]
    BY <1>1, <1>2, <2>1, <2>2, <2>4
  <2> QED  BY <1>5, <2>3, <2>4
<1>7. /\ \A t \in creating : t.name # n
      /\ \A k \in handoffs : k.game # n
      /\ pending[n] = None /\ n \notin active
      /\ \A cl \in claims : cl.game # n
  BY <1>1 DEF Orderly, NamesDrawn, GamesHandedOff, ClaimsSent, NamesStayUnique
<1>8. \A k \in handoffs : Roster(k)' = Roster(k) /\ lobby'[k.game] = lobby[k.game]
  BY <1>6, <1>7, Typing, RosterStays
<1>9. handoffs' \in {handoffs, handoffs \cup {h}}
  BY <1>5
<1>10. NamesDrawn' /\ ClaimsSent'
  BY <1>3, <1>4, <1>6, <1>7, <1>9, Typing DEF Orderly, NamesDrawn, ClaimsSent
<1>11. NamesStayUnique'
  BY <1>3, <1>6, <1>7 DEF Orderly, NamesStayUnique
<1>12. GamesHandedOff'
  <2>1. \A k \in handoffs : h.game # k.game
    BY <1>4, <1>7
  <2>2. h \in handoffs' => lobby'[n].handedOff
    <3>1. h \notin handoffs
      BY <2>1
    <3>2. h \in handoffs' => lobby' = [lobby EXCEPT ![n] = [g EXCEPT !.handedOff = TRUE]]
      BY <1>5, <3>1
    <3> QED  BY <1>1, <1>2, <3>2 DEF Shape, TypeOK
  <2>3. lobby'[n].id = h.id
    BY <1>2, <1>4, <1>6
  <2> QED  BY <1>3, <1>4, <1>7, <1>8, <1>9, <2>1, <2>2, <2>3 DEF Orderly, GamesHandedOff
<1> QED  BY <1>10, <1>11, <1>12 DEF Orderly

LEMMA PublishIsOrderly ==
  ASSUME Shape, Orderly, NEW t \in handoffs, Publish(t)
  PROVE  Orderly'
<1> DEFINE w == [t EXCEPT !.stage = "writing"]
<1>1. /\ t.stage = "locating" /\ pending' = [pending EXCEPT ![t.game] = Roster(t)]
      /\ handoffs' = (handoffs \ {t}) \cup {w}
      /\ UNCHANGED <<phase, names, lobby, creating, claims, active>>
  BY DEF Publish, sessionVars, gameVars
<1>2. w.game = t.game /\ w.id = t.id /\ w.stage = "writing"
  BY Typing DEF Handoffs
<1>3. Roster(w) = Roster(t)
  BY <1>2 DEF Roster
<1> HIDE DEF w
<1>4. /\ pending'[t.game] = Roster(t) /\ Roster(t) # None
      /\ \A m \in GameNames \ {t.game} : pending'[m] = pending[m]
  <2>1. Roster(t) \in SUBSET Usernames
    BY Typing DEF Roster, Games
  <2> QED  BY <1>1, <2>1, Typing, NoneIsNoGame DEF Shape, TypeOK
<1>5. /\ \A k \in handoffs \ {t} : k.game # t.game
      /\ \A u \in creating : u.name # t.game
      /\ \A cl \in claims : cl.game # t.game
      /\ lobby[t.game] # None => lobby[t.game].id = t.id /\ lobby[t.game].handedOff
  BY DEF Orderly, NamesDrawn, GamesHandedOff, ClaimsSent
<1>6. \A k \in handoffs' : k = w \/ k \in handoffs \ {t}
  BY <1>1
<1>7. NamesDrawn' /\ ClaimsSent' /\ NamesStayUnique'
  BY <1>1, <1>2, <1>4, <1>5, <1>6, Typing DEF Orderly, NamesDrawn, ClaimsSent, NamesStayUnique
<1>8. \A k : Roster(k)' = Roster(k)
  BY <1>1, RosterStays
<1>9. GamesHandedOff'
  <2>1. ASSUME NEW k \in handoffs \ {t}
        PROVE  /\ pending'[k.game] = pending[k.game]
               /\ \A j \in handoffs' : j.game = k.game => j = k
    BY <1>2, <1>4, <1>5, <1>6, Typing DEF Orderly, GamesHandedOff
  <2>2. \A j \in handoffs' : j.game = w.game => j = w
    BY <1>2, <1>5, <1>6
  <2> QED  BY <1>1, <1>2, <1>3, <1>4, <1>5, <1>6, <1>8, <2>1, <2>2 DEF Orderly, GamesHandedOff
<1> QED  BY <1>7, <1>9 DEF Orderly

LEMMA IssueIsOrderly ==
  ASSUME Shape, Orderly, NEW t \in handoffs, Issue(t)
  PROVE  Orderly'
<1> DEFINE u == [t EXCEPT !.stage = "sealing", !.holders = Holders(t)]
<1>1. /\ t.stage = "writing" /\ handoffs' \in {(handoffs \ {t}) \cup {u}, handoffs \ {t}}
      /\ UNCHANGED <<phase, names, lobby, creating, claims, pending, active>>
  BY DEF Issue, sessionVars, gameVars, storeVars
<1>2. u.game = t.game /\ u.id = t.id /\ u.stage = "sealing" /\ u.holders = Holders(t)
  BY Typing DEF Handoffs
<1> HIDE DEF u
<1>3. \A k \in handoffs' : k = u \/ k \in handoffs \ {t}
  BY <1>1
<1>4. /\ \A k \in handoffs \ {t} : k.game # t.game
      /\ lobby[t.game] # None => lobby[t.game].id = t.id /\ lobby[t.game].handedOff
      /\ pending[t.game] # None
  BY <1>1 DEF Orderly, GamesHandedOff
<1>5. \A c \in Holders(t) : phase[c] # "unused" /\ names[c] \in pending[t.game]
  BY <1>1 DEF Holders, Channel, Registered, Orderly, GamesHandedOff
<1>6. NamesDrawn' /\ ClaimsSent' /\ NamesStayUnique'
  BY <1>1, <1>2, <1>3 DEF Orderly, NamesDrawn, ClaimsSent, NamesStayUnique
<1>7. GamesHandedOff'
  <2>1. \A k \in handoffs \ {t} : Roster(k)' = Roster(k)
    BY <1>1, RosterStays
  <2> QED  BY <1>1, <1>2, <1>3, <1>4, <1>5, <2>1 DEF Orderly, GamesHandedOff
<1> QED  BY <1>6, <1>7 DEF Orderly

LEMMA DeliverIsOrderly ==
  ASSUME Shape, Orderly, NEW t \in handoffs, Deliver(t)
  PROVE  Orderly'
<1>1. PICK served \in SUBSET (t.holders \cap HasEndpoint) :
        claims' = claims \cup {[conn |-> c, name |-> names[c], game |-> t.game] : c \in served}
  BY DEF Deliver
<1>2. /\ t.stage = "sealing" /\ handoffs' = handoffs \ {t}
      /\ UNCHANGED <<phase, names, lobby, creating, pending, active>>
  BY DEF Deliver, sessionVars, gameVars, storeVars
<1>3. /\ \A k \in handoffs' : k.game # t.game
      /\ pending[t.game] # None
      /\ \A c \in served : names[c] \in pending[t.game]
  BY <1>1, <1>2 DEF Orderly, GamesHandedOff
<1>4. \A cl \in claims' : cl \in claims \/ (cl.game = t.game /\ \E c \in served : cl.name = names[c])
  BY <1>1
<1>5. ClaimsSent'
  BY <1>2, <1>3, <1>4 DEF Orderly, ClaimsSent
<1>6. NamesDrawn' /\ NamesStayUnique'
  BY <1>2 DEF Orderly, NamesDrawn, NamesStayUnique
<1>7. GamesHandedOff'
  BY <1>2, RosterStays DEF Orderly, GamesHandedOff
<1> QED  BY <1>5, <1>6, <1>7 DEF Orderly

LEMMA LoadIsOrderly ==
  ASSUME Shape, Orderly, NEW n \in GameNames, Load(n)
  PROVE  Orderly'
<1>1. /\ pending' = [pending EXCEPT ![n] = None] /\ active' = active \cup {n}
      /\ UNCHANGED <<phase, names, lobby, creating, handoffs, claims>>
      /\ pending[n] # None
  BY DEF Load, sessionVars, gameVars, taskVars
<1>2. pending'[n] = None /\ \A m \in GameNames \ {n} : pending'[m] = pending[m]
  BY <1>1 DEF Shape, TypeOK
<1>3. /\ \A h \in handoffs : h.game # n
      /\ \A t \in creating : t.name = n => t.stage = "taken"
      /\ lobby[n] # None => lobby[n].handedOff
  <2>1. PICK cl \in claims : cl.game = n
    BY DEF Load
  <2> QED  BY <1>1, <2>1, Typing DEF Orderly, ClaimsSent, NamesDrawn, NamesStayUnique, Creations
<1>4. NamesDrawn' /\ ClaimsSent' /\ NamesStayUnique'
  BY <1>1, <1>2, <1>3, Typing DEF Orderly, NamesDrawn, ClaimsSent, NamesStayUnique
<1>5. \A h \in handoffs : Roster(h)' = Roster(h) /\ pending'[h.game] = pending[h.game]
  BY <1>1, <1>2, <1>3, Typing, RosterStays
<1>6. GamesHandedOff'
  BY <1>1, <1>3, <1>5 DEF Orderly, GamesHandedOff
<1> QED  BY <1>4, <1>6 DEF Orderly

-----------------------------------------------------------------------------
(* Orderly is an invariant *)

LEMMA OrderlyStep ==
  ASSUME Orderliness, Shape, Orderly, [Next]_vars
  PROVE  Orderly'
<1>1. ASSUME NEW c \in Conns,
             \/ \E name \in Usernames : Connect(c, name)
             \/ CloseUnheard(c) \/ Greet(c) \/ Redirect(c)
      PROVE  Orderly'
  <2>1. /\ UNCHANGED <<gameVars, taskVars, claims, storeVars>>
        /\ \A d \in Conns : phase[d] # "unused" => phase'[d] # "unused" /\ names'[d] = names[d]
    BY <1>1 DEF Connect, CloseUnheard, Greet, Redirect, Shape, TypeOK
  <2> QED  BY <2>1, ComingsAreOrderly
<1>2. ASSUME NEW c \in Conns, Close(c) \/ LeaveGame(c)
      PROVE  Orderly'
  <2>1. /\ UNCHANGED <<names, created, taskVars, claims, storeVars>>
        /\ \A d \in Conns : phase[d] # "unused" => phase'[d] # "unused"
    BY <1>2 DEF Close, LeaveGame, sessionVars, Shape, TypeOK
  <2>2. CASE lobby' = lobby /\ inGame' = inGame
    BY <2>1, <2>2, ComingsAreOrderly DEF gameVars
  <2>3. CASE inGame[c] # None /\ lobby[inGame[c]] # None /\ lobby' = Left(c)
    <3> DEFINE n == inGame[c]
    <3>1. n \in GameNames /\ lobby[n] # None
      BY <2>3, Typing
    <3>2. /\ \A m \in GameNames \ {n} : lobby'[m] = lobby[m]
          /\ lobby'[n] # None =>
               /\ lobby'[n].id = lobby[n].id /\ lobby'[n].handedOff = lobby[n].handedOff
               /\ lobby'[n].players \subseteq lobby[n].players
      BY <2>3, LeftType DEF Shape
    <3> HIDE DEF n
    <3> QED  BY <2>1, <3>1, <3>2, GamesAreOrderly
  <2> QED  BY <1>2, <2>2, <2>3 DEF Close, LeaveGame
<1>3. ASSUME NEW c \in Conns, NEW n \in GameNames, CreateGame(c, n)
      PROVE  Orderly'
  <2>1. /\ MayDraw(n) /\ creating' = (creating \ {}) \cup {Drawn(c, n)}
        /\ UNCHANGED <<serverUp, sessionVars, gameVars, handoffs, claims, storeVars>>
    BY <1>3 DEF CreateGame
  <2> QED  BY <2>1, DrawsAreOrderly
<1>4. ASSUME NEW t \in creating, NEW n \in GameNames, DrawAgain(t, n)
      PROVE  Orderly'
  <2>1. /\ MayDraw(n) /\ creating' = (creating \ {t}) \cup {Drawn(t.conn, n)}
        /\ UNCHANGED <<serverUp, sessionVars, gameVars, handoffs, claims, storeVars>>
    BY <1>4 DEF DrawAgain
  <2>2. t.conn \in Conns
    BY Typing
  <2> QED  BY <2>1, <2>2, DrawsAreOrderly
<1>5. ASSUME NEW c \in Conns, NEW n \in GameNames, JoinGame(c, n)
      PROVE  Orderly'
  <2> DEFINE g == [lobby[n] EXCEPT !.players = @ \cup {names[c]}]
  <2>1. /\ lobby[n] # None /\ ~lobby[n].handedOff /\ lobby' = [lobby EXCEPT ![n] = g]
        /\ UNCHANGED <<phase, names, taskVars, claims, storeVars>>
    BY <1>5 DEF JoinGame, sessionVars
  <2>2. g.id = lobby[n].id /\ g.handedOff = lobby[n].handedOff
    BY <2>1, Typing DEF Games
  <2> HIDE DEF g
  <2>3. lobby'[n] = g /\ \A m \in GameNames \ {n} : lobby'[m] = lobby[m]
    BY <2>1 DEF Shape, TypeOK
  <2> QED  BY <2>1, <2>2, <2>3, GamesAreOrderly
<1>6. CASE UNCHANGED vars
  BY <1>6, ComingsAreOrderly DEF vars, sessionVars
<1> QED  BY <1>1, <1>2, <1>3, <1>4, <1>5, <1>6, AskIsOrderly, SettleIsOrderly, ToggleIsOrderly,
            PublishIsOrderly, IssueIsOrderly, DeliverIsOrderly, LoadIsOrderly
         DEF Next, ConnectSome, HandleSome, Welcome, CarryOn, DrawSome, HandOffSome

LEMMA OrderlyAlways ==
  ASSUME Orderliness
  PROVE  Spec => [](Shape /\ Orderly)
<1>1. Init => Orderly
  BY DEF Init, Orderly, NamesDrawn, GamesHandedOff, ClaimsSent, NamesStayUnique
<1>2. Shape /\ Orderly /\ [Next]_vars => Orderly'
  BY OrderlyStep
<1> QED  BY <1>1, <1>2, ShapeAlways, PTL DEF Spec

(* As long as game names do not collide and nobody readies up again, a claim
   is good for a seat of whatever setup waits under its game's name, whoever
   leaves, drops or gathers anew while the handoff waits for answers, with
   stores in the process or across a network. *)
THEOREM ClaimsAreGood ==
  ASSUME Orderliness
  PROVE  Spec => []ClaimsHaveSeats
<1>1. Orderly => ClaimsHaveSeats
  BY DEF Orderly, ClaimsSent, ClaimsHaveSeats
<1> QED  BY <1>1, OrderlyAlways, PTL

(* Under the same assumption a name stands for one game: what the lobby still
   gathers players for neither waits in the store nor runs on a game server,
   although the three are asked one after the other. *)
THEOREM OneGamePerName ==
  ASSUME Orderliness
  PROVE  Spec => []NamesStayUnique
<1>1. Orderly => NamesStayUnique
  BY DEF Orderly
<1> QED  BY <1>1, OrderlyAlways, PTL

-----------------------------------------------------------------------------
(* Every seat has a claim *)

(* With stores in the process nothing happens to a game between its setup and
   its claims; what is through has been delivered in full. *)
InHand(h) ==
  /\ h.audience \subseteq HasEndpoint /\ h.holders \subseteq HasEndpoint
  /\ h.stage = "writing" => pending[h.game] \subseteq Roster(h)
  /\ h.stage = "sealing" => \A name \in pending[h.game] : \E c \in h.holders : names[c] = name

Delivered(n) ==
  pending[n] # None /\ (\A h \in handoffs : h.game # n) =>
    \A name \in pending[n] : \E cl \in claims : cl.game = n /\ cl.name = name

Complete ==
  /\ \A h \in handoffs : InHand(h)
  /\ \A n \in GameNames : Delivered(n)

(* All that is known of a lobby whose stores are in its process. *)
Known == Shape /\ Seats /\ Standing /\ Orderly

(* Steps that no handoff past its first answer has to fear. *)
LEMMA QuietSteps ==
  ASSUME Known, Complete, UNCHANGED <<handoffs, claims, pending>>,
         \A d \in HasEndpoint : d \in HasEndpoint' /\ names'[d] = names[d],
         \A h \in handoffs : h.stage = "writing" => lobby'[h.game] = lobby[h.game]
  PROVE  Complete'
<1>1. \A h \in handoffs : h.stage = "writing" => Roster(h)' = Roster(h)
  BY RosterStays
<1>2. \A h \in handoffs : InHand(h)'
  BY <1>1 DEF Complete, InHand
<1>3. \A n \in GameNames : Delivered(n)'
  BY DEF Complete, Delivered
<1> QED  BY <1>2, <1>3 DEF Complete

(* Whatever a client sends is handled while no handoff is past its first
   answer, and what is closed while there is none. *)
LEMMA Undisturbed ==
  ASSUME Services = "inProcess", Shape
  PROVE  /\ \A c \in Conns : MayHandle(c) => \A h \in handoffs : h.stage = "locating"
         /\ Quiet => handoffs = {}
<1>1. \A h \in handoffs : h.stage \in {"locating", "writing", "sealing"}
  BY Typing DEF Handoffs
<1> QED  BY <1>1 DEF MayHandle, Quiet

LEMMA ToggleCompletes ==
  ASSUME Services = "inProcess", Known, Complete, NEW c \in Conns, ToggleReady(c)
  PROVE  Complete'
<1> DEFINE n == inGame[c]
           g == Toggled(lobby[n], c)
           h == [conn |-> c, game |-> n, id |-> g.id, audience |-> Channel(n),
                 holders |-> {}, stage |-> "locating"]
<1>1. /\ UNCHANGED <<phase, names, claims, pending>>
      /\ handoffs' \in {handoffs, handoffs \cup {h}}
  BY DEF ToggleReady, sessionVars, storeVars
<1>2. h.audience = Channel(n) /\ h.holders = {} /\ h.stage = "locating"
  OBVIOUS
<1> HIDE DEF h
<1>3. Channel(n) \subseteq HasEndpoint /\ HasEndpoint' = HasEndpoint
  BY <1>1 DEF Channel, Registered, HasEndpoint
<1>4. \A k \in handoffs : k.stage = "locating"
  BY Undisturbed DEF Known, ToggleReady
<1>5. \A k \in handoffs' : InHand(k)'
  BY <1>1, <1>2, <1>3, <1>4 DEF Complete, InHand
<1>6. \A m \in GameNames : Delivered(m)'
  BY <1>1 DEF Complete, Delivered
<1> QED  BY <1>5, <1>6 DEF Complete

LEMMA PublishCompletes ==
  ASSUME Known, Complete, NEW t \in handoffs, Publish(t)
  PROVE  Complete'
<1> DEFINE w == [t EXCEPT !.stage = "writing"]
<1>1. /\ pending' = [pending EXCEPT ![t.game] = Roster(t)]
      /\ handoffs' = (handoffs \ {t}) \cup {w}
      /\ UNCHANGED <<phase, names, lobby, claims>>
  BY DEF Publish, sessionVars, gameVars
<1>2. /\ w.game = t.game /\ w.id = t.id /\ w.stage = "writing"
      /\ w.audience = t.audience /\ w.holders = t.holders
  BY Typing DEF Known, Handoffs
<1> HIDE DEF w
<1>3. /\ pending'[t.game] = Roster(t) /\ Roster(w) = Roster(t)
      /\ \A m \in GameNames \ {t.game} : pending'[m] = pending[m]
  BY <1>1, <1>2, Typing DEF Known, Shape, TypeOK, Roster
<1>4. \A k : Roster(k)' = Roster(k)
  BY <1>1, RosterStays
<1>5. HasEndpoint' = HasEndpoint
  BY <1>1 DEF HasEndpoint
<1>6. \A k \in handoffs \ {t} : k.game # t.game /\ k.game \in GameNames
  BY Typing DEF Known, Orderly, GamesHandedOff
<1>7. \A k \in handoffs' : InHand(k)'
  <2>1. InHand(w)'
    BY <1>1, <1>2, <1>3, <1>4, <1>5 DEF Complete, InHand
  <2>2. \A k \in handoffs \ {t} : InHand(k)'
    BY <1>1, <1>3, <1>4, <1>5, <1>6 DEF Complete, InHand
  <2> QED  BY <1>1, <2>1, <2>2
<1>8. \A m \in GameNames : Delivered(m)'
  <2>1. \A m \in GameNames \ {t.game} :
          (\A k \in handoffs' : k.game # m) => (\A k \in handoffs : k.game # m)
    BY <1>1
  <2>2. w \in handoffs'
    BY <1>1
  <2> QED  BY <1>1, <1>2, <1>3, <2>1, <2>2 DEF Complete, Delivered
<1> QED  BY <1>7, <1>8 DEF Complete

(* No lookup fails, and every name of the setup is found. *)
LEMMA IssueCompletes ==
  ASSUME Known, Complete, NEW t \in handoffs, Issue(t)
  PROVE  Complete'
<1>u. PICK u : u = [t EXCEPT !.stage = "sealing", !.holders = Holders(t)]
  OBVIOUS
<1>1. /\ t.stage = "writing" /\ serverUp
      /\ UNCHANGED <<phase, names, lobby, claims, pending>>
  BY DEF Issue, sessionVars, gameVars, storeVars
<1>2. \A name \in Roster(t) : \E d \in Holders(t) : names[d] = name
  <2>1. ASSUME NEW name \in Roster(t)
        PROVE  \E d \in Holders(t) : names[d] = name
    <3>1. lobby[t.game] # None /\ name \in lobby[t.game].players
      BY <2>1 DEF Roster
    <3>2. PICK d \in Conns : inGame[d] = t.game /\ names[d] = name
      BY <1>1, <3>1, Typing DEF Known, Seats, Agreed
    <3>3. d \in Registered
      BY <1>1, <3>2, Typing DEF Known, Seats, Agreed
    <3> QED  BY <2>1, <3>2, <3>3 DEF Holders, Channel
  <2> QED  BY <2>1
<1>3. handoffs' = (handoffs \ {t}) \cup {u}
  <2>1. \A name \in Roster(t) : Cardinality({d \in Channel(t.game) : names[d] = name}) = 1
    BY <1>1, SeatsAgree, Typing DEF Known, Roster, PlayersAreSessions
  <2> QED  BY <1>u, <2>1 DEF Issue
<1>4. /\ u.game = t.game /\ u.stage = "sealing" /\ u.holders = Holders(t)
      /\ u.audience = t.audience
  BY <1>u, Typing DEF Known, Handoffs
<1>5. Holders(t) \subseteq HasEndpoint /\ HasEndpoint' = HasEndpoint
  BY <1>1 DEF Holders, Channel, Registered, HasEndpoint
<1>6. \A k \in handoffs' : InHand(k)'
  <2>1. InHand(u)'
    BY <1>1, <1>2, <1>4, <1>5 DEF Complete, InHand
  <2>2. \A k : Roster(k)' = Roster(k)
    BY <1>1, RosterStays
  <2>3. \A k \in handoffs \ {t} : InHand(k)'
    BY <1>1, <1>5, <2>2 DEF Complete, InHand
  <2> QED  BY <1>3, <2>1, <2>3
<1>7. \A m \in GameNames : Delivered(m)'
  <2>1. u \in handoffs'
    BY <1>3
  <2> QED  BY <1>1, <1>3, <1>4, <2>1 DEF Complete, Delivered
<1> QED  BY <1>6, <1>7 DEF Complete

(* Nobody has gone, so everyone is reached. *)
LEMMA DeliverCompletes ==
  ASSUME Known, Complete, NEW t \in handoffs, Deliver(t)
  PROVE  Complete'
<1>1. /\ t.audience \subseteq HasEndpoint /\ t.holders \subseteq HasEndpoint
      /\ t.stage = "sealing"
      /\ \A name \in pending[t.game] : \E c \in t.holders : names[c] = name
  BY DEF Complete, InHand, Deliver
<1>2. claims' = claims \cup {[conn |-> c, name |-> names[c], game |-> t.game] : c \in t.holders}
  BY <1>1 DEF Deliver
<1>3. /\ handoffs' = handoffs \ {t}
      /\ UNCHANGED <<phase, names, lobby, pending>>
  BY DEF Deliver, sessionVars, gameVars, storeVars
<1>4. \A h \in handoffs' : InHand(h)'
  <2>1. \A h : Roster(h)' = Roster(h)
    BY <1>3, RosterStays
  <2> QED  BY <1>3, <2>1 DEF Complete, InHand, HasEndpoint
<1>5. \A n \in GameNames : Delivered(n)'
  <2>1. ASSUME NEW name \in pending[t.game]
        PROVE  \E cl \in claims' : cl.game = t.game /\ cl.name = name
    <3>1. PICK c \in t.holders : names[c] = name
      BY <1>1
    <3>2. [conn |-> c, name |-> names[c], game |-> t.game] \in claims'
      BY <1>2
    <3> QED  BY <3>1, <3>2
  <2>2. claims \subseteq claims'
    BY <1>2
  <2>3. \A n \in GameNames \ {t.game} :
          (\A h \in handoffs' : h.game # n) => (\A h \in handoffs : h.game # n)
    BY <1>3
  <2> QED  BY <1>3, <2>1, <2>2, <2>3 DEF Complete, Delivered
<1> QED  BY <1>4, <1>5 DEF Complete

LEMMA CompleteStep ==
  ASSUME Services = "inProcess", Orderliness, Known, Complete, [Next]_vars
  PROVE  Complete'
<1>1. ASSUME NEW c \in Conns,
             \/ \E name \in Usernames : Connect(c, name)
             \/ CloseUnheard(c) \/ Greet(c) \/ Redirect(c)
      PROVE  Complete'
  <2>1. /\ UNCHANGED <<gameVars, taskVars, claims, storeVars>>
        /\ \A d \in HasEndpoint : d \in HasEndpoint' /\ names'[d] = names[d]
    BY <1>1 DEF Connect, CloseUnheard, Greet, Redirect, HasEndpoint, Known, Shape, TypeOK
  <2> QED  BY <2>1, QuietSteps DEF gameVars, taskVars, storeVars
<1>2. ASSUME NEW c \in Conns, Close(c)
      PROVE  Complete'
  <2>1. handoffs = {} /\ UNCHANGED <<handoffs, claims, pending>>
    BY <1>2, Undisturbed DEF Known, Close, taskVars, storeVars
  <2> QED  BY <2>1 DEF Complete, Delivered
<1>3. ASSUME NEW c \in Conns,
             \/ \E n \in GameNames : CreateGame(c, n) \/ JoinGame(c, n)
             \/ LeaveGame(c)
      PROVE  Complete'
  <2>1. \A h \in handoffs : h.stage = "locating"
    BY <1>3, Undisturbed DEF Known, CreateGame, JoinGame, LeaveGame
  <2>2. UNCHANGED <<phase, names, handoffs, claims, pending>>
    BY <1>3 DEF CreateGame, JoinGame, LeaveGame, sessionVars, taskVars, storeVars
  <2> QED  BY <2>1, <2>2, QuietSteps DEF HasEndpoint
<1>4. ASSUME NEW t \in creating, \/ AskStatus(t) \/ Settle(t)
                                 \/ \E n \in GameNames : DrawAgain(t, n)
      PROVE  Complete'
  <2>1. UNCHANGED <<phase, names, handoffs, claims, pending>>
    BY <1>4 DEF AskStatus, Settle, DrawAgain, sessionVars, storeVars
  <2>2. ASSUME NEW h \in handoffs
        PROVE  lobby'[h.game] = lobby[h.game]
    <3>1. h.game \in GameNames /\ h.game # t.name
      BY Typing DEF Known, Orderly, NamesDrawn
    <3>2. lobby' = lobby \/ \E g : lobby' = [lobby EXCEPT ![t.name] = g]
      BY <1>4 DEF AskStatus, Settle, DrawAgain, gameVars
    <3> QED  BY <3>1, <3>2 DEF Known, Shape, TypeOK
  <2> QED  BY <2>1, <2>2, QuietSteps DEF HasEndpoint
<1>5. ASSUME NEW n \in GameNames, Load(n)
      PROVE  Complete'
  <2>1. /\ handoffs = {} /\ UNCHANGED <<handoffs, claims>>
        /\ pending' = [pending EXCEPT ![n] = None]
    BY <1>5, Undisturbed DEF Known, Load, taskVars
  <2>2. pending'[n] = None /\ \A m \in GameNames \ {n} : pending'[m] = pending[m]
    BY <2>1 DEF Known, Shape, TypeOK
  <2> QED  BY <2>1, <2>2 DEF Complete, Delivered
<1>6. CASE UNCHANGED vars
  BY <1>6, QuietSteps DEF vars, sessionVars, gameVars, taskVars, storeVars, HasEndpoint
<1> QED  BY <1>1, <1>2, <1>3, <1>4, <1>5, <1>6, ToggleCompletes, PublishCompletes,
            IssueCompletes, DeliverCompletes
         DEF Next, ConnectSome, HandleSome, Welcome, CarryOn, DrawSome, HandOffSome

(* With stores in the process, names that differ and nobody readying up again,
   a handoff that is through has told every player of the setup to come: the
   game server never waits for somebody who was not sent. *)
THEOREM SeatsAreClaimed ==
  ASSUME Services = "inProcess", "sameName" \notin Quirks, Orderliness
  PROVE  Spec => []SeatsHaveClaims
<1>1. Init => Standing /\ Complete
  BY DEF Init, Standing, Complete, Delivered
<1>2. Shape /\ Seats /\ Standing /\ [Next]_vars => Standing'
  BY StandingStep
<1>3. Shape /\ Seats /\ Standing /\ Orderly /\ Complete /\ [Next]_vars => Complete'
  BY CompleteStep DEF Known
<1>4. Complete => SeatsHaveClaims
  BY DEF Complete, Delivered, SeatsHaveClaims
<1> QED  BY <1>1, <1>2, <1>3, <1>4, SeatsAlways, OrderlyAlways, PTL DEF Spec

=============================================================================
