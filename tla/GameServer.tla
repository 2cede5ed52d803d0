------------------------------ MODULE GameServer ------------------------------
(***************************************************************************)
(* The game server: connections arriving with session claim tokens, the    *)
(* games they join, what a disconnect leaves behind (a forwarding record    *)
(* in the central store, an input lock on the game, a reconnection          *)
(* opportunity with a timer), and the two ways out of it (the player        *)
(* returns, or the timer removes them from the game).  The lobby appears    *)
(* as the two operations that feed this server: handing a game off and      *)
(* forwarding a returning client.                                           *)
(*                                                                          *)
(* A handler runs until its first await on a store; the steps after it are  *)
(* actions of their own.  MayDispatch says what may run in between.         *)
(***************************************************************************)
EXTENDS Naturals, Functions

CONSTANTS
  Users,        \* tagged user ids
  AuthUsers,    \* those resolved by an identity provider; the others are guests
  Usernames,    \* names shown to players; a seat in a game is a name
  GameNames,    \* names of games; a game keeps its own for good
  Conns,        \* connection ids, drawn in increasing order
  MaxForwards,  \* bound: how many returning clients the lobby forwards
  Services,     \* "inProcess": store calls settle before the next event
                \* "remote": other events may run while a store call is out
                \* "failing": remote, and the delete of a record may fail
  Quirks,       \* lobby inputs beyond the plain ones, see Handoff and Forward
  None          \* a missing value (null, undefined)

ASSUME ConnsAssumption    == Conns \subseteq Nat
ASSUME UsersAssumption    == AuthUsers \subseteq Users /\ Users \cap Conns = {}
ASSUME ForwardsAssumption == MaxForwards \in Nat
ASSUME ServicesAssumption == Services \in {"inProcess", "remote", "failing"}
ASSUME QuirksAssumption   == Quirks \subseteq {"sharedUsername", "staleToken"}
ASSUME NoneAssumption     == None \notin Users \cup Usernames \cup GameNames \cup Conns

VARIABLES
  (* the central stores *)
  pending,      \* game names with a pending setup
  activeGames,  \* game names with an active-game status record
  records,      \* reconnection key -> forwarding record
  (* what the lobby has issued *)
  seats,        \* game name -> the seats handed off: user -> username
  claims,       \* session claim tokens nobody has presented yet
  forwards,     \* how many clients the lobby has forwarded
  (* the game server process *)
  serverUp,     \* FALSE once an exception went uncaught
  sess,         \* connection -> its UserSession
  phase,        \* connection -> where its connectionHandler is
  deaf,         \* connections whose close event came before its listener
  registered,   \* connections in the UserSessionRegistry
  endpoints,    \* connections in the OutgoingMessageGateway
  registry,     \* game names in the GameRegistry
  game,         \* game name -> players, started, input lock
  opp,          \* connection -> the opportunity its disconnect created
  manager,      \* reconnection key -> connection whose opportunity it is
  claimOf       \* returning connection -> connection whose seat it claimed

storeVars  == <<pending, activeGames, records>>
lobbyVars  == <<seats, claims, forwards>>
connVars   == <<sess, phase, deaf, registered, endpoints>>
gameVars   == <<registry, game>>
returnVars == <<opp, manager, claimOf>>
vars == <<storeVars, lobbyVars, serverUp, connVars, gameVars, returnVars>>

-----------------------------------------------------------------------------
(* A guest's reconnection token is made for the connection it is issued to
   and carries its name; a signed-in user is found by their id. *)
Tokens == Conns
Keys   == Tokens \cup AuthUsers

Sessions == [user  : Users \cup {None}, name : Usernames \cup {None},
             token : Tokens \cup {None}, game : GameNames \cup {None}]
Claims   == [user  : Users, name : Usernames, token : Tokens \cup {None},
             game  : GameNames, nonce : GameNames \cup (1 .. MaxForwards)]
Records  == [user : Users, game : GameNames]
Games    == [players : SUBSET Usernames, started : BOOLEAN, lock : SUBSET Users]
Seatings == UNION {[S -> Usernames] : S \in SUBSET Users}
Phases   == {"unused", "loading", "claiming", "failing",
              "joined", "refused", "closed"}

ASSUME NoneIsNoRecord == None \notin Records

NoSession == [user |-> None, name |-> None, token |-> None, game |-> None]

KeyOf(s)      == IF s.user \in AuthUsers THEN s.user ELSE s.token
SessionOf(cl) == [user |-> cl.user, name |-> cl.name,
                  token |-> cl.token, game |-> cl.game]

-----------------------------------------------------------------------------
(* Slips in the operators below, each a bug that could have been written in
   their place.  No action uses them; PROJECT.json names which property fails
   when one is put in for the right one. *)

UnpausedForAll(s)   == [game[s.game] EXCEPT !.lock = {}]              \* lock counts nobody
ForgottenAll(n)     == [k \in Keys |-> None]                          \* whatever game
SomeConnected(gm, c, s) == s.name \in gm.players                      \* some for every
NobodyConnected(u)  == FALSE                                          \* check forgotten
NotWired(c)         == endpoints                                      \* no registerEndpoint
TimerKept(d)        == opp                                            \* claim() clears no timer
EntryKept(k)        == manager                                        \* no manager.remove
RecordKept(k)       == records                                        \* no record delete
LobbyName(c)        == sess[c]                                        \* old name not restored
NotPaused(s)        == game[s.game]                                   \* no inputLock.add
PausedByName(s)     == [game[s.game] EXCEPT !.lock = @ \cup {s.name}] \* wrong lock id
StillPaused(s)      == game[s.game]                                   \* no inputLock.remove

-----------------------------------------------------------------------------
(* What the components of the process compute *)

(* UserSessionRegistry.userIsAlreadyConnected *)
AlreadyConnected(u) == \E c \in registered : sess[c].user = u

(* OutgoingMessageGateway.registerEndpoint *)
Wired(c) == endpoints \cup {c}

(* ReconnectionOpportunity.claim: spent, and its timer cleared *)
Claimed(d) == [opp EXCEPT ![d] = "claimed"]

(* ReconnectionOpportunityManager.remove *)
Withdrawn(k) == [manager EXCEPT ![k] = None]

(* The record store: deleting by key, and all records of a game that ended *)
Forgotten(k)   == [records EXCEPT ![k] = None]
ForgottenIn(n) ==
  [k \in Keys |-> IF records[k] # None /\ records[k].game = n THEN None ELSE records[k]]

(* attemptReconnectionClaim's last step: the name the session had when it
   disconnected, and with it the seat *)
Renamed(c) == [sess[c] EXCEPT !.name = sess[claimOf[c]].name]

(* The input lock counts a user once, however often they are added. *)
Paused(s)   == [game[s.game] EXCEPT !.lock = @ \cup {s.user}]
Unpaused(s) == [game[s.game] EXCEPT !.lock = @ \ {s.user}]

(* A socket event or a timer is dispatched when the process is idle.  With
   stores in the process an await is resumed before the next event; with
   remote stores the handlers waiting for one are not in the way. *)
MayDispatch ==
  /\ serverUp
  /\ Services = "inProcess" =>
       \A c \in Conns : /\ phase[c] \notin {"loading", "claiming", "failing"}
                        /\ opp[c] # "expiring"

-----------------------------------------------------------------------------
Init ==
  /\ pending = {} /\ activeGames = {}
  /\ records = [k \in Keys |-> None]
  /\ seats = [n \in GameNames |-> [u \in {} |-> None]]
  /\ claims = {} /\ forwards = 0
  /\ serverUp = TRUE
  /\ sess = [c \in Conns |-> NoSession]
  /\ phase = [c \in Conns |-> "unused"]
  /\ deaf = {} /\ registered = {} /\ endpoints = {}
  /\ registry = {}
  /\ game = [n \in GameNames |-> [players |-> {}, started |-> FALSE, lock |-> {}]]
  /\ opp = [c \in Conns |-> "none"]
  /\ manager = [k \in Keys |-> None]
  /\ claimOf = [c \in Conns |-> None]

-----------------------------------------------------------------------------
(* The lobby's side *)

SeatedNames  == UNION {Range(seats[n]) : n \in GameNames}
SeatedUsers  == UNION {DOMAIN seats[n] : n \in GameNames}
BorneNames   == {cl.name : cl \in claims} \cup {sess[c].name : c \in Conns}
IssuedTokens == {c \in Conns : sess[c].token = c}

(* Neither the users nor the names of a seating have been in a game before. *)
IsNew(seating) ==
  /\ Range(seating) \cap (SeatedNames \cup BorneNames) = {}
  /\ DOMAIN seating \cap SeatedUsers = {}

(* The lobby hands a game off under a name no game has had: the setup goes
   to the store and each player gets a claim token.  Plainly every player
   is new; with "sharedUsername" names collide (they are drawn at random, and
   a lobby user may leave a handed-off game for another), with "staleToken"
   guests arrive with a cached token of an earlier game. *)
Handoff(n, seating) ==
  /\ MayDispatch
  /\ DOMAIN seats[n] = {} /\ DOMAIN seating # {} /\ IsInjective(seating)
  /\ "sharedUsername" \notin Quirks => IsNew(seating)
  /\ pending' = pending \cup {n}
  /\ seats' = [seats EXCEPT ![n] = seating]
  /\ \E tokenOf \in [DOMAIN seating -> IssuedTokens \cup {None}] :
       /\ \A u \in DOMAIN seating :
            tokenOf[u] # None => "staleToken" \in Quirks /\ u \notin AuthUsers
       /\ claims' = claims \cup
            {[user |-> u, name |-> seating[u], token |-> tokenOf[u],
              game |-> n, nonce |-> n] : u \in DOMAIN seating}
  /\ UNCHANGED <<activeGames, records, forwards, serverUp, connVars, gameVars, returnVars>>

(* A client comes back to the lobby with key k.  The lobby finds the record
   and the game's status and issues a claim for the recorded user.  A guest's
   lobby session is new and so is its name. *)
Forward(k, name) ==
  /\ MayDispatch
  /\ forwards < MaxForwards
  /\ records[k] # None /\ records[k].game \in activeGames
  /\ IF k \in AuthUsers THEN name = seats[records[k].game][k]
     ELSE "sharedUsername" \in Quirks \/ name \notin SeatedNames
  /\ forwards' = forwards + 1
  /\ claims' = claims \cup
       {[user |-> records[k].user, name |-> name,
         token |-> IF k \in AuthUsers THEN None ELSE k,
         game |-> records[k].game, nonce |-> forwards + 1]}
  /\ UNCHANGED <<storeVars, seats, serverUp, connVars, gameVars, returnVars>>

-----------------------------------------------------------------------------
(* Arrivals: connectionHandler up to the seat *)

(* createSession accepts the claim: its nonce is used up, the user has no
   other session here, and the connection's endpoint is known. *)
Arrive(c, cl) ==
  /\ MayDispatch
  /\ cl \in claims /\ ~AlreadyConnected(cl.user)
  /\ phase[c] = "unused" /\ \A d \in Conns : d < c => phase[d] # "unused"
  /\ claims' = claims \ {cl}
  /\ endpoints' = Wired(c)
  /\ UNCHANGED <<seats, forwards, deaf>>

(* createSession burns the nonce before it finds the user connected. *)
RejectClaim(cl) ==
  /\ MayDispatch
  /\ cl \in claims /\ AlreadyConnected(cl.user)
  /\ claims' = claims \ {cl}
  /\ UNCHANGED <<storeVars, seats, forwards, serverUp, connVars, gameVars, returnVars>>

(* Whether every player of gm has some session here, c now being s.  The
   sessions are looked up by name, whatever game they are in. *)
AllConnected(gm, c, s) ==
  \A name \in gm.players : name = s.name \/ \E d \in registered \ {c} : sess[d].name = name

(* activateSession, joinGameHandler, issueReconnectionCredential and the
   dispatch: the session is registered before its seat is looked up, so a
   refused one stays registered until its socket has closed. *)
TakeSeat(c, s, gm) ==
  LET seated == s.name \in gm.players
      issued == IF s.user \in AuthUsers THEN s ELSE [s EXCEPT !.token = c]
  IN /\ registered' = registered \cup {c}
     /\ sess'  = [sess  EXCEPT ![c] = IF seated THEN issued ELSE s]
     /\ phase' = [phase EXCEPT ![c] = IF seated THEN "joined" ELSE "refused"]
     /\ game'  = [game  EXCEPT ![s.game] =
          IF seated
          THEN [gm EXCEPT !.started = gm.started \/ AllConnected(gm, c, s),
                          !.lock    = @ \ {s.user}]
          ELSE gm]

(* First arrival: the setup is in the store and the handler waits for it. *)
AwaitSetup(c, cl) ==
  /\ Arrive(c, cl)
  /\ cl.game \notin registry /\ cl.game \in pending
  /\ sess'  = [sess  EXCEPT ![c] = SessionOf(cl)]
  /\ phase' = [phase EXCEPT ![c] = "loading"]
  /\ UNCHANGED <<storeVars, serverUp, registered, gameVars, returnVars>>

(* No game and no setup: the handler throws before any listener is attached,
   and nothing removes the endpoint. *)
FindNoGame(c, cl) ==
  /\ Arrive(c, cl)
  /\ cl.game \notin registry /\ cl.game \notin pending
  /\ sess'  = [sess  EXCEPT ![c] = SessionOf(cl)]
  /\ phase' = [phase EXCEPT ![c] = "closed"]
  /\ UNCHANGED <<storeVars, serverUp, registered, gameVars, returnVars>>

(* The setup has come: the game is registered, its setup deleted, its
   status published; the arriving player is the first to join it. *)
LoadGame(c) ==
  LET s == sess[c]
      n == s.game
  IN /\ serverUp /\ phase[c] = "loading" /\ n \notin registry
     /\ registry' = registry \cup {n}
     /\ pending' = pending \ {n}
     /\ activeGames' = activeGames \cup {n}
     /\ TakeSeat(c, s, [players |-> Range(seats[n]), started |-> FALSE, lock |-> {}])
     /\ UNCHANGED <<records, lobbyVars, serverUp, deaf, endpoints, returnVars>>

(* Another arrival registered the game meanwhile: registerGame throws. *)
LoseLoadRace(c) ==
  /\ serverUp /\ phase[c] = "loading" /\ sess[c].game \in registry
  /\ phase' = [phase EXCEPT ![c] = "closed"]
  /\ UNCHANGED <<storeVars, lobbyVars, serverUp, sess, deaf, registered, endpoints,
                 gameVars, returnVars>>

(* The game is there and has not started: an initial connection, also for
   a player who disconnected before the start. *)
JoinBeforeStart(c, cl) ==
  /\ Arrive(c, cl)
  /\ cl.game \in registry /\ ~game[cl.game].started
  /\ TakeSeat(c, SessionOf(cl), game[cl.game])
  /\ UNCHANGED <<storeVars, serverUp, registry, returnVars>>

(* claim() on the opportunity the manager holds for k would succeed. *)
Claimable(k) == k # None /\ manager[k] # None /\ opp[manager[k]] = "active"

(* The game has started: only a live opportunity lets the user in.  It is
   claimed, its timer cleared, manager and record forget it, and the
   handler waits for the record store, which may fail and keep the record. *)
ClaimOpportunity(c, cl) ==
  LET k == KeyOf(SessionOf(cl))
      d == manager[k]
  IN /\ Arrive(c, cl)
     /\ cl.game \in registry /\ game[cl.game].started
     /\ Claimable(k)
     /\ opp'     = Claimed(d)
     /\ manager' = Withdrawn(k)
     /\ claimOf' = [claimOf EXCEPT ![c] = d]
     /\ sess'    = [sess    EXCEPT ![c] = SessionOf(cl)]
     /\ \/ /\ records' = Forgotten(k)
           /\ phase'   = [phase EXCEPT ![c] = "claiming"]
        \/ /\ Services = "failing"
           /\ phase'   = [phase EXCEPT ![c] = "failing"]
           /\ UNCHANGED records
     /\ UNCHANGED <<pending, activeGames, serverUp, registered, gameVars>>

(* Without one the handler throws and closes the socket.  Its listeners are
   already attached and the session is not registered. *)
RefuseReconnection(c, cl) ==
  /\ Arrive(c, cl)
  /\ cl.game \in registry /\ game[cl.game].started
  /\ ~Claimable(KeyOf(SessionOf(cl)))
  /\ sess'  = [sess  EXCEPT ![c] = SessionOf(cl)]
  /\ phase' = [phase EXCEPT ![c] = "refused"]
  /\ UNCHANGED <<storeVars, serverUp, registered, gameVars, returnVars>>

(* The record is deleted: the session takes the name it had when it
   disconnected, and with it the seat. *)
FinishClaim(c) ==
  /\ serverUp /\ phase[c] = "claiming"
  /\ TakeSeat(c, Renamed(c), game[sess[c].game])
  /\ UNCHANGED <<storeVars, lobbyVars, serverUp, deaf, endpoints, registry, returnVars>>

(* The record could not be deleted: the handler throws and closes the socket,
   with the opportunity spent and the session not registered. *)
ClaimFails(c) ==
  /\ serverUp /\ phase[c] = "failing"
  /\ phase' = [phase EXCEPT ![c] = "refused"]
  /\ UNCHANGED <<storeVars, lobbyVars, serverUp, sess, deaf, registered, endpoints,
                 gameVars, returnVars>>

-----------------------------------------------------------------------------
(* Departures *)

Listening(c) ==
  phase[c] \in {"claiming", "failing", "joined", "refused"} /\ c \notin deaf

(* disconnectionHandler: the record is written, the game's input locked and
   an opportunity opened before the session is unregistered; unregistering one
   that never was throws out of the close listener. *)
Disconnect(c) ==
  LET s == sess[c]
      k == KeyOf(s)
  IN /\ MayDispatch /\ Listening(c)
     /\ s.game \in registry /\ k # None
     /\ records' = [records EXCEPT ![k] = [user |-> s.user, game |-> s.game]]
     /\ game'    = [game EXCEPT ![s.game] = Paused(s)]
     /\ opp'     = [opp EXCEPT ![c] = "active"]
     /\ manager' = [manager EXCEPT ![k] = c]
     /\ phase'   = [phase EXCEPT ![c] = "closed"]
     /\ registered' = registered \ {c}
     /\ endpoints' = IF c \in registered THEN endpoints \ {c} ELSE endpoints
     /\ serverUp' = (c \in registered)
     /\ UNCHANGED <<pending, activeGames, lobbyVars, sess, deaf, registry, claimOf>>

(* The game is gone, or a guest never got a token: the handler throws at once. *)
DisconnectThrows(c) ==
  /\ MayDispatch /\ Listening(c)
  /\ sess[c].game \notin registry \/ KeyOf(sess[c]) = None
  /\ phase' = [phase EXCEPT ![c] = "closed"]
  /\ serverUp' = FALSE
  /\ UNCHANGED <<storeVars, lobbyVars, sess, deaf, registered, endpoints, gameVars, returnVars>>

(* The socket closes while the handler waits for the setup, before the close
   listener is attached: nobody hears of it. *)
CloseUnheard(c) ==
  /\ MayDispatch /\ phase[c] = "loading" /\ c \notin deaf
  /\ deaf' = deaf \cup {c}
  /\ UNCHANGED <<storeVars, lobbyVars, serverUp, sess, phase, registered, endpoints,
                 gameVars, returnVars>>

(* The reconnection timer fires.  Manager and record are dropped by key,
   whichever opportunity they now stand for; a record that cannot be deleted
   is logged and stays.  Bound: a setup is loaded well
   within the two minutes of a timer. *)
Expire(c) ==
  LET k == KeyOf(sess[c])
  IN /\ MayDispatch /\ opp[c] = "active"
     /\ \A d \in Conns : phase[d] = "loading" => sess[d].game # sess[c].game
     /\ opp'     = [opp EXCEPT ![c] = "expiring"]
     /\ manager' = Withdrawn(k)
     /\ records' = Forgotten(k) \/ (Services = "failing" /\ UNCHANGED records)
     /\ UNCHANGED <<pending, activeGames, lobbyVars, serverUp, connVars, gameVars, claimOf>>

(* The record is deleted: the lock is released and the player leaves the
   game; with the last player the game ends and its records go. *)
FinishTimeout(c) ==
  LET s     == sess[c]
      n     == s.game
      after == [Unpaused(s) EXCEPT !.players = @ \ {s.name}]
  IN /\ serverUp /\ opp[c] = "expiring"
     /\ n \in registry /\ s.name \in game[n].players
     /\ opp'  = [opp EXCEPT ![c] = "expired"]
     /\ game' = [game EXCEPT ![n] = after]
     /\ IF after.players # {} THEN UNCHANGED <<registry, records>>
        ELSE /\ registry' = registry \ {n}
             /\ records' = ForgottenIn(n)
     /\ UNCHANGED <<pending, activeGames, lobbyVars, serverUp, connVars, manager, claimOf>>

(* The game is gone or the name has no seat in it: leaveGameHandler rejects
   with nobody to catch it, after the lock was released. *)
TimeoutThrows(c) ==
  /\ serverUp /\ opp[c] = "expiring"
  /\ \/ sess[c].game \notin registry
     \/ sess[c].name \notin game[sess[c].game].players
  /\ opp'  = [opp EXCEPT ![c] = "expired"]
  /\ game' = [game EXCEPT ![sess[c].game] = Unpaused(sess[c])]
  /\ serverUp' = FALSE
  /\ UNCHANGED <<storeVars, lobbyVars, connVars, registry, manager, claimOf>>

-----------------------------------------------------------------------------
HandoffSome ==
  \E n \in GameNames, S \in SUBSET Users : \E seating \in [S -> Usernames] : Handoff(n, seating)

ForwardSome == \E k \in Keys, name \in Usernames : Forward(k, name)

ArriveSome ==
  \E cl \in claims :
    \/ RejectClaim(cl)
    \/ \E c \in Conns : \/ AwaitSetup(c, cl)
                        \/ FindNoGame(c, cl)
                        \/ JoinBeforeStart(c, cl)
                        \/ ClaimOpportunity(c, cl)
                        \/ RefuseReconnection(c, cl)

(* the continuations of handlers, and timers: what the server does unasked *)
Continue(c) == LoadGame(c) \/ LoseLoadRace(c) \/ FinishClaim(c) \/ ClaimFails(c)
TimeOut(c)  == Expire(c) \/ FinishTimeout(c) \/ TimeoutThrows(c)

DepartSome == \E c \in Conns : Disconnect(c) \/ DisconnectThrows(c) \/ CloseUnheard(c)

Next ==
  \/ HandoffSome
  \/ ForwardSome
  \/ ArriveSome
  \/ DepartSome
  \/ \E c \in Conns : Continue(c) \/ TimeOut(c)

(* Awaited promises settle, timers fire, and a socket the server closes emits
   "close"; nobody is obliged to come, to come back, or to leave. *)
TurnAway(c) == phase[c] = "refused" /\ (Disconnect(c) \/ DisconnectThrows(c))

Fairness ==
  \A c \in Conns : WF_vars(Continue(c)) /\ WF_vars(TimeOut(c)) /\ WF_vars(TurnAway(c))

Spec == Init /\ [][Next]_vars
FairSpec == Spec /\ Fairness

-----------------------------------------------------------------------------
(* Properties *)

(* Every variable holds values of the kind its TypeScript declaration and
   the handlers allow. *)
TypeOK ==
  /\ pending \subseteq GameNames /\ activeGames \subseteq GameNames
  /\ records \in [Keys -> Records \cup {None}]
  /\ seats \in [GameNames -> Seatings]
  /\ claims \subseteq Claims
  /\ forwards \in 0 .. MaxForwards
  /\ serverUp \in BOOLEAN
  /\ sess \in [Conns -> Sessions]
  /\ phase \in [Conns -> Phases]
  /\ deaf \subseteq Conns /\ registered \subseteq Conns /\ endpoints \subseteq Conns
  /\ registry \subseteq GameNames
  /\ game \in [GameNames -> Games]
  /\ opp \in [Conns -> {"none", "active", "claimed", "expiring", "expired"}]
  /\ manager \in [Keys -> Conns \cup {None}]
  /\ claimOf \in [Conns -> Conns \cup {None}]

(* A record in the central store promises an opportunity on this server, for
   the same user and the same game: whoever the lobby forwards finds one,
   unless it ends while they are on their way.  The two are written, claimed
   and dropped in different objects by three handlers. *)
RecordHasOpportunity ==
  \A k \in Keys : records[k] # None =>
    /\ manager[k] # None
    /\ sess[manager[k]].user = records[k].user
    /\ sess[manager[k]].game = records[k].game

(* The manager only holds opportunities that can still be claimed, under the
   key of the session that left them: claim() never meets a spent one. *)
ManagerHoldsActive ==
  \A k \in Keys : manager[k] # None =>
    opp[manager[k]] = "active" /\ KeyOf(sess[manager[k]]) = k

(* No two registered sessions belong to one user: "Only one connection per
   user is permitted on a single game server". *)
OneConnectionPerUser ==
  \A c, d \in registered : sess[c].user = sess[d].user => c = d

(* Whatever a channel fan-out or a reply addresses has an endpoint, so that a
   dispatch never throws: a throw would close the sender's connection or
   reject the timeout handler. *)
RegisteredHasEndpoint == registered \subseteq endpoints

(* A user's record is gone from the store while they sit in a game: the lobby
   never forwards somebody who is playing. *)
RecordMeansAway ==
  serverUp => \A k \in Keys, c \in registered :
    records[k] # None /\ phase[c] = "joined" => records[k].user # sess[c].user

(* The outcome of gameActionHandler: a PlayerTookAction, not an error. *)
AcceptsInput(c) ==
  /\ serverUp /\ c \in registered
  /\ sess[c].game \in registry
  /\ game[sess[c].game].started /\ game[sess[c].game].lock = {}

(* Session d sits in the seat u has in game n. *)
SitsIn(d, u, n) == /\ phase[d] = "joined" /\ sess[d].user = u
                   /\ sess[d].game = n /\ sess[d].name = seats[n][u]

(* The server has a session in the seat.  It is there for good, and nobody
   is connected, if its socket closed before anyone listened to it. *)
HasSession(u, n) == \E d \in registered : SitsIn(d, u, n)

(* The user is connected, in their own name. *)
InSeat(u, n) == \E d \in registered \ deaf : SitsIn(d, u, n)

(* Where nothing runs while a setup is loaded, input is accepted only while
   the owner of every seat still in the game is connected to it, in their own
   name: not before all have come, and not while one of them may return. *)
NoInputWhileSomeoneIsMissing ==
  \A c \in Conns : AcceptsInput(c) =>
    LET n == sess[c].game
    IN \A u \in DOMAIN seats[n] : seats[n][u] \in game[n].players => InSeat(u, n)

(* With remote stores the same holds but for one player of a game:
   whoever hung up while they loaded its setup (connectionHandler attaches the
   close listener after that) passes for connected, and input is open without
   them.  Nobody else is passed over, before the start or after a drop. *)
OnlyTheUnheardIsMissed ==
  \A c \in Conns : AcceptsInput(c) =>
    LET n       == sess[c].game
        seated  == {u \in DOMAIN seats[n] : seats[n][u] \in game[n].players}
        missing == {u \in seated : ~InSeat(u, n)}
    IN /\ \A u \in missing : HasSession(u, n)
       /\ \A u, v \in missing : u = v

(* A lock held for a user is held by a disconnect whose timer runs or whose
   owner is just coming back, or being turned away, which starts a timer
   again: no game stays paused by accident. *)
PausedGameHasWayOut ==
  serverUp => \A n \in registry : \A u \in game[n].lock :
    \E c \in Conns : /\ sess[c].user = u /\ sess[c].game = n
                     /\ \/ opp[c] \in {"active", "expiring"}
                        \/ phase[c] \in {"claiming", "failing", "refused"}

(* Where user u stands in game n, in the words of SeatPromise: whoever has left
   the roster of a loaded game is given up, a seat is taken while the server
   has a session in it, and vacant while an opportunity in its name runs or its
   owner is at the door. *)
Awaited(u, n) ==
  \E c \in Conns : /\ sess[c].user = u /\ sess[c].game = n
                   /\ \/ opp[c] \in {"active", "expiring"} /\ sess[c].name = seats[n][u]
                      \/ phase[c] \in {"claiming", "failing"}
                      \/ phase[c] = "refused" /\ c \notin registered

SeatStage(u, n) ==
  CASE u \notin DOMAIN seats[n]                              -> "none"
    [] u \in DOMAIN seats[n] /\ ~serverUp                    -> "lost"
    [] /\ u \in DOMAIN seats[n] /\ serverUp /\ n \notin pending
       /\ seats[n][u] \notin game[n].players                 -> "given up"
    [] OTHER -> IF HasSession(u, n) THEN "taken"
                ELSE IF Awaited(u, n) THEN "vacant" ELSE "expected"

Kept == INSTANCE SeatPromise WITH
  seat <- [n \in GameNames |-> [u \in Users |-> SeatStage(u, n)]],
  open <- {n \in GameNames : \E c \in Conns : sess[c].game = n /\ AcceptsInput(c)}

(* Under all its records, locks, timers and names the game server keeps the
   promise of SeatPromise: seats go from hand to hand only as it allows, and
   input is open only while nobody is waited for. *)
SeatsAreKept == Kept!Spec

(* The same, and a vacant seat is taken again or given up in the end. *)
SeatsAreSettled == Kept!LiveSpec

(* Claiming the opportunity a seated player left ends in that seat: the user
   is the same player of the same game again, in spite of the name the lobby
   gave and of what happened while the record was being deleted. *)
InTheirName(c) == sess[c].name = seats[sess[c].game][sess[c].user]

ClaimReseats ==
  [][\A c \in Conns :
       FinishClaim(c) /\ InTheirName(claimOf[c]) =>
         /\ phase'[c] = "joined" /\ InTheirName(c)'
         /\ sess'[c].user = sess[claimOf[c]].user
         /\ sess'[c].game = sess[claimOf[c]].game]_vars

(* The timer of a user who came back in time removes nobody: a player who
   leaves a game's roster is not connected to it. *)
TimeoutNeverKicksConnected ==
  [][\A n \in GameNames : \A name \in game[n].players \ game'[n].players :
       ~\E c \in registered : /\ phase[c] = "joined"
                              /\ sess[c].game = n /\ sess[c].name = name]_vars

(* A paused game does not stay paused: the lock a disconnect took is
   released, by the return or by the timer, or the game ends with it. *)
PausedGameResumes ==
  \A n \in GameNames, u \in Users :
    n \in registry /\ u \in game[n].lock
      ~> n \notin registry \/ u \notin game[n].lock \/ ~serverUp

(* active-game-status.ts: the record is to tell the lobby that a game by this
   name exists on a game server. *)
ActiveStatusMeansGame ==
  serverUp => \A n \in activeGames : n \in registry

(* Whatever opportunity c came for has timed out: none of its key and game is
   left to claim, and none was claimed by another connection. *)
CameTooLate(c) ==
  LET k    == KeyOf(sess[c])
      left == {d \in Conns : opp[d] # "none" /\ KeyOf(sess[d]) = k /\ sess[d].game = sess[c].game}
  IN k # None /\ left # {} /\ \A d \in left : opp[d] = "expired"

(* lobby-server/reconnection-protocol.ts and notes.ts: a client who comes after
   its opportunity has timed out is not accepted, and "this is intended": when
   the socket of a client so refused closes, no game is paused and the server
   stays up for everybody else. *)
RefusalIsHarmless ==
  [][\A c \in Conns :
       phase[c] = "refused" /\ c \notin registered /\ CameTooLate(c) /\ phase'[c] = "closed" =>
         serverUp' /\ game' = game]_vars

(* notes.ts: the game server checks for a valid opportunity and puts the user
   in the game they disconnected from. *)
OpportunityIsHonoured ==
  [][\A cl \in claims : cl \notin claims' /\ Claimable(KeyOf(SessionOf(cl))) =>
       \A c \in Conns : phase[c] = "unused" => phase'[c] # "refused"]_vars

(* notes.ts: an expiration "unpauses game for players that are still
   connected": with nobody left to wait for, they can play. *)
ConnectedPlayersCanPlay ==
  serverUp => \A n \in registry :
    (\A u \in DOMAIN seats[n] : seats[n][u] \in game[n].players => InSeat(u, n))
      => game[n].started /\ game[n].lock = {}
=============================================================================
