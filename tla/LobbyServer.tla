------------------------------ MODULE LobbyServer ------------------------------
(***************************************************************************)
(* The lobby: guests connect, gather in a game, ready up, and are handed    *)
(* off: the game's setup goes to the central store and each player gets a   *)
(* session claim for the game server.  The game server appears as the one   *)
(* step that takes a setup over, Load.                                      *)
(*                                                                          *)
(* A handler runs until its first await; what it does after each await is   *)
(* an action of its own, and a handler under way is a member of creating or *)
(* handoffs.  Quiet and MayHandle say what may run in between.              *)
(***************************************************************************)
EXTENDS Naturals, FiniteSets

CONSTANTS
  Conns,      \* connection ids; every connection is a new guest
  Usernames,  \* names the identity provider draws for guests
  GameNames,  \* names the lobby draws for games
  MaxGames,   \* bound: how many games are ever created
  Services,   \* "inProcess" or "remote", as in GameServer
  Quirks,     \* "pipelined":   a client sends before its last request is answered
              \* "sameName":    two guests may draw one name
              \* "readyAgain":  a player toggles readiness after the handoff
              \* "unluckyNames": all ten draws of a game name hit a taken one, or
              \*   one coincides with another's draw or with a handoff under way
  None

ASSUME MaxGamesAssumption == MaxGames \in Nat
ASSUME ServicesAssumption == Services \in {"inProcess", "remote"}
ASSUME QuirksAssumption   ==
  Quirks \subseteq {"pipelined", "sameName", "readyAgain", "unluckyNames"}
ASSUME NoneAssumption     == None \notin Conns \cup Usernames \cup GameNames

VARIABLES
  (* the lobby process *)
  serverUp,  \* FALSE once an exception went uncaught
  phase,     \* connection -> where its connectionHandler is
  deaf,      \* connections that closed before their close listener was attached
  names,     \* connection -> its session's username
  inGame,    \* connection -> its session's currentGameName
  lobby,     \* game name -> the game the registry holds by it
  created,   \* how many games have been created
  creating,  \* createGame handlers under way
  handoffs,  \* handoffs under way
  claims,    \* session claims sent to clients
  (* the central store *)
  pending,   \* game name -> seats of its pending setup
  active     \* game names with an active-game status record

sessionVars == <<phase, deaf, names>>
gameVars    == <<inGame, lobby, created>>
taskVars    == <<creating, handoffs>>
storeVars   == <<pending, active>>
vars == <<serverUp, sessionVars, gameVars, taskVars, claims, storeVars>>

-----------------------------------------------------------------------------
Games     == [id : 1 .. MaxGames, players : SUBSET Usernames,
              readied : SUBSET Usernames, handedOff : BOOLEAN]
Creations == [conn : Conns, name : GameNames, stage : {"setup", "status", "taken"}]
Handoffs  == [conn : Conns, game : GameNames, id : 1 .. MaxGames, audience : SUBSET Conns,
              holders : SUBSET Conns, stage : {"locating", "writing", "sealing"}]
Claims    == [conn : Conns, name : Usernames, game : GameNames]
Setups    == (SUBSET Usernames) \cup {None}
Phases    == {"unused", "looking", "present", "forwarded", "closed"}

ASSUME NoneIsNoGame == None \notin Games /\ \A S \in SUBSET Usernames : None # S

(* What userSessionRegistry and outgoingMessagesGateway hold *)
Registered  == {c \in Conns : phase[c] \in {"present", "forwarded"}}
HasEndpoint == {c \in Conns : phase[c] \in {"looking", "present", "forwarded"}}

(* the sessions subscribed to a game's channel *)
Channel(n) == {c \in Registered : inGame[c] = n}

(* A socket event is dispatched when the process is idle; with remote
   services the handlers that wait for an answer are not in the way. *)
Quiet ==
  /\ serverUp
  /\ Services = "inProcess" =>
       creating = {} /\ handoffs = {} /\ \A d \in Conns : phase[d] # "looking"

(* A message of c is dispatched: also right behind another of c that came in
   the same chunk, before that one's handler has gone past its first await. *)
MayHandle(c) ==
  /\ serverUp /\ phase[c] = "present" /\ c \notin deaf
  /\ \/ Quiet
     \/ /\ "pipelined" \in Quirks
        /\ \A d \in Conns : phase[d] # "looking"
        /\ \A t \in creating \cup handoffs :
             t.conn = c /\ t.stage \in {"setup", "taken", "locating"}

-----------------------------------------------------------------------------
(* The players of the game object a handoff holds: one that has left the
   registry has none. *)
Roster(t) ==
  IF lobby[t.game] # None /\ lobby[t.game].id = t.id THEN lobby[t.game].players ELSE {}

(* Slips in the operators below, each a bug that could have been written in
   their place; no action uses them. *)

ReadyByConn(g, c)  == [g EXCEPT !.readied = @ \cup {c}]               \* wrong key
SeatKept(c)        == lobby[inGame[c]]                               \* no removePlayer
StatusNotAsked(n)  == FALSE                                          \* status not asked
UnlistedAtOnce(c)  == [lobby EXCEPT ![inGame[c]] = None]             \* isEmpty not asked
ButTheToggler(t)   == {c \in Channel(t.game) \ {t.conn} : names[c] \in Roster(t)}

(* PlayerRegistry.removePlayer, by name *)
Unseated(c) == [lobby[inGame[c]] EXCEPT !.players = @ \ {names[c]}]

(* leaveGameHandler: the readiness of who leaves stays noted, and a game
   without players leaves the registry. *)
Left(c) == [lobby EXCEPT ![inGame[c]] = IF Unseated(c).players = {} THEN None ELSE Unseated(c)]

(* gameExistsByName's last question, to the store's active-game status *)
OnGameServer(n) == n \in active

(* getPlayerSessionsInGame looks a player's session up by name and game. *)
Holders(t) == {c \in Channel(t.game) : names[c] \in Roster(t)}

(* togglePlayerReadyToStartGameStatus and allPlayersAreReadyToStart *)
Toggled(g, c) == [g EXCEPT !.readied = (@ \ {names[c]}) \cup ({names[c]} \ @)]
AllReadied(g) == g.players \subseteq g.readied

-----------------------------------------------------------------------------
Init ==
  /\ serverUp = TRUE
  /\ phase = [c \in Conns |-> "unused"] /\ deaf = {}
  /\ names = [c \in Conns |-> None] /\ inGame = [c \in Conns |-> None]
  /\ lobby = [n \in GameNames |-> None] /\ created = 0
  /\ creating = {} /\ handoffs = {} /\ claims = {}
  /\ pending = [n \in GameNames |-> None] /\ active = {}

-----------------------------------------------------------------------------
(* Connections *)

(* createSession draws a name, the endpoint is registered, and the handler
   waits for the record store. *)
Connect(c, name) ==
  /\ Quiet /\ phase[c] = "unused"
  /\ "sameName" \in Quirks \/ \A d \in HasEndpoint : names[d] # name
  /\ phase' = [phase EXCEPT ![c] = "looking"]
  /\ names' = [names EXCEPT ![c] = name]
  /\ UNCHANGED <<serverUp, deaf, gameVars, taskVars, claims, storeVars>>

(* No record, or no such game: listeners are attached and the session is
   registered. *)
Greet(c) ==
  /\ serverUp /\ phase[c] = "looking"
  /\ phase' = [phase EXCEPT ![c] = "present"]
  /\ UNCHANGED <<serverUp, deaf, names, gameVars, taskVars, claims, storeVars>>

(* A record: the session is registered and told where to go; no listener is
   attached, so nobody hears it close. *)
Redirect(c) ==
  /\ serverUp /\ phase[c] = "looking"
  /\ phase' = [phase EXCEPT ![c] = "forwarded"]
  /\ UNCHANGED <<serverUp, deaf, names, gameVars, taskVars, claims, storeVars>>

CloseUnheard(c) ==
  /\ Quiet /\ phase[c] = "looking" /\ c \notin deaf
  /\ deaf' = deaf \cup {c}
  /\ UNCHANGED <<serverUp, phase, names, gameVars, taskVars, claims, storeVars>>

(* disconnectionHandler: leaving a game that is not there throws out of the
   close listener, before the session is unregistered. *)
Close(c) ==
  /\ Quiet /\ phase[c] = "present" /\ c \notin deaf
  /\ phase' = [phase EXCEPT ![c] = "closed"]
  /\ \/ /\ inGame[c] = None
        /\ UNCHANGED <<serverUp, inGame, lobby>>
     \/ /\ inGame[c] # None /\ lobby[inGame[c]] # None
        /\ lobby' = Left(c) /\ inGame' = [inGame EXCEPT ![c] = None]
        /\ UNCHANGED serverUp
     \/ /\ inGame[c] # None /\ lobby[inGame[c]] = None
        /\ serverUp' = FALSE
        /\ UNCHANGED <<inGame, lobby>>
  /\ UNCHANGED <<deaf, names, created, taskVars, claims, storeVars>>

-----------------------------------------------------------------------------
(* Gathering in a game *)

(* Drawing a name: if the lobby itself has a game by it, it is drawn over at
   once; that a setup is pending or a game server runs it is found when the
   answers are in. *)
Drawn(c, n) ==
  [conn |-> c, name |-> n, stage |-> IF pending[n] = None THEN "setup" ELSE "taken"]

MayDraw(n) ==
  /\ lobby[n] = None
  /\ "unluckyNames" \in Quirks
       \/ /\ \A t \in creating : t.name # n
          /\ \A t \in handoffs : t.game # n

(* createGameHandler up to its first await.  Bound: created. *)
CreateGame(c, n) ==
  /\ MayHandle(c) /\ inGame[c] = None /\ created + Cardinality(creating) < MaxGames
  /\ MayDraw(n)
  /\ creating' = creating \cup {Drawn(c, n)}
  /\ UNCHANGED <<serverUp, sessionVars, gameVars, handoffs, claims, storeVars>>

(* No setup is pending by that name; is a game server running one? *)
AskStatus(t) ==
  /\ serverUp /\ t \in creating /\ t.stage = "setup"
  /\ creating' = (creating \ {t}) \cup
       {[t EXCEPT !.stage = IF OnGameServer(t.name) THEN "taken" ELSE "status"]}
  /\ UNCHANGED <<serverUp, sessionVars, gameVars, handoffs, claims, storeVars>>

(* The name is taken and attempts are left. *)
DrawAgain(t, n) ==
  /\ serverUp /\ t \in creating /\ t.stage = "taken"
  /\ MayDraw(n)
  /\ creating' = (creating \ {t}) \cup {Drawn(t.conn, n)}
  /\ UNCHANGED <<serverUp, sessionVars, gameVars, handoffs, claims, storeVars>>

(* An error, or the answer, goes back to the client that sent the request; if
   it has gone, the reply throws and then the report of that throws. *)
Reply(c) == serverUp' = (c \in HasEndpoint)

(* The name is free, or the attempts are used up.  Only the lobby's own
   registry has a last say; then the game is registered and its creator joins
   it, unless the creator has joined one meanwhile. *)
Settle(t) ==
  /\ serverUp /\ t \in creating
  /\ t.stage = "status" \/ (t.stage = "taken" /\ "unluckyNames" \in Quirks)
  /\ creating' = creating \ {t}
  /\ \/ /\ lobby[t.name] # None
        /\ UNCHANGED gameVars
     \/ LET joins == inGame[t.conn] = None
        IN /\ lobby[t.name] = None
           /\ created' = created + 1
           /\ lobby' = [lobby EXCEPT ![t.name] =
                [id |-> created + 1, players |-> IF joins THEN {names[t.conn]} ELSE {},
                 readied |-> {}, handedOff |-> FALSE]]
           /\ inGame' = IF joins THEN [inGame EXCEPT ![t.conn] = t.name] ELSE inGame
  /\ Reply(t.conn)
  /\ UNCHANGED <<sessionVars, handoffs, claims, storeVars>>

JoinGame(c, n) ==
  /\ MayHandle(c) /\ lobby[n] # None /\ inGame[c] = None
  /\ ~lobby[n].handedOff
  /\ inGame' = [inGame EXCEPT ![c] = n]
  /\ lobby' = [lobby EXCEPT ![n].players = @ \cup {names[c]}]
  /\ UNCHANGED <<serverUp, sessionVars, created, taskVars, claims, storeVars>>

LeaveGame(c) ==
  /\ MayHandle(c) /\ inGame[c] # None /\ lobby[inGame[c]] # None
  /\ lobby' = Left(c)
  /\ inGame' = [inGame EXCEPT ![c] = None]
  /\ UNCHANGED <<serverUp, sessionVars, created, taskVars, claims, storeVars>>

-----------------------------------------------------------------------------
(* The handoff *)

(* toggleReadyToStartGameHandler: nothing looks at whether the game has been
   handed off.  The last one to ready up starts the handoff, which waits for
   a server's url; who will hear of the toggle is settled now. *)
ToggleReady(c) ==
  LET n == inGame[c]
      g == Toggled(lobby[n], c)
  IN /\ MayHandle(c) /\ n # None /\ lobby[n] # None /\ names[c] \in lobby[n].players
     /\ "readyAgain" \in Quirks \/ ~lobby[n].handedOff
     /\ IF AllReadied(g)
        THEN /\ lobby' = [lobby EXCEPT ![n] = [g EXCEPT !.handedOff = TRUE]]
             /\ handoffs' = handoffs \cup
                  {[conn |-> c, game |-> n, id |-> g.id, audience |-> Channel(n),
                    holders |-> {}, stage |-> "locating"]}
        ELSE /\ lobby' = [lobby EXCEPT ![n] = g]
             /\ UNCHANGED handoffs
     /\ UNCHANGED <<serverUp, sessionVars, inGame, created, creating, claims, storeVars>>

(* The url is there: a copy of the game as it is now goes to the store. *)
Publish(t) ==
  /\ serverUp /\ t \in handoffs /\ t.stage = "locating"
  /\ pending' = [pending EXCEPT ![t.game] = Roster(t)]
  /\ handoffs' = (handoffs \ {t}) \cup {[t EXCEPT !.stage = "writing"]}
  /\ UNCHANGED <<serverUp, sessionVars, gameVars, creating, claims, active>>

(* The setup is stored: each player's session is looked up, and its claim is
   sealed.  A player without exactly one session fails an invariant. *)
Issue(t) ==
  /\ serverUp /\ t \in handoffs /\ t.stage = "writing"
  /\ IF \A name \in Roster(t) :
          Cardinality({c \in Channel(t.game) : names[c] = name}) = 1
     THEN /\ handoffs' = (handoffs \ {t}) \cup
               {[t EXCEPT !.stage = "sealing", !.holders = Holders(t)]}
          /\ UNCHANGED serverUp
     ELSE /\ handoffs' = handoffs \ {t}
          /\ Reply(t.conn)
  /\ UNCHANGED <<sessionVars, gameVars, creating, claims, storeVars>>

(* The claims are sealed and everything is dispatched: the toggle first, then
   the claims one by one, until a recipient turns out to be gone. *)
Deliver(t) ==
  /\ serverUp /\ t \in handoffs /\ t.stage = "sealing"
  /\ \E served \in SUBSET (t.holders \cap HasEndpoint) :
       LET told == t.audience \subseteq HasEndpoint
           all  == told /\ t.holders \subseteq HasEndpoint
       IN /\ all => served = t.holders
          /\ ~told => served = {}
          /\ claims' = claims \cup
               {[conn |-> c, name |-> names[c], game |-> t.game] : c \in served}
          /\ serverUp' = (all \/ t.conn \in HasEndpoint)
  /\ handoffs' = handoffs \ {t}
  /\ UNCHANGED <<sessionVars, gameVars, creating, storeVars>>

(* A game server takes the setup over for the first who presents a claim. *)
Load(n) ==
  /\ Quiet /\ pending[n] # None /\ \E cl \in claims : cl.game = n
  /\ pending' = [pending EXCEPT ![n] = None]
  /\ active' = active \cup {n}
  /\ UNCHANGED <<serverUp, sessionVars, gameVars, taskVars, claims>>

-----------------------------------------------------------------------------
ConnectSome ==
  \E c \in Conns : \/ \E name \in Usernames : Connect(c, name)
                   \/ CloseUnheard(c)
                   \/ Close(c)

HandleSome ==
  \E c \in Conns : \/ \E n \in GameNames : CreateGame(c, n) \/ JoinGame(c, n)
                   \/ LeaveGame(c)
                   \/ ToggleReady(c)

(* the continuations of handlers *)
Welcome     == \E c \in Conns : Greet(c) \/ Redirect(c)
CarryOn     == \E t \in creating : AskStatus(t) \/ Settle(t)
DrawSome    == \E t \in creating, n \in GameNames : DrawAgain(t, n)
HandOffSome == \E t \in handoffs : Publish(t) \/ Issue(t) \/ Deliver(t)

Next ==
  \/ ConnectSome
  \/ HandleSome
  \/ Welcome
  \/ CarryOn
  \/ DrawSome
  \/ HandOffSome
  \/ \E n \in GameNames : Load(n)

(* Answers come, and handlers go on with them; no client has to do anything. *)
Fairness == WF_vars(Welcome) /\ WF_vars(CarryOn) /\ WF_vars(HandOffSome)

Spec == Init /\ [][Next]_vars
FairSpec == Spec /\ Fairness

-----------------------------------------------------------------------------
(* Properties *)

(* Every variable holds values of the kind its declaration allows. *)
TypeOK ==
  /\ serverUp \in BOOLEAN
  /\ phase \in [Conns -> Phases] /\ deaf \subseteq Conns
  /\ names \in [Conns -> Usernames \cup {None}]
  /\ inGame \in [Conns -> GameNames \cup {None}]
  /\ lobby \in [GameNames -> Games \cup {None}]
  /\ created \in 0 .. MaxGames
  /\ creating \subseteq Creations /\ handoffs \subseteq Handoffs /\ claims \subseteq Claims
  /\ pending \in [GameNames -> Setups]
  /\ active \subseteq GameNames

(* Players and sessions agree: every player of a lobby game is the name of
   exactly one registered session in that game, and every session in a game
   is a player of a registered one.  Leaving, disconnecting and handing off
   all look one up from the other and throw where it is missing. *)
PlayersAreSessions ==
  serverUp =>
    /\ \A n \in GameNames : lobby[n] # None =>
         \A name \in lobby[n].players :
           Cardinality({c \in Channel(n) : names[c] = name}) = 1
    /\ \A c \in Registered : inGame[c] # None =>
         lobby[inGame[c]] # None /\ names[c] \in lobby[inGame[c]].players

(* No event of a client brings the lobby down. *)
LobbyStaysUp == serverUp

(* A claim is good for a seat: as long as a setup waits in the store, whoever
   holds a claim for that game is one of its players.  game-handoff-manager.ts
   copies the game so that players who leave the lobby keep their seats. *)
ClaimsHaveSeats ==
  \A cl \in claims : pending[cl.game] # None => cl.name \in pending[cl.game]

(* A seat has a claim: once a handoff is through, everybody the game server
   will wait for has been told to come. *)
SeatsHaveClaims ==
  serverUp => \A n \in GameNames :
    pending[n] # None /\ (\A t \in handoffs : t.game # n) =>
      \A name \in pending[n] : \E cl \in claims : cl.game = n /\ cl.name = name

(* A name stands for one game: what the lobby still gathers players for is
   neither waiting in the store nor running on a game server. *)
NamesStayUnique ==
  \A n \in GameNames : lobby[n] # None /\ ~lobby[n].handedOff =>
    pending[n] = None /\ n \notin active

(* Whoever is in a game that is handed off gets a claim, unless they leave. *)
EveryoneIsInstructed ==
  \A c \in Conns, n \in GameNames :
    inGame[c] = n /\ lobby[n] # None /\ lobby[n].handedOff
      ~> inGame[c] # n \/ \E cl \in claims : cl.conn = c /\ cl.game = n
=============================================================================
