------------------------------- MODULE System -------------------------------
(***************************************************************************)
(* The lobby and the game server together, over the same stores and in one  *)
(* process, as the repository runs them.  Every step is a step of           *)
(* LobbyServer, of GameServer, or of both at once: the handoff delivers the  *)
(* claims the game server will be shown, the first of them loads the setup   *)
(* the lobby wrote, and a client that comes back with its cached token is    *)
(* looked up in the records the game server keeps.                          *)
(***************************************************************************)
EXTENDS Naturals, FiniteSets, Functions

CONSTANTS
  LobbyConns,  \* connections to the lobby; each is a guest, so these are the users
  GameConns,   \* connections to the game server
  Usernames,   \* names drawn for guests
  GameNames,
  MaxGames,    \* bound: how many games the lobby creates
  MaxOpened,   \* bound: how many connections and games the lobby sees in all
  None

ASSUME MaxGamesAssumption == MaxGames \in Nat /\ MaxOpened \in Nat
ASSUME ConnsAssumption    ==
  IsFiniteSet(LobbyConns) /\ GameConns \subseteq Nat /\ LobbyConns \cap GameConns = {}
ASSUME NoneAssumption     == None \notin LobbyConns \cup GameConns \cup Usernames \cup GameNames
ASSUME NoncesAssumption   == GameNames \cap Nat = {}

VARIABLES
  serverUp,
  (* the lobby: LobbyServer's phase, deaf and claims go by other names here *)
  lobbyPhase, lobbyDeaf, names, inGame, lobby, created, creating, handoffs, told,
  cached,    \* lobby connection -> the reconnection token it came with
  (* the stores *)
  pending, active, records,
  (* what the lobby has issued, as GameServer sees it *)
  seats, claims, forwards,
  (* the game server *)
  sess, phase, deaf, registered, endpoints, registry, game, opp, manager, claimOf

lobbyVars == <<lobbyPhase, lobbyDeaf, names, inGame, lobby, created, creating, handoffs, told>>
issueVars == <<seats, claims, forwards>>
gameVars  == <<sess, phase, deaf, registered, endpoints, registry, game, opp, manager, claimOf>>
vars == <<serverUp, lobbyVars, cached, pending, active, records, issueVars, gameVars>>

L == INSTANCE LobbyServer WITH
  Conns <- LobbyConns, Services <- "inProcess", Quirks <- {},
  phase <- lobbyPhase, deaf <- lobbyDeaf, claims <- told

ASSUME NoneIsNoGame == None \notin L!Games /\ \A S \in SUBSET Usernames : None # S

(* The game server cannot load a setup before somebody has a claim for it: for
   GameServer it becomes pending when the claims are delivered. *)
G == INSTANCE GameServer WITH
  Users <- LobbyConns, AuthUsers <- {}, Conns <- GameConns,
  MaxForwards <- Cardinality(LobbyConns),
  Services <- "inProcess", Quirks <- {"sharedUsername", "staleToken"},
  pending <- {n \in GameNames : pending[n] # None /\ DOMAIN seats[n] # {}},
  activeGames <- active

ASSUME NoneIsNoRecord == None \notin G!Records

-----------------------------------------------------------------------------
Init ==
  /\ L!Init
  /\ cached = [c \in LobbyConns |-> None]
  /\ seats = [n \in GameNames |-> [u \in {} |-> None]]
  /\ G!Init

(* An event is dispatched when neither server has a handler under way. *)
Idle == L!Quiet /\ G!MayDispatch

(* Connections and games the lobby has seen so far.  Bound: Opened. *)
Opened ==
  Cardinality({c \in LobbyConns : lobbyPhase[c] # "unused"}) + created + Cardinality(creating)

(* A client connects, with a token it was given or none; createSession draws
   it a name that no client connected to the lobby has. *)
Connect(c, token, name) ==
  /\ Idle /\ Opened < MaxOpened
  /\ L!Connect(c, name)
  /\ cached' = [cached EXCEPT ![c] = token]
  /\ UNCHANGED <<records, issueVars, gameVars>>

(* evaluateConnectionContext: there is a record under the client's token, and
   its game has an active status. *)
Known(c) ==
  /\ cached[c] # None
  /\ records[cached[c]] # None
  /\ records[cached[c]].game \in active

Greet(c) ==
  /\ ~Known(c)
  /\ L!Greet(c)
  /\ UNCHANGED <<cached, records, issueVars, gameVars>>

(* issueReconnectionCredential: the claim is for the recorded user and game,
   under the name just drawn and with the token the record was found by. *)
Redirect(c) ==
  /\ Known(c)
  /\ L!Redirect(c)
  /\ forwards' = forwards + 1
  /\ claims' = claims \cup
       {[user |-> records[cached[c]].user, name |-> names[c], token |-> cached[c],
         game |-> records[cached[c]].game, nonce |-> forwards + 1]}
  /\ UNCHANGED <<cached, records, seats, gameVars>>

(* What a client asks of the lobby.  One that has been told where to go may ask
   the same things as any other: leave the game that was handed off, and create
   or join the next. *)
Talk(c) ==
  /\ Idle
  /\ \/ \E n \in GameNames : (Opened < MaxOpened /\ L!CreateGame(c, n)) \/ L!JoinGame(c, n)
     \/ L!LeaveGame(c)
     \/ L!ToggleReady(c)
  /\ UNCHANGED <<cached, records, issueVars, gameVars>>

Close(c) ==
  /\ Idle
  /\ L!Close(c)
  /\ UNCHANGED <<cached, records, issueVars, gameVars>>

(* createGameHandler and initiateGameHandoff going on, up to the claims *)
CarryOn ==
  /\ \/ L!CarryOn \/ L!DrawSome
     \/ \E t \in handoffs : L!Publish(t) \/ L!Issue(t)
  /\ UNCHANGED <<cached, records, issueVars, gameVars>>

(* Each player gets a claim, with the token they came to the lobby with. *)
Deliver(t) ==
  /\ L!Deliver(t)
  /\ LET served == {cl.conn : cl \in told' \ told}
     IN /\ seats' = [seats EXCEPT ![t.game] = [c \in served |-> names[c]]]
        /\ claims' = claims \cup
             {[user |-> c, name |-> names[c], token |-> cached[c],
               game |-> t.game, nonce |-> t.game] : c \in served}
  /\ UNCHANGED <<cached, records, forwards, gameVars>>

(* The setup the lobby wrote is taken over by the game server: its players are
   those of the stored copy. *)
LoadGame(c) ==
  LET n == sess[c].game
  IN /\ phase[c] = "loading"
     /\ L!Load(n)
     /\ registry' = registry \cup {n}
     /\ G!TakeSeat(c, sess[c], [players |-> pending[n], started |-> FALSE, lock |-> {}])
     /\ UNCHANGED <<cached, records, issueVars, deaf, endpoints, opp, manager, claimOf>>

(* Everything else on the game server leaves the lobby and its store alone. *)
GameServerStep ==
  /\ UNCHANGED <<lobbyVars, cached, pending, active, seats>>
  /\ \/ Idle /\ (G!ArriveSome \/ \E c \in GameConns : G!Disconnect(c) \/ G!DisconnectThrows(c))
     \/ \E c \in GameConns : \/ G!FinishClaim(c)
                             \/ Idle /\ G!Expire(c)
                             \/ G!FinishTimeout(c) \/ G!TimeoutThrows(c)

Next ==
  \/ \E c \in LobbyConns : \/ \E token \in G!IssuedTokens \cup {None}, name \in Usernames :
                                Connect(c, token, name)
                           \/ Greet(c)
                           \/ Redirect(c)
                           \/ Talk(c)
                           \/ Close(c)
  \/ CarryOn
  \/ \E t \in handoffs : Deliver(t)
  \/ \E c \in GameConns : LoadGame(c)
  \/ GameServerStep

Spec == Init /\ [][Next]_vars

-----------------------------------------------------------------------------
(* Properties *)

(* The lobby has told c where to go: to the game it readied up for, or back to
   the one it was in. *)
Announced(c) == lobbyPhase[c] = "forwarded" \/ \E cl \in told : cl.conn = c

(* Nobody was handed off in two games, and no two clients were told where to
   go under one name.  The lobby ensures neither: a client may leave a game
   after the handoff and be handed off in another, and a name is free again for
   the next guest when its bearer has left the lobby. *)
HandedOffOnce ==
  /\ \A m, n \in GameNames : m # n => DOMAIN seats[m] \cap DOMAIN seats[n] = {}
  /\ \A c, d \in LobbyConns : Announced(c) /\ Announced(d) /\ names[c] = names[d] => c = d

(* The lobby is an environment of GameServer: what it hands off and where it
   forwards returning clients (initiateGameHandoff, evaluateConnectionContext)
   are inputs of GameServer with both quirks, also when a client leaves the game
   it was handed off in, is handed off in another, or comes with the name or the
   token of an earlier guest.  A handed-off game whose players ready up again,
   two clients that are in the lobby under one name at once and game names that
   collide are outside this model (LobbyServer's quirks). *)
ImplementsGameServer == G!Spec

(* While no one has been handed off twice, the promise of the seats holds with
   the lobby in the place of the inputs: seats are taken, vacated, returned to
   and given up only as SeatPromise allows, also when a guest brings the token
   of an earlier game or leaves the lobby's game after its handoff. *)
SeatsAreKept ==
  G!Kept!Init /\ [][HandedOffOnce' => [G!Kept!Next]_(G!Kept!vars)]_vars

(* The game the game server will load is the one the claims were made for.
   writeGameSetup and the lookup of the sessions read the lobby's game at
   different times (game-handoff-manager.ts), and the setup is read later
   still, when the first claim is shown. *)
SetupsMatchClaims ==
  \A n \in GameNames : pending[n] # None /\ DOMAIN seats[n] # {} =>
    pending[n] = Range(seats[n])

(* A guest who comes to the lobby with the token of an opportunity that still
   runs is sent back to their game: the record, which the game server writes
   and deletes, and the game's status outlast the opportunity as long as there
   is a game to return to. *)
ReturnersAreRedirected ==
  [][\A c \in LobbyConns : Greet(c) /\ G!Claimable(cached[c]) =>
       sess[manager[cached[c]]].game \notin registry]_vars

(* While no one has been handed off twice, nobody loses their seat before they
   first sat in it: a claim handed out with the game is never turned away when
   it is shown, whatever the other players of the game have done by then (come,
   left, been timed out). *)
FirstComersGetIn ==
  [][HandedOffOnce => \A cl \in claims \ claims' : cl.nonce \in GameNames =>
       \E c \in GameConns : phase[c] = "unused" /\ phase'[c] \in {"loading", "joined"}]_vars

(* A name stands for one game in the whole system: what the lobby still
   gathers players for runs on no game server.  gameExistsByName asks three
   places for it, one of them kept by the game server. *)
NamesAreOfOneGame ==
  \A n \in GameNames : lobby[n] # None /\ ~lobby[n].handedOff => n \notin registry
=============================================================================
