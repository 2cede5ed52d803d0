----------------------------- MODULE SystemProofs -----------------------------
(***************************************************************************)
(* Theorems about the lobby and the game server together, for any number of *)
(* guests, names, games and connections: the lobby is an environment of     *)
(* GameServer, what the two promise each other is kept, and until somebody   *)
(* is handed off twice what was proved of the game server alone holds of it  *)
(* behind this lobby.                                                       *)
(***************************************************************************)
EXTENDS System, FiniteSetTheorems, TLAPS

(* The components with what is proved about them.  LP!X is L!X by definition,
   and GP!X is G!X. *)
LP == INSTANCE LobbyServerHandoffs WITH
  Conns <- LobbyConns, Services <- "inProcess", Quirks <- {},
  phase <- lobbyPhase, deaf <- lobbyDeaf, claims <- told

GP == INSTANCE GameServerReturns WITH
  Users <- LobbyConns, AuthUsers <- {}, Conns <- GameConns,
  MaxForwards <- Cardinality(LobbyConns),
  Services <- "inProcess", Quirks <- {"sharedUsername", "staleToken"},
  pending <- {n \in GameNames : pending[n] # None /\ DOMAIN seats[n] # {}},
  activeGames <- active

(* The assumptions the components make of their constants *)
LEMMA LobbyAssumed ==
  /\ MaxGames \in Nat /\ "inProcess" \in {"inProcess", "remote"}
  /\ {} \subseteq {"pipelined", "sameName", "readyAgain", "unluckyNames"}
  /\ None \notin LobbyConns \cup Usernames \cup GameNames
  /\ None \notin LP!Games /\ \A S \in SUBSET Usernames : None # S
BY MaxGamesAssumption, NoneAssumption, NoneIsNoGame DEF L!Games, LP!Games

LEMMA GameServerAssumed ==
  /\ GameConns \subseteq Nat /\ {} \subseteq LobbyConns /\ LobbyConns \cap GameConns = {}
  /\ Cardinality(LobbyConns) \in Nat
  /\ "inProcess" \in {"inProcess", "remote", "failing"}
  /\ {"sharedUsername", "staleToken"} \subseteq {"sharedUsername", "staleToken"}
  /\ None \notin LobbyConns \cup Usernames \cup GameNames \cup GameConns
  /\ None \notin GP!Records
BY ConnsAssumption, NoneAssumption, NoneIsNoRecord, FS_CardinalityType DEF G!Records, GP!Records

-----------------------------------------------------------------------------
(* The actions of the components are those of their proof modules *)

LEMMA Counts == ASSUME NEW S PROVE L!Cardinality(S) = LP!Cardinality(S)
BY DEF L!Cardinality, LP!Cardinality

LEMMA LobbyConnects ==
  ASSUME NEW c \in LobbyConns
  PROVE  /\ \A name : L!Connect(c, name) => LP!Connect(c, name)
         /\ L!Greet(c) => LP!Greet(c)
         /\ L!Redirect(c) => LP!Redirect(c)
         /\ L!Close(c) => LP!Close(c)
<1> USE DEF L!gameVars, LP!gameVars, L!taskVars, LP!taskVars, L!storeVars, LP!storeVars
<1>1. \A name : L!Connect(c, name) => LP!Connect(c, name)
  BY DEF L!Connect, LP!Connect, L!Quiet, LP!Quiet, L!HasEndpoint, LP!HasEndpoint
<1>2. (L!Greet(c) => LP!Greet(c)) /\ (L!Redirect(c) => LP!Redirect(c))
  BY DEF L!Greet, LP!Greet, L!Redirect, LP!Redirect
<1>3. L!Close(c) => LP!Close(c)
  BY DEF L!Close, LP!Close, L!Quiet, LP!Quiet, L!Left, LP!Left, L!Unseated, LP!Unseated
<1> QED  BY <1>1, <1>2, <1>3

LEMMA LobbyHandles ==
  ASSUME NEW c \in LobbyConns
  PROVE  /\ \A n \in GameNames : /\ L!CreateGame(c, n) => LP!CreateGame(c, n)
                                 /\ L!JoinGame(c, n) => LP!JoinGame(c, n)
         /\ L!LeaveGame(c) => LP!LeaveGame(c)
         /\ L!ToggleReady(c) => LP!ToggleReady(c)
<1> USE DEF L!sessionVars, LP!sessionVars, L!gameVars, LP!gameVars,
            L!taskVars, LP!taskVars, L!storeVars, LP!storeVars
<1>1. L!MayHandle(c) => LP!MayHandle(c)
  BY DEF L!MayHandle, LP!MayHandle, L!Quiet, LP!Quiet
<1>2. ASSUME NEW n \in GameNames PROVE L!CreateGame(c, n) => LP!CreateGame(c, n)
  <2>1. L!MayDraw(n) => LP!MayDraw(n)
    BY DEF L!MayDraw, LP!MayDraw
  <2>2. L!Drawn(c, n) = LP!Drawn(c, n)
    BY DEF L!Drawn, LP!Drawn
  <2> QED  BY <1>1, <2>1, <2>2, Counts DEF L!CreateGame, LP!CreateGame
<1>3. ASSUME NEW n \in GameNames PROVE L!JoinGame(c, n) => LP!JoinGame(c, n)
  BY <1>1 DEF L!JoinGame, LP!JoinGame
<1>4. L!LeaveGame(c) => LP!LeaveGame(c)
  BY <1>1 DEF L!LeaveGame, LP!LeaveGame, L!Left, LP!Left, L!Unseated, LP!Unseated
<1>5. L!ToggleReady(c) => LP!ToggleReady(c)
  BY <1>1 DEF L!ToggleReady, LP!ToggleReady, L!Toggled, LP!Toggled, L!AllReadied, LP!AllReadied,
              L!Channel, LP!Channel, L!Registered, LP!Registered
<1> QED  BY <1>2, <1>3, <1>4, <1>5

LEMMA LobbyGoesOn ==
  ASSUME NEW t, NEW n
  PROVE  /\ L!AskStatus(t) => LP!AskStatus(t)
         /\ L!Settle(t) => LP!Settle(t)
         /\ L!DrawAgain(t, n) => LP!DrawAgain(t, n)
         /\ L!Publish(t) => LP!Publish(t)
         /\ L!Issue(t) => LP!Issue(t)
         /\ L!Deliver(t) => LP!Deliver(t)
         /\ L!Load(n) => LP!Load(n)
<1> USE DEF L!sessionVars, LP!sessionVars, L!gameVars, LP!gameVars,
            L!taskVars, LP!taskVars, L!storeVars, LP!storeVars
<1>1. L!AskStatus(t) => LP!AskStatus(t)
  BY DEF L!AskStatus, LP!AskStatus, L!OnGameServer, LP!OnGameServer
<1>2. L!Settle(t) => LP!Settle(t)
  BY DEF L!Settle, LP!Settle, L!Reply, LP!Reply, L!HasEndpoint, LP!HasEndpoint
<1>3. L!DrawAgain(t, n) => LP!DrawAgain(t, n)
  BY DEF L!DrawAgain, LP!DrawAgain, L!MayDraw, LP!MayDraw, L!Drawn, LP!Drawn
<1>4. L!Publish(t) => LP!Publish(t)
  BY DEF L!Publish, LP!Publish, L!Roster, LP!Roster
<1>5. L!Issue(t) => LP!Issue(t)
  <2>1. L!Roster(t) = LP!Roster(t) /\ L!Channel(t.game) = LP!Channel(t.game)
    BY DEF L!Roster, LP!Roster, L!Channel, LP!Channel, L!Registered, LP!Registered
  <2>2. L!Holders(t) = LP!Holders(t)
    BY <2>1 DEF L!Holders, LP!Holders
  <2>3. L!Reply(t.conn) => LP!Reply(t.conn)
    BY DEF L!Reply, LP!Reply, L!HasEndpoint, LP!HasEndpoint
  <2> QED  BY <2>1, <2>2, <2>3, Counts DEF L!Issue, LP!Issue
<1>6. L!Deliver(t) => LP!Deliver(t)
  BY DEF L!Deliver, LP!Deliver, L!HasEndpoint, LP!HasEndpoint
<1>7. L!Load(n) => LP!Load(n)
  BY DEF L!Load, LP!Load, L!Quiet, LP!Quiet
<1> QED  BY <1>1, <1>2, <1>3, <1>4, <1>5, <1>6, <1>7

LEMMA GameServerSeats ==
  ASSUME NEW c, NEW s, NEW gm, G!TakeSeat(c, s, gm)
  PROVE  GP!TakeSeat(c, s, gm)
BY DEF G!TakeSeat, GP!TakeSeat, G!AllConnected, GP!AllConnected

LEMMA GameServerAdmits ==
  ASSUME NEW c, NEW cl
  PROVE  /\ G!RejectClaim(cl) => GP!RejectClaim(cl)
         /\ G!AwaitSetup(c, cl) => GP!AwaitSetup(c, cl)
         /\ G!FindNoGame(c, cl) => GP!FindNoGame(c, cl)
         /\ G!JoinBeforeStart(c, cl) => GP!JoinBeforeStart(c, cl)
         /\ G!ClaimOpportunity(c, cl) => GP!ClaimOpportunity(c, cl)
         /\ G!RefuseReconnection(c, cl) => GP!RefuseReconnection(c, cl)
         /\ G!FinishClaim(c) => GP!FinishClaim(c)
<1> USE DEF G!storeVars, GP!storeVars, G!lobbyVars, GP!lobbyVars, G!connVars, GP!connVars,
            G!gameVars, GP!gameVars, G!returnVars, GP!returnVars, G!SessionOf, GP!SessionOf,
            G!KeyOf, GP!KeyOf
<1>1. G!MayDispatch => GP!MayDispatch
  BY DEF G!MayDispatch, GP!MayDispatch
<1>2. G!AlreadyConnected(cl.user) <=> GP!AlreadyConnected(cl.user)
  BY DEF G!AlreadyConnected, GP!AlreadyConnected
<1>3. G!Arrive(c, cl) => GP!Arrive(c, cl)
  BY <1>1, <1>2 DEF G!Arrive, GP!Arrive, G!Wired, GP!Wired
<1>4. G!RejectClaim(cl) => GP!RejectClaim(cl)
  BY <1>1, <1>2 DEF G!RejectClaim, GP!RejectClaim
<1>5. (G!AwaitSetup(c, cl) => GP!AwaitSetup(c, cl)) /\ (G!FindNoGame(c, cl) => GP!FindNoGame(c, cl))
  BY <1>3 DEF G!AwaitSetup, GP!AwaitSetup, G!FindNoGame, GP!FindNoGame
<1>6. G!JoinBeforeStart(c, cl) => GP!JoinBeforeStart(c, cl)
  BY <1>3, GameServerSeats DEF G!JoinBeforeStart, GP!JoinBeforeStart
<1>7. \A k : G!Claimable(k) <=> GP!Claimable(k)
  BY DEF G!Claimable, GP!Claimable
<1>8. G!ClaimOpportunity(c, cl) => GP!ClaimOpportunity(c, cl)
  BY <1>3, <1>7 DEF G!ClaimOpportunity, GP!ClaimOpportunity, G!Claimed, GP!Claimed,
                    G!Withdrawn, GP!Withdrawn, G!Forgotten, GP!Forgotten
<1>9. G!RefuseReconnection(c, cl) => GP!RefuseReconnection(c, cl)
  BY <1>3, <1>7 DEF G!RefuseReconnection, GP!RefuseReconnection
<1>10. G!FinishClaim(c) => GP!FinishClaim(c)
  BY GameServerSeats DEF G!FinishClaim, GP!FinishClaim, G!Renamed, GP!Renamed
<1> QED  BY <1>4, <1>5, <1>6, <1>8, <1>9, <1>10

LEMMA GameServerLetsGo ==
  ASSUME NEW c
  PROVE  /\ G!Disconnect(c) => GP!Disconnect(c)
         /\ G!DisconnectThrows(c) => GP!DisconnectThrows(c)
         /\ G!Expire(c) => GP!Expire(c)
         /\ G!FinishTimeout(c) => GP!FinishTimeout(c)
         /\ G!TimeoutThrows(c) => GP!TimeoutThrows(c)
<1> USE DEF G!storeVars, GP!storeVars, G!lobbyVars, GP!lobbyVars, G!connVars, GP!connVars,
            G!gameVars, GP!gameVars, G!returnVars, GP!returnVars, G!KeyOf, GP!KeyOf
<1>1. (G!MayDispatch => GP!MayDispatch) /\ (G!Listening(c) => GP!Listening(c))
  BY DEF G!MayDispatch, GP!MayDispatch, G!Listening, GP!Listening
<1>2. G!Disconnect(c) => GP!Disconnect(c)
  BY <1>1 DEF G!Disconnect, GP!Disconnect, G!Paused, GP!Paused
<1>3. G!DisconnectThrows(c) => GP!DisconnectThrows(c)
  BY <1>1 DEF G!DisconnectThrows, GP!DisconnectThrows
<1>4. G!Expire(c) => GP!Expire(c)
  BY <1>1 DEF G!Expire, GP!Expire, G!Withdrawn, GP!Withdrawn, G!Forgotten, GP!Forgotten
<1>5. G!FinishTimeout(c) => GP!FinishTimeout(c)
  BY DEF G!FinishTimeout, GP!FinishTimeout, G!Unpaused, GP!Unpaused, G!ForgottenIn, GP!ForgottenIn,
         G!Keys, GP!Keys, G!Tokens, GP!Tokens
<1>6. G!TimeoutThrows(c) => GP!TimeoutThrows(c)
  BY DEF G!TimeoutThrows, GP!TimeoutThrows, G!Unpaused, GP!Unpaused
<1> QED  BY <1>2, <1>3, <1>4, <1>5, <1>6

LEMMA GameServerGoesOn ==
  ASSUME NEW c
  PROVE  /\ G!LoadGame(c) => GP!LoadGame(c)
         /\ G!LoseLoadRace(c) => GP!LoseLoadRace(c)
         /\ G!ClaimFails(c) => GP!ClaimFails(c)
         /\ G!CloseUnheard(c) => GP!CloseUnheard(c)
<1> USE DEF G!storeVars, GP!storeVars, G!lobbyVars, GP!lobbyVars,
            G!gameVars, GP!gameVars, G!returnVars, GP!returnVars
<1>1. G!LoadGame(c) => GP!LoadGame(c)
  <2>1. \A n \in GameNames : G!Range(seats[n]) = GP!Range(seats[n])
    BY DEF G!Range, GP!Range
  <2> QED  BY <2>1, GameServerSeats DEF G!LoadGame, GP!LoadGame, G!Range, GP!Range
<1>2. (G!LoseLoadRace(c) => GP!LoseLoadRace(c)) /\ (G!ClaimFails(c) => GP!ClaimFails(c))
  BY DEF G!LoseLoadRace, GP!LoseLoadRace, G!ClaimFails, GP!ClaimFails
<1>3. G!CloseUnheard(c) => GP!CloseUnheard(c)
  BY DEF G!CloseUnheard, GP!CloseUnheard, G!MayDispatch, GP!MayDispatch
<1> QED  BY <1>1, <1>2, <1>3

LEMMA NewIsNew == ASSUME NEW f PROVE G!IsNew(f) <=> GP!IsNew(f)
BY DEF G!IsNew, GP!IsNew, G!SeatedNames, GP!SeatedNames, G!SeatedUsers, GP!SeatedUsers,
       G!BorneNames, GP!BorneNames, G!Range, GP!Range

LEMMA GameServerIsTold ==
  /\ \A n, f : G!Handoff(n, f) => GP!Handoff(n, f)
  /\ \A k, name : G!Forward(k, name) => GP!Forward(k, name)
<1> USE DEF G!storeVars, GP!storeVars, G!connVars, GP!connVars,
            G!gameVars, GP!gameVars, G!returnVars, GP!returnVars, G!MayDispatch, GP!MayDispatch,
            G!SeatedNames, GP!SeatedNames, G!Range, GP!Range
<1>1. ASSUME NEW n, NEW f, G!Handoff(n, f) PROVE GP!Handoff(n, f)
  <2>1. G!IsInjective(f) <=> GP!IsInjective(f)
    BY DEF G!IsInjective, GP!IsInjective
  <2>2. G!IssuedTokens = GP!IssuedTokens
    BY DEF G!IssuedTokens, GP!IssuedTokens
  <2> QED  BY <1>1, <2>1, <2>2, NewIsNew DEF G!Handoff, GP!Handoff
<1>2. ASSUME NEW k, NEW name, G!Forward(k, name) PROVE GP!Forward(k, name)
  BY <1>2 DEF G!Forward, GP!Forward
<1> QED  BY <1>1, <1>2

LEMMA GameServerInit == G!Init => GP!Init
<1>1. G!Keys = GP!Keys /\ G!NoSession = GP!NoSession
  BY DEF G!Keys, GP!Keys, G!Tokens, GP!Tokens, G!NoSession, GP!NoSession
<1> QED  BY <1>1 DEF G!Init, GP!Init

LEMMA GameServerIsG == ASSUME [G!Next]_(G!vars) PROVE [GP!Next]_(GP!vars)
<1>1. CASE UNCHANGED G!vars
  BY <1>1 DEF G!vars, GP!vars, G!storeVars, GP!storeVars, G!lobbyVars, GP!lobbyVars,
              G!connVars, GP!connVars, G!gameVars, GP!gameVars, G!returnVars, GP!returnVars
<1>2. CASE G!HandoffSome \/ G!ForwardSome
  <2>1. G!HandoffSome => GP!HandoffSome
    BY GameServerIsTold DEF G!HandoffSome, GP!HandoffSome
  <2>2. G!ForwardSome => GP!ForwardSome
    BY GameServerIsTold DEF G!ForwardSome, GP!ForwardSome, G!Keys, GP!Keys, G!Tokens, GP!Tokens
  <2> QED  BY <1>2, <2>1, <2>2 DEF GP!Next
<1>3. CASE G!ArriveSome
  <2>1. GP!ArriveSome
    BY <1>3, GameServerAdmits DEF G!ArriveSome, GP!ArriveSome
  <2> QED  BY <2>1 DEF GP!Next
<1>4. CASE G!DepartSome
  <2>1. GP!DepartSome
    BY <1>4, GameServerLetsGo, GameServerGoesOn DEF G!DepartSome, GP!DepartSome
  <2> QED  BY <2>1 DEF GP!Next
<1>5. ASSUME NEW c \in GameConns, G!Continue(c) \/ G!TimeOut(c)
      PROVE  GP!Next
  <2>1. GP!Continue(c) \/ GP!TimeOut(c)
    BY <1>5, GameServerAdmits, GameServerLetsGo, GameServerGoesOn
       DEF G!Continue, GP!Continue, G!TimeOut, GP!TimeOut
  <2> QED  BY <2>1 DEF GP!Next
<1> QED  BY <1>1, <1>2, <1>3, <1>4, <1>5 DEF G!Next

-----------------------------------------------------------------------------
(* What holds of the two together *)

LobbyKnown == LP!Shape /\ LP!Seats /\ LP!Orderly /\ (serverUp => LP!Standing /\ LP!Complete)

GameServerKnown == GP!Ground /\ GP!Findable

(* What is known besides while no one has been handed off twice *)
KnownOnce == GP!Base /\ GP!Held

(* Who is in a game is there or has left; the claims a handoff seals are for
   sessions still in its game, and it has players. *)
InGameIsMet   == \A c \in LobbyConns : inGame[c] # None => lobbyPhase[c] \in {"present", "closed"}
HoldersStay   == \A h \in handoffs : \A c \in h.holders : inGame[c] = h.game
RostersFilled == /\ \A h \in handoffs : h.stage = "locating" => LP!Roster(h) # {}
                 /\ \A n \in GameNames : pending[n] # {}

(* Who was told to go has come, and the claim bears their name. *)
ToldHaveCome ==
  \A cl \in told : /\ cl.conn \in LobbyConns /\ cl.name = names[cl.conn]
                   /\ lobbyPhase[cl.conn] \in {"present", "closed"}

Gathering == InGameIsMet /\ HoldersStay /\ RostersFilled /\ ToldHaveCome

(* The seats of a game are those of the players who were told to come. *)
SeatsAreTold ==
  \A n \in GameNames :
    /\ \A c : c \in DOMAIN seats[n] <=> \E cl \in told : cl.conn = c /\ cl.game = n
    /\ \A c \in DOMAIN seats[n] : seats[n][c] = names[c]

(* Names on the game server are those of players told to go there. *)
AnnouncedNames == {names[c] : c \in {d \in LobbyConns : Announced(d)}}

NamesAnnounced ==
  /\ \A cl \in claims : cl.name \in AnnouncedNames
  /\ \A c \in GameConns : IF phase[c] = "unused" THEN sess[c] = GP!NoSession
                          ELSE sess[c].name \in AnnouncedNames

(* The token a client came with was issued to it or to another. *)
CachedIsIssued ==
  /\ cached \in [LobbyConns -> GameConns \cup {None}]
  /\ \A c \in LobbyConns : cached[c] # None =>
       phase[cached[c]] # "unused" /\ sess[cached[c]].token = cached[c]

ForwardsCounted == forwards = Cardinality({c \in LobbyConns : lobbyPhase[c] = "forwarded"})

(* The claims that came with a game bear the names of its seats. *)
HandedInName ==
  \A cl \in claims : cl.nonce \in GameNames => cl.name = seats[cl.game][cl.user]

(* One process: while one server has a handler under way the other is idle. *)
LobbyIdle      == creating = {} /\ handoffs = {} /\ \A c \in LobbyConns : lobbyPhase[c] # "looking"
GameServerIdle == \A c \in GameConns : /\ phase[c] \notin {"loading", "claiming", "failing"}
                                       /\ opp[c] # "expiring"
OneAtATime     == serverUp => LobbyIdle \/ GameServerIdle

Linked == /\ SeatsAreTold /\ NamesAnnounced /\ CachedIsIssued /\ ForwardsCounted
          /\ HandedInName /\ OneAtATime

-----------------------------------------------------------------------------
(* The lobby takes its own steps or stands still *)

Connects(c) == \E name \in Usernames : \E token : Connect(c, token, name)

(* The steps the lobby has a part in *)
LobbyPart ==
  \/ \E c \in LobbyConns : \/ Connects(c) \/ Greet(c) \/ Redirect(c) \/ Talk(c) \/ Close(c)
  \/ CarryOn
  \/ \E t \in handoffs : Deliver(t)
  \/ \E c \in GameConns : LoadGame(c)

LEMMA LobbyStep == ASSUME GP!Shape, LobbyPart PROVE LP!Next
<1>1. ASSUME NEW c \in LobbyConns, Connects(c)
      PROVE  LP!Next
  <2>1. PICK name \in Usernames : L!Connect(c, name)
    BY <1>1 DEF Connects, Connect
  <2> QED  BY <2>1, LobbyConnects DEF LP!Next, LP!ConnectSome
<1>2. ASSUME NEW c \in LobbyConns, Greet(c) \/ Redirect(c) \/ Close(c)
      PROVE  LP!Next
  BY <1>2, LobbyConnects DEF Greet, Redirect, Close, LP!Next, LP!ConnectSome, LP!Welcome
<1>3. ASSUME NEW c \in LobbyConns, Talk(c)
      PROVE  LP!Next
  <2>1. ASSUME NEW n \in GameNames, L!CreateGame(c, n) \/ L!JoinGame(c, n)
        PROVE  LP!Next
    <3>1. LP!CreateGame(c, n) \/ LP!JoinGame(c, n)
      BY <2>1, LobbyHandles
    <3> QED  BY <3>1 DEF LP!Next, LP!HandleSome
  <2>2. CASE L!LeaveGame(c) \/ L!ToggleReady(c)
    <3>1. LP!LeaveGame(c) \/ LP!ToggleReady(c)
      BY <2>2, LobbyHandles
    <3> QED  BY <3>1 DEF LP!Next, LP!HandleSome
  <2> QED  BY <1>3, <2>1, <2>2 DEF Talk
<1>4. CASE CarryOn
  <2>1. CASE \E t \in creating : L!AskStatus(t) \/ L!Settle(t)
    BY <2>1, LobbyGoesOn DEF LP!Next, LP!CarryOn
  <2>2. CASE \E t \in creating, n \in GameNames : L!DrawAgain(t, n)
    BY <2>2, LobbyGoesOn DEF LP!Next, LP!DrawSome
  <2>3. CASE \E t \in handoffs : L!Publish(t) \/ L!Issue(t)
    BY <2>3, LobbyGoesOn DEF LP!Next, LP!HandOffSome
  <2> QED  BY <1>4, <2>1, <2>2, <2>3 DEF CarryOn, L!CarryOn, L!DrawSome
<1>5. ASSUME NEW t \in handoffs, Deliver(t)
      PROVE  LP!Next
  BY <1>5, LobbyGoesOn DEF Deliver, LP!Next, LP!HandOffSome
<1>6. ASSUME NEW c \in GameConns, LoadGame(c)
      PROVE  LP!Next
  <2>1. sess[c].game \in GameNames
    BY <1>6 DEF LoadGame, GP!Shape, GP!SessionsAreBuilt, GP!BuiltSessions
  <2> QED  BY <1>6, <2>1, LobbyGoesOn DEF LoadGame, LP!Next
<1> QED  BY <1>1, <1>2, <1>3, <1>4, <1>5, <1>6 DEF LobbyPart

(* Nothing is done by a process that is down. *)
LEMMA LobbyRuns == ASSUME LP!Next PROVE serverUp
BY DEF LP!Next, LP!ConnectSome, LP!Connect, LP!CloseUnheard, LP!Close, LP!Quiet, LP!HandleSome,
       LP!CreateGame, LP!JoinGame, LP!LeaveGame, LP!ToggleReady, LP!MayHandle, LP!Welcome,
       LP!Greet, LP!Redirect, LP!CarryOn, LP!AskStatus, LP!Settle, LP!DrawSome, LP!DrawAgain,
       LP!HandOffSome, LP!Publish, LP!Issue, LP!Deliver, LP!Load

LEMMA GameServerRuns == ASSUME GameServerStep PROVE serverUp
BY DEF GameServerStep, Idle, L!Quiet, G!FinishClaim, G!FinishTimeout, G!TimeoutThrows

(* The lobby does not notice what the game server does, until that ends the
   process. *)
LEMMA LobbyUndisturbed ==
  ASSUME LobbyKnown, UNCHANGED <<lobbyVars, pending, active>>,
         serverUp' \in BOOLEAN, serverUp' => serverUp
  PROVE  LobbyKnown'
<1> USE DEF lobbyVars
<1>1. LP!Shape'
  BY DEF LobbyKnown, LP!Shape, LP!TypeOK, LP!NamesKnown, LP!CreatorsCame, LP!RoomIsLeft
<1>2. LP!Seats'
  BY DEF LobbyKnown, LP!Seats, LP!NamesApart, LP!Agreed, LP!HasEndpoint, LP!Registered
<1>3. LP!Orderly'
  BY DEF LobbyKnown, LP!Orderly, LP!NamesDrawn, LP!GamesHandedOff, LP!ClaimsSent,
         LP!NamesStayUnique, LP!Roster
<1>4. serverUp' => LP!Standing' /\ LP!Complete'
  BY DEF LobbyKnown, LP!Standing, LP!Complete, LP!InHand, LP!Delivered, LP!HasEndpoint, LP!Roster
<1> QED  BY <1>1, <1>2, <1>3, <1>4 DEF LobbyKnown

(* No step of the lobby ends the process. *)
LEMMA LobbyKnownStep ==
  ASSUME LobbyKnown, [LP!Next]_(LP!vars)
  PROVE  LobbyKnown' /\ serverUp' = serverUp
<1>1. CASE UNCHANGED LP!vars
  <2>1. UNCHANGED <<serverUp, lobbyVars, pending, active>>
    BY <1>1 DEF LP!vars, LP!sessionVars, LP!gameVars, LP!taskVars, LP!storeVars, lobbyVars
  <2>2. serverUp \in BOOLEAN
    BY DEF LobbyKnown, LP!Shape, LP!TypeOK
  <2> QED  BY <2>1, <2>2, LobbyUndisturbed
<1>2. CASE LP!Next
  <2>1. serverUp /\ LP!Known /\ LP!Complete /\ LP!Orderliness
    BY <1>2, LobbyRuns DEF LobbyKnown, LP!Known, LP!Orderliness
  <2>2. LP!Shape' /\ LP!Seats' /\ LP!Orderly'
    BY <1>2, <2>1, LP!ShapeStep, LP!SeatsStep, LP!OrderlyStep, LobbyAssumed DEF LP!Known
  <2>3. LP!Standing' /\ LP!Complete'
    BY <1>2, <2>1, LP!StandingStep, LP!CompleteStep, LobbyAssumed DEF LP!Known
  <2> QED  BY <2>1, <2>2, <2>3 DEF LobbyKnown, LP!Standing
<1> QED  BY <1>1, <1>2

LEMMA LobbyKeepsUp == ASSUME LobbyKnown, GP!Shape, LobbyPart PROVE LobbyKnown' /\ serverUp' = serverUp
BY LobbyStep, LobbyKnownStep

LEMMA LobbyStaysKnown ==
  ASSUME LobbyKnown, GP!Shape, [Next]_vars, serverUp' \in BOOLEAN
  PROVE  LobbyKnown'
<1>1. CASE LobbyPart
  BY <1>1, LobbyKeepsUp
<1>2. CASE GameServerStep
  <2>1. UNCHANGED <<lobbyVars, pending, active>> /\ serverUp
    BY <1>2, GameServerRuns DEF GameServerStep
  <2> QED  BY <2>1, LobbyUndisturbed
<1>3. CASE UNCHANGED vars
  BY <1>3, LobbyUndisturbed DEF vars
<1> QED  BY <1>1, <1>2, <1>3 DEF Next, LobbyPart, Connects

-----------------------------------------------------------------------------
(* Players gather, are told to go, and stay told *)

(* What of the lobby Gathering speaks of *)
gatheringVars == <<lobbyPhase, names, inGame, lobby, handoffs, told, pending>>

LEMMA GatheringStays == ASSUME Gathering, UNCHANGED gatheringVars PROVE Gathering'
BY DEF Gathering, gatheringVars, InGameIsMet, HoldersStay, RostersFilled, ToldHaveCome, LP!Roster

(* An event is handled while no handoff is under way. *)
LEMMA HandledAlone ==
  ASSUME NEW c \in LobbyConns
  PROVE  /\ LP!Quiet => serverUp /\ handoffs = {} /\ creating = {}
         /\ LP!MayHandle(c) => serverUp /\ handoffs = {} /\ creating = {} /\ lobbyPhase[c] = "present"
BY DEF LP!Quiet, LP!MayHandle

LEMMA GatheringAtConnections ==
  ASSUME LobbyKnown, Gathering, NEW c \in LobbyConns,
         (\E name : LP!Connect(c, name)) \/ LP!Greet(c) \/ LP!Redirect(c) \/ LP!Close(c)
  PROVE  Gathering'
<1>1. lobbyPhase \in [LobbyConns -> LP!Phases] /\ names \in [LobbyConns -> Usernames \cup {None}]
      /\ inGame \in [LobbyConns -> GameNames \cup {None}]
  BY DEF LobbyKnown, LP!Shape, LP!TypeOK
<1>2. CASE (\E name : LP!Connect(c, name)) \/ LP!Greet(c) \/ LP!Redirect(c)
  <2>1. /\ lobbyPhase[c] \in {"unused", "looking"}
        /\ \E p \in {"looking", "present", "forwarded"} : lobbyPhase' = [lobbyPhase EXCEPT ![c] = p]
        /\ names' = names \/ \E name : names' = [names EXCEPT ![c] = name]
        /\ UNCHANGED <<inGame, lobby, handoffs, told, pending>>
    BY <1>2 DEF LP!Connect, LP!Greet, LP!Redirect, LP!gameVars, LP!taskVars, LP!storeVars
  <2>2. /\ \A d \in LobbyConns \ {c} : lobbyPhase'[d] = lobbyPhase[d] /\ names'[d] = names[d]
        /\ inGame[c] = None /\ \A cl \in told : cl.conn # c
    BY <1>1, <2>1 DEF Gathering, InGameIsMet, ToldHaveCome
  <2>3. HoldersStay' /\ RostersFilled'
    BY <2>1 DEF Gathering, HoldersStay, RostersFilled, LP!Roster
  <2>4. InGameIsMet'
    BY <2>1, <2>2 DEF Gathering, InGameIsMet
  <2>5. ToldHaveCome'
    BY <2>1, <2>2 DEF Gathering, ToldHaveCome
  <2> QED  BY <2>3, <2>4, <2>5 DEF Gathering
<1>3. CASE LP!Close(c)
  <2>1. /\ handoffs = {} /\ UNCHANGED <<names, handoffs, told, pending>>
        /\ lobbyPhase[c] = "present" /\ lobbyPhase' = [lobbyPhase EXCEPT ![c] = "closed"]
        /\ inGame' \in {inGame, [inGame EXCEPT ![c] = None]}
    BY <1>3, HandledAlone DEF LP!Close, LP!taskVars, LP!storeVars
  <2>2. /\ \A d \in LobbyConns \ {c} : lobbyPhase'[d] = lobbyPhase[d] /\ inGame'[d] = inGame[d]
        /\ lobbyPhase'[c] = "closed"
    BY <1>1, <2>1
  <2>3. InGameIsMet' /\ HoldersStay' /\ RostersFilled'
    BY <2>1, <2>2 DEF Gathering, InGameIsMet, HoldersStay, RostersFilled
  <2>4. ToldHaveCome'
    BY <2>1, <2>2 DEF Gathering, ToldHaveCome
  <2> QED  BY <2>3, <2>4 DEF Gathering
<1> QED  BY <1>2, <1>3

LEMMA GatheringAtMessages ==
  ASSUME LobbyKnown, Gathering, NEW c \in LobbyConns,
         \/ \E n \in GameNames : LP!JoinGame(c, n)
         \/ LP!LeaveGame(c) \/ LP!ToggleReady(c)
  PROVE  Gathering'
<1>1. inGame \in [LobbyConns -> GameNames \cup {None}]
  BY DEF LobbyKnown, LP!Shape, LP!TypeOK
<1>2. CASE (\E n \in GameNames : LP!JoinGame(c, n)) \/ LP!LeaveGame(c)
  <2>1. /\ handoffs = {} /\ UNCHANGED <<lobbyPhase, names, handoffs, told, pending>>
        /\ lobbyPhase[c] = "present"
        /\ \A d \in LobbyConns \ {c} : inGame'[d] = inGame[d]
    BY <1>1, <1>2, HandledAlone DEF LP!JoinGame, LP!LeaveGame, LP!sessionVars, LP!taskVars, LP!storeVars
  <2>2. InGameIsMet' /\ HoldersStay' /\ RostersFilled'
    BY <2>1 DEF Gathering, InGameIsMet, HoldersStay, RostersFilled
  <2>3. ToldHaveCome'
    BY <2>1 DEF Gathering, ToldHaveCome
  <2> QED  BY <2>2, <2>3 DEF Gathering
<1>3. CASE LP!ToggleReady(c)
  <2> DEFINE n == inGame[c]
             g == LP!Toggled(lobby[n], c)
             t == [conn |-> c, game |-> n, id |-> g.id, audience |-> LP!Channel(n),
                   holders |-> {}, stage |-> "locating"]
  <2>1. /\ handoffs = {} /\ UNCHANGED <<lobbyPhase, names, inGame, told, pending>>
        /\ lobby[n] # None /\ names[c] \in lobby[n].players /\ n \in GameNames
        /\ \/ handoffs' = {}
           \/ handoffs' = {t} /\ lobby' = [lobby EXCEPT ![n] = [g EXCEPT !.handedOff = TRUE]]
    BY <1>1, <1>3, HandledAlone DEF LP!ToggleReady, LP!sessionVars, LP!storeVars
  <2>2. ASSUME NEW h \in handoffs'
        PROVE  LP!Roster(h)' # {}
    <3>1. lobby[n] \in LP!Games /\ lobby \in [GameNames -> LP!Games \cup {None}]
      BY <2>1, LP!Typing, LobbyAssumed DEF LobbyKnown, LP!Shape, LP!TypeOK
    <3>2. [g EXCEPT !.handedOff = TRUE] \in LP!Games
      <4>1. names[c] \in Usernames
        BY <2>1, <3>1 DEF LP!Games
      <4> QED  BY <2>1, <3>1, <4>1 DEF LP!Toggled, LP!Games
    <3>3. /\ [g EXCEPT !.handedOff = TRUE].players = lobby[n].players
          /\ [g EXCEPT !.handedOff = TRUE].id = g.id
      BY <3>1 DEF LP!Toggled, LP!Games
    <3>4. h.game = n /\ h.id = g.id /\ lobby' = [lobby EXCEPT ![n] = [g EXCEPT !.handedOff = TRUE]]
      BY <2>1
    <3> HIDE DEF g, t
    <3>5. lobby'[n] # None /\ lobby'[n].id = g.id /\ lobby'[n].players # {}
      BY <2>1, <3>1, <3>2, <3>3, <3>4, LobbyAssumed
    <3> QED  BY <3>4, <3>5 DEF LP!Roster
  <2>3. InGameIsMet' /\ ToldHaveCome'
    BY <2>1 DEF Gathering, InGameIsMet, ToldHaveCome
  <2>4. HoldersStay'
    <3>1. \A h \in handoffs' : h.holders = {}
      BY <2>1
    <3> QED  BY <3>1 DEF HoldersStay
  <2>5. RostersFilled'
    BY <2>1, <2>2 DEF Gathering, RostersFilled
  <2> QED  BY <2>3, <2>4, <2>5 DEF Gathering
<1> QED  BY <1>2, <1>3

(* A game that comes to be is no handoff's. *)
LEMMA GatheringAtCreation ==
  ASSUME LobbyKnown, Gathering, serverUp, NEW t \in creating, LP!Settle(t)
  PROVE  Gathering'
<1>1. /\ lobby \in [GameNames -> LP!Games \cup {None}]
      /\ inGame \in [LobbyConns -> GameNames \cup {None}]
      /\ t.conn \in LobbyConns /\ t.name \in GameNames /\ None \notin GameNames
      /\ lobbyPhase[t.conn] = "present"
      /\ \A h \in handoffs : h.game # t.name /\ h.game \in GameNames /\ h.holders \subseteq LobbyConns
      /\ \A cl \in told : cl.game \in GameNames
  BY LP!Typing, LobbyAssumed
     DEF LobbyKnown, LP!Shape, LP!TypeOK, LP!Standing, LP!Orderly, LP!NamesDrawn, LP!Handoffs
<1>2. /\ UNCHANGED <<lobbyPhase, names, handoffs, told, pending>>
      /\ \A h \in handoffs : lobby'[h.game] = lobby[h.game]
      /\ \A d \in LobbyConns : inGame[d] # None \/ d # t.conn => inGame'[d] = inGame[d]
  BY <1>1 DEF LP!Settle, LP!gameVars, LP!sessionVars, LP!storeVars
<1>3. InGameIsMet'
  BY <1>1, <1>2 DEF Gathering, InGameIsMet
<1>4. HoldersStay' /\ RostersFilled'
  BY <1>1, <1>2 DEF Gathering, HoldersStay, RostersFilled, LP!Roster
<1>5. ToldHaveCome'
  BY <1>1, <1>2 DEF Gathering, ToldHaveCome
<1> QED  BY <1>3, <1>4, <1>5 DEF Gathering

LEMMA GatheringAtHandoff ==
  ASSUME LobbyKnown, Gathering, NEW t \in handoffs, LP!Publish(t) \/ LP!Issue(t)
  PROVE  Gathering'
<1>1. t \in LP!Handoffs /\ t.game \in GameNames /\ pending \in [GameNames -> LP!Setups]
  BY LP!Typing, LobbyAssumed DEF LobbyKnown, LP!Shape, LP!TypeOK
<1>2. UNCHANGED <<lobbyPhase, names, inGame, lobby, told>>
  BY DEF LP!Publish, LP!Issue, LP!sessionVars, LP!gameVars, LP!storeVars
<1>3. InGameIsMet' /\ ToldHaveCome'
  BY <1>2 DEF Gathering, InGameIsMet, ToldHaveCome
<1>4. CASE LP!Publish(t)
  <2> DEFINE w == [t EXCEPT !.stage = "writing"]
  <2>1. /\ handoffs' = (handoffs \ {t}) \cup {w} /\ t.stage = "locating"
        /\ pending' = [pending EXCEPT ![t.game] = LP!Roster(t)]
    BY <1>4 DEF LP!Publish
  <2>2. w.stage = "writing" /\ w.holders = t.holders /\ w.game = t.game
    BY <1>1 DEF LP!Handoffs
  <2> HIDE DEF w
  <2>3. HoldersStay'
    BY <1>2, <2>1, <2>2 DEF Gathering, HoldersStay
  <2>4. \A h \in handoffs' : h.stage = "locating" => LP!Roster(h)' # {}
    BY <1>2, <2>1, <2>2 DEF Gathering, RostersFilled, LP!Roster
  <2>5. \A n \in GameNames : pending'[n] # {}
    BY <1>1, <2>1 DEF Gathering, RostersFilled
  <2> QED  BY <1>3, <2>3, <2>4, <2>5 DEF Gathering, RostersFilled
<1>5. CASE LP!Issue(t)
  <2> DEFINE u == [t EXCEPT !.stage = "sealing", !.holders = LP!Holders(t)]
  <2>1. handoffs' \in {(handoffs \ {t}) \cup {u}, handoffs \ {t}} /\ pending' = pending
    BY <1>5 DEF LP!Issue, LP!storeVars
  <2>2. u.stage = "sealing" /\ u.holders = LP!Holders(t) /\ u.game = t.game
    BY <1>1 DEF LP!Handoffs
  <2>3. \A c \in LP!Holders(t) : inGame[c] = t.game
    BY DEF LP!Holders, LP!Channel
  <2> HIDE DEF u
  <2>4. HoldersStay'
    BY <1>2, <2>1, <2>2, <2>3 DEF Gathering, HoldersStay
  <2>5. RostersFilled'
    BY <1>2, <2>1, <2>2 DEF Gathering, RostersFilled, LP!Roster
  <2> QED  BY <1>3, <2>4, <2>5 DEF Gathering
<1> QED  BY <1>4, <1>5

(* With stores in the process nobody is gone by the time the claims are
   sealed: every player of the game is told, and nobody was told of it before. *)
LEMMA AllAreTold ==
  ASSUME LobbyKnown, Gathering, serverUp, NEW t \in handoffs, LP!Deliver(t)
  PROVE  /\ told' = told \cup {[conn |-> c, name |-> names[c], game |-> t.game] : c \in t.holders}
         /\ \A c \in t.holders :
              /\ c \in LobbyConns /\ names[c] \in pending[t.game] /\ names[c] \in Usernames
              /\ lobbyPhase[c] = "present" /\ inGame[c] = t.game
         /\ \A c, d \in t.holders : names[c] = names[d] => c = d
         /\ \A name \in pending[t.game] : \E c \in t.holders : names[c] = name
         /\ \A cl \in told : cl.game # t.game
         /\ pending[t.game] # None /\ t.game \in GameNames
         /\ UNCHANGED <<lobbyPhase, names, inGame, lobby, pending, active>> /\ handoffs' = handoffs \ {t}
<1>1. t \in LP!Handoffs /\ t.game \in GameNames /\ t.holders \subseteq LobbyConns
      /\ None \notin GameNames
  BY LP!Typing, LobbyAssumed DEF LobbyKnown, LP!Handoffs
<1>2. t.audience \subseteq LP!HasEndpoint /\ t.holders \subseteq LP!HasEndpoint /\ t.stage = "sealing"
  BY DEF LobbyKnown, LP!Complete, LP!InHand, LP!Deliver
<1>3. told' = told \cup {[conn |-> c, name |-> names[c], game |-> t.game] : c \in t.holders}
  BY <1>2 DEF LP!Deliver
<1>4. \A cl \in told : cl.game # t.game
  BY DEF LobbyKnown, LP!Orderly, LP!ClaimsSent
<1>5. ASSUME NEW c \in t.holders
      PROVE  /\ c \in LobbyConns /\ names[c] \in pending[t.game] /\ names[c] \in Usernames
             /\ lobbyPhase[c] = "present" /\ inGame[c] = t.game
  <2>1. c \in LobbyConns /\ inGame[c] = t.game /\ inGame[c] # None
    BY <1>1 DEF Gathering, HoldersStay
  <2>2. lobbyPhase[c] = "present"
    BY <1>2, <2>1 DEF Gathering, InGameIsMet, LP!HasEndpoint
  <2>3. names[c] \in pending[t.game] /\ names[c] \in Usernames
    BY <1>2, <2>1, <2>2 DEF LobbyKnown, LP!Shape, LP!NamesKnown, LP!Orderly, LP!GamesHandedOff
  <2> QED  BY <2>1, <2>2, <2>3
<1>6. \A name \in pending[t.game] : \E c \in t.holders : names[c] = name
  BY <1>2 DEF LobbyKnown, LP!Complete, LP!InHand
<1>7. pending[t.game] # None
  BY <1>2 DEF LobbyKnown, LP!Orderly, LP!GamesHandedOff
<1>8. UNCHANGED <<lobbyPhase, names, inGame, lobby, pending, active>> /\ handoffs' = handoffs \ {t}
  BY DEF LP!Deliver, LP!sessionVars, LP!gameVars, LP!storeVars
<1>9. \A c, d \in t.holders : names[c] = names[d] => c = d
  BY <1>2 DEF LobbyKnown, LP!Seats, LP!NamesApart
<1> QED  BY <1>1, <1>3, <1>4, <1>5, <1>6, <1>7, <1>8, <1>9

LEMMA GatheringAtDelivery ==
  ASSUME LobbyKnown, Gathering, serverUp, NEW t \in handoffs, LP!Deliver(t)
  PROVE  Gathering'
<1> DEFINE claim(c) == [conn |-> c, name |-> names[c], game |-> t.game]
<1>1. /\ told' = told \cup {claim(c) : c \in t.holders}
      /\ \A c \in t.holders : c \in LobbyConns /\ lobbyPhase[c] = "present"
      /\ UNCHANGED <<lobbyPhase, names, inGame, lobby, pending>> /\ handoffs' = handoffs \ {t}
  BY AllAreTold
<1>2. \A c : claim(c).conn = c /\ claim(c).name = names[c]
  OBVIOUS
<1> HIDE DEF claim
<1>3. InGameIsMet' /\ HoldersStay' /\ RostersFilled'
  BY <1>1 DEF Gathering, InGameIsMet, HoldersStay, RostersFilled, LP!Roster
<1>4. ToldHaveCome'
  BY <1>1, <1>2 DEF Gathering, ToldHaveCome
<1> QED  BY <1>3, <1>4 DEF Gathering

LEMMA GatheringStep ==
  ASSUME LobbyKnown, Gathering, GP!Shape, [Next]_vars
  PROVE  Gathering'
<1>1. ASSUME NEW c \in LobbyConns, Connects(c)
      PROVE  Gathering'
  BY <1>1, LobbyConnects, GatheringAtConnections DEF Connects, Connect
<1>2. ASSUME NEW c \in LobbyConns, Greet(c) \/ Redirect(c) \/ Close(c)
      PROVE  Gathering'
  BY <1>2, LobbyConnects, GatheringAtConnections DEF Greet, Redirect, Close
<1>3. ASSUME NEW c \in LobbyConns, Talk(c)
      PROVE  Gathering'
  <2>1. ASSUME NEW n \in GameNames, L!CreateGame(c, n)
        PROVE  Gathering'
    <3>1. LP!CreateGame(c, n)
      BY <2>1, LobbyHandles
    <3> QED  BY <3>1, GatheringStays
             DEF gatheringVars, LP!CreateGame, LP!sessionVars, LP!gameVars, LP!storeVars
  <2>2. ASSUME \/ \E n \in GameNames : L!JoinGame(c, n)
               \/ L!LeaveGame(c) \/ L!ToggleReady(c)
        PROVE  Gathering'
    BY <1>3, <2>2, LobbyHandles, GatheringAtMessages DEF Talk
  <2> QED  BY <1>3, <2>1, <2>2 DEF Talk
<1>4. CASE CarryOn
  <2>1. ASSUME NEW t \in creating, L!AskStatus(t) \/ \E n \in GameNames : L!DrawAgain(t, n)
        PROVE  Gathering'
    <3>1. LP!AskStatus(t) \/ \E n \in GameNames : LP!DrawAgain(t, n)
      BY <2>1, LobbyGoesOn
    <3> QED  BY <3>1, GatheringStays
             DEF gatheringVars, LP!AskStatus, LP!DrawAgain, LP!sessionVars, LP!gameVars, LP!storeVars
  <2>2. ASSUME NEW t \in creating, L!Settle(t)
        PROVE  Gathering'
    <3>1. LP!Settle(t) /\ serverUp
      BY <2>2, LobbyGoesOn DEF LP!Settle
    <3> QED  BY <3>1, GatheringAtCreation
  <2>3. ASSUME NEW t \in handoffs, L!Publish(t) \/ L!Issue(t)
        PROVE  Gathering'
    BY <2>3, LobbyGoesOn, GatheringAtHandoff
  <2> QED  BY <1>4, <2>1, <2>2, <2>3 DEF CarryOn, L!CarryOn, L!DrawSome
<1>5. ASSUME NEW t \in handoffs, Deliver(t)
      PROVE  Gathering'
  <2>1. LP!Deliver(t) /\ serverUp
    BY <1>5, LobbyGoesOn DEF Deliver, LP!Deliver
  <2> QED  BY <2>1, GatheringAtDelivery
<1>6. ASSUME NEW c \in GameConns, LoadGame(c)
      PROVE  Gathering'
  <2>1. LP!Load(sess[c].game)
    BY <1>6, LobbyGoesOn DEF LoadGame
  <2>2. UNCHANGED <<lobbyPhase, names, inGame, lobby, handoffs, told>>
        /\ pending' = [pending EXCEPT ![sess[c].game] = None]
    BY <2>1 DEF LP!Load, LP!sessionVars, LP!gameVars, LP!taskVars
  <2>3. \A n \in GameNames : pending'[n] # {}
    BY <2>2, LobbyAssumed DEF LobbyKnown, LP!Shape, LP!TypeOK, Gathering, RostersFilled
  <2> QED  BY <2>2, <2>3 DEF Gathering, InGameIsMet, HoldersStay, RostersFilled, ToldHaveCome,
                             LP!Roster
<1>7. CASE GameServerStep \/ UNCHANGED vars
  BY <1>7, GatheringStays DEF gatheringVars, GameServerStep, vars, lobbyVars
<1> QED  BY <1>1, <1>2, <1>3, <1>4, <1>5, <1>6, <1>7 DEF Next, LobbyPart, Connects

-----------------------------------------------------------------------------
(* The lobby is the environment of the game server *)

(* pending as GameServer sees it *)
Waiting == {n \in GameNames : pending[n] # None /\ DOMAIN seats[n] # {}}

(* Nobody has a seat in a game whose handoff is under way. *)
LEMMA NoSeatsYet ==
  ASSUME LobbyKnown, SeatsAreTold, NEW t \in handoffs
  PROVE  DOMAIN seats[t.game] = {} /\ t.game \in GameNames
<1>1. t.game \in GameNames
  BY LP!Typing, LobbyAssumed DEF LobbyKnown
<1>2. \A cl \in told : cl.game # t.game
  BY DEF LobbyKnown, LP!Orderly, LP!ClaimsSent
<1> QED  BY <1>1, <1>2 DEF SeatsAreTold

(* Before the claims are out the game server has nothing to notice. *)
LEMMA LobbyActsAlone ==
  ASSUME LobbyKnown, SeatsAreTold,
         \/ \E c \in LobbyConns : Connects(c) \/ Greet(c) \/ Talk(c) \/ Close(c)
         \/ CarryOn
  PROVE  UNCHANGED <<Waiting, active, records, issueVars, gameVars>>
<1>1. UNCHANGED <<records, issueVars, gameVars>>
  BY DEF Connects, Connect, Greet, Talk, Close, CarryOn
<1>2. UNCHANGED active /\ \/ UNCHANGED pending
                          \/ \E t \in handoffs : \E S : pending' = [pending EXCEPT ![t.game] = S]
  <2>1. ASSUME NEW c \in LobbyConns, Connects(c) \/ Greet(c) \/ Talk(c) \/ Close(c)
        PROVE  UNCHANGED <<pending, active>>
    BY <2>1 DEF Connects, Connect, Greet, Talk, Close, L!Connect, L!Greet, L!Close, L!CreateGame, L!JoinGame,
                L!LeaveGame, L!ToggleReady, L!storeVars
  <2>2. CASE CarryOn
    BY <2>2 DEF CarryOn, L!CarryOn, L!DrawSome, L!AskStatus, L!Settle, L!DrawAgain, L!Publish, L!Issue,
                L!storeVars
  <2> QED  BY <2>1, <2>2
<1>3. Waiting' = Waiting
  <2>1. seats' = seats
    BY <1>1 DEF issueVars
  <2>2. ASSUME NEW t \in handoffs, NEW S, pending' = [pending EXCEPT ![t.game] = S]
        PROVE  Waiting' = Waiting
    <3>1. DOMAIN seats[t.game] = {}
      BY NoSeatsYet
    <3>2. \A n \in GameNames \ {t.game} : pending'[n] = pending[n]
      BY <2>2 DEF LobbyKnown, LP!Shape, LP!TypeOK
    <3> QED  BY <2>1, <3>1, <3>2 DEF Waiting
  <2> QED  BY <1>2, <2>1, <2>2 DEF Waiting
<1> QED  BY <1>1, <1>2, <1>3

(* While the lobby is at something the game server is idle. *)
LEMMA GameServerIsFree ==
  ASSUME OneAtATime, serverUp, ~LobbyIdle
  PROVE  G!MayDispatch
BY DEF OneAtATime, GameServerIdle, G!MayDispatch

(* A redirected client is forwarded, under a name nobody has a seat by unless
   the lobby has given that name to one after the other. *)
LEMMA RedirectIsForward ==
  ASSUME LobbyKnown, GameServerKnown, Gathering, Linked, NEW c \in LobbyConns, Redirect(c)
  PROVE  \E k \in G!Keys, name \in Usernames :
           G!Forward(k, name) /\ (HandedOffOnce' => name \notin G!SeatedNames)
<1>1. /\ serverUp /\ lobbyPhase[c] = "looking"
      /\ UNCHANGED <<serverUp, pending, active, names, told>>
      /\ lobbyPhase' = [lobbyPhase EXCEPT ![c] = "forwarded"]
  BY DEF Redirect, L!Redirect, L!storeVars
<1>2. G!MayDispatch
  BY <1>1, GameServerIsFree DEF Linked, LobbyIdle
<1>3. forwards < Cardinality(LobbyConns)
  <2> DEFINE F == {d \in LobbyConns : lobbyPhase[d] = "forwarded"}
  <2>1. F \subseteq LobbyConns \ {c}
    BY <1>1
  <2>2. IsFiniteSet(LobbyConns \ {c}) /\ Cardinality(LobbyConns \ {c}) = Cardinality(LobbyConns) - 1
    BY FS_RemoveElement, ConnsAssumption
  <2>3. Cardinality(F) <= Cardinality(LobbyConns \ {c}) /\ IsFiniteSet(F)
    BY <2>1, <2>2, FS_Subset
  <2>4. Cardinality(F) \in Nat /\ Cardinality(LobbyConns) \in Nat
    BY <2>3, ConnsAssumption, FS_CardinalityType
  <2> QED  BY <2>2, <2>3, <2>4 DEF Linked, ForwardsCounted
<1>4. names[c] \in Usernames
  BY <1>1 DEF LobbyKnown, LP!Shape, LP!NamesKnown
<1>5. ASSUME HandedOffOnce'
      PROVE  names[c] \notin G!SeatedNames
  <2>1. \A cl \in told : cl.conn # c
    BY <1>1 DEF Gathering, ToldHaveCome
  <2>2. Announced(c)'
    BY <1>1 DEF Announced, LobbyKnown, LP!Shape, LP!TypeOK
  <2>3. ASSUME NEW n \in GameNames, NEW d \in DOMAIN seats[n]
        PROVE  seats[n][d] # names[c]
    <3>1. seats[n][d] = names[d] /\ \E cl \in told : cl.conn = d
      BY DEF Linked, SeatsAreTold
    <3>2. d \in LobbyConns /\ d # c
      BY <2>1, <3>1 DEF Gathering, ToldHaveCome
    <3>3. Announced(d)'
      BY <1>1, <3>1 DEF Announced
    <3> QED  BY <1>1, <1>5, <2>2, <3>1, <3>2, <3>3 DEF HandedOffOnce
  <2> QED  BY <2>3 DEF G!SeatedNames, G!Range
<1>6. cached[c] \in G!Keys /\ Known(c)
  BY DEF Linked, CachedIsIssued, G!Keys, G!Tokens, Redirect, Known
<1>7. UNCHANGED <<Waiting, active, records, seats, gameVars>>
  BY <1>1 DEF Redirect, Waiting
<1>8. /\ forwards' = forwards + 1
      /\ claims' = claims \cup
           {[user |-> records[cached[c]].user, name |-> names[c], token |-> cached[c],
             game |-> records[cached[c]].game, nonce |-> forwards + 1]}
  BY DEF Redirect
<1>9. G!Forward(cached[c], names[c])
  BY <1>1, <1>2, <1>3, <1>6, <1>7, <1>8
     DEF Known, G!Forward, gameVars, Waiting, G!storeVars, G!connVars, G!gameVars, G!returnVars
<1> QED  BY <1>4, <1>5, <1>6, <1>9

(* What a delivery hands to the game server: the seats and the claims of all
   players. *)
LEMMA AllAreSeated ==
  ASSUME LobbyKnown, Gathering, Linked, serverUp, NEW t \in handoffs, Deliver(t)
  PROVE  /\ t.game \in GameNames /\ DOMAIN seats[t.game] = {} /\ t.holders # {}
         /\ seats' = [seats EXCEPT ![t.game] = [c \in t.holders |-> names[c]]]
         /\ claims' = claims \cup
              {[user |-> c, name |-> names[c], token |-> cached[c],
                game |-> t.game, nonce |-> t.game] : c \in t.holders}
         /\ \A c \in t.holders :
              c \in LobbyConns /\ names[c] \in Usernames /\ lobbyPhase[c] = "present"
         /\ \A c, d \in t.holders : names[c] = names[d] => c = d
<1> DEFINE claim(c) == [conn |-> c, name |-> names[c], game |-> t.game]
<1>1. LP!Deliver(t)
  BY LobbyGoesOn DEF Deliver
<1>2. /\ told' = told \cup {claim(c) : c \in t.holders}
      /\ \A c \in t.holders :
           c \in LobbyConns /\ names[c] \in Usernames /\ lobbyPhase[c] = "present"
      /\ \A c, d \in t.holders : names[c] = names[d] => c = d
      /\ \A cl \in told : cl.game # t.game
      /\ \A name \in pending[t.game] : \E c \in t.holders : names[c] = name
      /\ pending[t.game] # None /\ t.game \in GameNames
  BY <1>1, AllAreTold
<1>3. DOMAIN seats[t.game] = {}
  BY NoSeatsYet DEF Linked
<1>4. t.holders # {}
  <2>1. pending[t.game] # {} /\ pending[t.game] \in SUBSET Usernames
    BY <1>2 DEF Gathering, RostersFilled, LobbyKnown, LP!Shape, LP!TypeOK, LP!Setups
  <2> QED  BY <1>2, <2>1
<1>5. {cl.conn : cl \in told' \ told} = t.holders
  <2>1. \A c : claim(c).conn = c /\ claim(c).game = t.game
    OBVIOUS
  <2> HIDE DEF claim
  <2>2. \A c \in t.holders : claim(c) \in told' \ told
    BY <1>2, <2>1
  <2>3. \A cl \in told' \ told : \E c \in t.holders : cl = claim(c)
    BY <1>2
  <2> QED  BY <2>1, <2>2, <2>3
<1> QED  BY <1>2, <1>3, <1>4, <1>5 DEF Deliver

(* Unless somebody is handed off a second time by it, a delivery is to players
   who were told nothing before, under names no one was told under. *)
LEMMA NoneIsToldTwice ==
  ASSUME LobbyKnown, GameServerKnown, Gathering, Linked, serverUp, NEW t \in handoffs, Deliver(t),
         HandedOffOnce', NEW c \in t.holders
  PROVE  ~Announced(c) /\ names[c] \notin AnnouncedNames
<1> DEFINE claim(d) == [conn |-> d, name |-> names[d], game |-> t.game]
<1>1. LP!Deliver(t)
  BY LobbyGoesOn DEF Deliver
<1>2. /\ told' = told \cup {claim(d) : d \in t.holders} /\ UNCHANGED <<lobbyPhase, names>>
      /\ \A cl \in told : cl.game # t.game /\ cl.game \in GameNames
      /\ t.game \in GameNames /\ c \in LobbyConns /\ lobbyPhase[c] = "present"
  BY <1>1, AllAreTold, LP!Typing, LobbyAssumed DEF LobbyKnown
<1>3. \A d : claim(d).conn = d
  OBVIOUS
<1> HIDE DEF claim
<1>4. Announced(c)' /\ \A d \in LobbyConns : Announced(d) => Announced(d)'
  BY <1>2, <1>3 DEF Announced
<1>5. /\ seats'[t.game] = [d \in t.holders |-> names[d]]
      /\ \A n \in GameNames \ {t.game} : seats'[n] = seats[n]
  <2>1. seats \in [GameNames -> GP!Seatings]
    BY DEF GameServerKnown, GP!Ground, GP!Shape, GP!TypeOK
  <2> QED  BY <1>2, <2>1, AllAreSeated
<1>6. ~Announced(c)
  <2>1. ASSUME NEW cl \in told, cl.conn = c
        PROVE  FALSE
    <3>1. c \in DOMAIN seats'[cl.game]
      BY <1>2, <1>5, <2>1 DEF Linked, SeatsAreTold
    <3>2. c \in DOMAIN seats'[t.game]
      BY <1>5
    <3> QED  BY <1>2, <2>1, <3>1, <3>2 DEF HandedOffOnce
  <2> QED  BY <1>2, <2>1 DEF Announced
<1>7. ASSUME NEW d \in LobbyConns, Announced(d)
      PROVE  names[d] # names[c]
  BY <1>2, <1>4, <1>6, <1>7 DEF HandedOffOnce
<1> QED  BY <1>6, <1>7 DEF AnnouncedNames

LEMMA DeliveryIsHandoff ==
  ASSUME LobbyKnown, GameServerKnown, Gathering, Linked, serverUp, serverUp' = serverUp,
         NEW t \in handoffs, Deliver(t)
  PROVE  \E n \in GameNames, S \in SUBSET LobbyConns : \E seating \in [S -> Usernames] :
           G!Handoff(n, seating) /\ (HandedOffOnce' => G!IsNew(seating))
<1> DEFINE n == t.game
           S == t.holders
           f == [c \in S |-> names[c]]
           tokenOf == [c \in S |-> cached[c]]
<1>1. /\ n \in GameNames /\ DOMAIN seats[n] = {} /\ S # {} /\ S \subseteq LobbyConns
      /\ seats' = [seats EXCEPT ![n] = f]
      /\ \A c \in S : names[c] \in Usernames
      /\ \A c, d \in S : names[c] = names[d] => c = d
  BY AllAreSeated
<1>2. claims' = claims \cup {[user |-> u, name |-> f[u], token |-> tokenOf[u],
                              game |-> n, nonce |-> n] : u \in S}
  <2>1. claims' = claims \cup {[user |-> u, name |-> names[u], token |-> cached[u],
                                game |-> n, nonce |-> n] : u \in S}
    BY AllAreSeated
  <2>2. \A u \in S : f[u] = names[u] /\ tokenOf[u] = cached[u]
    OBVIOUS
  <2> HIDE DEF f, tokenOf
  <2> QED  BY <2>1, <2>2
<1>3. G!MayDispatch
  BY GameServerIsFree DEF Linked, LobbyIdle
<1>4. f \in [S -> Usernames] /\ DOMAIN f = S /\ \A c \in S : f[c] = names[c]
  BY <1>1
<1>5. tokenOf \in [DOMAIN f -> G!IssuedTokens \cup {None}]
  BY <1>1, <1>4 DEF Linked, CachedIsIssued, G!IssuedTokens
<1>6. G!IsInjective(f)
  BY <1>1, <1>4 DEF G!IsInjective
<1>7. /\ pending[n] # None /\ UNCHANGED <<pending, active>>
      /\ UNCHANGED <<records, forwards, gameVars>>
  <2>1. LP!Deliver(t)
    BY LobbyGoesOn DEF Deliver
  <2> QED  BY <2>1, AllAreTold DEF Deliver
<1>8. Waiting' = Waiting \cup {n}
  <2>1. seats \in [GameNames -> GP!Seatings]
    BY DEF GameServerKnown, GP!Ground, GP!Shape, GP!TypeOK
  <2>2. seats'[n] = f /\ \A m \in GameNames \ {n} : seats'[m] = seats[m]
    BY <1>1, <2>1
  <2> HIDE DEF f
  <2>3. \A m \in GameNames : pending'[m] = pending[m]
    BY <1>7
  <2>4. \A m \in GameNames : m \in Waiting' <=> m \in Waiting \/ m = n
    BY <1>1, <1>4, <1>7, <2>2, <2>3 DEF Waiting
  <2> QED  BY <1>1, <2>4 DEF Waiting
<1> HIDE DEF f, tokenOf
<1>9. ASSUME HandedOffOnce'
      PROVE  G!Range(f) \cap (G!SeatedNames \cup G!BorneNames) = {}
  <2>1. ASSUME NEW m \in GameNames, NEW d \in DOMAIN seats[m]
        PROVE  seats[m][d] \in AnnouncedNames
    BY DEF Linked, SeatsAreTold, Gathering, ToldHaveCome, AnnouncedNames, Announced
  <2>2. \A cl \in claims : cl.name \in AnnouncedNames
    BY DEF Linked, NamesAnnounced
  <2>3. \A c \in GameConns : sess[c].name \in AnnouncedNames \cup {None}
    BY DEF Linked, NamesAnnounced, GP!NoSession
  <2>4. \A name \in G!SeatedNames \cup G!BorneNames : name \in AnnouncedNames \cup {None}
    BY <2>1, <2>2, <2>3 DEF G!SeatedNames, G!BorneNames, G!Range
  <2>5. \A name \in G!Range(f) : name \notin AnnouncedNames \cup {None}
    BY <1>1, <1>4, <1>9, NoneIsToldTwice, NoneAssumption DEF G!Range
  <2> QED  BY <2>4, <2>5
<1>10. ASSUME HandedOffOnce'
       PROVE  S \cap G!SeatedUsers = {}
  BY <1>10, NoneIsToldTwice DEF G!SeatedUsers, Linked, SeatsAreTold, Announced
<1>11. HandedOffOnce' => G!IsNew(f)
  BY <1>4, <1>9, <1>10 DEF G!IsNew
<1>12. \E g \in [DOMAIN f -> G!IssuedTokens \cup {None}] :
         /\ \A u \in DOMAIN f :
              g[u] # None => "staleToken" \in {"sharedUsername", "staleToken"} /\ u \notin {}
         /\ claims' = claims \cup {[user |-> u, name |-> f[u], token |-> g[u],
                                    game |-> n, nonce |-> n] : u \in DOMAIN f}
  BY <1>2, <1>4, <1>5
<1>13. PICK seating : seating = f
  OBVIOUS
<1>14. G!Handoff(n, seating)
  BY <1>1, <1>3, <1>4, <1>6, <1>7, <1>8, <1>12, <1>13
     DEF G!Handoff, Waiting, gameVars, G!connVars, G!gameVars, G!returnVars
<1> QED  BY <1>1, <1>4, <1>11, <1>13, <1>14

(* The players of a stored setup are those who were told to come, and with
   them those who have a seat. *)
LEMMA SetupsMatch == LobbyKnown /\ Gathering /\ SeatsAreTold /\ serverUp => SetupsMatchClaims
<1>1. ASSUME LobbyKnown, Gathering, SeatsAreTold, serverUp,
             NEW n \in GameNames, pending[n] # None, DOMAIN seats[n] # {}
      PROVE  pending[n] = Range(seats[n])
  <2>1. \E cl \in told : cl.game = n
    BY <1>1 DEF SeatsAreTold
  <2>2. ASSUME NEW name \in pending[n]
        PROVE  name \in Range(seats[n])
    <3>1. \A h \in handoffs : h.game # n
      BY <1>1, <2>1 DEF LobbyKnown, LP!Orderly, LP!ClaimsSent
    <3>2. PICK cl \in told : cl.game = n /\ cl.name = name
      BY <1>1, <3>1 DEF LobbyKnown, LP!Complete, LP!Delivered
    <3>3. cl.conn \in DOMAIN seats[n] /\ seats[n][cl.conn] = name
      BY <1>1, <3>2 DEF SeatsAreTold, Gathering, ToldHaveCome
    <3> QED  BY <3>3 DEF Range
  <2>3. ASSUME NEW c \in DOMAIN seats[n]
        PROVE  seats[n][c] \in pending[n]
    <3>1. PICK cl \in told : cl.conn = c /\ cl.game = n
      BY <1>1 DEF SeatsAreTold
    <3>2. cl.name = seats[n][c]
      BY <1>1, <3>1 DEF SeatsAreTold, Gathering, ToldHaveCome
    <3> QED  BY <1>1, <3>1, <3>2 DEF LobbyKnown, LP!Orderly, LP!ClaimsSent
  <2>4. pending[n] \in SUBSET Usernames
    BY <1>1 DEF LobbyKnown, LP!Shape, LP!TypeOK, LP!Setups
  <2> QED  BY <2>2, <2>3, <2>4 DEF Range
<1> QED  BY <1>1 DEF SetupsMatchClaims

(* The setup that is loaded is the one the seats were handed out for. *)
LEMMA LoadIsLoad ==
  ASSUME LobbyKnown, GameServerKnown, Gathering, Linked, NEW c \in GameConns, LoadGame(c)
  PROVE  G!LoadGame(c)
<1> DEFINE n == sess[c].game
<1>1. /\ serverUp /\ phase[c] = "loading" /\ pending[n] # None /\ \E cl \in told : cl.game = n
      /\ pending' = [pending EXCEPT ![n] = None] /\ active' = active \cup {n}
      /\ serverUp' = serverUp /\ registry' = registry \cup {n}
      /\ G!TakeSeat(c, sess[c], [players |-> pending[n], started |-> FALSE, lock |-> {}])
      /\ UNCHANGED <<records, issueVars, deaf, endpoints, opp, manager, claimOf>>
  BY DEF LoadGame, L!Load, L!Quiet
<1>2. n \in GameNames
  BY <1>1 DEF GameServerKnown, GP!Ground, GP!Shape, GP!SessionsAreBuilt, GP!BuiltSessions
<1>3. n \in Waiting
  BY <1>1, <1>2 DEF Linked, SeatsAreTold, Waiting
<1>4. n \notin registry
  BY <1>3 DEF Waiting, GameServerKnown, GP!Ground, GP!Table, GP!PendingIsUntouched
<1>5. pending[n] = G!Range(seats[n])
  BY <1>1, <1>2, <1>3, SetupsMatch DEF Linked, SetupsMatchClaims, Waiting, Range, G!Range
<1>6. Waiting' = Waiting \ {n}
  <2>1. pending'[n] = None /\ \A m \in GameNames \ {n} : pending'[m] = pending[m]
    BY <1>1, <1>2 DEF LobbyKnown, LP!Shape, LP!TypeOK
  <2>2. seats' = seats
    BY <1>1 DEF issueVars
  <2> QED  BY <2>1, <2>2 DEF Waiting
<1> QED  BY <1>1, <1>4, <1>5, <1>6 DEF G!LoadGame, Waiting, issueVars, G!lobbyVars, G!returnVars

LEMMA StepIsGameServerStep ==
  ASSUME LobbyKnown, GameServerKnown, Gathering, Linked, [Next]_vars
  PROVE  [G!Next]_(G!vars) /\ [GP!Next]_(GP!vars)
<1> SUFFICES [G!Next]_(G!vars)
  BY GameServerIsG
<1>1. CASE CarryOn \/ \E c \in LobbyConns : Connects(c) \/ Greet(c) \/ Talk(c) \/ Close(c)
  <2>1. UNCHANGED <<Waiting, active, records, issueVars, gameVars>>
    BY <1>1, LobbyActsAlone DEF Linked
  <2>2. serverUp' = serverUp
    BY <1>1, LobbyKeepsUp DEF LobbyPart, GameServerKnown, GP!Ground
  <2> QED  BY <2>1, <2>2
           DEF G!vars, Waiting, issueVars, gameVars, G!storeVars, G!lobbyVars, G!connVars, G!gameVars,
               G!returnVars
<1>2. ASSUME NEW c \in LobbyConns, Redirect(c)
      PROVE  G!Next
  BY <1>2, RedirectIsForward DEF G!Next, G!ForwardSome
<1>3. ASSUME NEW t \in handoffs, Deliver(t)
      PROVE  G!Next
  <2>1. serverUp /\ serverUp' = serverUp
    BY <1>3, LobbyKeepsUp DEF LobbyPart, GameServerKnown, GP!Ground, Deliver, L!Deliver
  <2> QED  BY <1>3, <2>1, DeliveryIsHandoff DEF G!Next, G!HandoffSome
<1>4. ASSUME NEW c \in GameConns, LoadGame(c)
      PROVE  G!Next
  BY <1>4, LoadIsLoad DEF G!Next, G!Continue
<1>5. CASE GameServerStep
  BY <1>5 DEF GameServerStep, G!Next, G!Continue, G!TimeOut, G!DepartSome
<1>6. CASE UNCHANGED vars
  BY <1>6 DEF vars, issueVars, gameVars, G!vars, G!storeVars, G!lobbyVars, G!connVars, G!gameVars,
              G!returnVars
<1> QED  BY <1>1, <1>2, <1>3, <1>4, <1>5, <1>6 DEF Next, Connects

-----------------------------------------------------------------------------
(* What the two promise each other stays kept *)

(* What the rest of the lobby and the game server leave as it was issued *)
NothingIssued ==
  /\ told' = told /\ seats' = seats /\ forwards' = forwards /\ claims' \subseteq claims
  /\ \A c \in LobbyConns : lobbyPhase'[c] = "forwarded" <=> lobbyPhase[c] = "forwarded"

(* A client keeps the name it was given. *)
NamesStay == \A c \in LobbyConns : lobbyPhase[c] # "unused" => names'[c] = names[c]

LEMMA GameServerIssuesNothing ==
  ASSUME GameServerStep
  PROVE  UNCHANGED <<lobbyVars, cached, pending, seats, forwards>> /\ claims' \subseteq claims
<1>1. ASSUME NEW cl \in claims, NEW c \in GameConns,
             \/ G!AwaitSetup(c, cl) \/ G!FindNoGame(c, cl) \/ G!JoinBeforeStart(c, cl)
             \/ G!ClaimOpportunity(c, cl) \/ G!RefuseReconnection(c, cl)
      PROVE  forwards' = forwards /\ claims' \subseteq claims
  <2>1. G!Arrive(c, cl)
    BY <1>1 DEF G!AwaitSetup, G!FindNoGame, G!JoinBeforeStart, G!ClaimOpportunity, G!RefuseReconnection
  <2> QED  BY <2>1 DEF G!Arrive
<1>2. ASSUME \/ \E cl \in claims : G!RejectClaim(cl)
             \/ \E c \in GameConns : \/ G!Disconnect(c) \/ G!DisconnectThrows(c) \/ G!FinishClaim(c)
                                     \/ G!Expire(c) \/ G!FinishTimeout(c) \/ G!TimeoutThrows(c)
      PROVE  forwards' = forwards /\ claims' \subseteq claims
  BY <1>2 DEF G!RejectClaim, G!Disconnect, G!DisconnectThrows, G!FinishClaim, G!Expire,
              G!FinishTimeout, G!TimeoutThrows, G!lobbyVars
<1> QED  BY <1>1, <1>2 DEF GameServerStep, G!ArriveSome

LEMMA WhatIsIssued ==
  ASSUME LobbyKnown, GP!Shape, [Next]_vars
  PROVE  \/ \E c \in LobbyConns : Redirect(c)
         \/ \E t \in handoffs : Deliver(t)
         \/ NothingIssued
<1>1. lobbyPhase \in [LobbyConns -> LP!Phases]
  BY DEF LobbyKnown, LP!Shape, LP!TypeOK
<1>2. ASSUME NEW c \in LobbyConns, Connects(c) \/ Greet(c) \/ Talk(c) \/ Close(c)
      PROVE  NothingIssued
  BY <1>1, <1>2 DEF NothingIssued, Connects, Connect, Greet, Talk, Close, L!Connect, L!Greet, L!Close,
                L!CreateGame, L!JoinGame, L!LeaveGame, L!ToggleReady, L!sessionVars, issueVars
<1>3. CASE CarryOn
  BY <1>3 DEF NothingIssued, CarryOn, L!CarryOn, L!DrawSome, L!AskStatus, L!Settle, L!DrawAgain,
              L!Publish, L!Issue, L!sessionVars, issueVars
<1>4. ASSUME NEW c \in GameConns, LoadGame(c)
      PROVE  NothingIssued
  BY <1>4 DEF NothingIssued, LoadGame, L!Load, L!sessionVars, issueVars
<1>5. CASE GameServerStep
  BY <1>5, GameServerIssuesNothing DEF NothingIssued, lobbyVars
<1>6. CASE UNCHANGED vars
  BY <1>6 DEF NothingIssued, vars, lobbyVars, issueVars
<1> QED  BY <1>2, <1>3, <1>4, <1>5, <1>6 DEF Next, Connects

LEMMA NamesAreKept ==
  ASSUME LobbyKnown, [Next]_vars
  PROVE  NamesStay
<1>1. names \in [LobbyConns -> Usernames \cup {None}]
  BY DEF LobbyKnown, LP!Shape, LP!TypeOK
<1>2. ASSUME NEW c \in LobbyConns, Connects(c)
      PROVE  NamesStay
  BY <1>1, <1>2 DEF NamesStay, Connects, Connect, L!Connect
<1>3. ASSUME NEW c \in LobbyConns, Greet(c) \/ Redirect(c) \/ Talk(c) \/ Close(c)
      PROVE  names' = names
  BY <1>3 DEF Greet, Redirect, Talk, Close, L!Greet, L!Redirect, L!Close, L!CreateGame, L!JoinGame,
              L!LeaveGame, L!ToggleReady, L!sessionVars
<1>4. CASE CarryOn
  BY <1>4 DEF NamesStay, CarryOn, L!CarryOn, L!DrawSome, L!AskStatus, L!Settle, L!DrawAgain,
              L!Publish, L!Issue, L!sessionVars
<1>5. ASSUME \/ \E t \in handoffs : Deliver(t)
             \/ \E c \in GameConns : LoadGame(c)
             \/ GameServerStep \/ UNCHANGED vars
      PROVE  names' = names
  BY <1>5 DEF Deliver, L!Deliver, LoadGame, L!Load, L!sessionVars, GameServerStep, vars, lobbyVars
<1> QED  BY <1>2, <1>3, <1>4, <1>5 DEF Next, Connects, NamesStay

LEMMA SeatsAreToldStep ==
  ASSUME LobbyKnown, GameServerKnown, Gathering, Linked, [Next]_vars
  PROVE  SeatsAreTold'
<1>0. \A cl \in told : names'[cl.conn] = names[cl.conn]
  BY NamesAreKept DEF Gathering, ToldHaveCome, NamesStay
<1>1. CASE NothingIssued \/ \E c \in LobbyConns : Redirect(c)
  <2>1. told' = told /\ seats' = seats
    BY <1>1 DEF NothingIssued, Redirect, L!Redirect
  <2> QED  BY <1>0, <2>1 DEF Linked, SeatsAreTold
<1>2. ASSUME NEW t \in handoffs, Deliver(t)
      PROVE  SeatsAreTold'
  <2> DEFINE claim(c) == [conn |-> c, name |-> names[c], game |-> t.game]
             f == [c \in t.holders |-> names[c]]
  <2>1. serverUp /\ LP!Deliver(t)
    BY <1>2, LobbyGoesOn DEF Deliver, L!Deliver
  <2>2. t.game \in GameNames /\ seats' = [seats EXCEPT ![t.game] = f]
    BY <1>2, <2>1, AllAreSeated
  <2>3. names' = names /\ told' = told \cup {claim(c) : c \in t.holders} /\ \A cl \in told : cl.game # t.game
    BY <2>1, AllAreTold
  <2>4. seats \in [GameNames -> GP!Seatings]
    BY DEF GameServerKnown, GP!Ground, GP!Shape, GP!TypeOK
  <2>5. DOMAIN f = t.holders /\ \A c \in t.holders : f[c] = names[c]
    OBVIOUS
  <2>6. \A c : claim(c).conn = c /\ claim(c).game = t.game
    OBVIOUS
  <2> HIDE DEF claim, f
  <2>7. seats'[t.game] = f /\ \A n \in GameNames \ {t.game} : seats'[n] = seats[n]
    BY <2>2, <2>4
  <2>8. ASSUME NEW n \in GameNames \ {t.game}
        PROVE  /\ \A c : c \in DOMAIN seats'[n] <=> \E cl \in told' : cl.conn = c /\ cl.game = n
               /\ \A c \in DOMAIN seats'[n] : seats'[n][c] = names'[c]
    BY <2>3, <2>6, <2>7 DEF Linked, SeatsAreTold
  <2>9. /\ \A c : c \in DOMAIN seats'[t.game] <=> \E cl \in told' : cl.conn = c /\ cl.game = t.game
        /\ \A c \in DOMAIN seats'[t.game] : seats'[t.game][c] = names'[c]
    BY <2>3, <2>5, <2>6, <2>7
  <2> QED  BY <2>8, <2>9 DEF SeatsAreTold
<1> QED  BY <1>1, <1>2, WhatIsIssued DEF GameServerKnown, GP!Ground

(* Whoever was told, or forwarded, was so for good and under that name. *)
LEMMA AnnouncedStays ==
  ASSUME LobbyKnown, Gathering, GP!Shape, [Next]_vars
  PROVE  /\ \A c \in LobbyConns : Announced(c) => Announced(c)' /\ names'[c] = names[c]
         /\ AnnouncedNames \subseteq AnnouncedNames'
<1>1. lobbyPhase \in [LobbyConns -> LP!Phases]
  BY DEF LobbyKnown, LP!Shape, LP!TypeOK
<1>2. /\ told \subseteq told'
      /\ \A c \in LobbyConns : lobbyPhase[c] = "forwarded" => lobbyPhase'[c] = "forwarded"
  BY <1>1, WhatIsIssued
     DEF NothingIssued, Redirect, Deliver, L!Redirect, L!Deliver, L!sessionVars
<1>3. ASSUME NEW c \in LobbyConns, Announced(c)
      PROVE  Announced(c)' /\ names'[c] = names[c]
  <2>1. lobbyPhase[c] # "unused"
    BY <1>3 DEF Announced, Gathering, ToldHaveCome
  <2> QED  BY <1>2, <1>3, <2>1, NamesAreKept DEF Announced, NamesStay
<1> QED  BY <1>3 DEF AnnouncedNames

(* Whoever has been handed off twice has been for good. *)
LEMMA OnceBefore ==
  ASSUME LobbyKnown, GameServerKnown, Gathering, Linked, [Next]_vars, HandedOffOnce'
  PROVE  HandedOffOnce
<1>1. GP!Shape
  BY DEF GameServerKnown, GP!Ground
<1>2. \A n \in GameNames : DOMAIN seats[n] \subseteq DOMAIN seats'[n]
  <2>1. ASSUME NEW t \in handoffs, Deliver(t)
        PROVE  \A n \in GameNames : DOMAIN seats[n] # {} => seats'[n] = seats[n]
    <3>1. serverUp
      BY <2>1 DEF Deliver, L!Deliver
    <3> QED  BY <1>1, <2>1, <3>1, AllAreSeated DEF GP!Shape, GP!TypeOK
  <2>2. NothingIssued \/ (\E c \in LobbyConns : Redirect(c)) => seats' = seats
    BY DEF NothingIssued, Redirect
  <2> QED  BY <1>1, <2>1, <2>2, WhatIsIssued
<1>3. \A m, n \in GameNames : m # n => DOMAIN seats[m] \cap DOMAIN seats[n] = {}
  BY <1>2 DEF HandedOffOnce
<1>4. \A c, d \in LobbyConns : Announced(c) /\ Announced(d) /\ names[c] = names[d] => c = d
  BY <1>1, AnnouncedStays DEF HandedOffOnce
<1> QED  BY <1>3, <1>4 DEF HandedOffOnce

(* Until somebody is handed off twice, what the lobby does is what the game
   server was proved correct under. *)
LEMMA HandsOffOnce ==
  ASSUME LobbyKnown, GameServerKnown, Gathering, Linked, [Next]_vars, HandedOffOnce'
  PROVE  GP!HandsOffOnce
<1>1. GP!Shape
  BY DEF GameServerKnown, GP!Ground
<1>2. GP!HandoffSome => seats' # seats
  <2>1. ASSUME NEW n \in GameNames, NEW S, NEW f \in [S -> Usernames], GP!Handoff(n, f), seats' = seats
        PROVE  FALSE
    <3>1. DOMAIN seats[n] = {} /\ DOMAIN f # {} /\ seats' = [seats EXCEPT ![n] = f]
      BY <2>1 DEF GP!Handoff
    <3> QED  BY <1>1, <2>1, <3>1 DEF GP!Shape, GP!TypeOK
  <2> QED  BY <2>1 DEF GP!HandoffSome
<1>3. GP!ForwardSome => forwards' # forwards
  BY <1>1 DEF GP!ForwardSome, GP!Forward, GP!Shape, GP!TypeOK
<1>4. CASE NothingIssued
  BY <1>2, <1>3, <1>4 DEF NothingIssued, GP!HandsOffOnce
<1>5. ASSUME NEW c \in LobbyConns, Redirect(c)
      PROVE  GP!HandsOffOnce
  <2>1. seats' = seats
    BY <1>5 DEF Redirect
  <2>2. PICK k \in G!Keys, name \in Usernames : G!Forward(k, name) /\ name \notin G!SeatedNames
    BY <1>5, RedirectIsForward
  <2>3. k \in GP!Keys /\ GP!Forward(k, name) /\ name \notin GP!SeatedNames
    BY <2>2, GameServerIsTold
       DEF G!Keys, GP!Keys, G!Tokens, GP!Tokens, G!SeatedNames, GP!SeatedNames, G!Range, GP!Range
  <2> QED  BY <1>2, <2>1, <2>3 DEF GP!HandsOffOnce
<1>6. ASSUME NEW t \in handoffs, Deliver(t)
      PROVE  GP!HandsOffOnce
  <2>1. forwards' = forwards
    BY <1>6 DEF Deliver
  <2>2. serverUp /\ serverUp' = serverUp
    BY <1>1, <1>6, LobbyKeepsUp DEF LobbyPart, Deliver, L!Deliver
  <2>3. PICK n \in GameNames, S \in SUBSET LobbyConns :
          \E f \in [S -> Usernames] : G!Handoff(n, f) /\ G!IsNew(f)
    BY <1>6, <2>2, DeliveryIsHandoff
  <2>4. PICK f \in [S -> Usernames] : G!Handoff(n, f) /\ G!IsNew(f)
    BY <2>3
  <2>5. GP!Handoff(n, f) /\ GP!IsNew(f)
    BY <2>4, GameServerIsTold, NewIsNew
  <2> QED  BY <1>3, <2>1, <2>5 DEF GP!HandsOffOnce
<1> QED  BY <1>1, <1>4, <1>5, <1>6, WhatIsIssued

LEMMA NamesAnnouncedStep ==
  ASSUME LobbyKnown, GameServerKnown, Gathering, Linked, [Next]_vars
  PROVE  NamesAnnounced'
<1>1. GP!Shape /\ [GP!Next]_(GP!vars)
  BY StepIsGameServerStep DEF GameServerKnown, GP!Ground
<1>2. AnnouncedNames \subseteq AnnouncedNames'
  BY <1>1, AnnouncedStays
<1>3. ASSUME NEW cl \in claims'
      PROVE  cl.name \in AnnouncedNames'
  <2>1. CASE cl \in claims
    BY <1>2, <2>1 DEF Linked, NamesAnnounced
  <2>2. ASSUME NEW c \in LobbyConns, Redirect(c), cl \notin claims
        PROVE  cl.name \in AnnouncedNames'
    <3>1. cl.name = names[c] /\ lobbyPhase[c] = "looking" /\ lobbyPhase' = [lobbyPhase EXCEPT ![c] = "forwarded"]
      BY <2>2 DEF Redirect, L!Redirect
    <3>2. names'[c] = names[c] /\ lobbyPhase'[c] = "forwarded"
      BY <3>1, NamesAreKept DEF NamesStay, LobbyKnown, LP!Shape, LP!TypeOK
    <3> QED  BY <3>1, <3>2 DEF AnnouncedNames, Announced
  <2>3. ASSUME NEW t \in handoffs, Deliver(t), cl \notin claims
        PROVE  cl.name \in AnnouncedNames'
    <3>1. serverUp /\ LP!Deliver(t)
      BY <2>3, LobbyGoesOn DEF Deliver, L!Deliver
    <3>2. PICK c \in t.holders : cl.name = names[c]
      <4>1. claims' = claims \cup
              {[user |-> c, name |-> names[c], token |-> cached[c],
                game |-> t.game, nonce |-> t.game] : c \in t.holders}
        BY <2>3, <3>1, AllAreSeated
      <4> QED  BY <2>3, <4>1
    <3>3. c \in LobbyConns /\ names' = names
      BY <2>3, <3>1, AllAreSeated, AllAreTold
    <3>4. [conn |-> c, name |-> names[c], game |-> t.game] \in told'
      BY <3>1, AllAreTold
    <3>5. Announced(c)'
      BY <3>4 DEF Announced
    <3> QED  BY <3>2, <3>3, <3>5 DEF AnnouncedNames
  <2> QED  BY <1>1, <2>1, <2>2, <2>3, WhatIsIssued DEF NothingIssued
<1>4. ASSUME NEW c \in GameConns, phase'[c] # "unused"
      PROVE  sess'[c].name \in AnnouncedNames'
  <2>1. CASE \E cl \in claims : sess'[c].name = cl.name
    BY <1>2, <2>1 DEF Linked, NamesAnnounced
  <2>2. CASE phase[c] # "unused" /\ sess'[c].name = sess[c].name
    BY <1>2, <2>2 DEF Linked, NamesAnnounced
  <2>3. CASE phase[c] = "claiming" /\ sess'[c].name = sess[claimOf[c]].name
    <3>1. claimOf[c] \in GameConns /\ phase[claimOf[c]] # "unused"
      BY <1>1, <2>3 DEF GP!Shape, GP!ClaimsAreOfLeft, GP!OpportunitiesAreLeft
    <3> QED  BY <1>2, <2>3, <3>1 DEF Linked, NamesAnnounced
  <2> QED  BY <1>1, <1>4, <2>1, <2>2, <2>3, GP!SessionStep, GameServerAssumed
<1>5. ASSUME NEW c \in GameConns, phase'[c] = "unused"
      PROVE  sess'[c] = GP!NoSession
  BY <1>1, <1>5, GP!NotYetCome, GP!UsedStays, GameServerAssumed DEF Linked, NamesAnnounced
<1> QED  BY <1>3, <1>4, <1>5 DEF NamesAnnounced, GP!NoSession
LEMMA CachedIsIssuedStep ==
  ASSUME LobbyKnown, GameServerKnown, Gathering, Linked, [Next]_vars
  PROVE  CachedIsIssued'
<1>1. GP!Shape /\ [GP!Next]_(GP!vars)
  BY StepIsGameServerStep DEF GameServerKnown, GP!Ground
<1>2. ASSUME NEW k \in GameConns, phase[k] # "unused", sess[k].token = k
      PROVE  phase'[k] # "unused" /\ sess'[k].token = k
  BY <1>1, <1>2, GP!UsedStays, GP!SessionStep, GameServerAssumed
<1>3. ASSUME NEW c \in LobbyConns, NEW token \in G!IssuedTokens \cup {None}, NEW name,
             Connect(c, token, name)
      PROVE  CachedIsIssued'
  <2>1. cached' = [cached EXCEPT ![c] = token]
    BY <1>3 DEF Connect
  <2>2. token # None => /\ token \in GameConns /\ phase[token] # "unused" /\ sess[token].token = token
    <3>1. token # None => token \in GameConns /\ sess[token].token = token
      BY DEF G!IssuedTokens
    <3>2. token # None /\ phase[token] = "unused" => sess[token] = GP!NoSession
      BY <3>1 DEF Linked, NamesAnnounced
    <3>3. GP!NoSession.token = None
      BY DEF GP!NoSession
    <3> QED  BY <3>1, <3>2, <3>3
  <2>3. \A d \in LobbyConns : cached'[d] \in {cached[d], token}
    BY <2>1 DEF Linked, CachedIsIssued
  <2> QED  BY <1>2, <2>1, <2>2, <2>3 DEF Linked, CachedIsIssued
<1>4. CASE cached' = cached
  BY <1>2, <1>4 DEF Linked, CachedIsIssued
<1>5. \/ cached' = cached
      \/ \E c \in LobbyConns, token \in G!IssuedTokens \cup {None}, name \in Usernames :
           Connect(c, token, name)
  BY DEF Next, Greet, Redirect, Talk, Close, CarryOn, Deliver, LoadGame, GameServerStep, vars
<1> QED  BY <1>3, <1>4, <1>5

LEMMA ForwardsCountedStep ==
  ASSUME LobbyKnown, GameServerKnown, Gathering, Linked, [Next]_vars
  PROVE  ForwardsCounted'
<1> DEFINE F == {c \in LobbyConns : lobbyPhase[c] = "forwarded"}
<1>1. forwards = Cardinality(F) /\ IsFiniteSet(F)
  BY FS_Subset, ConnsAssumption DEF Linked, ForwardsCounted
<1>2. CASE forwards' = forwards /\ F' = F
  BY <1>1, <1>2 DEF ForwardsCounted
<1>3. ASSUME NEW c \in LobbyConns, Redirect(c)
      PROVE  ForwardsCounted'
  <2>1. /\ lobbyPhase[c] = "looking" /\ forwards' = forwards + 1
        /\ lobbyPhase' = [lobbyPhase EXCEPT ![c] = "forwarded"]
    BY <1>3 DEF Redirect, L!Redirect
  <2>2. F' = F \cup {c} /\ c \notin F
    BY <2>1 DEF LobbyKnown, LP!Shape, LP!TypeOK
  <2> HIDE DEF F
  <2>3. Cardinality(F') = Cardinality(F) + 1
    BY <1>1, <2>2, FS_AddElement
  <2> QED  BY <1>1, <2>1, <2>3 DEF ForwardsCounted, F
<1>4. ASSUME NEW t \in handoffs, Deliver(t)
      PROVE  forwards' = forwards /\ F' = F
  BY <1>4 DEF Deliver, L!Deliver, L!sessionVars
<1>5. NothingIssued => forwards' = forwards /\ F' = F
  BY DEF NothingIssued
<1> QED  BY <1>2, <1>3, <1>4, <1>5, WhatIsIssued DEF GameServerKnown, GP!Ground

LEMMA HandedInNameStep ==
  ASSUME LobbyKnown, GameServerKnown, Gathering, Linked, [Next]_vars
  PROVE  HandedInName'
<1>1. GP!Shape
  BY DEF GameServerKnown, GP!Ground
<1>2. CASE NothingIssued
  BY <1>2 DEF NothingIssued, Linked, HandedInName
<1>3. ASSUME NEW c \in LobbyConns, Redirect(c)
      PROVE  HandedInName'
  <2>1. forwards + 1 \notin GameNames
    BY <1>1, NoncesAssumption, GameServerAssumed DEF GP!Shape, GP!TypeOK
  <2>2. \A cl \in claims' : cl \in claims \/ cl.nonce = forwards + 1
    BY <1>3 DEF Redirect
  <2>3. seats' = seats
    BY <1>3 DEF Redirect
  <2> QED  BY <2>1, <2>2, <2>3 DEF Linked, HandedInName
<1>4. ASSUME NEW t \in handoffs, Deliver(t)
      PROVE  HandedInName'
  <2> DEFINE f == [c \in t.holders |-> names[c]]
  <2>1. serverUp
    BY <1>4 DEF Deliver, L!Deliver
  <2>2. /\ t.game \in GameNames /\ DOMAIN seats[t.game] = {}
        /\ seats' = [seats EXCEPT ![t.game] = f]
    BY <1>4, <2>1, AllAreSeated
  <2>3. claims' = claims \cup
          {[user |-> c, name |-> names[c], token |-> cached[c],
            game |-> t.game, nonce |-> t.game] : c \in t.holders}
    BY <1>4, <2>1, AllAreSeated
  <2>4. \A c \in t.holders : f[c] = names[c]
    OBVIOUS
  <2> HIDE DEF f
  <2>5. \A cl \in claims' : cl \in claims \/
          (cl.game = t.game /\ cl.user \in t.holders /\ cl.name = names[cl.user])
    BY <2>3
  <2>6. seats'[t.game] = f /\ \A n \in GameNames \ {t.game} : seats'[n] = seats[n]
    BY <1>1, <2>2 DEF GP!Shape, GP!TypeOK
  <2>7. \A cl \in claims : cl.game \in GameNames \ {t.game}
    <3>2. \A cl \in claims : cl.user \in DOMAIN seats[cl.game] /\ cl.game \in GameNames
      BY DEF GameServerKnown, GP!Ground, GP!Issued, GP!Shape, GP!TypeOK, GP!Claims
    <3> QED  BY <2>2, <3>2
  <2> QED  BY <2>4, <2>5, <2>6, <2>7 DEF Linked, HandedInName
<1> QED  BY <1>1, <1>2, <1>3, <1>4, WhatIsIssued

(* Two handlers of the one process are never under way at once. *)
LEMMA OneAtATimeStep ==
  ASSUME LobbyKnown, GameServerKnown, Gathering, Linked, [Next]_vars
  PROVE  OneAtATime'
<1>1. GP!Shape
  BY DEF GameServerKnown, GP!Ground
<1>2. ASSUME GameServerIdle, UNCHANGED gameVars
      PROVE  OneAtATime'
  BY <1>2 DEF OneAtATime, GameServerIdle, gameVars
<1>3. ASSUME LobbyIdle, UNCHANGED <<creating, handoffs, lobbyPhase>>
      PROVE  OneAtATime'
  BY <1>3 DEF OneAtATime, LobbyIdle
<1>4. /\ Idle => LobbyIdle /\ GameServerIdle
      /\ serverUp /\ ~LobbyIdle => GameServerIdle
      /\ serverUp /\ ~GameServerIdle => LobbyIdle
  BY DEF Idle, L!Quiet, G!MayDispatch, LobbyIdle, GameServerIdle, Linked, OneAtATime
<1>5. ASSUME NEW c \in LobbyConns, Connects(c) \/ Talk(c) \/ Close(c)
      PROVE  OneAtATime'
  BY <1>2, <1>4, <1>5 DEF Connects, Connect, Talk, Close
<1>6. ASSUME NEW c \in LobbyConns, Greet(c) \/ Redirect(c)
      PROVE  OneAtATime'
  <2>1. serverUp /\ ~LobbyIdle /\ UNCHANGED gameVars
    BY <1>6 DEF Greet, Redirect, L!Greet, L!Redirect, LobbyIdle
  <2> QED  BY <1>2, <1>4, <2>1
<1>7. ASSUME CarryOn \/ \E t \in handoffs : Deliver(t)
      PROVE  OneAtATime'
  <2>1. serverUp /\ ~LobbyIdle /\ UNCHANGED gameVars
    BY <1>7 DEF CarryOn, Deliver, L!CarryOn, L!DrawSome, L!AskStatus, L!Settle, L!DrawAgain, L!Publish,
                L!Issue, L!Deliver, LobbyIdle
  <2> QED  BY <1>2, <1>4, <2>1
<1>8. ASSUME NEW c \in GameConns, LoadGame(c)
      PROVE  OneAtATime'
  <2>1. LobbyIdle /\ UNCHANGED <<creating, handoffs, lobbyPhase>>
    BY <1>8 DEF LoadGame, L!Load, L!Quiet, LobbyIdle, L!taskVars, L!sessionVars
  <2> QED  BY <1>3, <2>1
<1>9. CASE GameServerStep
  <2>1. UNCHANGED <<creating, handoffs, lobbyPhase>>
    BY <1>9 DEF GameServerStep, lobbyVars
  <2>2. LobbyIdle
    BY <1>4, <1>9 DEF GameServerStep, GameServerIdle, G!FinishClaim, G!FinishTimeout, G!TimeoutThrows
  <2> QED  BY <1>3, <2>1, <2>2
<1>10. CASE UNCHANGED vars
  BY <1>10 DEF vars, lobbyVars, gameVars, Linked, OneAtATime, LobbyIdle, GameServerIdle
<1> QED  BY <1>5, <1>6, <1>7, <1>8, <1>9, <1>10 DEF Next, Connects

-----------------------------------------------------------------------------
(* All of it is an invariant *)

Together ==
  LobbyKnown /\ GameServerKnown /\ Gathering /\ Linked /\ (HandedOffOnce => KnownOnce)

LEMMA TogetherInit == Init => Together /\ SetupsMatchClaims
<1> SUFFICES ASSUME Init PROVE Together /\ SetupsMatchClaims
  OBVIOUS
<1>1. LP!Init
  BY DEF Init, L!Init, LP!Init
<1>2. GP!Init
  BY GameServerInit DEF Init
<1>3. LobbyKnown
  <2>1. LP!Shape
    BY <1>1, LP!ShapeInit, LobbyAssumed
  <2>2. LP!Seats
    BY <1>1 DEF LP!Init, LP!Seats, LP!NamesApart, LP!Agreed, LP!HasEndpoint
  <2>3. LP!Orderly /\ LP!Standing /\ LP!Complete
    BY <1>1 DEF LP!Init, LP!Orderly, LP!NamesDrawn, LP!GamesHandedOff, LP!ClaimsSent,
                LP!NamesStayUnique, LP!Standing, LP!Complete, LP!Delivered
  <2> QED  BY <2>1, <2>2, <2>3 DEF LobbyKnown
<1>4. GameServerKnown
  <2>1. GP!Ground
    BY <1>2, GP!GroundInit, GameServerAssumed
  <2>2. GP!Findable
    BY <1>2 DEF GP!Init, GP!Findable, GP!OpportunitiesAreRecorded
  <2> QED  BY <2>1, <2>2 DEF GameServerKnown
<1>5. Gathering
  <2>1. \A n \in GameNames : pending[n] # {}
    BY <1>1, LobbyAssumed DEF LP!Init
  <2> QED  BY <1>1, <2>1 DEF LP!Init, Gathering, InGameIsMet, HoldersStay, RostersFilled, ToldHaveCome
<1>6. Linked /\ SetupsMatchClaims
  <2>1. DOMAIN [u \in {} |-> None] = {}
    OBVIOUS
  <2>2. \A n \in GameNames : DOMAIN seats[n] = {}
    BY <2>1 DEF Init
  <2>3. {c \in LobbyConns : lobbyPhase[c] = "forwarded"} = {} /\ Cardinality({}) = 0
    BY <1>1, FS_EmptySet DEF LP!Init
  <2>4. SeatsAreTold /\ SetupsMatchClaims
    BY <1>1, <2>2 DEF LP!Init, SeatsAreTold, SetupsMatchClaims
  <2>5. NamesAnnounced /\ CachedIsIssued /\ ForwardsCounted /\ HandedInName
    BY <1>2, <2>3 DEF Init, GP!Init, NamesAnnounced, CachedIsIssued, ForwardsCounted, HandedInName
  <2>6. OneAtATime
    BY <1>1 DEF LP!Init, OneAtATime, LobbyIdle
  <2> QED  BY <2>4, <2>5, <2>6 DEF Linked
<1>7. KnownOnce
  BY <1>2, GP!KeptInit, GameServerAssumed DEF KnownOnce
<1> QED  BY <1>3, <1>4, <1>5, <1>6, <1>7 DEF Together

(* A step after which still no one has been handed off twice *)
LEMMA OnceStep ==
  ASSUME Together, [Next]_vars, HandedOffOnce'
  PROVE  /\ KnownOnce /\ KnownOnce'
         /\ GP!HandsOffOnce /\ [GP!Next]_(GP!vars)
<1>1. KnownOnce /\ GP!HandsOffOnce /\ [GP!Next]_(GP!vars)
  BY OnceBefore, HandsOffOnce, StepIsGameServerStep DEF Together
<1>2. KnownOnce'
  BY <1>1, GP!HeldStep, GameServerAssumed DEF KnownOnce
<1> QED  BY <1>1, <1>2

LEMMA TogetherStep == Together /\ [Next]_vars => Together'
<1> SUFFICES ASSUME Together, [Next]_vars PROVE Together'
  OBVIOUS
<1> USE DEF Together
<1>1. [GP!Next]_(GP!vars) /\ GP!Shape
  BY StepIsGameServerStep DEF GameServerKnown, GP!Ground
<1>2. GameServerKnown'
  <2>1. GP!Ground'
    BY <1>1, GP!GroundStep, GameServerAssumed DEF GameServerKnown
  <2>2. GP!Findable'
    BY <1>1, GP!FindableStep, GameServerAssumed DEF GameServerKnown
  <2> QED  BY <2>1, <2>2 DEF GameServerKnown
<1>3. LobbyKnown'
  <2>1. serverUp' \in BOOLEAN
    BY <1>2 DEF GameServerKnown, GP!Ground, GP!Shape, GP!TypeOK
  <2> QED  BY <1>1, <2>1, LobbyStaysKnown
<1>4. Gathering'
  BY <1>1, GatheringStep
<1>5. Linked'
  BY SeatsAreToldStep, NamesAnnouncedStep, CachedIsIssuedStep, ForwardsCountedStep, HandedInNameStep,
     OneAtATimeStep
     DEF Linked
<1>6. HandedOffOnce' => KnownOnce'
  BY OnceStep
<1> QED  BY <1>2, <1>3, <1>4, <1>5, <1>6

LEMMA TogetherAlways == Spec => []Together
<1>1. Init => Together
  BY TogetherInit
<1> QED  BY <1>1, TogetherStep, PTL DEF Spec

-----------------------------------------------------------------------------
(* The theorems *)

(* The lobby is an environment of GameServer, whatever is done in it short of
   LobbyServer's quirks: every handoff (initiateGameHandoff) is into a game
   nobody has a seat in, every client it sends back
   (evaluateConnectionContext) is one the records know, and the setup that is
   loaded has the players the claims were made for.  Who is handed off may have
   been before, may bear a name a seat bears already and may bring the token of
   an earlier game: GameServer's two quirks. *)
THEOREM LobbyIsTheEnvironment == Spec => ImplementsGameServer
<1>1. Init => G!Init
  BY DEF Init
<1>2. Together /\ [Next]_vars => [G!Next]_(G!vars)
  BY StepIsGameServerStep DEF Together
<1> QED  BY <1>1, <1>2, TogetherAlways, PTL DEF Spec, ImplementsGameServer, G!Spec

(* The game that is loaded is the one the claims were made for, although setup
   and claims are read off the lobby's game at different times, and the process
   may end in between. *)
THEOREM LoadedAsClaimed == Spec => []SetupsMatchClaims
<1>1. Init => SetupsMatchClaims
  BY TogetherInit
<1>2. Together /\ serverUp => SetupsMatchClaims
  BY SetupsMatch DEF Together, Linked
<1>3. ASSUME Together, SetupsMatchClaims, [Next]_vars, ~serverUp'
      PROVE  SetupsMatchClaims'
  <2>1. GP!Shape
    BY <1>3 DEF Together, GameServerKnown, GP!Ground
  <2>2. ~LobbyPart
    BY <1>3, <2>1, LobbyStep, LobbyRuns, LobbyKeepsUp DEF Together
  <2>3. UNCHANGED <<pending, seats>>
    BY <1>3, <2>2 DEF Next, LobbyPart, Connects, GameServerStep, vars, issueVars
  <2> QED  BY <1>3, <2>3 DEF SetupsMatchClaims
<1>4. Together /\ SetupsMatchClaims /\ [Next]_vars => serverUp' \/ SetupsMatchClaims'
  BY <1>3
<1> QED  BY <1>1, <1>2, <1>4, TogetherAlways, PTL DEF Spec

(* No game server runs a game under the name of one the lobby still gathers
   players for, whichever of the three places gameExistsByName asks the name
   has moved to. *)
THEOREM OneGamePerName == Spec => []NamesAreOfOneGame
<1>1. Together => NamesAreOfOneGame
  BY DEF Together, LobbyKnown, LP!Orderly, LP!NamesStayUnique, GameServerKnown, GP!Findable,
         NamesAreOfOneGame
<1> QED  BY <1>1, TogetherAlways, PTL

(* A guest whose opportunity still runs, in a game that still runs, is found
   in the records under the token they bring, and is never taken for a
   newcomer. *)
THEOREM ReturnersAreFound == Spec => ReturnersAreRedirected
<1> DEFINE Redirected ==
      \A c \in LobbyConns : Greet(c) /\ G!Claimable(cached[c]) =>
        sess[manager[cached[c]]].game \notin registry
<1>1. ASSUME Together, NEW c \in LobbyConns, Greet(c), G!Claimable(cached[c]),
             sess[manager[cached[c]]].game \in registry
      PROVE  FALSE
  <2>1. cached[c] \in GP!Keys /\ manager[cached[c]] # None /\ cached[c] # None
    BY <1>1 DEF Together, Linked, CachedIsIssued, G!Claimable, GP!Keys, GP!Tokens
  <2>2. /\ records[cached[c]] # None /\ records[cached[c]].game \in active
    BY <1>1, <2>1 DEF Together, GameServerKnown, GP!Findable, GP!OpportunitiesAreRecorded
  <2> QED  BY <1>1, <2>1, <2>2 DEF Greet, Known
<1>2. Together /\ [Next]_vars => [Redirected]_vars
  BY <1>1
<1> QED  BY <1>2, TogetherAlways, PTL DEF Spec, ReturnersAreRedirected

(* While no one has been handed off twice, a claim that came with the game gets
   its owner in whenever it is shown: the game waits for them, or their setup
   does. *)
THEOREM FirstComersAreLetIn == Spec => FirstComersGetIn
<1> DEFINE GetIn ==
      HandedOffOnce => \A cl \in claims \ claims' : cl.nonce \in GameNames =>
        \E c \in GameConns : phase[c] = "unused" /\ phase'[c] \in {"loading", "joined"}
<1>1. ASSUME Together, [Next]_vars, HandedOffOnce,
             NEW cl \in claims, cl \notin claims', cl.nonce \in GameNames
      PROVE  \E c \in GameConns : phase[c] = "unused" /\ phase'[c] \in {"loading", "joined"}
  <2>1. [GP!Next]_(GP!vars) /\ GP!Shape
    BY <1>1, StepIsGameServerStep DEF Together, GameServerKnown, GP!Ground
  <2>2. serverUp
    BY <1>1, <2>1, LobbyStep, LobbyRuns, GameServerRuns DEF Next, LobbyPart, Connects, vars, issueVars
  <2>3. cl.name = seats[cl.game][cl.user]
    BY <1>1 DEF Together, Linked, HandedInName
  <2>4. GP!Unseen(cl.user)
    BY <1>1, <2>2, <2>3
       DEF Together, KnownOnce, GP!Held, GP!FirstClaims, GP!SeenOf, GP!Unseen
  <2> QED  BY <1>1, <2>1, <2>3, <2>4, GP!NewcomerGetsIn, GameServerAssumed DEF Together, KnownOnce
<1>2. Together /\ [Next]_vars => [GetIn]_vars
  BY <1>1
<1> QED  BY <1>2, TogetherAlways, PTL DEF Spec, FirstComersGetIn

(* The promise of SeatPromise reads the same in the two. *)
LEMMA PromiseStartsAsOne == GP!Kept!Init => G!Kept!Init
BY Zenon
   DEF G!SeatStage, GP!SeatStage, G!HasSession, GP!HasSession, G!SitsIn, GP!SitsIn, G!Awaited, GP!Awaited,
       G!AcceptsInput, GP!AcceptsInput, G!Kept!Init, GP!Kept!Init

LEMMA PromiseIsOne == [GP!Kept!Next]_(GP!Kept!vars) => [G!Kept!Next]_(G!Kept!vars)
BY Zenon
   DEF G!SeatStage, GP!SeatStage, G!HasSession, GP!HasSession, G!SitsIn, GP!SitsIn, G!Awaited, GP!Awaited,
       G!AcceptsInput, GP!AcceptsInput, G!Kept!vars, GP!Kept!vars,
       G!Kept!Next, GP!Kept!Next, G!Kept!Crash, GP!Kept!Crash,
       G!Kept!HandOff, GP!Kept!HandOff, G!Kept!Pause, GP!Kept!Pause, G!Kept!Arrive, GP!Kept!Arrive,
       G!Kept!Return, GP!Kept!Return, G!Kept!Drop, GP!Kept!Drop, G!Kept!GiveUp, GP!Kept!GiveUp,
       G!Kept!Move, GP!Kept!Move, G!Kept!Opening, GP!Kept!Opening, G!Kept!Settled, GP!Kept!Settled

(* As long as the lobby has handed no one off twice, both servers together keep
   the promise of SeatPromise: seats are taken, left, returned to and given up
   only as it allows, and no game takes input while a player is waited for, also
   with guests who bring an old token or leave the lobby's game after its
   handoff. *)
THEOREM PromiseIsKept == Spec => SeatsAreKept
<1>1. ASSUME Together, [Next]_vars, HandedOffOnce'
      PROVE  [G!Kept!Next]_(G!Kept!vars)
  BY <1>1, OnceStep, GP!KeptStep, GameServerAssumed, PromiseIsOne DEF KnownOnce
<1>2. Together /\ [Next]_vars => [HandedOffOnce' => [G!Kept!Next]_(G!Kept!vars)]_vars
  BY <1>1
<1>3. Init => G!Kept!Init
  BY GameServerInit, GP!KeptInit, GameServerAssumed, PromiseStartsAsOne DEF Init
<1> QED  BY <1>2, <1>3, TogetherAlways, PTL DEF Spec, SeatsAreKept
=============================================================================
