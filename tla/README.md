# Game servers and reconnection: a TLA+ model

The repository is a demonstration of how players of a multiplayer game get back
into a game they were disconnected from. Clients gather in a game on a *lobby
server*, are handed off to a *game server*, and, when their connection drops,
return through the lobby, which finds a *forwarding record* in a central store and
sends them back. This directory holds specifications of those two servers,
model-checked with TLC on small instances one by one and together, an abstract
specification of what they promise a player, and theorems proved with TLAPS for every
value of the constants. Paths below are relative to the repository; line numbers are in
`PROJECT.json` (`map`).

    tlc  -config GameServerInProcess.cfg MCGameServer.tla
    tlapm GameServerRefinement.tla

## 1. The system

### Components, state and operations

| component | state it keeps | operations | in the model |
|---|---|---|---|
| lobby server (`lobby-server/index.ts`, `controllers/`) | sessions of guests, lobby games, endpoints | connect, create / join / leave game, toggle readiness, disconnect | `LobbyServer` |
| game handoff (`lobby-server/game-handoff/`) | none of its own; a copy of the game while it runs | pick a server, store the setup, seal one claim token per player | `LobbyServer`: `Publish`, `Issue`, `Deliver`; `GameServer`: `Handoff` |
| lobby reconnection protocol (`lobby-server/reconnection-protocol.ts`) | none | find the record of a connecting client, issue a claim | `GameServer`: `Forward`; `LobbyServer`: `Redirect`; both at once, with the lookup, in `System` |
| game session store (`services/game-session-store`) | pending setups, active-game status | write, read, delete by game name | `pending`, `activeGames` / `active` |
| forwarding record store (`services/game-server-reconnection-forwarding-record`) | records by reconnection key | write, read, delete by key, delete all of a game | `records` |
| game server connections (`game-server/index.ts`, `base-server.ts`) | sessions, endpoints, listeners | `connectionHandler`, `disconnectionHandler` | `Arrive` and the actions built on it, `Disconnect`, `DisconnectThrows`, `CloseUnheard` |
| session claim tokens (`controllers/session-lifecycle.ts`) | used nonces | accept a token once and before it expires, refuse a second connection of a user | `SessionClaim`: the clock, expiry, used nonces; `GameServer`: `claims`, `Arrive`, `RejectClaim` |
| reconnection protocol (`game-server/reconnection/`) | opportunities, their timers, the manager that finds them by key | disconnect, claim, time out | `opp`, `manager`, `claimOf` |
| game lifecycle (`game-server/controllers/game-lifecycle.ts`) | registered games | load a setup, join, start, leave, end | `registry`, `game` |
| game actions (`controllers/game-actions.ts`) | none | accept or refuse a player's action | the operator `AcceptsInput` |
| game object (`game/`, `utils/reference-counted-lock.ts`) | players, readiness, start and handoff times, input lock | add and remove a player, toggle, lock | records in `game` and `lobby` |
| message delivery (`message-delivery/`) | endpoints | dispatch; throws without an endpoint | `endpoints`, `HasEndpoint`, `Reply`, `Deliver` |
| heartbeat, cryptography, identity stub, message types, test client | | | not modelled, see section 7 |

### How they interact

* Client to server: WebSocket messages and the close event. A handler is an
  `async` function and runs alone until its first `await` on a store.
* Lobby to game server: only through the central stores (setup, status, records) and
  through claim tokens carried by the client. The lobby writes a setup and the game
  server consumes it; the game server writes status and records and the lobby reads
  them.
* Timers: each opportunity owns one timer of two minutes. It calls back into the
  reconnection protocol, which edits the manager, the store, the lock and the roster.
* Shared state inside the game server: the registry of sessions, the game object and
  the manager are touched by arrival, departure and timeout alike.

### What is hard here

1. *A disconnect leaves four traces* (record, opportunity, manager entry, input
   lock), in four objects. Return and timeout each undo them, in a different
   order, with an await in the middle. A second disconnect may overwrite what the
   first one's timer will later remove.
2. *Things are found by different keys*: sessions by connection, user or name; seats by
   name; opportunities and records by a guest's token or a user id. The lobby gives a
   returning guest a new name.
3. *Arrival is long*: token, session, endpoint, store, listeners, claim, registration,
   seat. It may stop at each step, and what was done until then stays.
4. *Timers race sockets*: a returning client and the timer of its own opportunity.
5. *The handoff looks things up after awaits*: who is in the game, which sessions they
   have, whether their sockets are still open.
6. *Errors in listeners and un-awaited handlers are not caught anywhere*: they end the
   process. Both models have a variable `serverUp` for that.

`PROJECT.json` lists each of these places as a hazard, with its line and the
properties that would notice it going wrong, or the reason none does yet.

### What makes each component correct

* Reconnection protocol: a record means an opportunity (`RecordHasOpportunity`), a
  managed opportunity can be claimed (`ManagerHoldsActive`), a claim leads back to the
  seat (`ClaimReseats`), a timer removes nobody who is back
  (`TimeoutNeverKicksConnected`), a user who plays has no record (`RecordMeansAway`).
* Game: input only while nobody is missing (`NoInputWhileSomeoneIsMissing`; across a
  network, nobody but a player who hung up while they loaded the game,
  `OnlyTheUnheardIsMissed`), and a pause always has somebody who will end it (`PausedGameHasWayOut`,
  `PausedGameResumes`).
* Connections: one per user (`OneConnectionPerUser`), each with an endpoint
  (`RegisteredHasEndpoint`).
* Lobby: rosters and sessions agree (`PlayersAreSessions`), clients cannot bring it
  down (`LobbyStaysUp`), names are of one game (`NamesStayUnique`).
* Handoff: claims and seats match both ways (`ClaimsHaveSeats`, `SeatsHaveClaims`) and
  everyone is told (`EveryoneIsInstructed`).

## 2. Modules

    SeatPromise  <-- GameServer            (implements it)
                       <-- MCGameServer                        TLC instances
                       <-- GameServerProofs                    theorems
                             <-- GameServerSafety
                                   <-- GameServerRefinement
                                         <-- GameServerReturns
    LobbyServer        <-- MCLobbyServer, LobbyServerProofs,
                           LobbyServerHandoffs
    SessionClaim       <-- MCSessionClaim, SessionClaimProofs
    LobbyServer, GameServer  <-- System    (composes them)
                       <-- MCSystem, SystemProofs
    LobbyServerHandoffs, GameServerReturns  <-- SystemProofs  (uses their theorems)

### SeatPromise

What the reconnection machinery is for, with nothing of how it works. Every user has in
every game one of the stages none, expected, taken, vacant, given up, lost; a game is
open for input or not. A seat goes from expected to taken (`Arrive`), from taken to
vacant (`Drop`), and from vacant back to taken (`Return`) or to given up (`GiveUp`): in
particular no seat is given up while its owner sits in it, none is taken by somebody
else, and none comes back. A game opens only with a move of one of its own seats and is
never open while a seat is expected or vacant. `NobodyHangs` adds that a vacant seat does
not stay so.

`GameServer` implements it (`Kept`, `SeatsAreKept`, `SeatsAreSettled`) under this mapping:

| stage of user u in game n | state of the game server |
|---|---|
| none | u has no seat in n |
| given up | the setup has been loaded and the roster no longer has the name of u's seat |
| taken | `HasSession`: a registered session of u has joined n under that name |
| vacant | `Awaited`: an opportunity in that name runs, or u is being let in or turned away |
| expected | none of these |
| lost | the process has ended |
| n is open | `AcceptsInput` holds for somebody in n |

A seat is *taken* when the server has a session in it, which is what it acts on. Across a
network that session may have no socket: who hangs up while the setup they asked for is
on its way (`CloseUnheard`) is registered afterwards and never heard of again. Whether
input waits for people who are *connected* is therefore a property of its own, with
`InSeat` for connected: in one process it does (`NoInputWhileSomeoneIsMissing`), with
remote stores it passes over that one player and nobody else (`OnlyTheUnheardIsMissed`).

Writing it down showed one thing the code does that a reader may not expect: a visitor
who is turned away before the start, with a seat's user id but under another name, still
locks the input of that game when their socket closes, as the disconnection handler does
not ask whether the session ever had a seat. That is the action `Pause`.

### GameServer

An action is a handler up to its next await on a store, with everything it calls on
the way.

| code | action |
|---|---|
| `connectionHandler`, accepted claim, no such game yet | `AwaitSetup`, then `LoadGame` or `LoseLoadRace`; `FindNoGame` if there is no setup |
| ... game there and not started | `JoinBeforeStart` |
| ... game started, opportunity live | `ClaimOpportunity`, then `FinishClaim`; `ClaimFails` when the record cannot be deleted |
| ... game started, none | `RefuseReconnection` (the socket's close event follows) |
| ... user already connected | `RejectClaim` (the nonce is used up all the same) |
| `disconnectionHandler` | `Disconnect`; `DisconnectThrows` when the game or the key is missing |
| close event before the listener is attached | `CloseUnheard` |
| timer of an opportunity | `Expire`, then `FinishTimeout` or `TimeoutThrows` |
| lobby hands a game off, lobby forwards a client | `Handoff`, `Forward` |

`TakeSeat` is what all successful arrivals share: register the session, look up its
seat by name, unlock the input for the user, give a guest a new token, and start the
game if every seat's name has a session. `Disconnect` on a session that was never
registered throws only after record, lock and opportunity are in place, as
`unregister` comes last. `Handoff(n, seating)` is the lobby's whole handoff of game `n`
to the users and names of `seating`.

Two parameters say which environment is meant.

* `Services = "inProcess"` is the build as it is: the stores are maps, their promises
  settle in microtasks, so nothing else is dispatched until the handler has gone on.
  `"remote"` is what the store interfaces are for: other sockets and timers are served
  while an answer is out. Writes and deletes take effect at the call in both. `"failing"` is
  remote, and a delete of a record may fail and keep it: a claim then throws with the
  opportunity spent (`ClaimFails`), a timeout logs it and goes on (`Expire`).
* `Quirks` widens what the lobby sends. `{}`: every seat has its own user and name.
  `"sharedUsername"`: names collide (guests' names are random) and a user is
  handed off in two games. `"staleToken"`: guests arrive with the cached token
  of an earlier game.

Data left out: a game's name is used once (the status record is never deleted, so
`gameExistsByName` refuses it again), hence the name is the identity of the game;
tokens stand for the connection they were issued to; a claim token is a record with
its nonce, which leaves `claims` when presented; how far that is so of tokens in time is
the matter of `SessionClaim`.

Bounds, all in guards: connections come from the finite set `Conns` in increasing
order; `MaxForwards` forwards. `Expire` carries one assumption on time, that a setup
is loaded well within the two minutes of a timer.

### LobbyServer

| code | action |
|---|---|
| `connectionHandler` | `Connect`, then `Greet` or `Redirect`; `CloseUnheard` in between |
| `disconnectionHandler` | `Close` |
| `createGameHandler`, `gameExistsByName` | `CreateGame`, `AskStatus`, `DrawAgain`, `Settle` |
| `joinGameHandler`, `leaveGameHandler` | `JoinGame`, `LeaveGame` |
| `toggleReadyToStartGameHandler` | `ToggleReady` |
| `initiateGameHandoff` | `Publish`, `Issue`, `Deliver` |
| the game server takes the setup (environment) | `Load` |

A handler that waits is a member of `creating` or `handoffs` and carries what it
captured before the wait: the name it drew, the game object (by its creation number,
since the registry may hold another by that name later), the sessions of the channel
at the time of the toggle. The ten draws of a game name are one decisive draw and any
number of redraws; that all ten fail is the quirk `"unluckyNames"`. A client that has
dropped makes the reply throw, and then the report of that error throw:
`Reply` and `Deliver` clear `serverUp`.

`"pipelined"` lets a client's next message be dispatched before its last one's handler
has passed its first await: the socket library emits all frames of one chunk in a
row. In one process this orders microtasks more freely than the runtime does.
`"readyAgain"` lets players toggle after the handoff; `"sameName"` lets two guests draw
one name. Every connection is a new guest; `MaxGames` bounds the games created.

### SessionClaim

`createSession` of `session-lifecycle.ts` against the clock. `Issue` seals a token with
its expiry; presenting it takes two readings of the clock, one for the expiry check and
one, up to `MaxPause` later, for the pruning of old nonces.

| code | action |
|---|---|
| token valid, nonce unused, user not connected | `Accept` |
| nonce remembered | `RefuseReplay` |
| user connected already: the nonce is remembered all the same | `RefuseSecondTab` |
| the session is registered or unregistered by the rest of the server | `Register`, `Unregister` |
| `Date.now()` moves on | `Tick` |

An expired token is refused before anything is changed and is no action.

### System

Both servers over the same stores in one process. Every step is one of `LobbyServer`
(`L`), of `GameServer` (`G`), or of both at once:

| step | lobby | game server |
|---|---|---|
| `Connect`, `Greet`, `Talk`, `Close`, `CarryOn` | the actions of those names | - |
| `Deliver` | `Deliver`: the claims go out | `Handoff` of that game |
| `Redirect` | `Redirect`, if the record and the status are there | `Forward` |
| `LoadGame` | `Load`: the setup is taken | `LoadGame` |
| `GameServerStep` | - | all other actions |

Here `Greet` and `Redirect` are decided by what the game server wrote (`Known`), claims
carry the reconnection token the guest came with, and the setup that is loaded is the one
the lobby wrote. A client that has been told where to go may go on talking to the lobby:
leave the game that was handed off, create or join another, be handed off again, in the
same names and with the same user id. A name is drawn from those no client connected to the
lobby bears, so it comes back once its bearer has left, with that bearer perhaps in a game
on the game server. For `GameServer` these are its two quirks, and `G` has both.

Three things are left out, each a quirk of `LobbyServer` (no run has `sameName`):
nobody toggles readiness in a game that was handed off already (`readyAgain`: the finding
`lobby_ready_again` is what happens), no two guests are connected to the lobby under one
name (`sameName`), and game names are drawn without collision (`unluckyNames`). Nor does a
client send before its last message is answered (`pipelined`). Both servers idle before the
next event is dispatched, as they do in one process with in-memory stores. A setup counts
as `pending` for `GameServer` once its claims are delivered: before that nobody could make
the game server look for it.

`HandedOffOnce` holds until some player is handed off in a second game, or two clients
were told where to go under one name. Up to then the two servers keep what
`SeatPromise` and `FirstComersGetIn` promise; after it they do not, and the properties say so
in their condition. TLC finds both failures without it: a player of a running game who is
handed off in a second one is turned away there (one connection per user), and a
player who dropped before the start and is forwarded under the name of one who is still
on their way is given that one's seat. No document of the repository promises otherwise. The other
four properties of `System` have no such condition.

## 3. Runs

| run | instance | shows |
|---|---|---|
| `game_server_in_process` | 3 guests, 4 names, 1 game, 5 connections, 2 forwards, in process | the safety properties of the game server in the build as it is, and that it implements `SeatPromise` |
| `game_server_remote` | 2 guests, 3 names, 1 game, 4 connections, 2 forwards, deletes that may fail, fair | the same promises when other events run inside load, claim and timeout and records stay behind, but for one player who hung up while loading; a pause ends; it implements `SeatPromise` with its liveness |
| `late_return`, `early_return`, `ended_game`, `stuck_start` | 2 guests, 1 game, 4 connections | the findings of section 4 |
| `lobby_in_process` | 3 guests, 2 names, 2 games, pipelined, fair | the six invariants of the lobby, and that everyone is instructed |
| `lobby_remote` | 3 guests, 3 names, 2 games, remote | what survives players leaving inside creation and handoff |
| `lobby_untidy` | 3 guests, 3 names, 2 games, in process, all quirks but `sameName` | no lookup in the lobby fails |
| `lobby_ready_again` | 2 guests, 2 games, `readyAgain` | finding of section 4 |
| `session_claim` | 3 tokens, 2 users, life 3, pause 2, time 8 | used nonces outlive their tokens; a token is let in twice at most, and twice only when it expires between the two readings |
| `system` | 3 guests, 3 names, 2 games, 3 arrivals; at most 4 connections and games opened in the lobby | the lobby is an environment of `GameServer`, also when players leave the lobby's game after the handoff and are handed off again; setups, claims, names and records of the two servers agree; first comers get in, returners are sent back |

*Why these bounds.* Three guests are one who waits, one who is missing and one whose
timer runs out beside them; five connections let one user drop, return, drop and return
again while the others drop too, so that two opportunities of one user and their timers
overlap. Two forwards let a stale claim be under way together with a fresh one. The
fourth name is the one the lobby gives a returning guest. The games of one game server
share only the registry of sessions, and without `sharedUsername` no user or name is in two of
them, so one game is enough there, and the theorems hold for any number; in `system`,
where two games are handed off and a guest may bring the token of the first to the
second, they meet. `MaxOpened` keeps `system` small: three guests and one game, or two guests
and two games, which is enough for a player to be handed off in both, for a
returner beside a player, and for a name to be drawn again; every guest in every game
would be millions of states. Remote and failing stores multiply the interleavings, hence two
guests. In the lobby, three guests make a game of two that a third joins, leaves or
outlasts; two games let one be handed off while the other gathers and names be compared;
two names for three guests let a name be borne again after its bearer has gone. In
`session_claim` a token lives longer than a pause and the clock runs well past its
expiry; three tokens give one user two. Every action fires in some passing run.

*Deadlock* is not checked: a server with no client left, with all bounded inputs
used, or ended by an exception rightly stops.

*Symmetry* is used only in runs without liveness, over model values that no definition
singles out.

*Fairness.* `Continue` (an awaited promise settles, its handler goes on), `TimeOut`
(`setTimeout` fires; the continuation of its handler runs) and `TurnAway` (a socket the
server itself closed emits `close`, at the latest when the closing handshake times
out) are weakly fair per connection. In the lobby only the continuations of handlers
are. No client is ever obliged to come, return, leave or send anything, and a redraw of
a game name is not fair either. `PausedGameResumes` therefore rests on the timer
alone.

*A crash is an end.* Once an exception went uncaught (`serverUp = FALSE`) nothing more is
promised: a pause has ended, a seat is lost. For one hazard that matters. When the delete
of a record fails inside a claim, the player is refused with their opportunity spent and
the lock still held, and the way out that `PausedGameHasWayOut` and `PausedGameResumes`
accept is the close of the refused socket, which throws out of its listener as in the
finding `late_return`. What these properties show is that the lock is not left behind
in a server that goes on; a server that survives a failing delete they do not show.

*What the quirks cost.* Colliding names (`sharedUsername`) break
`NoInputWhileSomeoneIsMissing`, `TimeoutNeverKicksConnected` and `RecordMeansAway`, since
seats are found by name over all sessions; signed-in users, whom the identity stub never
returns, would break `TimeoutNeverKicksConnected` and `ClaimReseats`, since a return
before the start claims nothing and leaves the old timer running. The theorems of
`GameServerProofs` need neither assumption and hold for all quirks. With `sameName` two
guests of one name may meet in a lobby game and the second close throws; with remote
services a client that drops while its `createGame` waits ends the lobby, and somebody
who leaves between the write of the setup and the lookup of the sessions keeps a seat
nobody has a claim for. Properties are checked where they hold and the difference is named
here; none of these inputs contradicts a document of the repository.

## 4. Where code and documents disagree

| run | the document | the code |
|---|---|---|
| `late_return` | `notes.ts:25`: a client that comes after its opportunity timed out is refused, "this is intended" | the close listener is already attached: the refused socket's close locks the game, opens an opportunity, and then throws, because its session was never registered |
| `early_return` | `notes.ts:5`: a valid opportunity puts the user back | before the start no opportunity is looked at; a guest under a new name is turned away |
| `ended_game` | `active-game-status.ts:3`: the record tells the lobby whether the game still exists | `deleteActiveGameStatus` calls `get` |
| `stuck_start` | `notes.ts:22`: an expiration unpauses the game for those still connected | before the start nobody evaluates the start condition when a player is removed |
| `lobby_ready_again` | `game-handoff-manager.ts:70`: the setup is copied so that players who leave the lobby keep their seats | readiness can be toggled after the handoff; it is repeated with whoever is left and overwrites the stored setup |

## 5. What is proved

All theorems are for arbitrary values of the constants and rest only on the named
assumptions of the module (connections are natural numbers, users are no connections,
`None` is nothing else, the parameters have the values above) and on what the table says.
None needs the sets of the game server to be finite.

| module | theorem | states `Spec =>` | assuming |
|---|---|---|---|
| `GameServerProofs` | `TypeCorrect` | `[]TypeOK` | |
| | `RecordsArePromises` | `[]RecordHasOpportunity` | deletes do not fail |
| | `ManagerIsCurrent` | `[]ManagerHoldsActive` | |
| | `DispatchReaches` | `[]RegisteredHasEndpoint` | |
| | `OneConnection` | `[]OneConnectionPerUser` | in process |
| `GameServerSafety` | `PausesHaveAnEnd` | `[]PausedGameHasWayOut` | handed off once |
| | `InputWaitsForAll` | `[]NoInputWhileSomeoneIsMissing` | handed off once, in process |
| | `InputWaitsForAllButOne` | `[]OnlyTheUnheardIsMissed` | handed off once |
| `GameServerRefinement` | `PromiseIsKept` | `SeatsAreKept` | handed off once, guests |
| `GameServerReturns` | `ClaimsReseat` | `ClaimReseats` | handed off once, guests |
| | `TimersTakeNoSeat` | `TimeoutNeverKicksConnected` | handed off once, guests |
| | `RecordsAreOfTheAway` | `[]RecordMeansAway` | handed off once, guests, deletes do not fail |
| | `OneConnectionRemotely` | `[]OneConnectionPerUser` | handed off once, guests |
| `SessionClaimProofs` | `NoncesOutliveClaims` | `[]SpentClaimsAreRemembered` | |
| | `NeverThrice` | `[]AcceptedAtMostTwice` | |
| | `ReplayNeedsTheGap` | `ReplayOnlyAcrossExpiry` | |
| | `TypeCorrect` | `[]TypeOK` | |
| | `SingleUse` | a claim is let in once | the two readings of the clock agree |
| `LobbyServerProofs` | `TypeCorrect` | `[]TypeOK` | |
| | `PlayersAndSessionsAgree` | `[]PlayersAreSessions` | names differ |
| | `LobbyKeepsStanding` | `[]LobbyStaysUp` | names differ, in process |
| `LobbyServerHandoffs` | `ClaimsAreGood` | `[]ClaimsHaveSeats` | orderly |
| | `OneGamePerName` | `[]NamesStayUnique` | orderly |
| | `SeatsAreClaimed` | `[]SeatsHaveClaims` | orderly, names differ, in process |
| `SystemProofs` | `LobbyIsTheEnvironment` | `ImplementsGameServer` | |
| | `LoadedAsClaimed` | `[]SetupsMatchClaims` | |
| | `OneGamePerName` | `[]NamesAreOfOneGame` | |
| | `ReturnersAreFound` | `ReturnersAreRedirected` | |
| | `FirstComersAreLetIn` | `FirstComersGetIn` | in the property: until somebody is handed off twice |
| | `PromiseIsKept` | `SeatsAreKept` | in the property: until somebody is handed off twice |

*Handed off once* (`"sharedUsername" \notin Quirks`) is asked of the lobby: no
player and no name is handed off in two games. Guests may bring whatever cached token
they like. The lobby does not ensure it. `LobbyIsTheEnvironment` therefore has `GameServer`
with both quirks, and the two theorems of `System` that go back to theorems under this
assumption, `PromiseIsKept` and `FirstComersAreLetIn`, are of properties that ask for
`HandedOffOnce`; the other four hold whoever is handed off how often. `System` has in-process
stores and guests, and leaves out what section 2 says. *Guests* (`AuthUsers = {}`)
is what the identity stub of the repository returns. *Names differ* is `"sameName" \notin
Quirks`; *orderly* (`Orderliness`) is that game names are drawn without collision and
nobody readies up after the handoff, while requests may be pipelined:
`lobby_ready_again` shows what a second readying does to the claims.

### The argument for the game server

Eleven inductive invariants, each proved with the help of those before it. Where they need
that nobody is handed off twice, their step lemmas ask it of the step at hand
(`HandsOffOnce`: what is handed off or forwarded in it is new), not of the constants; a
theorem for `"sharedUsername" \notin Quirks` follows at once (`PlainHandsOffOnce`), and
`SystemProofs` can use the same lemmas for as long as the lobby behaves. `Ground` is the part
that needs nothing of the kind: `Shape`, `Promise`, `Table`, and that claims, sessions and
records are of users handed off in their game (`Issued`).

* `Shape` is `TypeOK` with three facts it needs: sessions of connections that arrived
  carry a user, a name and a game (`SessionsAreBuilt`), opportunities belong to
  sessions that had a key (`OpportunitiesAreLeft`), and a claim under way
  points at such an opportunity (`ClaimsAreOfLeft`). Without them a step that writes a
  record from a session could not be typed, since a session's fields may be missing.
* `Promise` is `RecordHasOpportunity` together with `ManagerHoldsActive`; the first alone
  is not inductive. A timer and a claim remove manager entry and record by the key of
  the session that left; that this never takes away the opportunity behind another
  record needs every entry to stand under its own session's key, and that a claimed or
  expired opportunity is in no other entry.
* `EndpointsFirst` adds to `RegisteredHasEndpoint` the connections whose handler still
  waits: a session is registered after the wait, its endpoint before it.
* `Single` strengthens `OneConnectionPerUser` by the handler that waits: in one process
  there is at most one, and the check it made for its user still holds when its session
  is registered. With remote stores two claims of one user may both pass that check,
  and nothing looks again before the second session is registered: see `EntersAlone`.
* `Owned`: whatever speaks for a user (claim, session, record, key) speaks for that
  user's seat and no other, under whatever name. Lock, roster and record are edited by
  user, by name and by key, and this is why the three mean one person. A first claim may
  carry any token, since none is looked at on the first arrival: the game of a player
  who has not been there keeps their seat and does not start without them (`SeatsWait`), so
  they are seated and given a token of their own before anything asks for it.
* `Table`: a game whose setup is pending has nobody in it but handlers that wait, and
  rosters are of people who were handed off.
* `Seated`: in a started game each player on the roster is in their seat or locked, and a
  registered session without a seat bears no player's name.
* `OneUnheard`: whoever hung up while loading sits in a game only as the one who loaded it.
  The setup is taken over once, so there is one of them in a game at most, and in one
  process none (`NobodyIsUnheard`). With `Seated` this gives both properties on input.
* `Held`: who stands for a seat. At most one connection of a user sits in their seat, is
  about to, or has left it to a timer (`OneStandsIn`); a first claim is its user's first
  (`FirstClaims`, `EarlyAreAlone`); whoever still plays is in their seat or on the way
  back in its name (`PlayersKeepTheirName`, `PlayersAreThere`). Its step goes over
  `Amounts`, what a step amounts to for seats, in nine cases instead of eighteen
  (`StepAmounts`), and the refinement over the same cases: arriving, loading, dropping,
  returning and being removed each move one seat, all others leave every stage as it is.
* `Boarded`: whoever stands for a seat still has it, and so has whoever has not come yet.
* `EntersAlone` gives `OneConnectionPerUser` for any stores, also those that answer later
  or fail to delete. Say a second connection of a user passes the check while the handler of
  the first waits for a store (`OneEnters`). It gets in only if the game has not started or
  an opportunity is left in the manager. If the first waits for the setup, the user has no
  second claim (`EarlyAreAlone` of `Held`). If it waits for its claim to be deleted, the
  game has started (`ReturnsAreLate`), and it spent the only opportunity of that user
  (`ClaimWasTheLast`). There was only one (`OneOpportunity`) because what a user leaves
  lies under the key of their session (`KeptUnderItsKey`), and a user has one key until the
  start (`OneKeyBeforeStart`); after it a new key comes with a claim, which leaves nothing
  under the old one.

### For the lobby and the tokens

`LobbyServerProofs` strengthens `PlayersAreSessions` to `Seats` (every session in a game
is registered and among its players, every player is somebody in it, names of registered
sessions differ) over a `Shape` that bounds the handlers under way; `Standing` adds that in
one process no handler outlives its client. `LobbyServerHandoffs` needs `Orderly`: who
draws a name has it alone (`NamesDrawn`), a handoff has its game alone and seals claims
only for players of what it published (`GamesHandedOff`), and a claim's game keeps its
name for good (`ClaimsSent`); so no setup is ever written over one that claims were made
for. `Complete` adds, for one process, that from setup to claims nobody leaves and no
name is missed. `SessionClaimProofs` carries with the stated
properties that whoever was let in twice has expired (`TwiceMeansExpired`): expiry is for
good, so there is no third time.

### For both together

What was proved about a server alone is a theorem of its module under that module's
assumptions on the environment. `SystemProofs` takes both servers' invariants over and
shows that each is the other's environment.

* `LP` and `GP` are the proof modules of the two servers under the substitution `System`
  uses for `L` and `G`. To the prover `L!X` and `LP!X` are different names, so a group of
  lemmas states once, action by action, that a step of `L` or `G` is one of `LP` or
  `GP`. What holds of a server then holds of it inside `System`: an invariant of the
  lobby by `LobbyKeepsUp`, one of the game server once its step is one of `G!Next`.
* That is the heart of it (`StepIsGameServerStep`). For most steps it is the same
  step of `GameServer`. `Deliver` has to be `Handoff`: the game has no seats yet, and no two
  of its players have one name. `Redirect` has to be `Forward`: the record is there, and no
  more clients are forwarded than there are. `LoadGame` has to take in the players the claims name (`SetupsMatch`).
* For this the invariants of the servers do not suffice. `Gathering` says what the lobby
  knows of its guests in this composition: who is in a game has come, holders of claims
  under way are still in it, and a claim that was sent bears the name of its client. `Linked` says what the two states have to do with each other: seats are
  of those who were told (`SeatsAreTold`), names on the game server are of clients the
  lobby sent (`NamesAnnounced`), cached tokens were issued (`CachedIsIssued`), forwards are
  counted alike, a first claim bears its seat's name, and while one server has a handler
  under way the other is idle (`OneAtATime`).
* `HandedOffOnce` is lost for good when it is lost (`OnceBefore`), and until then each step is
  one of `GameServer` in which nobody is handed off twice (`HandsOffOnce`). So what the game
  server's proofs need is carried along under that condition (`KnownOnce`: `Base` and `Held`),
  beside what holds anyway (`GameServerKnown`: `Ground` and `Findable`).
* `Together`, all of these at once, is inductive (`TogetherStep`), and the six theorems
  follow from it. The lobby's invariants of the handoff hold only while the process is up;
  nothing is loaded after that, so `LoadedAsClaimed` carries over. `PromiseIsKept` uses
  that the promise of `GameServer` in `G` is that of `System`: refinement composes.
  `ReturnersAreFound` and `FirstComersAreLetIn` rest on one more invariant of the game server,
  `Findable` (in `GameServerReturns`): a running game has its status in the store, and every
  opportunity of the manager has its record, the converse of `RecordHasOpportunity`.

The step lemmas treat each action, or group of actions alike in what the invariant
reads, in a named step of its own.

## 6. Only model-checked

Liveness (`PausedGameResumes`, `SeatsAreSettled` beyond `SeatsAreKept`,
`EveryoneIsInstructed`) and anything about `ENABLED` is out of the prover's reach and stays
with TLC. Every other property of a passing run is a theorem under assumptions the constants
of that run satisfy. That the five runs of section 4 find a violation is a fact about their
instance, and shown there.

## 7. Not modelled

* *Identity provider*: a stub that makes every client a guest; `AuthUsers` and `Usernames`
  are what it would return.
* *Heartbeat scheduler*: rewrites the status of every registered game, which is there
  already.
* *Cryptography*: a library whose awaits are microtasks; claims are authentic.
* *Contents of messages, (de)serialisation of games, wording of errors*: no property
  depends on them.
* *Failing writes and lookups of the stores*: only deletes of records may fail, as only
  there does the code handle it.
* *A clock that is set back*: `Date.now()` only goes on.
* *Restart*: the repository has no code that runs after one; `serverUp = FALSE` is
  final.

## 8. Plan

Done: the two servers, the tokens over time, the abstract promise and its refinement,
the composition, failing deletes, and the theorems of section 5, which state every safety
property of a passing run.

Left: the composition with `LobbyServer`'s quirks, of which `readyAgain` would show the
finding `lobby_ready_again` at the game server's door; stores whose writes may fail, should the code come to handle that; and whether the
theorems for guests extend to authenticated users, once the identity provider is more than
a stub.
