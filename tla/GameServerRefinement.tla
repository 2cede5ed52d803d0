------------------------- MODULE GameServerRefinement -------------------------
(***************************************************************************)
(* GameServer implements SeatPromise, for every set of guests, names, games *)
(* and connections and every kind of store, when the lobby hands nobody and *)
(* no name off twice.  First, what each step amounts to; then, who stands   *)
(* for a seat (Held); last, which step of the promise each step is.         *)
(***************************************************************************)
EXTENDS GameServerSafety

-----------------------------------------------------------------------------
(* What a step that leaves the server up amounts to *)

(* Nobody but c gets anywhere. *)
Elsewhere(c) ==
  \A d \in Conns \ {c} : sess'[d] = sess[d] /\ phase'[d] = phase[d] /\ claimOf'[d] = claimOf[d]

Handed(n, f) ==
  /\ DOMAIN seats[n] = {} /\ DOMAIN f # {} /\ f \in Seatings
  /\ \A m \in GameNames \ {n} : seats'[m] = seats[m]
  /\ seats'[n] = f /\ pending' = pending \cup {n}
  /\ \A u \in DOMAIN f : u \notin SeatedUsers
  /\ \E tokenOf : claims' = claims \cup
       {[user |-> u, name |-> f[u], token |-> tokenOf[u], game |-> n, nonce |-> n] : u \in DOMAIN f}
  /\ UNCHANGED <<records, sess, phase, registered, registry, game, opp, claimOf>>

Sent(k) ==
  /\ records[k] # None
  /\ \E cl : /\ claims' = claims \cup {cl} /\ cl.user = records[k].user /\ cl.game = records[k].game
             /\ cl.name \notin SeatedNames
  /\ UNCHANGED <<records, seats, pending, sess, phase, registered, registry, game, opp, claimOf>>

Still ==
  /\ claims' \subseteq claims
  /\ UNCHANGED <<records, seats, pending, sess, phase, registered, registry, game, opp, claimOf>>

(* c arrives with cl and gets no seat yet. *)
Came(c, cl) ==
  /\ cl \in claims /\ claims' = claims \ {cl}
  /\ \A d \in registered : sess[d].user # cl.user
  /\ phase[c] = "unused" /\ opp[c] = "none" /\ c \notin registered
  /\ sess'[c] = SessionOf(cl) /\ Elsewhere(c)
  /\ \A k \in Keys : records'[k] \in {records[k], None}
  /\ UNCHANGED <<seats, pending, registered, registry, game>>

Waiting(c, cl)  == phase'[c] = "loading" /\ cl.game \in pending /\ opp' = opp
Refused(c, cl)  ==
  /\ opp' = opp /\ cl.game \notin pending
  /\ phase'[c] = "closed" \/ (phase'[c] = "refused" /\ game[cl.game].started)
Claiming(c, cl) ==
  /\ phase'[c] \in {"claiming", "failing"} /\ game[cl.game].started
  /\ \E d \in Conns \ {c} :
       /\ claimOf'[c] = d /\ phase[d] = "closed"
       /\ opp[d] = "active" /\ opp' = [opp EXCEPT ![d] = "claimed"]
       /\ sess[d].user = cl.user /\ sess[d].game = cl.game

(* c, as session s, asks for its seat in gm. *)
Sat(c, s, gm) ==
  /\ s \in BuiltSessions /\ OwnsSeat(s) /\ gm \in Games /\ gm.players \subseteq Range(seats[s.game])
  /\ phase[c] \in {"unused", "loading", "claiming"} /\ opp[c] = "none" /\ c \notin registered
  /\ sess'[c].user = s.user /\ sess'[c].game = s.game /\ sess'[c].name = s.name
  /\ Elsewhere(c) /\ registered' = registered \cup {c}
  /\ \A m \in GameNames \ {s.game} : game'[m] = game[m]
  /\ game'[s.game].players = gm.players
  /\ \/ /\ s.name \in gm.players /\ phase'[c] = "joined"
        /\ game'[s.game].started = (gm.started \/ AllConnected(gm, c, s))
        /\ game'[s.game].lock = gm.lock \ {s.user}
     \/ s.name \notin gm.players /\ phase'[c] = "refused" /\ game'[s.game] = gm
  /\ UNCHANGED <<records, seats, opp, claimOf>>

Joining(c, s, gm) ==
  /\ phase[c] = "unused" /\ gm = game[s.game] /\ ~gm.started
  /\ \E cl \in claims : s = SessionOf(cl) /\ claims' = claims \ {cl}
  /\ s.game \in registry /\ UNCHANGED <<pending, registry>>
Loading(c, s, gm) ==
  /\ phase[c] = "loading" /\ s = sess[c] /\ s.game \in pending
  /\ gm.players = Range(seats[s.game]) /\ ~gm.started
  /\ pending' = pending \ {s.game} /\ registry' = registry \cup {s.game} /\ claims' = claims
Returning(c, s, gm) ==
  /\ phase[c] = "claiming" /\ s.user = sess[c].user /\ s.game = sess[c].game
  /\ s.name = sess[claimOf[c]].name /\ gm = game[s.game]
  /\ UNCHANGED <<pending, registry, claims>>

(* The handler of c fails. *)
Fell(c) ==
  /\ \/ phase[c] = "loading" /\ phase'[c] = "closed"
     \/ phase[c] = "failing" /\ phase'[c] = "refused"
  /\ opp[c] = "none" /\ c \notin registered
  /\ \A d \in Conns \ {c} : phase'[d] = phase[d]
  /\ UNCHANGED <<claims, records, seats, pending, sess, registered, registry, game, opp, claimOf>>

(* c, a registered session, drops. *)
Dropped(c) ==
  /\ c \in registered /\ registered' = registered \ {c}
  /\ phase[c] \in {"joined", "refused"} /\ phase'[c] = "closed" /\ opp[c] = "none"
  /\ \A d \in Conns \ {c} : phase'[d] = phase[d] /\ opp'[d] = opp[d]
  /\ opp'[c] = "active"
  /\ sess[c].game \in registry /\ sess[c] \in BuiltSessions
  /\ \A k \in Keys : records'[k] = records[k] \/
                     (records'[k].user = sess[c].user /\ records'[k].game = sess[c].game)
  /\ \A n \in GameNames \ {sess[c].game} : game'[n] = game[n]
  /\ LET g == game[sess[c].game]
     IN game'[sess[c].game] = [g EXCEPT !.lock = @ \cup {sess[c].user}]
  /\ UNCHANGED <<claims, seats, pending, sess, registry, claimOf>>

(* The timer of c fires. *)
Rang(c) ==
  /\ opp[c] = "active" /\ opp' = [opp EXCEPT ![c] = "expiring"]
  /\ \A k \in Keys : records'[k] \in {records[k], None}
  /\ UNCHANGED <<claims, seats, pending, sess, phase, registered, registry, game, claimOf>>

(* The player c was is removed from their game. *)
Removed(c) ==
  /\ opp[c] = "expiring" /\ opp' = [opp EXCEPT ![c] = "expired"]
  /\ sess[c].game \in registry /\ sess[c] \in BuiltSessions
  /\ sess[c].name \in game[sess[c].game].players
  /\ \A n \in GameNames \ {sess[c].game} : game'[n] = game[n]
  /\ LET g == game[sess[c].game]
     IN game'[sess[c].game] = [g EXCEPT !.lock = @ \ {sess[c].user}, !.players = @ \ {sess[c].name}]
  /\ registry' \subseteq registry /\ registry \subseteq registry' \cup {sess[c].game}
  /\ sess[c].game \in registry' => game'[sess[c].game].players # {}
  /\ \A k \in Keys : records'[k] \in {records[k], None}
  /\ UNCHANGED <<claims, seats, pending, sess, phase, registered, claimOf>>

Amounts ==
  \/ Still
  \/ \E n \in GameNames, f \in Seatings : Handed(n, f)
  \/ \E k \in Keys : Sent(k)
  \/ \E c \in Conns, cl \in Claims : Came(c, cl) /\ (Waiting(c, cl) \/ Refused(c, cl) \/ Claiming(c, cl))
  \/ \E c \in Conns, s \in BuiltSessions, gm \in Games :
       Sat(c, s, gm) /\ (Joining(c, s, gm) \/ Loading(c, s, gm) \/ Returning(c, s, gm))
  \/ \E c \in Conns : Fell(c) \/ Dropped(c) \/ Rang(c) \/ Removed(c)

LEMMA StepAmounts ==
  ASSUME HandsOffOnce, AuthUsers = {}, Base, [Next]_vars, serverUp'
  PROVE  Amounts
<1> USE DEF Base
<1>1. ASSUME serverUp, NEW c \in Conns, phase[c] \notin {"joined", "refused"}
      PROVE  c \notin registered
  BY <1>1 DEF Seated, RefusedHasNoSeat
<1>2. ASSUME NEW c \in Conns, phase[c] # "closed"
      PROVE  opp[c] = "none"
  BY <1>2 DEF Shape, OpportunitiesAreLeft
<1>3. pending \cap registry = {}
  BY DEF Table, PendingIsUntouched
<1>4. CASE HandoffSome
  <2>1. PICK n \in GameNames, S \in SUBSET Users :
          \E f \in [S -> Usernames] : Handoff(n, f) /\ IsNew(f)
    BY <1>4 DEF HandsOffOnce
  <2>2. PICK f \in [S -> Usernames] : Handoff(n, f) /\ IsNew(f)
    BY <2>1
  <2>3. f \in Seatings /\ \A u \in DOMAIN f : u \notin SeatedUsers
    BY <2>2 DEF IsNew, Seatings
  <2>4. Handed(n, f)
    BY <2>2, <2>3 DEF Handed, Handoff, Shape, TypeOK, connVars, gameVars, returnVars
  <2> QED  BY <2>3, <2>4 DEF Amounts
<1>5. CASE ForwardSome
  <2>1. PICK k \in Keys, name \in Usernames : Forward(k, name) /\ name \notin SeatedNames
    BY <1>5 DEF HandsOffOnce
  <2> DEFINE cl == [user |-> records[k].user, name |-> name,
                    token |-> IF k \in AuthUsers THEN None ELSE k,
                    game |-> records[k].game, nonce |-> forwards + 1]
  <2>2. /\ records[k] # None /\ name \notin SeatedNames /\ claims' = claims \cup {cl}
        /\ UNCHANGED <<records, seats, pending, sess, phase, registered, registry, game, opp, claimOf>>
    BY <2>1 DEF Forward, storeVars, connVars, gameVars, returnVars
  <2>3. cl.user = records[k].user /\ cl.game = records[k].game /\ cl.name = name
    OBVIOUS
  <2> HIDE DEF cl
  <2> QED  BY <2>2, <2>3 DEF Sent, Amounts
<1>6. ASSUME NEW c \in Conns, NEW cl \in claims, Arrive(c, cl)
      PROVE  /\ serverUp /\ c \notin registered /\ opp[c] = "none" /\ phase[c] = "unused"
             /\ cl \in Claims /\ claims' = claims \ {cl} /\ seats' = seats
             /\ \A d \in registered : sess[d].user # cl.user
             /\ SessionOf(cl) \in BuiltSessions /\ SessionOf(cl).game = cl.game /\ cl.game \in GameNames
             /\ OwnsSeat(SessionOf(cl))
  <2>1. serverUp /\ phase[c] = "unused" /\ claims' = claims \ {cl}
        /\ \A d \in registered : sess[d].user # cl.user
    BY <1>6 DEF Arrive, MayDispatch, AlreadyConnected
  <2> QED  BY <1>1, <1>6, <2>1, ArriveShape DEF Shape, TypeOK, Owned
<1>7. ASSUME NEW c \in Conns, NEW cl \in claims,
             AwaitSetup(c, cl) \/ FindNoGame(c, cl) \/ RefuseReconnection(c, cl)
      PROVE  Amounts
  <2>1. Arrive(c, cl) /\ UNCHANGED <<records, pending, registered, registry, game, opp, claimOf>>
        /\ sess' = [sess EXCEPT ![c] = SessionOf(cl)]
    BY <1>7 DEF AwaitSetup, FindNoGame, RefuseReconnection, storeVars, gameVars, returnVars
  <2>2. \/ phase' = [phase EXCEPT ![c] = "loading"] /\ cl.game \in pending
        \/ phase' = [phase EXCEPT ![c] = "closed"] /\ cl.game \notin pending
        \/ phase' = [phase EXCEPT ![c] = "refused"] /\ game[cl.game].started /\ cl.game \notin pending
    BY <1>3, <1>7 DEF AwaitSetup, FindNoGame, RefuseReconnection
  <2>3. Came(c, cl)
    BY <1>6, <2>1, <2>2 DEF Came, Elsewhere, Shape, TypeOK
  <2>4. Waiting(c, cl) \/ Refused(c, cl)
    BY <2>1, <2>2 DEF Waiting, Refused, Shape, TypeOK
  <2> QED  BY <1>6, <2>1, <2>3, <2>4 DEF Amounts
<1>8. ASSUME NEW c \in Conns, NEW cl \in claims, ClaimOpportunity(c, cl)
      PROVE  Amounts
  <2> DEFINE k == KeyOf(SessionOf(cl))
             d == manager[k]
  <2>1. /\ d \in Conns \ {c} /\ opp[d] = "active" /\ sess[d].user = cl.user /\ sess[d].game = cl.game
        /\ phase[d] = "closed"
    BY <1>2, <1>8, ClaimantIsOwner
  <2>2. /\ Arrive(c, cl) /\ game[cl.game].started
        /\ opp' = [opp EXCEPT ![d] = "claimed"] /\ claimOf' = [claimOf EXCEPT ![c] = d]
        /\ sess' = [sess EXCEPT ![c] = SessionOf(cl)]
        /\ UNCHANGED <<pending, registered, registry, game>>
    BY <1>8 DEF ClaimOpportunity, Claimed, gameVars
  <2>3. \E p \in {"claiming", "failing"} : phase' = [phase EXCEPT ![c] = p]
    BY <1>8 DEF ClaimOpportunity
  <2>4. \A j \in Keys : records'[j] \in {records[j], None}
    BY <1>8 DEF ClaimOpportunity, Forgotten, Shape, TypeOK
  <2> HIDE DEF d, k
  <2>5. Came(c, cl)
    BY <1>6, <2>2, <2>3, <2>4 DEF Came, Elsewhere, Shape, TypeOK
  <2>6. Claiming(c, cl)
    BY <2>1, <2>2, <2>3 DEF Claiming, Shape, TypeOK
  <2> QED  BY <1>6, <2>2, <2>5, <2>6 DEF Amounts
<1>9. ASSUME serverUp, seats' = seats, NEW c \in Conns, NEW s \in BuiltSessions, NEW gm \in Games, TakeSeat(c, s, gm),
             OwnsSeat(s), gm.players \subseteq Range(seats[s.game]),
             phase[c] \in {"unused", "loading", "claiming"},
             UNCHANGED <<records, opp, claimOf>>
      PROVE  Sat(c, s, gm)
  <2>1. opp[c] = "none" /\ c \notin registered
    BY <1>1, <1>2, <1>9
  <2>2. /\ registered' = registered \cup {c}
        /\ sess'[c].user = s.user /\ sess'[c].game = s.game
        /\ \A d \in Conns \ {c} : sess'[d] = sess[d] /\ phase'[d] = phase[d]
    BY <1>9, TakeSeatShape DEF Shape
  <2>3. /\ \A n \in GameNames \ {s.game} : game'[n] = game[n]
        /\ game'[s.game].players = gm.players
        /\ \/ /\ s.name \in gm.players /\ phase'[c] = "joined"
              /\ game'[s.game].started = (gm.started \/ AllConnected(gm, c, s))
              /\ game'[s.game].lock = gm.lock \ {s.user}
           \/ s.name \notin gm.players /\ phase'[c] = "refused" /\ game'[s.game] = gm
        /\ sess'[c].name = s.name
    BY <1>9, TakeSeatGame DEF Shape
  <2> QED  BY <1>9, <2>1, <2>2, <2>3 DEF Sat, Elsewhere
<1>10. ASSUME NEW c \in Conns, NEW cl \in claims, JoinBeforeStart(c, cl)
       PROVE  Amounts
  <2>1. /\ Arrive(c, cl) /\ TakeSeat(c, SessionOf(cl), game[cl.game]) /\ cl.game \in registry
        /\ ~game[cl.game].started
        /\ UNCHANGED <<records, pending, opp, claimOf, registry>>
    BY <1>10 DEF JoinBeforeStart, storeVars, returnVars
  <2>2. /\ serverUp /\ phase[c] = "unused" /\ seats' = seats /\ claims' = claims \ {cl}
        /\ SessionOf(cl) \in BuiltSessions /\ OwnsSeat(SessionOf(cl))
        /\ SessionOf(cl).game = cl.game /\ cl.game \in GameNames
    BY <1>6, <2>1
  <2>3. game[cl.game] \in Games /\ game[cl.game].players \subseteq Range(seats[cl.game])
    BY <2>2 DEF Shape, TypeOK, Table, PlayersAreSeated
  <2>4. Sat(c, SessionOf(cl), game[cl.game])
    BY <1>9, <2>1, <2>2, <2>3
  <2>5. Joining(c, SessionOf(cl), game[cl.game])
    BY <2>1, <2>2 DEF Joining
  <2> QED  BY <2>2, <2>3, <2>4, <2>5 DEF Amounts
<1>11. ASSUME NEW c \in Conns, LoadGame(c)
       PROVE  Amounts
  <2> DEFINE n  == sess[c].game
             gm == [players |-> Range(seats[n]), started |-> FALSE, lock |-> {}]
  <2>1. /\ TakeSeat(c, sess[c], gm) /\ phase[c] = "loading" /\ n \notin registry /\ serverUp
        /\ registry' = registry \cup {n} /\ pending' = pending \ {n}
        /\ UNCHANGED <<records, seats, claims, opp, claimOf>>
    BY <1>11 DEF LoadGame, lobbyVars, returnVars
  <2>2. sess[c] \in BuiltSessions /\ OwnsSeat(sess[c]) /\ n \in pending
    BY <2>1 DEF Shape, SessionsAreBuilt, Owned, Table, LoadingIsAwaited
  <2>3. gm \in Games /\ gm.players = Range(seats[n]) /\ ~gm.started
    BY <2>2, SeatingNames DEF Shape, TypeOK, Games, BuiltSessions
  <2> HIDE DEF gm
  <2>4. Sat(c, sess[c], gm)
    BY <1>9, <2>1, <2>2, <2>3
  <2>5. Loading(c, sess[c], gm)
    BY <2>1, <2>2, <2>3 DEF Loading
  <2> QED  BY <2>2, <2>3, <2>4, <2>5 DEF Amounts
<1>12. ASSUME NEW c \in Conns, FinishClaim(c)
       PROVE  Amounts
  <2>1. /\ TakeSeat(c, Renamed(c), game[sess[c].game]) /\ phase[c] = "claiming" /\ serverUp
        /\ UNCHANGED <<records, pending, registry, seats, claims, opp, claimOf>>
    BY <1>12 DEF FinishClaim, storeVars, lobbyVars, returnVars
  <2>2. /\ sess[c] \in BuiltSessions /\ OwnsSeat(sess[c])
        /\ sess[claimOf[c]] \in BuiltSessions /\ OwnsSeat(sess[claimOf[c]])
        /\ sess[claimOf[c]].user = sess[c].user /\ sess[claimOf[c]].game = sess[c].game
    BY <2>1 DEF Shape, SessionsAreBuilt, ClaimsAreOfLeft, OpportunitiesAreLeft, Owned
  <2>3. /\ Renamed(c) \in BuiltSessions /\ OwnsSeat(Renamed(c))
        /\ Renamed(c).user = sess[c].user /\ Renamed(c).game = sess[c].game
        /\ Renamed(c).name = sess[claimOf[c]].name
    BY <2>2 DEF Renamed, BuiltSessions, OwnsSeat
  <2>4. /\ game[sess[c].game] \in Games
        /\ game[sess[c].game].players \subseteq Range(seats[sess[c].game])
    BY <2>2 DEF Shape, TypeOK, BuiltSessions, Table, PlayersAreSeated
  <2>5. Sat(c, Renamed(c), game[sess[c].game])
    BY <1>9, <2>1, <2>3, <2>4
  <2>6. Returning(c, Renamed(c), game[sess[c].game])
    BY <2>1, <2>3 DEF Returning
  <2> QED  BY <2>3, <2>4, <2>5, <2>6 DEF Amounts
<1>13. ASSUME NEW c \in Conns, LoseLoadRace(c) \/ ClaimFails(c)
       PROVE  Amounts
  <2>1. /\ \/ phase[c] = "loading" /\ phase' = [phase EXCEPT ![c] = "closed"]
           \/ phase[c] = "failing" /\ phase' = [phase EXCEPT ![c] = "refused"]
        /\ serverUp
        /\ UNCHANGED <<claims, records, seats, pending, sess, registered, registry, game, opp, claimOf>>
    BY <1>13 DEF LoseLoadRace, ClaimFails, storeVars, lobbyVars, gameVars, returnVars
  <2>2. opp[c] = "none" /\ c \notin registered
    BY <1>1, <1>2, <2>1
  <2> QED  BY <2>1, <2>2 DEF Fell, Amounts, Shape, TypeOK
<1>14. ASSUME NEW c \in Conns, Disconnect(c)
       PROVE  Amounts
  <2> DEFINE s == sess[c]
             k == KeyOf(s)
  <2>1. /\ serverUp /\ c \in registered /\ registered' = registered \ {c}
        /\ phase[c] # "closed" /\ phase' = [phase EXCEPT ![c] = "closed"]
        /\ opp' = [opp EXCEPT ![c] = "active"]
        /\ s.game \in registry /\ k # None
        /\ records' = [records EXCEPT ![k] = [user |-> s.user, game |-> s.game]]
        /\ game' = [game EXCEPT ![s.game] = Paused(s)]
        /\ UNCHANGED <<claims, seats, pending, sess, registry, claimOf>>
    BY <1>14 DEF Disconnect, MayDispatch, Listening, lobbyVars
  <2>2. phase[c] \in {"joined", "refused"} /\ opp[c] = "none" /\ s \in BuiltSessions
    BY <1>2, <2>1 DEF Seated, RefusedHasNoSeat, Shape, SessionsAreBuilt
  <2>3. s.game \in GameNames /\ Paused(s) = [game[s.game] EXCEPT !.lock = @ \cup {s.user}]
    BY <2>2 DEF BuiltSessions, Paused
  <2>4. /\ \A n \in GameNames \ {s.game} : game'[n] = game[n]
        /\ game'[s.game] = [game[s.game] EXCEPT !.lock = @ \cup {s.user}]
    BY <2>1, <2>3 DEF Shape, TypeOK
  <2>5. \A j \in Keys : records'[j] = records[j] \/
                     (records'[j].user = s.user /\ records'[j].game = s.game)
    BY <2>1 DEF Shape, TypeOK
  <2>6. Dropped(c)
    BY <2>1, <2>2, <2>4, <2>5 DEF Dropped, Shape, TypeOK
  <2> QED  BY <2>6 DEF Amounts
<1>15. ASSUME NEW c \in Conns, Expire(c)
       PROVE  Amounts
  <2>1. Rang(c)
    BY <1>15 DEF Expire, Rang, Forgotten, lobbyVars, connVars, gameVars, Shape, TypeOK
  <2> QED  BY <2>1 DEF Amounts
<1>16. ASSUME NEW c \in Conns, FinishTimeout(c)
       PROVE  Amounts
  <2> DEFINE s     == sess[c]
             after == [Unpaused(s) EXCEPT !.players = @ \ {s.name}]
  <2>1. /\ opp[c] = "expiring" /\ opp' = [opp EXCEPT ![c] = "expired"]
        /\ s.game \in registry /\ s.name \in game[s.game].players
        /\ game' = [game EXCEPT ![s.game] = after]
        /\ registry' \subseteq registry /\ registry \subseteq registry' \cup {s.game}
        /\ s.game \in registry' => after.players # {}
        /\ records' = records \/ records' = ForgottenIn(s.game)
        /\ UNCHANGED <<claims, seats, pending, sess, phase, registered, claimOf>>
    BY <1>16 DEF FinishTimeout, lobbyVars, connVars
  <2>2. s \in BuiltSessions /\ s.game \in GameNames
    BY <2>1 DEF Shape, OpportunitiesAreLeft, SessionsAreBuilt, BuiltSessions
  <2>3. after = [game[s.game] EXCEPT !.lock = @ \ {s.user}, !.players = @ \ {s.name}]
    BY <2>2 DEF Unpaused, Shape, TypeOK, Games
  <2> HIDE DEF after
  <2>4. /\ \A n \in GameNames \ {s.game} : game'[n] = game[n]
        /\ game'[s.game] = [game[s.game] EXCEPT !.lock = @ \ {s.user}, !.players = @ \ {s.name}]
        /\ game'[s.game] = after
    BY <2>1, <2>2, <2>3 DEF Shape, TypeOK
  <2>5. \A k \in Keys : records'[k] \in {records[k], None}
    BY <2>1 DEF ForgottenIn, Shape, TypeOK
  <2>6. Removed(c)
    BY <2>1, <2>2, <2>4, <2>5 DEF Removed
  <2> QED  BY <2>6 DEF Amounts
<1>17. ASSUME NEW c \in Conns, DisconnectThrows(c) \/ TimeoutThrows(c)
       PROVE  FALSE
  BY <1>17 DEF DisconnectThrows, TimeoutThrows
<1>18. ASSUME \/ \E cl \in claims : RejectClaim(cl)
              \/ \E c \in Conns : CloseUnheard(c)
              \/ UNCHANGED vars
       PROVE  Amounts
  <2>1. Still
    BY <1>18 DEF RejectClaim, CloseUnheard, Still, vars, storeVars, lobbyVars, connVars, gameVars, returnVars
  <2> QED  BY <2>1 DEF Amounts
<1> HIDE DEF Base
<1> QED  BY <1>4, <1>5, <1>7, <1>8, <1>10, <1>11, <1>12, <1>13, <1>14, <1>15, <1>16, <1>17, <1>18
         DEF Next, ArriveSome, DepartSome, Continue, TimeOut

-----------------------------------------------------------------------------
(* Who stands for a seat *)

(* Connections of user u that have been here *)
SeenOf(u) == {c \in Conns : phase[c] # "unused" /\ sess[c].user = u}

(* The store has a record of u. *)
OnRecord(u) == \E k \in Keys : records[k] # None /\ records[k].user = u

(* c still waits for its setup, or sits in a game that has not started. *)
Early(c) == phase[c] = "loading" \/ (phase[c] = "joined" /\ ~game[sess[c].game].started)

(* A claim for the seat itself is its user's first: they have not been here,
   and nothing else brings them. *)
FirstClaims ==
  \A cl \in claims : cl.name = seats[cl.game][cl.user] =>
    /\ SeenOf(cl.user) = {} /\ ~OnRecord(cl.user)
    /\ \A x \in claims : x.user = cl.user => x = cl

(* Until its game starts a player in their seat has been here once, and
   nothing brings them a second time. *)
EarlyAreAlone ==
  \A c \in Conns : Early(c) =>
    /\ SeenOf(sess[c].user) = {c} /\ ~OnRecord(sess[c].user)
    /\ \A cl \in claims : cl.user # sess[c].user

(* Nobody is forwarded into a game whose setup is still pending. *)
PendingIsNew ==
  /\ \A cl \in claims : cl.game \in pending => cl.name = seats[cl.game][cl.user]
  /\ \A k \in Keys : records[k] # None => records[k].game \notin pending

(* Whoever has joined is registered and bears the name of their seat. *)
JoinedInName ==
  \A c \in Conns :
    /\ phase[c] \in {"loading", "joined"} => InTheirName(c)
    /\ phase[c] = "joined" => c \in registered

(* Only a game that has started is returned to. *)
ReturnsAreLate ==
  \A c \in Conns : phase[c] \in {"claiming", "failing"} => game[sess[c].game].started

(* c stands for its user's seat: it sits there, is about to, or has left it to
   a timer. *)
Live(c) == opp[c] \in {"active", "expiring"}

StandsIn(c) ==
  \/ InTheirName(c) /\ (phase[c] = "loading" \/ c \in registered \/ Live(c))
  \/ phase[c] = "claiming" /\ InTheirName(claimOf[c])

OneStandsIn ==
  \A c, d \in Conns :
    phase[c] # "unused" /\ phase[d] # "unused" /\ sess[c].user = sess[d].user
      => (StandsIn(c) /\ StandsIn(d) => c = d)

(* User u still has a seat in n, which has started. *)
Plays(u, n) == game[n].started /\ seats[n][u] \in game[n].players

(* Whoever plays is in their seat or on the way back to it, in its name. *)
PlayersKeepTheirName ==
  \A c \in Conns : phase[c] # "unused" /\ Plays(sess[c].user, sess[c].game) =>
    /\ Live(c) => InTheirName(c)
    /\ c \in registered => phase[c] = "joined"
    /\ phase[c] = "claiming" => InTheirName(claimOf[c])

PlayersAreThere ==
  \A n \in GameNames : \A u \in DOMAIN seats[n] :
    Plays(u, n) => HasSession(u, n) \/ Awaited(u, n)

(* A game without players is no longer registered. *)
GamesHavePlayers == \A n \in registry : game[n].players # {}

Held ==
  serverUp => /\ FirstClaims /\ EarlyAreAlone /\ PendingIsNew /\ JoinedInName
              /\ ReturnsAreLate /\ OneStandsIn /\ PlayersKeepTheirName /\ PlayersAreThere
              /\ GamesHavePlayers

(* Whoever is there, may come or is on record has a seat. *)
LEMMA AllAreSeated ==
  ASSUME AuthUsers = {}, Base
  PROVE  /\ \A c \in Conns : phase[c] # "unused" =>
              sess[c].game \in GameNames /\ sess[c].user \in DOMAIN seats[sess[c].game]
         /\ \A cl \in claims : cl.game \in GameNames /\ cl.user \in DOMAIN seats[cl.game]
         /\ \A k \in Keys : records[k] # None =>
              /\ records[k].game \in GameNames /\ records[k].user \in DOMAIN seats[records[k].game]
              /\ k \in SeenOf(records[k].user)
<1>1. \A c \in Conns : phase[c] # "unused" => sess[c] \in BuiltSessions /\ OwnsSeat(sess[c])
  BY DEF Base, Shape, SessionsAreBuilt, Owned
<1>2. \A c \in Conns : phase[c] # "unused" =>
         sess[c].game \in GameNames /\ sess[c].user \in DOMAIN seats[sess[c].game]
  BY <1>1 DEF OwnsSeat, BuiltSessions
<1>3. ASSUME NEW cl \in claims
      PROVE  cl.game \in GameNames /\ cl.user \in DOMAIN seats[cl.game]
  <2>1. OwnsSeat(SessionOf(cl)) /\ cl \in Claims
    BY DEF Base, Shape, TypeOK, Owned
  <2> QED  BY <2>1 DEF OwnsSeat, SessionOf, Claims
<1>4. ASSUME NEW k \in Keys, records[k] # None
      PROVE  /\ records[k].game \in GameNames /\ records[k].user \in DOMAIN seats[records[k].game]
             /\ k \in SeenOf(records[k].user)
  <2>1. records[k] \in Records
    BY <1>4 DEF Base, Shape, TypeOK
  <2>2. records[k].user \in DOMAIN seats[records[k].game] /\ KeyIsOf(k, records[k].user)
    BY <1>4 DEF Base, Owned
  <2> QED  BY <2>1, <2>2 DEF Records, KeyIsOf, Keys, Tokens, SeenOf
<1> QED  BY <1>2, <1>3, <1>4

(* Who has been here: only an arrival adds to it, and a claim goes with it. *)
Arrived(c, cl) ==
  /\ cl \in claims /\ claims' = claims \ {cl} /\ phase[c] = "unused" /\ phase'[c] # "unused"
  /\ sess'[c].user = cl.user /\ sess'[c].game = cl.game /\ sess'[c].name = cl.name

LEMMA SeenStep ==
  ASSUME Base, Amounts
  PROVE  \/ \A u : SeenOf(u)' = SeenOf(u)
         \/ \E c \in Conns, cl \in Claims :
              Arrived(c, cl) /\ \A u : SeenOf(u)' = SeenOf(u) \cup (IF u = cl.user THEN {c} ELSE {})
<1>1. ASSUME \/ Still
             \/ \E n \in GameNames, f \in Seatings : Handed(n, f)
             \/ \E k \in Keys : Sent(k)
             \/ \E c \in Conns : Rang(c) \/ Removed(c)
      PROVE  \A u : SeenOf(u)' = SeenOf(u)
  BY <1>1 DEF Still, Handed, Sent, Rang, Removed, SeenOf
<1>2. ASSUME NEW c \in Conns, Fell(c) \/ Dropped(c)
      PROVE  \A u : SeenOf(u)' = SeenOf(u)
  BY <1>2 DEF Fell, Dropped, SeenOf
<1>3. ASSUME NEW c \in Conns, NEW cl \in Claims, Came(c, cl),
             Waiting(c, cl) \/ Refused(c, cl) \/ Claiming(c, cl)
      PROVE  Arrived(c, cl) /\ \A u : SeenOf(u)' = SeenOf(u) \cup (IF u = cl.user THEN {c} ELSE {})
  <2>1. phase'[c] # "unused"
    BY <1>3 DEF Waiting, Refused, Claiming
  <2>2. /\ cl \in claims /\ claims' = claims \ {cl} /\ phase[c] = "unused"
        /\ sess'[c].user = cl.user /\ sess'[c].game = cl.game /\ sess'[c].name = cl.name
        /\ \A d \in Conns \ {c} : sess'[d] = sess[d] /\ phase'[d] = phase[d]
    BY <1>3 DEF Came, Elsewhere, SessionOf
  <2> QED  BY <2>1, <2>2 DEF Arrived, SeenOf
<1>4. ASSUME NEW c \in Conns, NEW s \in BuiltSessions, NEW gm \in Games, Sat(c, s, gm),
             Joining(c, s, gm)
      PROVE  \E cl \in Claims :
               Arrived(c, cl) /\ \A u : SeenOf(u)' = SeenOf(u) \cup (IF u = cl.user THEN {c} ELSE {})
  <2>1. PICK cl \in claims : s = SessionOf(cl) /\ claims' = claims \ {cl}
    BY <1>4 DEF Joining
  <2>2. /\ phase[c] = "unused" /\ phase'[c] # "unused"
        /\ sess'[c].user = cl.user /\ sess'[c].game = cl.game /\ sess'[c].name = cl.name
        /\ \A d \in Conns \ {c} : sess'[d] = sess[d] /\ phase'[d] = phase[d]
    BY <1>4, <2>1 DEF Joining, Sat, Elsewhere, SessionOf
  <2>3. cl \in Claims
    BY DEF Base, Shape, TypeOK
  <2> QED  BY <2>1, <2>2, <2>3 DEF Arrived, SeenOf
<1>5. ASSUME NEW c \in Conns, NEW s \in BuiltSessions, NEW gm \in Games, Sat(c, s, gm),
             Loading(c, s, gm) \/ Returning(c, s, gm)
      PROVE  \A u : SeenOf(u)' = SeenOf(u)
  <2>1. /\ phase[c] # "unused" /\ phase'[c] # "unused" /\ sess'[c].user = sess[c].user
        /\ \A d \in Conns \ {c} : sess'[d] = sess[d] /\ phase'[d] = phase[d]
    BY <1>5 DEF Loading, Returning, Sat, Elsewhere
  <2> QED  BY <2>1 DEF SeenOf
<1> QED  BY <1>1, <1>2, <1>3, <1>4, <1>5 DEF Amounts

(* Only somebody who drops gets on record. *)
LEMMA RecordedStep ==
  ASSUME Base, Amounts, NEW u, OnRecord(u)'
  PROVE  OnRecord(u) \/ \E c \in Conns : Dropped(c) /\ sess[c].user = u /\ phase[c] # "unused"
<1>1. PICK k \in Keys : records'[k] # None /\ records'[k].user = u
  BY DEF OnRecord
<1>2. CASE records'[k] = records[k]
  BY <1>1, <1>2 DEF OnRecord
<1>3. ASSUME records'[k] # records[k]
      PROVE  \E c \in Conns : Dropped(c) /\ records'[k].user = sess[c].user /\ phase[c] # "unused"
  <2>1. ASSUME NEW c \in Conns, NEW cl \in Claims, Came(c, cl)
        PROVE  FALSE
    BY <1>1, <1>3, <2>1 DEF Came
  <2>2. ASSUME NEW c \in Conns, NEW s \in BuiltSessions, NEW gm \in Games, Sat(c, s, gm)
        PROVE  FALSE
    BY <1>3, <2>2 DEF Sat
  <2>3. ASSUME NEW c \in Conns, Fell(c) \/ Rang(c) \/ Removed(c)
        PROVE  FALSE
    BY <1>1, <1>3, <2>3 DEF Fell, Rang, Removed
  <2>4. ASSUME \/ Still \/ (\E n \in GameNames, f \in Seatings : Handed(n, f))
               \/ \E j \in Keys : Sent(j)
        PROVE  FALSE
    BY <1>3, <2>4 DEF Still, Handed, Sent
  <2>5. PICK c \in Conns : Dropped(c)
    BY <2>1, <2>2, <2>3, <2>4 DEF Amounts
  <2>6. records'[k].user = sess[c].user /\ phase[c] # "unused"
    BY <1>3, <2>5 DEF Dropped
  <2> QED  BY <2>5, <2>6
<1> QED  BY <1>1, <1>2, <1>3

(* Only the lobby hands out seats and claims. *)
LEMMA NothingGranted ==
  ASSUME Amounts
  PROVE  \/ \E n \in GameNames, f \in Seatings : Handed(n, f)
         \/ \E k \in Keys : Sent(k)
         \/ claims' \subseteq claims /\ seats' = seats
<1>1. ASSUME NEW c \in Conns, NEW cl \in Claims, Came(c, cl)
      PROVE  claims' \subseteq claims /\ seats' = seats
  BY <1>1 DEF Came
<1>2. ASSUME NEW c \in Conns, NEW s \in BuiltSessions, NEW gm \in Games, Sat(c, s, gm),
             Joining(c, s, gm) \/ Loading(c, s, gm) \/ Returning(c, s, gm)
      PROVE  claims' \subseteq claims /\ seats' = seats
  BY <1>2 DEF Sat, Joining, Loading, Returning
<1>3. ASSUME Still \/ \E c \in Conns : Fell(c) \/ Dropped(c) \/ Rang(c) \/ Removed(c)
      PROVE  claims' \subseteq claims /\ seats' = seats
  BY <1>3 DEF Still, Fell, Dropped, Rang, Removed
<1> QED  BY <1>1, <1>2, <1>3 DEF Amounts

LEMMA FirstClaimsStep ==
  ASSUME AuthUsers = {}, Base, FirstClaims, Amounts
  PROVE  FirstClaims'
<1> SUFFICES ASSUME NEW cl \in claims', (cl.name = seats[cl.game][cl.user])'
             PROVE  /\ SeenOf(cl.user)' = {} /\ ~OnRecord(cl.user)'
                    /\ \A x \in claims' : x.user = cl.user => x = cl
  BY DEF FirstClaims
<1>1. ASSUME cl \in claims, cl.name = seats[cl.game][cl.user], SeenOf(cl.user)' = {},
             \A x \in claims' \ claims : x.user # cl.user
      PROVE  /\ SeenOf(cl.user)' = {} /\ ~OnRecord(cl.user)'
             /\ \A x \in claims' : x.user = cl.user => x = cl
  <2>1. /\ SeenOf(cl.user) = {} /\ ~OnRecord(cl.user)
        /\ \A x \in claims : x.user = cl.user => x = cl
    BY <1>1 DEF FirstClaims
  <2>2. ~OnRecord(cl.user)'
    BY <2>1, RecordedStep DEF SeenOf
  <2> QED  BY <1>1, <2>1, <2>2
<1>2. ASSUME claims' \subseteq claims, seats' = seats
      PROVE  /\ SeenOf(cl.user)' = {} /\ ~OnRecord(cl.user)'
             /\ \A x \in claims' : x.user = cl.user => x = cl
  <2>1. /\ SeenOf(cl.user) = {} /\ \A x \in claims : x.user = cl.user => x = cl
    BY <1>2 DEF FirstClaims
  <2>2. SeenOf(cl.user)' = {}
    BY <1>2, <2>1, SeenStep DEF Arrived
  <2> QED  BY <1>1, <1>2, <2>2
<1>3. ASSUME NEW n \in GameNames, NEW f \in Seatings, Handed(n, f)
      PROVE  /\ SeenOf(cl.user)' = {} /\ ~OnRecord(cl.user)'
             /\ \A x \in claims' : x.user = cl.user => x = cl
  <2>1. PICK tokenOf : claims' = claims \cup
       {[user |-> u, name |-> f[u], token |-> tokenOf[u], game |-> n, nonce |-> n] : u \in DOMAIN f}
    BY <1>3 DEF Handed
  <2>2. \A u : SeenOf(u)' = SeenOf(u) /\ (OnRecord(u)' <=> OnRecord(u))
    BY <1>3 DEF Handed, SeenOf, OnRecord
  <2>3. \A u \in DOMAIN f : u \notin SeatedUsers
    BY <1>3 DEF Handed
  <2>4. \A x \in claims : x.user \in SeatedUsers /\ x.game # n
    BY <1>3, AllAreSeated DEF SeatedUsers, Handed
  <2>5. CASE cl \in claims
    <3>1. cl.name = seats[cl.game][cl.user]
      BY <1>3, <2>4, <2>5, AllAreSeated DEF Handed
    <3>2. \A x \in claims' \ claims : x.user \in DOMAIN f
      BY <2>1
    <3> QED  BY <1>1, <2>2, <2>3, <2>4, <2>5, <3>1, <3>2 DEF FirstClaims
  <2>6. CASE cl \notin claims
    <3>1. cl.user \in DOMAIN f /\ cl.user \notin SeatedUsers
      BY <2>1, <2>3, <2>6
    <3>2. \A c \in Conns : phase[c] # "unused" => sess[c].user # cl.user
      BY <3>1, AllAreSeated DEF SeatedUsers
    <3>3. SeenOf(cl.user) = {}
      BY <3>2 DEF SeenOf
    <3>4. ~OnRecord(cl.user)
      BY <3>3, AllAreSeated DEF OnRecord
    <3>5. \A x \in claims' : x.user = cl.user => x = cl
      BY <2>1, <2>4, <2>6, <3>1
    <3> QED  BY <2>2, <3>3, <3>4, <3>5
  <2> QED  BY <2>5, <2>6
<1>4. ASSUME NEW k \in Keys, Sent(k)
      PROVE  /\ SeenOf(cl.user)' = {} /\ ~OnRecord(cl.user)'
             /\ \A x \in claims' : x.user = cl.user => x = cl
  <2>1. PICK new : /\ claims' = claims \cup {new} /\ new.user = records[k].user
                   /\ new.game = records[k].game /\ new.name \notin SeatedNames
    BY <1>4 DEF Sent
  <2>2. records[k] # None /\ seats' = seats /\ OnRecord(new.user) /\ SeenOf(cl.user)' = SeenOf(cl.user)
    BY <1>4, <2>1 DEF Sent, OnRecord, SeenOf
  <2>3. seats[new.game][new.user] \in SeatedNames
    BY <2>1, <2>2, AllAreSeated DEF SeatedNames, Range
  <2>4. cl # new
    BY <2>1, <2>2, <2>3
  <2>5. cl \in claims /\ SeenOf(cl.user) = {} /\ ~OnRecord(cl.user)
    BY <2>1, <2>2, <2>4 DEF FirstClaims
  <2>6. new.user # cl.user
    BY <2>2, <2>5
  <2>7. cl.name = seats[cl.game][cl.user] /\ \A x \in claims' \ claims : x.user # cl.user
    BY <2>1, <2>2, <2>6
  <2> QED  BY <1>1, <2>2, <2>5, <2>7
<1> QED  BY <1>2, <1>3, <1>4, NothingGranted

(* In a claim, a session or a seat looked for: the name in s is the one of its
   user's seat, if it is of any seat of that game. *)
LEMMA NameOfSeat ==
  ASSUME NEW s, OwnsSeat(s), s.game \in GameNames, s.name \in Range(seats[s.game])
  PROVE  s.name = seats[s.game][s.user]
BY DEF OwnsSeat, Range

(* Whoever gets a seat before the start comes with a first claim. *)
LEMMA JoiningIsFirst ==
  ASSUME NEW c \in Conns, NEW s \in BuiltSessions, NEW gm \in Games, FirstClaims,
         Sat(c, s, gm), Joining(c, s, gm), s.name = seats[s.game][s.user]
  PROVE  SeenOf(s.user) = {} /\ ~OnRecord(s.user) /\ \A cl \in claims' : cl.user # s.user
BY DEF Joining, FirstClaims, SessionOf

(* What a removal changes in a game, and what a drop does. *)
LEMMA RemovedGame ==
  ASSUME Base, NEW c \in Conns, Removed(c)
  PROVE  \A n \in GameNames :
           /\ game'[n].started = game[n].started
           /\ n # sess[c].game => game'[n] = game[n]
           /\ n = sess[c].game => game'[n].players = game[n].players \ {sess[c].name}
<1> DEFINE g == game[sess[c].game]
           h == [g EXCEPT !.lock = @ \ {sess[c].user}, !.players = @ \ {sess[c].name}]
<1>1. g \in Games
  BY DEF Removed, BuiltSessions, Base, Shape, TypeOK
<1>2. h.started = g.started /\ h.players = g.players \ {sess[c].name}
  BY <1>1 DEF Games
<1>3. game'[sess[c].game] = h /\ \A n \in GameNames \ {sess[c].game} : game'[n] = game[n]
  BY DEF Removed
<1> HIDE DEF h
<1> QED  BY <1>2, <1>3

LEMMA DroppedGame ==
  ASSUME Base, NEW c \in Conns, Dropped(c)
  PROVE  \A n \in GameNames :
           /\ game'[n].started = game[n].started /\ game'[n].players = game[n].players
           /\ n # sess[c].game => game'[n] = game[n]
           /\ n = sess[c].game => sess[c].user \in game'[n].lock
<1> DEFINE g == game[sess[c].game]
           h == [g EXCEPT !.lock = @ \cup {sess[c].user}]
<1>1. g \in Games
  BY DEF Dropped, BuiltSessions, Base, Shape, TypeOK
<1>2. h.started = g.started /\ h.players = g.players /\ sess[c].user \in h.lock
  BY <1>1 DEF Games
<1>3. game'[sess[c].game] = h /\ \A n \in GameNames \ {sess[c].game} : game'[n] = game[n]
  BY DEF Dropped
<1> HIDE DEF h
<1> QED  BY <1>2, <1>3

LEMMA EarlyAreAloneStep ==
  ASSUME AuthUsers = {}, Base, FirstClaims, EarlyAreAlone, PendingIsNew, ReturnsAreLate, Amounts
  PROVE  EarlyAreAlone'
<1> DEFINE Alone(u, c) == SeenOf(u) = {c} /\ ~OnRecord(u) /\ \A cl \in claims : cl.user # u
<1>1. ASSUME NEW c \in Conns, NEW u, Early(c), sess[c].user = u,
             \A d \in Conns : Dropped(d) => d # c,
             \A x \in claims' \ claims : x.user # u
      PROVE  Alone(u, c)'
  <2>1. Alone(u, c)
    BY <1>1 DEF EarlyAreAlone
  <2>2. SeenOf(u)' = SeenOf(u)
    BY <2>1, SeenStep DEF Arrived
  <2>3. ASSUME NEW d \in Conns, Dropped(d), sess[d].user = u, phase[d] # "unused"
        PROVE  FALSE
    BY <1>1, <2>1, <2>3 DEF SeenOf
  <2>4. ~OnRecord(u)'
    BY <2>1, <2>3, RecordedStep
  <2> QED  BY <1>1, <2>1, <2>2, <2>4
<1> SUFFICES ASSUME NEW c \in Conns, NEW u, Early(c)', (sess[c].user = u)'
             PROVE  Alone(u, c)'
  BY DEF EarlyAreAlone
(* c has been there, and nobody drops or is sent for *)
<1>2. ASSUME Early(c), sess[c].user = u, claims' \subseteq claims, \A d \in Conns : ~Dropped(d)
      PROVE  Alone(u, c)'
  BY <1>1, <1>2
<1>3. CASE Still \/ \E d \in Conns : Rang(d)
  <2>1. UNCHANGED <<sess, phase, game>> /\ claims' \subseteq claims
    BY <1>3 DEF Still, Rang
  <2>2. \A d \in Conns : ~Dropped(d)
    BY <2>1 DEF Dropped
  <2> QED  BY <1>2, <2>1, <2>2 DEF Early
<1>4. ASSUME NEW n \in GameNames, NEW f \in Seatings, Handed(n, f)
      PROVE  Alone(u, c)'
  <2>1. UNCHANGED <<sess, phase, game>> /\ \A v \in DOMAIN f : v \notin SeatedUsers
    BY <1>4 DEF Handed
  <2>2. \A d \in Conns : ~Dropped(d)
    BY <2>1 DEF Dropped
  <2>3. Early(c) /\ sess[c].user = u /\ phase[c] # "unused"
    BY <2>1 DEF Early
  <2>4. u \in SeatedUsers
    BY <2>3, AllAreSeated DEF SeatedUsers
  <2>5. \A x \in claims' \ claims : x.user \in DOMAIN f
    BY <1>4 DEF Handed
  <2> QED  BY <1>1, <2>1, <2>2, <2>3, <2>4, <2>5
<1>5. ASSUME NEW k \in Keys, Sent(k)
      PROVE  Alone(u, c)'
  <2>1. UNCHANGED <<sess, phase, game>>
    BY <1>5 DEF Sent
  <2>2. \A d \in Conns : ~Dropped(d)
    BY <2>1 DEF Dropped
  <2>3. Early(c) /\ sess[c].user = u
    BY <2>1 DEF Early
  <2>4. ~OnRecord(u)
    BY <2>3 DEF EarlyAreAlone
  <2>5. \A x \in claims' \ claims : x.user = records[k].user /\ records[k] # None
    BY <1>5 DEF Sent
  <2>6. \A x \in claims' \ claims : x.user # u
    BY <2>4, <2>5 DEF OnRecord
  <2> QED  BY <1>1, <2>2, <2>3, <2>6
<1>6. ASSUME NEW e \in Conns, NEW cl \in Claims, Came(e, cl),
             Waiting(e, cl) \/ Refused(e, cl) \/ Claiming(e, cl)
      PROVE  Alone(u, c)'
  <2>1. /\ cl \in claims /\ claims' = claims \ {cl} /\ sess'[e] = SessionOf(cl) /\ phase[e] = "unused"
        /\ \A d \in Conns \ {e} : sess'[d] = sess[d] /\ phase'[d] = phase[d]
        /\ UNCHANGED <<seats, game>>
    BY <1>6 DEF Came, Elsewhere
  <2>2. \A d \in Conns : ~Dropped(d)
    BY <1>6, <2>1 DEF Dropped, Waiting, Refused, Claiming
  <2>3. CASE c # e
    BY <1>2, <2>1, <2>2, <2>3 DEF Early
  (* it waits for the setup: nobody has been sent back into that game *)
  <2>4. CASE c = e
    <3>1. phase'[e] = "loading" /\ cl.game \in pending
      BY <1>6, <2>4 DEF Early, Waiting, Refused, Claiming
    <3>2. cl.name = seats[cl.game][cl.user] /\ cl.user = u
      BY <2>1, <2>4, <3>1 DEF PendingIsNew, SessionOf
    <3>3. SeenOf(u) = {} /\ ~OnRecord(u) /\ \A x \in claims : x.user = u => x = cl
      BY <2>1, <3>2 DEF FirstClaims
    <3>4. SeenOf(u)' = {e}
      <4>1. SeenOf(u)' = SeenOf(u) \cup {e}
        BY <2>1, <3>1, <3>2 DEF SeenOf, SessionOf
      <4> QED  BY <3>3, <4>1
    <3>5. ~OnRecord(u)'
      BY <2>2, <3>3, RecordedStep
    <3> QED  BY <2>1, <2>4, <3>3, <3>4, <3>5
  <2> QED  BY <2>3, <2>4
<1>7. ASSUME NEW e \in Conns, NEW s \in BuiltSessions, NEW gm \in Games, Sat(e, s, gm),
             Joining(e, s, gm) \/ Loading(e, s, gm) \/ Returning(e, s, gm)
      PROVE  Alone(u, c)'
  <2>1. /\ sess'[e].user = s.user /\ sess'[e].game = s.game /\ opp' = opp
        /\ \A d \in Conns \ {e} : sess'[d] = sess[d] /\ phase'[d] = phase[d]
        /\ \A m \in GameNames \ {s.game} : game'[m] = game[m]
        /\ game'[s.game].started = gm.started \/ game'[s.game].started = (gm.started \/ AllConnected(gm, e, s))
    BY <1>7 DEF Sat, Elsewhere
  <2>2. claims' \subseteq claims
    BY <1>7 DEF Joining, Loading, Returning
  <2>3. \A d \in Conns : ~Dropped(d)
    BY <1>7, <2>1 DEF Dropped, Sat
  <2>4. CASE c # e
    <3>1. phase[c] # "unused" /\ sess[c].user = u /\ sess[c] = sess'[c] /\ phase[c] = phase'[c]
      BY <2>1, <2>4 DEF Early
    <3>2. ASSUME phase[c] = "joined" PROVE ~game[sess[c].game].started
      <4>1. sess[c].game = s.game => gm = game[s.game]
        BY <1>7, <3>1, <3>2 DEF Joining, Loading, Returning, Base, Table, PendingIsUntouched
      <4>2. sess[c].game \in GameNames
        BY <3>1, AllAreSeated
      <4>3. ~game'[sess[c].game].started
        BY <3>1, <3>2 DEF Early
      <4>4. CASE sess[c].game = s.game
        BY <2>1, <4>1, <4>3, <4>4
      <4>5. CASE sess[c].game # s.game
        BY <2>1, <4>2, <4>3, <4>5
      <4> QED  BY <4>4, <4>5
    <3> QED  BY <1>2, <2>2, <2>3, <3>1, <3>2 DEF Early
  <2>5. CASE c = e
    <3>1. phase'[e] = "joined" /\ ~game'[s.game].started /\ s.name \in gm.players /\ s.user = u
      BY <1>7, <2>1, <2>5 DEF Early, Sat
    <3>2. CASE Joining(e, s, gm)
      <4>1. s.name = seats[s.game][s.user]
        BY <1>7, <3>1, NameOfSeat DEF Sat, BuiltSessions
      <4>2. SeenOf(u) = {} /\ ~OnRecord(u) /\ \A cl \in claims' : cl.user # u
        BY <1>7, <3>1, <3>2, <4>1, JoiningIsFirst
      <4>3. SeenOf(u)' = {e}
        <5>1. SeenOf(u)' = SeenOf(u) \cup {e}
          BY <2>1, <3>1 DEF SeenOf
        <5> QED  BY <4>2, <5>1
      <4>4. ~OnRecord(u)'
        BY <2>3, <4>2, RecordedStep
      <4> QED  BY <2>5, <4>2, <4>3, <4>4
    <3>3. CASE Loading(e, s, gm)
      BY <1>2, <2>2, <2>3, <2>5, <3>1, <3>3 DEF Loading, Early
    <3>4. CASE Returning(e, s, gm)
      <4>1. game[s.game].started /\ gm = game[s.game]
        BY <3>4 DEF Returning, ReturnsAreLate
      <4> QED  BY <1>7, <3>1, <4>1 DEF Sat
    <3> QED  BY <1>7, <3>2, <3>3, <3>4
  <2> QED  BY <2>4, <2>5
<1>8. ASSUME NEW e \in Conns, Fell(e)
      PROVE  Alone(u, c)'
  <2>1. \A d \in Conns : ~Dropped(d)
    BY <1>8 DEF Fell, Dropped
  <2> QED  BY <1>2, <1>8, <2>1 DEF Fell, Early
<1>9. ASSUME NEW e \in Conns, Dropped(e)
      PROVE  Alone(u, c)'
  <2>1. c # e /\ phase'[c] = phase[c] /\ sess' = sess /\ claims' = claims
    BY <1>9 DEF Dropped, Early
  <2>2. \A n \in GameNames : game'[n].started = game[n].started
    BY <1>9, DroppedGame
  <2>3. phase[c] # "unused"
    BY <2>1 DEF Early
  <2>4. Early(c) /\ sess[c].user = u
    BY <2>1, <2>2, <2>3, AllAreSeated DEF Early
  <2>5. \A d \in Conns : Dropped(d) => d # c
    BY <2>1 DEF Dropped, Early
  <2> QED  BY <1>1, <2>1, <2>4, <2>5
<1>10. ASSUME NEW e \in Conns, Removed(e)
       PROVE  Alone(u, c)'
  <2>1. phase' = phase /\ sess' = sess /\ claims' = claims
    BY <1>10 DEF Removed
  <2>2. \A n \in GameNames : game'[n].started = game[n].started
    BY <1>10, RemovedGame
  <2>3. phase[c] # "unused"
    BY <2>1 DEF Early
  <2>4. Early(c) /\ sess[c].user = u
    BY <2>1, <2>2, <2>3, AllAreSeated DEF Early
  <2>5. \A d \in Conns : ~Dropped(d)
    BY <2>1 DEF Dropped
  <2> QED  BY <1>2, <2>1, <2>4, <2>5
<1> HIDE DEF Alone
<1> QED  BY <1>3, <1>4, <1>5, <1>6, <1>7, <1>8, <1>9, <1>10 DEF Amounts

LEMMA PendingIsNewStep ==
  ASSUME AuthUsers = {}, Base, PendingIsNew, Amounts
  PROVE  PendingIsNew'
<1>1. ASSUME claims' \subseteq claims, seats' = seats, pending' \subseteq pending,
             \A k \in Keys : \/ records'[k] \in {records[k], None}
                             \/ records'[k].game \in registry
      PROVE  PendingIsNew'
  BY <1>1 DEF PendingIsNew, Base, Table, PendingIsUntouched
<1>2. ASSUME NEW n \in GameNames, NEW f \in Seatings, Handed(n, f)
      PROVE  PendingIsNew'
  <2>1. PICK tokenOf : claims' = claims \cup
       {[user |-> u, name |-> f[u], token |-> tokenOf[u], game |-> n, nonce |-> n] : u \in DOMAIN f}
    BY <1>2 DEF Handed
  <2>2. /\ \A cl \in claims : cl.game \in GameNames \ {n}
        /\ \A k \in Keys : records[k] # None => records[k].game # n
    BY <1>2, AllAreSeated DEF Handed
  <2>3. /\ \A m \in GameNames \ {n} : seats'[m] = seats[m]
        /\ seats'[n] = f /\ pending' = pending \cup {n} /\ records' = records
    BY <1>2 DEF Handed
  <2>4. \A cl \in claims' : cl.game \in pending' => cl.name = seats'[cl.game][cl.user]
    BY <2>1, <2>2, <2>3 DEF PendingIsNew
  <2> QED  BY <2>2, <2>3, <2>4 DEF PendingIsNew
<1>3. ASSUME NEW k \in Keys, Sent(k)
      PROVE  PendingIsNew'
  BY <1>3 DEF Sent, PendingIsNew
<1>4. ASSUME Still \/ \E c \in Conns : Fell(c) \/ Rang(c) \/ Removed(c)
      PROVE  PendingIsNew'
  BY <1>1, <1>4 DEF Still, Fell, Rang, Removed
<1>5. ASSUME NEW c \in Conns, Dropped(c)
      PROVE  PendingIsNew'
  BY <1>1, <1>5 DEF Dropped
<1>6. ASSUME NEW c \in Conns, NEW cl \in Claims, Came(c, cl)
      PROVE  PendingIsNew'
  BY <1>1, <1>6 DEF Came
<1>7. ASSUME NEW c \in Conns, NEW s \in BuiltSessions, NEW gm \in Games, Sat(c, s, gm),
             Joining(c, s, gm) \/ Loading(c, s, gm) \/ Returning(c, s, gm)
      PROVE  PendingIsNew'
  BY <1>1, <1>7 DEF Sat, Joining, Loading, Returning
<1> QED  BY <1>2, <1>3, <1>4, <1>5, <1>6, <1>7 DEF Amounts

(* The seats of whoever is there stay as they are. *)
LEMMA SeatsStay ==
  ASSUME AuthUsers = {}, Base, Amounts, NEW n \in GameNames, DOMAIN seats[n] # {}
  PROVE  seats'[n] = seats[n]
<1>1. ASSUME NEW m \in GameNames, NEW f \in Seatings, Handed(m, f)
      PROVE  seats'[n] = seats[n]
  BY <1>1 DEF Handed
<1>2. ASSUME NEW k \in Keys, Sent(k)
      PROVE  seats'[n] = seats[n]
  BY <1>2 DEF Sent
<1> QED  BY <1>1, <1>2, NothingGranted

(* c was there, and bears its seat's name then and now alike. *)
LEMMA NameStays ==
  ASSUME AuthUsers = {}, Base, Amounts, NEW c \in Conns, phase[c] # "unused", sess'[c] = sess[c]
  PROVE  InTheirName(c)' <=> InTheirName(c)
BY AllAreSeated, SeatsStay DEF InTheirName

LEMMA JoinedInNameStep ==
  ASSUME AuthUsers = {}, Base, PendingIsNew, JoinedInName, Amounts
  PROVE  JoinedInName'
<1> DEFINE Fine(c) == /\ phase[c] \in {"loading", "joined"} => InTheirName(c)
                      /\ phase[c] = "joined" => c \in registered
<1>1. ASSUME NEW c \in Conns, sess'[c] = sess[c], phase'[c] = phase[c],
             c \in registered => c \in registered'
      PROVE  Fine(c)'
  <2>1. Fine(c)
    BY DEF JoinedInName
  <2>2. phase[c] # "unused" => (InTheirName(c)' <=> InTheirName(c))
    BY <1>1, NameStays
  <2> QED  BY <1>1, <2>1, <2>2
<1> SUFFICES ASSUME NEW c \in Conns PROVE Fine(c)'
  BY DEF JoinedInName
<1>2. ASSUME \/ Still \/ (\E n \in GameNames, f \in Seatings : Handed(n, f))
             \/ (\E k \in Keys : Sent(k)) \/ \E e \in Conns : Rang(e) \/ Removed(e)
      PROVE  Fine(c)'
  <2>1. UNCHANGED <<sess, phase, registered>>
    BY <1>2 DEF Still, Handed, Sent, Rang, Removed
  <2> QED  BY <1>1, <2>1
<1>3. ASSUME NEW e \in Conns, Fell(e) \/ Dropped(e)
      PROVE  Fine(c)'
  <2>1. /\ sess' = sess /\ phase'[e] \notin {"loading", "joined"}
        /\ c # e => phase'[c] = phase[c] /\ (c \in registered => c \in registered')
    BY <1>3 DEF Fell, Dropped
  <2> QED  BY <1>1, <2>1
<1>4. ASSUME NEW e \in Conns, NEW cl \in Claims, Came(e, cl),
             Waiting(e, cl) \/ Refused(e, cl) \/ Claiming(e, cl)
      PROVE  Fine(c)'
  <2>1. /\ cl \in claims /\ sess'[e] = SessionOf(cl) /\ seats' = seats /\ registered' = registered
        /\ \A d \in Conns \ {e} : sess'[d] = sess[d] /\ phase'[d] = phase[d]
    BY <1>4 DEF Came, Elsewhere
  <2>2. CASE c # e
    BY <1>1, <2>1, <2>2
  <2>3. ASSUME phase'[e] \in {"loading", "joined"}
        PROVE  phase'[e] = "loading" /\ InTheirName(e)'
    <3>1. phase'[e] = "loading" /\ cl.game \in pending
      BY <1>4, <2>3 DEF Waiting, Refused, Claiming
    <3>2. cl.name = seats[cl.game][cl.user]
      BY <2>1, <3>1 DEF PendingIsNew
    <3> QED  BY <2>1, <3>1, <3>2 DEF InTheirName, SessionOf
  <2> QED  BY <2>2, <2>3
<1>5. ASSUME NEW e \in Conns, NEW s \in BuiltSessions, NEW gm \in Games, Sat(e, s, gm)
      PROVE  Fine(c)'
  <2>1. /\ sess'[e].user = s.user /\ sess'[e].game = s.game /\ sess'[e].name = s.name
        /\ \A d \in Conns \ {e} : sess'[d] = sess[d] /\ phase'[d] = phase[d]
        /\ registered' = registered \cup {e} /\ seats' = seats
        /\ phase'[e] = "refused" \/ (phase'[e] = "joined" /\ s.name \in gm.players)
    BY <1>5 DEF Sat, Elsewhere
  <2>2. CASE c # e
    BY <1>1, <2>1, <2>2
  <2>3. ASSUME phase'[e] \in {"loading", "joined"}
        PROVE  InTheirName(e)'
    <3>1. s.name = seats[s.game][s.user]
      BY <1>5, <2>1, <2>3, NameOfSeat DEF Sat, BuiltSessions
    <3> QED  BY <2>1, <3>1 DEF InTheirName
  <2> QED  BY <2>1, <2>2, <2>3
<1> HIDE DEF Fine
<1> QED  BY <1>2, <1>3, <1>4, <1>5 DEF Amounts

(* Which games have started. *)
LEMMA StartedStays ==
  ASSUME Base, Amounts, NEW n \in GameNames, game[n].started, n \notin pending
  PROVE  game'[n].started
<1>1. ASSUME \/ Still \/ (\E m \in GameNames, f \in Seatings : Handed(m, f))
             \/ (\E k \in Keys : Sent(k)) \/ \E e \in Conns : Rang(e) \/ Fell(e)
      PROVE  game' = game
  BY <1>1 DEF Still, Handed, Sent, Rang, Fell
<1>2. ASSUME NEW e \in Conns, Dropped(e) \/ Removed(e)
      PROVE  game'[n].started
  BY <1>2, DroppedGame, RemovedGame
<1>3. ASSUME NEW e \in Conns, NEW cl \in Claims, Came(e, cl)
      PROVE  game' = game
  BY <1>3 DEF Came
<1>4. ASSUME NEW e \in Conns, NEW s \in BuiltSessions, NEW gm \in Games, Sat(e, s, gm),
             Joining(e, s, gm) \/ Loading(e, s, gm) \/ Returning(e, s, gm)
      PROVE  game'[n].started
  <2>1. n = s.game => gm = game[n]
    BY <1>4 DEF Joining, Loading, Returning
  <2> QED  BY <1>4, <2>1 DEF Sat
<1> QED  BY <1>1, <1>2, <1>3, <1>4 DEF Amounts

LEMMA ReturnsAreLateStep ==
  ASSUME AuthUsers = {}, Base, ReturnsAreLate, Amounts
  PROVE  ReturnsAreLate'
<1>1. ASSUME NEW c \in Conns, sess'[c] = sess[c], phase'[c] = phase[c],
             phase'[c] \in {"claiming", "failing"}
      PROVE  game'[sess'[c].game].started
  <2>1. sess[c].game \in GameNames /\ sess[c].game \notin pending
    BY <1>1, AllAreSeated DEF Base, Table, PendingIsUntouched
  <2> QED  BY <1>1, <2>1, StartedStays DEF ReturnsAreLate
<1> SUFFICES ASSUME NEW c \in Conns, phase'[c] \in {"claiming", "failing"}
             PROVE  game'[sess'[c].game].started
  BY DEF ReturnsAreLate
<1>2. ASSUME \/ Still \/ (\E n \in GameNames, f \in Seatings : Handed(n, f))
             \/ (\E k \in Keys : Sent(k)) \/ \E e \in Conns : Rang(e) \/ Removed(e)
      PROVE  game'[sess'[c].game].started
  <2>1. UNCHANGED <<sess, phase>>
    BY <1>2 DEF Still, Handed, Sent, Rang, Removed
  <2> QED  BY <1>1, <2>1
<1>3. ASSUME NEW e \in Conns, Fell(e) \/ Dropped(e)
      PROVE  game'[sess'[c].game].started
  <2>1. sess' = sess /\ phase'[c] = phase[c]
    BY <1>3 DEF Fell, Dropped
  <2> QED  BY <1>1, <2>1
<1>4. ASSUME NEW e \in Conns, NEW cl \in Claims, Came(e, cl),
             Waiting(e, cl) \/ Refused(e, cl) \/ Claiming(e, cl)
      PROVE  game'[sess'[c].game].started
  <2>1. CASE c # e
    BY <1>1, <1>4, <2>1 DEF Came, Elsewhere
  <2>2. CASE c = e
    BY <1>4, <2>2 DEF Came, Waiting, Refused, Claiming, SessionOf
  <2> QED  BY <2>1, <2>2
<1>5. ASSUME NEW e \in Conns, NEW s \in BuiltSessions, NEW gm \in Games, Sat(e, s, gm)
      PROVE  game'[sess'[c].game].started
  <2>1. c # e
    BY <1>5 DEF Sat
  <2> QED  BY <1>1, <1>5, <2>1 DEF Sat, Elsewhere
<1> QED  BY <1>2, <1>3, <1>4, <1>5 DEF Amounts

LEMMA GamesHavePlayersStep ==
  ASSUME AuthUsers = {}, Base, GamesHavePlayers, Amounts
  PROVE  GamesHavePlayers'
<1> SUFFICES ASSUME NEW n \in registry' PROVE game'[n].players # {}
  BY DEF GamesHavePlayers
<1>1. ASSUME \/ Still \/ (\E m \in GameNames, f \in Seatings : Handed(m, f))
             \/ (\E k \in Keys : Sent(k)) \/ \E e \in Conns : Rang(e) \/ Fell(e)
      PROVE  UNCHANGED <<game, registry>>
  BY <1>1 DEF Still, Handed, Sent, Rang, Fell
<1>2. ASSUME NEW e \in Conns, NEW cl \in Claims, Came(e, cl)
      PROVE  UNCHANGED <<game, registry>>
  BY <1>2 DEF Came
<1>3. registry \subseteq GameNames
  BY DEF Base, Shape, TypeOK
<1>4. ASSUME NEW e \in Conns, Dropped(e)
      PROVE  game'[n].players # {}
  <2>1. registry' = registry
    BY <1>4 DEF Dropped
  <2> QED  BY <1>3, <1>4, <2>1, DroppedGame DEF GamesHavePlayers
<1>5. ASSUME NEW e \in Conns, Removed(e)
      PROVE  game'[n].players # {}
  <2>1. n \in registry /\ (n = sess[e].game => game'[n].players # {})
    BY <1>5 DEF Removed
  <2> QED  BY <1>3, <1>5, <2>1, RemovedGame DEF GamesHavePlayers
<1>6. ASSUME NEW e \in Conns, NEW s \in BuiltSessions, NEW gm \in Games, Sat(e, s, gm),
             Joining(e, s, gm) \/ Loading(e, s, gm) \/ Returning(e, s, gm)
      PROVE  game'[n].players # {}
  <2>1. CASE n # s.game
    BY <1>3, <1>6, <2>1 DEF Sat, Joining, Loading, Returning, GamesHavePlayers
  <2>2. CASE n = s.game /\ ~Loading(e, s, gm)
    BY <1>6, <2>2 DEF Sat, Joining, Returning, GamesHavePlayers
  <2>3. CASE n = s.game /\ Loading(e, s, gm)
    <3>1. s.user \in DOMAIN seats[n]
      BY <1>6, <2>3 DEF Sat, OwnsSeat
    <3>2. seats[n][s.user] \in Range(seats[n])
      BY <3>1 DEF Range
    <3> QED  BY <1>6, <2>3, <3>2 DEF Sat, Loading
  <2> QED  BY <2>1, <2>2, <2>3
<1> QED  BY <1>1, <1>2, <1>4, <1>5, <1>6 DEF Amounts, GamesHavePlayers

(* Nobody stands for a seat out of nothing: whoever does after a step did before. *)
LEMMA StandsStay ==
  ASSUME AuthUsers = {}, Base, Amounts, NEW c \in Conns, phase[c] # "unused", phase'[c] # "unused",
         sess'[c] = sess[c], StandsIn(c)',
         phase'[c] = "loading" => phase[c] = "loading",
         c \in registered' => c \in registered,
         Live(c)' => Live(c) \/ c \in registered,
         phase'[c] = "claiming" =>
           phase[c] = "claiming" /\ claimOf'[c] = claimOf[c] /\ sess'[claimOf[c]] = sess[claimOf[c]]
  PROVE  StandsIn(c)
<1>1. InTheirName(c)' <=> InTheirName(c)
  BY NameStays
<1>2. ASSUME phase'[c] = "claiming"
      PROVE  InTheirName(claimOf[c])' <=> InTheirName(claimOf[c])
  <2>1. claimOf[c] \in Conns /\ phase[claimOf[c]] # "unused"
    BY <1>2 DEF Base, Shape, ClaimsAreOfLeft, OpportunitiesAreLeft
  <2> QED  BY <1>2, <2>1, NameStays
<1>3. (StandsIn(c))' <=> \/ InTheirName(c)' /\ (phase'[c] = "loading" \/ c \in registered' \/ Live(c)')
                         \/ phase'[c] = "claiming" /\ InTheirName(claimOf[c])'
  BY DEF StandsIn, InTheirName
<1> QED  BY <1>1, <1>2, <1>3 DEF StandsIn

LEMMA OneStandsInStep ==
  ASSUME AuthUsers = {}, Base, FirstClaims, PendingIsNew, JoinedInName, OneStandsIn, serverUp, Amounts
  PROVE  OneStandsIn'
<1> DEFINE Same(c, d) == phase[c] # "unused" /\ phase[d] # "unused" /\ sess[c].user = sess[d].user
<1> SUFFICES ASSUME NEW c \in Conns, NEW d \in Conns, Same(c, d)', StandsIn(c)', StandsIn(d)'
             PROVE  c = d
  BY DEF OneStandsIn
(* both stood there before *)
<1>1. ASSUME Same(c, d), StandsIn(c), StandsIn(d)
      PROVE  c = d
  BY <1>1 DEF OneStandsIn
(* the connection whose seat is claimed has gone, and is not the one that moves *)
<1>2. ASSUME NEW x \in Conns, phase[x] = "claiming"
      PROVE  /\ claimOf[x] \in Conns /\ phase[claimOf[x]] = "closed"
             /\ sess[claimOf[x]].user = sess[x].user /\ sess[claimOf[x]].game = sess[x].game
  BY <1>2 DEF Base, Shape, ClaimsAreOfLeft, OpportunitiesAreLeft, Owned
<1>3. ASSUME \/ Still \/ (\E n \in GameNames, f \in Seatings : Handed(n, f))
             \/ (\E k \in Keys : Sent(k)) \/ \E e \in Conns : Rang(e) \/ Removed(e)
      PROVE  c = d
  <2>1. UNCHANGED <<sess, phase, registered, claimOf>> /\ \A x \in Conns : Live(x)' => Live(x)
    BY <1>3 DEF Still, Handed, Sent, Rang, Removed, Live, Base, Shape, TypeOK
  <2>2. \A x \in {c, d} : StandsIn(x)
    BY <2>1, StandsStay
  <2> QED  BY <1>1, <2>1, <2>2
<1>4. ASSUME NEW e \in Conns, Fell(e) \/ Dropped(e)
      PROVE  c = d
  <2>1. /\ UNCHANGED <<sess, claimOf>> /\ phase[e] # "unused" /\ phase'[e] \in {"closed", "refused"}
        /\ \A x \in Conns \ {e} : phase'[x] = phase[x] /\ (Live(x)' => Live(x))
        /\ registered' \subseteq registered /\ (Live(e)' => e \in registered)
    BY <1>4 DEF Fell, Dropped, Live
  <2>2. \A x \in Conns : phase'[x] # "unused" => phase[x] # "unused"
    BY <2>1
  <2>3. \A x \in {c, d} : StandsIn(x)
    BY <2>1, <2>2, StandsStay
  <2> QED  BY <1>1, <2>1, <2>2, <2>3
(* whoever comes with a first claim is alone *)
<1>5. ASSUME NEW e \in Conns, NEW cl \in claims, cl.name = seats[cl.game][cl.user],
             \A x \in Conns \ {e} : sess'[x] = sess[x] /\ phase'[x] = phase[x],
             sess'[e].user = cl.user, c = e \/ d = e
      PROVE  c = d
  <2>1. SeenOf(cl.user) = {}
    BY <1>5 DEF FirstClaims
  <2>2. ASSUME NEW x \in Conns \ {e}, phase'[x] # "unused", sess'[x].user = cl.user
        PROVE  FALSE
    <3>1. x \in SeenOf(cl.user)
      BY <1>5, <2>2 DEF SeenOf
    <3> QED  BY <2>1, <3>1
  <2> QED  BY <1>5, <2>2
<1>6. ASSUME NEW e \in Conns, NEW cl \in Claims, Came(e, cl),
             Waiting(e, cl) \/ Refused(e, cl) \/ Claiming(e, cl)
      PROVE  c = d
  <2>1. /\ cl \in claims /\ sess'[e] = SessionOf(cl) /\ phase[e] = "unused" /\ opp[e] = "none"
        /\ e \notin registered /\ seats' = seats
        /\ \A x \in Conns \ {e} : sess'[x] = sess[x] /\ phase'[x] = phase[x] /\ claimOf'[x] = claimOf[x]
        /\ registered' = registered
    BY <1>6 DEF Came, Elsewhere
  <2>2. opp' = opp \/ \E x \in Conns \ {e} : opp' = [opp EXCEPT ![x] = "claimed"]
    BY <1>6 DEF Waiting, Refused, Claiming
  <2>3. \A x \in Conns : Live(x)' => Live(x) /\ x # e
    BY <2>1, <2>2 DEF Live, Base, Shape, TypeOK
  <2>4. \A x \in Conns \ {e} : phase[x] = "claiming" => sess'[claimOf[x]] = sess[claimOf[x]]
    BY <1>2, <2>1
  <2>5. \A x \in {c, d} \ {e} : StandsIn(x) /\ phase[x] # "unused"
    BY <2>1, <2>3, <2>4, StandsStay
  <2>6. CASE c # e /\ d # e
    BY <1>1, <2>1, <2>5, <2>6
  <2>7. CASE (c = e \/ d = e) /\ Waiting(e, cl)
    <3>1. cl.name = seats[cl.game][cl.user]
      BY <2>1, <2>7 DEF Waiting, PendingIsNew
    <3> QED  BY <1>5, <2>1, <2>7, <3>1 DEF SessionOf
  <2>8. CASE (c = e \/ d = e) /\ Refused(e, cl)
    <3>1. phase'[e] \notin {"loading", "claiming"} /\ e \notin registered' /\ ~Live(e)'
      BY <2>1, <2>3, <2>8 DEF Refused
    <3>2. ~StandsIn(e)'
      BY <3>1 DEF StandsIn
    <3> QED  BY <2>8, <3>2
  (* the seat passes from the one who left it to the one who claims it *)
  <2>9. CASE (c = e \/ d = e) /\ Claiming(e, cl)
    <3>1. PICK l \in Conns \ {e} :
            /\ claimOf'[e] = l /\ phase[l] = "closed" /\ opp[l] = "active"
            /\ opp' = [opp EXCEPT ![l] = "claimed"]
            /\ sess[l].user = cl.user /\ sess[l].game = cl.game
      BY <2>9 DEF Claiming
    <3>2. phase'[e] \in {"claiming", "failing"} /\ ~Live(e)' /\ e \notin registered'
      BY <2>1, <2>3, <2>9 DEF Claiming
    <3>3. InTheirName(l)'
      BY <2>9, <3>1, <3>2 DEF StandsIn
    <3>4. InTheirName(l) /\ phase[l] # "unused"
      BY <2>1, <3>1, <3>3, NameStays
    <3>5. StandsIn(l)
      BY <3>1, <3>4 DEF StandsIn, Live
    <3>6. \A x \in {c, d} \ {e} : x = l
      <4>1. \A x \in {c, d} \ {e} : sess[x].user = sess[l].user
        BY <2>1, <2>9, <3>1 DEF SessionOf
      <4> QED  BY <2>5, <3>4, <3>5, <4>1 DEF OneStandsIn
    <3>7. l \notin registered
      BY <3>1 DEF Base, Seated, RefusedHasNoSeat
    <3>8. ~StandsIn(l)'
      <4>1. opp'[l] = "claimed" /\ phase'[l] = "closed" /\ l \notin registered'
        BY <2>1, <3>1, <3>7 DEF Base, Shape, TypeOK
      <4> QED  BY <4>1 DEF StandsIn, Live
    <3> QED  BY <2>9, <3>6, <3>8
  <2> QED  BY <1>6, <2>6, <2>7, <2>8, <2>9
<1>7. ASSUME NEW e \in Conns, NEW s \in BuiltSessions, NEW gm \in Games, Sat(e, s, gm),
             Joining(e, s, gm) \/ Loading(e, s, gm) \/ Returning(e, s, gm)
      PROVE  c = d
  <2>1. /\ sess'[e].user = s.user /\ sess'[e].game = s.game /\ sess'[e].name = s.name
        /\ \A x \in Conns \ {e} : sess'[x] = sess[x] /\ phase'[x] = phase[x]
        /\ UNCHANGED <<opp, claimOf, seats>> /\ registered' = registered \cup {e}
        /\ opp[e] = "none" /\ phase[e] # "closed" /\ phase'[e] \in {"joined", "refused"}
    BY <1>7 DEF Sat, Elsewhere
  <2>2. \A x \in Conns \ {e} : phase[x] = "claiming" => sess'[claimOf[x]] = sess[claimOf[x]]
    BY <1>2, <2>1
  <2>3. \A x \in {c, d} \ {e} : StandsIn(x) /\ phase[x] # "unused"
    BY <2>1, <2>2, StandsStay DEF Live
  <2>4. CASE c # e /\ d # e
    BY <1>1, <2>1, <2>3, <2>4
  <2>5. CASE c = e \/ d = e
    <3>1. s.name = seats[s.game][s.user]
      <4>1. InTheirName(e)'
        BY <2>1, <2>5 DEF StandsIn
      <4> QED  BY <2>1, <4>1 DEF InTheirName
    <3>2. CASE Joining(e, s, gm)
      <4>1. PICK cl \in claims : s = SessionOf(cl)
        BY <3>2 DEF Joining
      <4>2. cl.name = seats[cl.game][cl.user] /\ sess'[e].user = cl.user
        BY <2>1, <3>1, <4>1 DEF SessionOf
      <4> QED  BY <1>5, <2>1, <2>5, <4>2
    <3>3. ASSUME ~Joining(e, s, gm)
          PROVE  phase[e] # "unused" /\ sess[e].user = s.user /\ StandsIn(e)
      <4>1. CASE Loading(e, s, gm)
        BY <4>1 DEF Loading, JoinedInName, StandsIn
      <4>2. CASE Returning(e, s, gm)
        BY <1>2, <3>1, <4>2 DEF Returning, StandsIn, InTheirName
      <4> QED  BY <1>7, <3>3, <4>1, <4>2
    <3> QED  BY <1>1, <2>1, <2>3, <3>2, <3>3
  <2> QED  BY <2>4, <2>5
<1> HIDE DEF Same
<1> QED  BY <1>3, <1>4, <1>6, <1>7 DEF Amounts

(* A game starts with everybody in their seat, where they have come but once. *)
LEMMA StartIsFull ==
  ASSUME AuthUsers = {}, Base, FirstClaims, EarlyAreAlone, JoinedInName, serverUp,
         NEW c \in Conns, NEW s \in BuiltSessions, NEW gm \in Games, Sat(c, s, gm),
         Joining(c, s, gm) \/ Loading(c, s, gm), game'[s.game].started,
         NEW u \in DOMAIN seats[s.game], seats[s.game][u] \in gm.players
  PROVE  \E d \in Conns :
           /\ SeenOf(u)' = {d} /\ phase'[d] = "joined" /\ d \in registered' /\ opp'[d] = "none"
           /\ sess'[d].user = u /\ sess'[d].game = s.game /\ sess'[d].name = seats[s.game][u]
<1>1. /\ sess'[c].user = s.user /\ sess'[c].game = s.game /\ sess'[c].name = s.name
      /\ \A d \in Conns \ {c} : sess'[d] = sess[d] /\ phase'[d] = phase[d]
      /\ registered' = registered \cup {c} /\ opp' = opp /\ opp[c] = "none" /\ OwnsSeat(s)
  BY DEF Sat, Elsewhere
<1>2. ~gm.started
  BY DEF Joining, Loading
<1>3. phase'[c] = "joined" /\ AllConnected(gm, c, s) /\ s.name \in gm.players
  BY <1>2 DEF Sat, Games
<1>4. s.game \in GameNames
  BY DEF BuiltSessions
<1>5. CASE seats[s.game][u] = s.name
  <2>1. u = s.user
    BY <1>1, <1>4, <1>5 DEF OwnsSeat
  <2>2. SeenOf(u)' = SeenOf(u) \cup {c}
    BY <1>1, <1>3, <2>1 DEF SeenOf
  <2>3. SeenOf(u) \subseteq {c}
    <3>1. CASE Joining(c, s, gm)
      BY <1>5, <2>1, <3>1, JoiningIsFirst
    <3>2. CASE Loading(c, s, gm)
      BY <2>1, <3>2 DEF Loading, EarlyAreAlone, Early
    <3> QED  BY <3>1, <3>2
  <2> QED  BY <1>1, <1>3, <1>5, <2>1, <2>2, <2>3
<1>6. CASE seats[s.game][u] # s.name
  <2>1. PICK d \in registered \ {c} : sess[d].name = seats[s.game][u]
    BY <1>3, <1>6 DEF AllConnected
  <2>2. d \in Conns \ {c} /\ phase[d] \in {"joined", "refused"}
    BY <2>1 DEF Base, Seated, RefusedHasNoSeat, Shape, TypeOK
  <2>3. sess[d].game = s.game /\ sess[d].user = u
    BY <1>4, <2>1, <2>2 DEF Base, Owned, OwnsSeat
  <2>4. Joining(c, s, gm)
    BY <2>2, <2>3 DEF Loading, Base, Table, PendingIsUntouched
  <2>5. phase[d] = "joined" /\ ~game[s.game].started
    BY <2>1, <2>2, <2>3, <2>4 DEF Joining, Base, Seated, RefusedHasNoSeat
  <2>6. SeenOf(u) = {d} /\ \A cl \in claims : cl.user # u
    BY <2>2, <2>3, <2>5 DEF EarlyAreAlone, Early
  <2>7. s.user # u
    BY <2>4, <2>6 DEF Joining, SessionOf
  <2>8. SeenOf(u)' = SeenOf(u)
    BY <1>1, <1>3, <2>4, <2>7 DEF SeenOf, Joining
  <2>9. opp[d] = "none"
    BY <2>2, <2>5 DEF Base, Shape, OpportunitiesAreLeft
  <2> QED  BY <1>1, <2>1, <2>2, <2>3, <2>5, <2>6, <2>8, <2>9
<1> QED  BY <1>5, <1>6

LEMMA PlayersKeepTheirNameStep ==
  ASSUME AuthUsers = {}, Base, Base', FirstClaims, EarlyAreAlone, JoinedInName, ReturnsAreLate,
         PlayersKeepTheirName, serverUp, Amounts
  PROVE  PlayersKeepTheirName'
<1> DEFINE Kind(c) == /\ Live(c) => InTheirName(c)
                      /\ c \in registered => phase[c] = "joined"
                      /\ phase[c] = "claiming" => InTheirName(claimOf[c])
<1> SUFFICES ASSUME NEW c \in Conns, phase'[c] # "unused", Plays(sess[c].user, sess[c].game)'
             PROVE  Kind(c)'
  BY DEF PlayersKeepTheirName
(* the session was there, in a game that had started *)
<1>1. ASSUME phase[c] # "unused", sess'[c] = sess[c], Plays(sess[c].user, sess[c].game),
             Live(c)' => Live(c), c \in registered' => c \in registered,
             phase'[c] = phase[c],
             phase[c] = "claiming" =>
               claimOf'[c] = claimOf[c] /\ sess'[claimOf[c]] = sess[claimOf[c]]
      PROVE  Kind(c)'
  <2>1. Kind(c)
    BY <1>1 DEF PlayersKeepTheirName
  <2>2. InTheirName(c)' <=> InTheirName(c)
    BY <1>1, NameStays
  <2>3. ASSUME phase[c] = "claiming"
        PROVE  InTheirName(claimOf[c])' <=> InTheirName(claimOf[c])
    <3>1. claimOf[c] \in Conns /\ phase[claimOf[c]] # "unused"
      BY <2>3 DEF Base, Shape, ClaimsAreOfLeft, OpportunitiesAreLeft
    <3> QED  BY <1>1, <2>3, <3>1, NameStays
  <2>4. phase'[c] = "claiming" => (InTheirName(claimOf[c])' <=> InTheirName(claimOf[c]))
    BY <1>1, <2>3
  <2> QED  BY <1>1, <2>1, <2>2, <2>4
<1>2. ASSUME phase[c] # "unused", sess'[c] = sess[c],
             \A n \in GameNames : /\ game'[n].players \subseteq game[n].players
                                  /\ game'[n].started = game[n].started
      PROVE  Plays(sess[c].user, sess[c].game)
  <2>1. sess[c].game \in GameNames /\ seats'[sess[c].game] = seats[sess[c].game]
    BY <1>2, AllAreSeated, SeatsStay
  <2> QED  BY <1>2, <2>1 DEF Plays
<1>3. ASSUME \/ Still \/ (\E n \in GameNames, f \in Seatings : Handed(n, f))
             \/ (\E k \in Keys : Sent(k)) \/ \E e \in Conns : Rang(e) \/ Removed(e)
      PROVE  Kind(c)'
  <2>1. UNCHANGED <<sess, phase, registered, claimOf>> /\ \A x \in Conns : Live(x)' => Live(x)
    BY <1>3 DEF Still, Handed, Sent, Rang, Removed, Live, Base, Shape, TypeOK
  <2>2. \A n \in GameNames : /\ game'[n].players \subseteq game[n].players
                             /\ game'[n].started = game[n].started
    <3>1. CASE \E e \in Conns : Removed(e)
      BY <3>1, RemovedGame
    <3>2. CASE ~\E e \in Conns : Removed(e)
      BY <1>3, <3>2 DEF Still, Handed, Sent, Rang
    <3> QED  BY <3>1, <3>2
  <2> QED  BY <1>1, <1>2, <2>1, <2>2
<1>4. ASSUME NEW e \in Conns, Fell(e)
      PROVE  Kind(c)'
  <2>1. /\ UNCHANGED <<sess, registered, claimOf, game, opp>> /\ phase[e] # "unused"
        /\ \A x \in Conns \ {e} : phase'[x] = phase[x]
        /\ phase'[e] # "claiming" /\ opp[e] = "none" /\ e \notin registered
    BY <1>4 DEF Fell
  <2>2. CASE c # e
    BY <1>1, <1>2, <2>1, <2>2 DEF Live
  <2>3. ~Live(e)' /\ e \notin registered' /\ phase'[e] # "claiming"
    BY <2>1 DEF Live
  <2> QED  BY <2>2, <2>3
<1>5. ASSUME NEW e \in Conns, Dropped(e)
      PROVE  Kind(c)'
  <2>1. /\ UNCHANGED <<sess, claimOf>> /\ phase[e] # "unused" /\ phase'[e] = "closed"
        /\ \A x \in Conns \ {e} : phase'[x] = phase[x] /\ opp'[x] = opp[x]
        /\ registered' = registered \ {e} /\ e \in registered
    BY <1>5 DEF Dropped
  <2>2. phase[c] # "unused"
    BY <2>1
  <2>3. Plays(sess[c].user, sess[c].game)
    BY <1>2, <1>5, <2>1, <2>2, DroppedGame
  <2>4. CASE c # e
    BY <1>1, <2>1, <2>2, <2>3, <2>4 DEF Live
  (* who drops out of a running game sat in their seat *)
  <2>5. CASE c = e
    <3>1. c \in registered /\ c \notin registered' /\ phase'[c] = "closed" /\ sess'[c] = sess[c]
      BY <2>1, <2>5
    <3>2. phase[c] = "joined"
      BY <2>2, <2>3, <3>1 DEF PlayersKeepTheirName
    <3>3. InTheirName(c)
      BY <3>2 DEF JoinedInName
    <3>4. InTheirName(c)'
      BY <2>2, <3>1, <3>3, NameStays
    <3> QED  BY <3>1, <3>4
  <2> QED  BY <2>4, <2>5
<1>6. ASSUME NEW x \in Conns, phase[x] = "claiming"
      PROVE  /\ claimOf[x] \in Conns /\ phase[claimOf[x]] = "closed"
             /\ sess[claimOf[x]].user = sess[x].user /\ sess[claimOf[x]].game = sess[x].game
  BY <1>6 DEF Base, Shape, ClaimsAreOfLeft, OpportunitiesAreLeft, Owned
<1>7. ASSUME NEW e \in Conns, NEW cl \in Claims, Came(e, cl),
             Waiting(e, cl) \/ Refused(e, cl) \/ Claiming(e, cl)
      PROVE  Kind(c)'
  <2>1. /\ cl \in claims /\ sess'[e] = SessionOf(cl) /\ phase[e] = "unused" /\ opp[e] = "none"
        /\ e \notin registered /\ UNCHANGED <<seats, registered, game>>
        /\ \A x \in Conns \ {e} : sess'[x] = sess[x] /\ phase'[x] = phase[x] /\ claimOf'[x] = claimOf[x]
    BY <1>7 DEF Came, Elsewhere
  <2>2. opp' = opp \/ \E x \in Conns \ {e} : opp' = [opp EXCEPT ![x] = "claimed"]
    BY <1>7 DEF Waiting, Refused, Claiming
  <2>3. \A x \in Conns : Live(x)' => Live(x) /\ x # e
    BY <2>1, <2>2 DEF Live, Base, Shape, TypeOK
  <2>4. CASE c # e
    <3>1. phase[c] = "claiming" => sess'[claimOf[c]] = sess[claimOf[c]]
      BY <1>6, <2>1
    <3> QED  BY <1>1, <1>2, <2>1, <2>3, <2>4, <3>1
  <2>5. CASE c = e
    <3>1. ~Live(c)' /\ c \notin registered'
      BY <2>1, <2>3, <2>5
    <3>2. ASSUME phase'[c] = "claiming"
          PROVE  InTheirName(claimOf[c])'
      <4>1. Claiming(e, cl)
        BY <1>7, <2>5, <3>2 DEF Waiting, Refused
      <4>2. PICK l \in Conns \ {e} :
              /\ claimOf'[e] = l /\ phase[l] = "closed" /\ opp[l] = "active"
              /\ sess[l].user = cl.user /\ sess[l].game = cl.game
        BY <4>1 DEF Claiming
      <4>3. Plays(sess[l].user, sess[l].game)
        BY <2>1, <2>5, <4>2 DEF Plays, SessionOf
      <4>4. InTheirName(l)
        BY <4>2, <4>3 DEF PlayersKeepTheirName, Live
      <4>5. InTheirName(l)'
        BY <2>1, <4>2, <4>4, NameStays
      <4> QED  BY <2>5, <4>2, <4>5 DEF InTheirName
    <3> QED  BY <3>1, <3>2
  <2> QED  BY <2>4, <2>5
<1>8. ASSUME NEW e \in Conns, NEW s \in BuiltSessions, NEW gm \in Games, Sat(e, s, gm),
             Joining(e, s, gm) \/ Loading(e, s, gm) \/ Returning(e, s, gm)
      PROVE  Kind(c)'
  <2>1. /\ sess'[e].user = s.user /\ sess'[e].game = s.game /\ sess'[e].name = s.name
        /\ \A x \in Conns \ {e} : sess'[x] = sess[x] /\ phase'[x] = phase[x]
        /\ UNCHANGED <<opp, claimOf, seats>> /\ registered' = registered \cup {e}
        /\ opp[e] = "none" /\ phase[e] # "closed" /\ phase'[e] \in {"joined", "refused"}
        /\ \A m \in GameNames \ {s.game} : game'[m] = game[m]
        /\ game'[s.game].players = gm.players
    BY <1>8 DEF Sat, Elsewhere
  <2>2. s.game \in GameNames
    BY DEF BuiltSessions
  (* in another game nothing changes *)
  <2>3. ASSUME c # e, Plays(sess[c].user, sess[c].game)
        PROVE  Kind(c)'
    <3>1. phase[c] = "claiming" => sess'[claimOf[c]] = sess[claimOf[c]]
      BY <1>6, <2>1
    <3> QED  BY <1>1, <2>1, <2>3, <3>1 DEF Live
  <2>4. CASE sess'[c].game # s.game
    <3>1. c # e /\ phase[c] # "unused" /\ sess[c].game # s.game /\ sess'[c] = sess[c]
      BY <2>1, <2>4
    <3>2. sess[c].game \in GameNames
      BY <3>1, AllAreSeated
    <3>3. game'[sess[c].game] = game[sess[c].game]
      BY <2>1, <3>1, <3>2
    <3> QED  BY <2>1, <2>3, <3>1, <3>3 DEF Plays
  (* the game has just started *)
  <2>5. CASE sess'[c].game = s.game /\ (Joining(e, s, gm) \/ Loading(e, s, gm))
    <3> PICK u : u = sess'[c].user
      OBVIOUS
    <3>1. u \in DOMAIN seats[s.game] /\ seats[s.game][u] \in gm.players /\ game'[s.game].started
      <4>1. u \in DOMAIN seats'[s.game]
        BY <2>5 DEF Base, Owned, OwnsSeat
      <4> QED  BY <2>1, <2>5, <4>1 DEF Plays
    <3>2. PICK d \in Conns : /\ SeenOf(u)' = {d} /\ phase'[d] = "joined" /\ opp'[d] = "none"
      BY <1>8, <2>5, <3>1, StartIsFull
    <3>3. c = d
      BY <3>2 DEF SeenOf
    <3> QED  BY <3>2, <3>3 DEF Live
  (* the game had started, and e comes back into it *)
  <2>6. CASE sess'[c].game = s.game /\ Returning(e, s, gm)
    <3>1. /\ gm = game[s.game] /\ game[s.game].started /\ phase[e] = "claiming"
          /\ s.user = sess[e].user /\ s.game = sess[e].game /\ s.name = sess[claimOf[e]].name
      BY <2>6 DEF Returning, ReturnsAreLate
    <3>2. CASE c # e
      BY <2>1, <2>3, <2>6, <3>1, <3>2 DEF Plays
    <3>3. CASE c = e
      <4>1. Plays(sess[e].user, sess[e].game)
        BY <2>1, <2>6, <3>1, <3>3 DEF Plays
      <4>2. InTheirName(claimOf[e])
        BY <3>1, <4>1 DEF PlayersKeepTheirName
      <4>3. s.name = seats[s.game][s.user]
        BY <1>6, <3>1, <4>2 DEF InTheirName
      <4>4. s.name \in gm.players
        BY <3>1, <4>1, <4>3 DEF Plays
      <4>5. phase'[e] = "joined"
        BY <1>8, <4>4 DEF Sat
      <4> QED  BY <2>1, <3>3, <4>5 DEF Live
    <3> QED  BY <3>2, <3>3
  <2> QED  BY <1>8, <2>4, <2>5, <2>6
<1> HIDE DEF Kind
<1> QED  BY <1>3, <1>4, <1>5, <1>7, <1>8 DEF Amounts

(* c sits in the seat of u in n; or u is waited for there because of c. *)
Sits(c, u, n) ==
  /\ c \in registered /\ phase[c] = "joined"
  /\ sess[c].user = u /\ sess[c].game = n /\ sess[c].name = seats[n][u]

WaitedAs(c, u, n) ==
  /\ sess[c].user = u /\ sess[c].game = n
  /\ \/ Live(c) /\ sess[c].name = seats[n][u]
     \/ phase[c] \in {"claiming", "failing"}
     \/ phase[c] = "refused" /\ c \notin registered

LEMMA SeatViews ==
  ASSUME TypeOK, TypeOK'
  PROVE  \A u, n : /\ HasSession(u, n)   <=> \E c \in Conns : Sits(c, u, n)
                   /\ HasSession(u, n)'  <=> \E c \in Conns : Sits(c, u, n)'
                   /\ Awaited(u, n)  <=> \E c \in Conns : WaitedAs(c, u, n)
                   /\ Awaited(u, n)' <=> \E c \in Conns : WaitedAs(c, u, n)'
<1>1. \A u, n : /\ HasSession(u, n)   <=> \E c \in Conns : Sits(c, u, n)
                /\ HasSession(u, n)'  <=> \E c \in Conns : Sits(c, u, n)'
  BY DEF HasSession, SitsIn, Sits, TypeOK
<1>2. \A u, n : /\ Awaited(u, n)  <=> \E c \in Conns : WaitedAs(c, u, n)
                /\ Awaited(u, n)' <=> \E c \in Conns : WaitedAs(c, u, n)'
  BY DEF Awaited, WaitedAs, Live
<1> QED  BY <1>1, <1>2

LEMMA PlayersAreThereStep ==
  ASSUME AuthUsers = {}, Base, Base', FirstClaims, EarlyAreAlone, JoinedInName, ReturnsAreLate,
         PlayersKeepTheirName, PlayersAreThere, serverUp, Amounts
  PROVE  PlayersAreThere'
<1> DEFINE There(u, n) == \E c \in Conns : Sits(c, u, n) \/ WaitedAs(c, u, n)
<1>1. \A u, n : (HasSession(u, n) \/ Awaited(u, n) <=> There(u, n))
  BY SeatViews DEF Base, Shape
<1>2. \A u, n : (HasSession(u, n)' \/ Awaited(u, n)' <=> There(u, n)')
  BY SeatViews DEF Base, Shape
<1> SUFFICES ASSUME NEW n \in GameNames, NEW u \in DOMAIN seats'[n], Plays(u, n)'
             PROVE  There(u, n)'
  BY <1>2 DEF PlayersAreThere
(* a connection unchanged in what it is there for *)
<1>3. ASSUME NEW c \in Conns, sess'[c] = sess[c], phase'[c] = phase[c], seats'[n] = seats[n],
             c \in registered' <=> c \in registered, Live(c) => Live(c)'
      PROVE  /\ Sits(c, u, n) => Sits(c, u, n)'
             /\ WaitedAs(c, u, n) => WaitedAs(c, u, n)'
  BY <1>3 DEF Sits, WaitedAs
<1>4. ASSUME u \in DOMAIN seats[n], seats'[n] = seats[n], game[n].started,
             game'[n].players \subseteq game[n].players
      PROVE  There(u, n)
  BY <1>1, <1>4 DEF Plays, PlayersAreThere
<1>5. ASSUME \/ Still \/ (\E k \in Keys : Sent(k)) \/ \E e \in Conns : Rang(e)
      PROVE  There(u, n)'
  <2>1. UNCHANGED <<seats, sess, phase, registered, game>> /\ \A x \in Conns : Live(x) => Live(x)'
    BY <1>5 DEF Still, Sent, Rang, Live, Base, Shape, TypeOK
  <2>2. There(u, n)
    BY <1>4, <2>1 DEF Plays
  <2> QED  BY <1>3, <2>1, <2>2
<1>6. ASSUME NEW m \in GameNames, NEW f \in Seatings, Handed(m, f)
      PROVE  There(u, n)'
  <2>1. UNCHANGED <<sess, phase, registered, game, opp>>
    BY <1>6 DEF Handed
  <2>2. n # m
    <3>1. game[m].players \subseteq Range(seats[m]) /\ DOMAIN seats[m] = {}
      BY <1>6 DEF Handed, Base, Table, PlayersAreSeated
    <3>2. game[m].players = {}
      BY <3>1 DEF Range
    <3> QED  BY <2>1, <3>2 DEF Plays
  <2>3. seats'[n] = seats[n]
    BY <1>6, <2>2 DEF Handed
  <2>4. There(u, n)
    BY <1>4, <2>1, <2>3 DEF Plays
  <2> QED  BY <1>3, <2>1, <2>3, <2>4 DEF Live
<1>7. ASSUME NEW e \in Conns, Fell(e)
      PROVE  There(u, n)'
  <2>1. /\ UNCHANGED <<seats, sess, registered, game, opp>> /\ e \notin registered /\ opp[e] = "none"
        /\ \A x \in Conns \ {e} : phase'[x] = phase[x]
    BY <1>7 DEF Fell
  <2>2. PICK c \in Conns : Sits(c, u, n) \/ WaitedAs(c, u, n)
    BY <1>4, <2>1 DEF Plays
  <2>3. CASE c # e
    BY <1>3, <2>1, <2>2, <2>3 DEF Live
  <2>4. CASE c = e
    <3>1. WaitedAs(e, u, n) /\ phase[e] = "failing" /\ phase'[e] = "refused"
      BY <1>7, <2>1, <2>2, <2>4 DEF Fell, Sits, WaitedAs, Live
    <3>2. WaitedAs(e, u, n)'
      BY <2>1, <3>1 DEF WaitedAs
    <3> QED  BY <3>2
  <2> QED  BY <2>3, <2>4
<1>8. ASSUME NEW e \in Conns, Dropped(e)
      PROVE  There(u, n)'
  <2>1. /\ UNCHANGED <<seats, sess>> /\ e \in registered /\ registered' = registered \ {e}
        /\ \A x \in Conns \ {e} : phase'[x] = phase[x] /\ opp'[x] = opp[x]
        /\ opp[e] = "none" /\ opp'[e] = "active" /\ phase[e] \in {"joined", "refused"}
    BY <1>8 DEF Dropped
  <2>2. PICK c \in Conns : Sits(c, u, n) \/ WaitedAs(c, u, n)
    BY <1>4, <1>8, <2>1, DroppedGame DEF Plays
  <2>3. CASE c # e
    BY <1>3, <2>1, <2>2, <2>3 DEF Live
  <2>4. CASE c = e
    <3>1. Sits(e, u, n)
      BY <2>1, <2>2, <2>4 DEF WaitedAs, Live
    <3>2. WaitedAs(e, u, n)'
      BY <2>1, <3>1 DEF Sits, WaitedAs, Live
    <3> QED  BY <3>2
  <2> QED  BY <2>3, <2>4
<1>9. ASSUME NEW e \in Conns, Removed(e)
      PROVE  There(u, n)'
  <2>1. /\ UNCHANGED <<seats, sess, phase, registered>>
        /\ opp[e] = "expiring" /\ opp' = [opp EXCEPT ![e] = "expired"]
    BY <1>9 DEF Removed
  <2>2. PICK c \in Conns : Sits(c, u, n) \/ WaitedAs(c, u, n)
    BY <1>4, <1>9, <2>1, RemovedGame DEF Plays
  <2>3. CASE c # e
    BY <1>3, <2>1, <2>2, <2>3 DEF Live, Base, Shape, TypeOK
  (* the name of e is no player's any more *)
  <2>4. CASE c = e
    <3>1. phase[e] = "closed"
      BY <2>1 DEF Base, Shape, OpportunitiesAreLeft
    <3>2. sess[e].game = n /\ sess[e].name = seats[n][u]
      BY <2>2, <2>4, <3>1 DEF Sits, WaitedAs
    <3>3. seats[n][u] \notin game'[n].players
      BY <1>9, <3>2, RemovedGame
    <3> QED  BY <2>1, <3>3 DEF Plays
  <2> QED  BY <2>3, <2>4
<1>10. ASSUME NEW e \in Conns, NEW cl \in Claims, Came(e, cl),
              Waiting(e, cl) \/ Refused(e, cl) \/ Claiming(e, cl)
       PROVE  There(u, n)'
  <2>1. /\ cl \in claims /\ sess'[e] = SessionOf(cl) /\ phase[e] = "unused" /\ opp[e] = "none"
        /\ e \notin registered /\ UNCHANGED <<seats, registered, game>>
        /\ \A x \in Conns \ {e} : sess'[x] = sess[x] /\ phase'[x] = phase[x]
    BY <1>10 DEF Came, Elsewhere
  <2>2. PICK c \in Conns : Sits(c, u, n) \/ WaitedAs(c, u, n)
    BY <1>4, <2>1 DEF Plays
  <2>3. c # e
    BY <2>1, <2>2 DEF Sits, WaitedAs, Live
  <2>4. CASE opp' = opp
    BY <1>3, <2>1, <2>2, <2>3, <2>4 DEF Live
  <2>5. CASE Claiming(e, cl)
    <3>1. PICK l \in Conns \ {e} :
            /\ opp' = [opp EXCEPT ![l] = "claimed"] /\ phase[l] = "closed"
            /\ sess[l].user = cl.user /\ sess[l].game = cl.game
      BY <2>5 DEF Claiming
    <3>2. CASE c # l
      BY <1>3, <2>1, <2>2, <2>3, <3>1, <3>2 DEF Live, Base, Shape, TypeOK
    <3>3. CASE c = l
      <4>1. cl.user = u /\ cl.game = n
        BY <2>2, <3>1, <3>3 DEF Sits, WaitedAs
      <4>2. phase'[e] \in {"claiming", "failing"}
        BY <2>5 DEF Claiming
      <4>3. WaitedAs(e, u, n)'
        BY <2>1, <4>1, <4>2 DEF WaitedAs, SessionOf
      <4> QED  BY <4>3
    <3> QED  BY <3>2, <3>3
  <2> QED  BY <1>10, <2>4, <2>5 DEF Waiting, Refused
<1>11. ASSUME NEW e \in Conns, NEW s \in BuiltSessions, NEW gm \in Games, Sat(e, s, gm),
              Joining(e, s, gm) \/ Loading(e, s, gm) \/ Returning(e, s, gm)
       PROVE  There(u, n)'
  <2>1. /\ sess'[e].user = s.user /\ sess'[e].game = s.game /\ sess'[e].name = s.name
        /\ \A x \in Conns \ {e} : sess'[x] = sess[x] /\ phase'[x] = phase[x]
        /\ UNCHANGED <<opp, claimOf, seats>> /\ registered' = registered \cup {e}
        /\ opp[e] = "none" /\ phase[e] \in {"unused", "loading", "claiming"} /\ e \notin registered
        /\ \A m \in GameNames \ {s.game} : game'[m] = game[m]
        /\ game'[s.game].players = gm.players
    BY <1>11 DEF Sat, Elsewhere
  <2>2. CASE n # s.game
    <3>1. PICK c \in Conns : Sits(c, u, n) \/ WaitedAs(c, u, n)
      BY <1>4, <2>1, <2>2 DEF Plays
    <3>2. ASSUME c = e
          PROVE  sess[e].game = s.game
      BY <1>11, <2>1, <3>1, <3>2 DEF Sits, WaitedAs, Live, Joining, Loading, Returning
    <3>3. c # e
      BY <2>2, <3>1, <3>2 DEF Sits, WaitedAs
    <3> QED  BY <1>3, <2>1, <3>1, <3>3 DEF Live
  <2>3. CASE n = s.game /\ (Joining(e, s, gm) \/ Loading(e, s, gm))
    <3>1. u \in DOMAIN seats[s.game] /\ seats[s.game][u] \in gm.players /\ game'[s.game].started
      BY <2>1, <2>3 DEF Plays
    <3>2. PICK d \in Conns :
            /\ phase'[d] = "joined" /\ d \in registered'
            /\ sess'[d].user = u /\ sess'[d].game = s.game /\ sess'[d].name = seats[s.game][u]
      BY <1>11, <2>3, <3>1, StartIsFull
    <3>3. Sits(d, u, n)'
      BY <2>1, <2>3, <3>2 DEF Sits
    <3> QED  BY <3>3
  <2>4. CASE n = s.game /\ Returning(e, s, gm)
    <3>1. /\ gm = game[s.game] /\ game[s.game].started /\ phase[e] = "claiming"
          /\ s.user = sess[e].user /\ s.game = sess[e].game /\ s.name = sess[claimOf[e]].name
      BY <2>4 DEF Returning, ReturnsAreLate
    <3>2. PICK c \in Conns : Sits(c, u, n) \/ WaitedAs(c, u, n)
      BY <1>4, <2>1, <2>4, <3>1 DEF Plays
    <3>3. CASE c # e
      BY <1>3, <2>1, <3>2, <3>3 DEF Live
    <3>4. CASE c = e
      <4>1. s.user = u /\ Plays(sess[e].user, sess[e].game)
        BY <2>1, <2>4, <3>1, <3>2, <3>4 DEF Sits, WaitedAs, Plays
      <4>2. InTheirName(claimOf[e])
        BY <3>1, <4>1 DEF PlayersKeepTheirName
      <4>3. sess[claimOf[e]].user = s.user /\ sess[claimOf[e]].game = s.game
        BY <3>1 DEF Base, Owned
      <4>4. s.name = seats[n][u] /\ s.name \in gm.players
        BY <2>4, <3>1, <4>1, <4>2, <4>3 DEF InTheirName, Plays
      <4>5. phase'[e] = "joined"
        BY <1>11, <4>4 DEF Sat
      <4>6. Sits(e, u, n)'
        BY <2>1, <2>4, <4>1, <4>4, <4>5 DEF Sits
      <4> QED  BY <4>6
    <3> QED  BY <3>3, <3>4
  <2> QED  BY <1>11, <2>2, <2>3, <2>4
<1> HIDE DEF There
<1> QED  BY <1>5, <1>6, <1>7, <1>8, <1>9, <1>10, <1>11 DEF Amounts

(* serverUp never comes back. *)
LEMMA UpWasUp ==
  ASSUME TypeOK, [Next]_vars, serverUp'
  PROVE  serverUp
<1>1. ASSUME NEW cl \in claims, NEW c \in Conns,
             \/ AwaitSetup(c, cl) \/ FindNoGame(c, cl) \/ JoinBeforeStart(c, cl)
             \/ ClaimOpportunity(c, cl) \/ RefuseReconnection(c, cl)
      PROVE  serverUp
  BY <1>1 DEF AwaitSetup, FindNoGame, JoinBeforeStart, ClaimOpportunity, RefuseReconnection,
              Arrive, MayDispatch
<1>2. ASSUME \/ HandoffSome \/ ForwardSome \/ (\E cl \in claims : RejectClaim(cl))
             \/ \E c \in Conns : Disconnect(c) \/ DisconnectThrows(c) \/ CloseUnheard(c)
      PROVE  serverUp
  BY <1>2 DEF HandoffSome, Handoff, ForwardSome, Forward, RejectClaim, Disconnect,
              DisconnectThrows, CloseUnheard, MayDispatch
<1>3. ASSUME NEW c \in Conns, Continue(c) \/ TimeOut(c)
      PROVE  serverUp
  BY <1>3 DEF Continue, LoadGame, LoseLoadRace, FinishClaim, ClaimFails, TimeOut, Expire,
              FinishTimeout, TimeoutThrows, MayDispatch
<1>4. CASE UNCHANGED vars
  BY <1>4 DEF vars
<1> QED  BY <1>1, <1>2, <1>3, <1>4 DEF Next, ArriveSome, DepartSome

(* Base and Held are inductive together. *)
LEMMA HeldStep ==
  ASSUME HandsOffOnce, AuthUsers = {}, Base, Held, [Next]_vars
  PROVE  Base' /\ Held'
<1>1. Base'
  BY BaseStep
<1>2. ASSUME serverUp'
      PROVE  /\ FirstClaims' /\ EarlyAreAlone' /\ PendingIsNew' /\ JoinedInName'
             /\ ReturnsAreLate' /\ OneStandsIn' /\ PlayersKeepTheirName' /\ PlayersAreThere'
             /\ GamesHavePlayers'
  <2>1. serverUp
    BY <1>2, UpWasUp DEF Base, Shape
  <2>2. /\ FirstClaims /\ EarlyAreAlone /\ PendingIsNew /\ JoinedInName
        /\ ReturnsAreLate /\ OneStandsIn /\ PlayersKeepTheirName /\ PlayersAreThere
        /\ GamesHavePlayers
    BY <2>1 DEF Held
  <2>3. Amounts
    BY <1>2, StepAmounts
  <2>4. FirstClaims' /\ EarlyAreAlone' /\ PendingIsNew'
    BY <2>2, <2>3, FirstClaimsStep, EarlyAreAloneStep, PendingIsNewStep
  <2>5. JoinedInName' /\ ReturnsAreLate' /\ GamesHavePlayers'
    BY <2>2, <2>3, JoinedInNameStep, ReturnsAreLateStep, GamesHavePlayersStep
  <2>6. OneStandsIn'
    BY <2>1, <2>2, <2>3, OneStandsInStep
  <2>7. PlayersKeepTheirName' /\ PlayersAreThere'
    BY <1>1, <2>1, <2>2, <2>3, PlayersKeepTheirNameStep, PlayersAreThereStep
  <2> QED  BY <2>4, <2>5, <2>6, <2>7
<1> QED  BY <1>1, <1>2 DEF Held

-----------------------------------------------------------------------------
(* Which step of the promise each step is *)

(* The player of u's seat in n is still, or not yet, on its roster. *)
OnRoster(u, n) == n \in pending \/ seats[n][u] \in game[n].players

OpenGames == {n \in GameNames : \E c \in Conns : sess[c].game = n /\ AcceptsInput(c)}

Stages == [n \in GameNames |-> [u \in Users |-> SeatStage(u, n)]]

(* Where a user stands, while the server is up. *)
LEMMA StageIs ==
  ASSUME serverUp, NEW n, NEW u
  PROVE  /\ u \notin DOMAIN seats[n] => SeatStage(u, n) = "none"
         /\ u \in DOMAIN seats[n] /\ ~OnRoster(u, n) => SeatStage(u, n) = "given up"
         /\ u \in DOMAIN seats[n] /\ OnRoster(u, n) =>
              /\ HasSession(u, n) => SeatStage(u, n) = "taken"
              /\ ~HasSession(u, n) /\ Awaited(u, n) => SeatStage(u, n) = "vacant"
              /\ ~HasSession(u, n) /\ ~Awaited(u, n) => SeatStage(u, n) = "expected"
BY DEF SeatStage, OnRoster

LEMMA StageWillBe ==
  ASSUME serverUp', NEW n, NEW u
  PROVE  /\ u \notin DOMAIN seats'[n] => SeatStage(u, n)' = "none"
         /\ u \in DOMAIN seats'[n] /\ ~OnRoster(u, n)' => SeatStage(u, n)' = "given up"
         /\ u \in DOMAIN seats'[n] /\ OnRoster(u, n)' =>
              /\ HasSession(u, n)' => SeatStage(u, n)' = "taken"
              /\ ~HasSession(u, n)' /\ Awaited(u, n)' => SeatStage(u, n)' = "vacant"
              /\ ~HasSession(u, n)' /\ ~Awaited(u, n)' => SeatStage(u, n)' = "expected"
BY DEF SeatStage, OnRoster

LEMMA StageStays ==
  ASSUME serverUp, serverUp', TypeOK, TypeOK', NEW n, NEW u, seats'[n] = seats[n],
         u \in DOMAIN seats[n] =>
           /\ OnRoster(u, n)' <=> OnRoster(u, n)
           /\ OnRoster(u, n) => \A c \in Conns : /\ Sits(c, u, n)' <=> Sits(c, u, n)
                                                 /\ WaitedAs(c, u, n)' <=> WaitedAs(c, u, n)
  PROVE  SeatStage(u, n)' = SeatStage(u, n)
<1>1. CASE u \in DOMAIN seats[n] /\ OnRoster(u, n)
  <2>1. (HasSession(u, n)' <=> HasSession(u, n)) /\ (Awaited(u, n)' <=> Awaited(u, n))
    BY <1>1, SeatViews
  <2> QED  BY <1>1, <2>1 DEF SeatStage, OnRoster
<1>2. CASE ~(u \in DOMAIN seats[n] /\ OnRoster(u, n))
  BY <1>2 DEF SeatStage, OnRoster
<1> QED  BY <1>1, <1>2

(* A game that is open for input has nobody to wait for. *)
LEMMA OpenIsSettled ==
  ASSUME Base', serverUp', NEW n \in OpenGames', NEW u \in Users
  PROVE  SeatStage(u, n)' \in {"none", "taken", "given up"}
<1>1. PICK c \in Conns : sess'[c].game = n /\ AcceptsInput(c)'
  BY DEF OpenGames
<1>2. n \in GameNames /\ n \in registry' /\ game'[n].started /\ game'[n].lock = {}
  BY <1>1 DEF OpenGames, AcceptsInput
<1>3. n \notin pending'
  BY <1>2 DEF Base, Table, PendingIsUntouched
<1>4. ASSUME u \in DOMAIN seats'[n], OnRoster(u, n)'
      PROVE  HasSession(u, n)'
  BY <1>2, <1>3, <1>4 DEF OnRoster, Base, Seated, MissingIsLocked
<1> QED  BY <1>4, StageWillBe

(* What opens or closes a game. *)
LEMMA OpenStays ==
  ASSUME serverUp, serverUp', TypeOK, TypeOK', NEW n \in GameNames,
         game'[n].started = game[n].started, game'[n].lock = game[n].lock,
         n \in registry' <=> n \in registry,
         n \in registry /\ game[n].started /\ game[n].lock = {} =>
           ((\E c \in registered' : sess'[c].game = n) <=> (\E c \in registered : sess[c].game = n))
  PROVE  n \in OpenGames' <=> n \in OpenGames
<1>1. n \in OpenGames <=> /\ n \in registry /\ game[n].started /\ game[n].lock = {}
                          /\ \E c \in registered : sess[c].game = n
  BY DEF OpenGames, AcceptsInput, TypeOK
<1>2. n \in OpenGames' <=> /\ n \in registry' /\ game'[n].started /\ game'[n].lock = {}
                           /\ \E c \in registered' : sess'[c].game = n
  BY DEF OpenGames, AcceptsInput, TypeOK
<1> QED  BY <1>1, <1>2

(* One seat changes, and no other game opens or closes. *)
LEMMA OneMoves ==
  ASSUME Base', serverUp', NEW n \in GameNames, NEW u \in Users, NEW from, NEW to,
         SeatStage(u, n) = from, SeatStage(u, n)' = to,
         \A m \in GameNames, v \in Users :
           m # n \/ v # u => SeatStage(v, m)' = SeatStage(v, m),
         \A m \in GameNames \ {n} : m \in OpenGames' <=> m \in OpenGames
  PROVE  Kept!Move(n, u, from, to)
<1>1. Stages[n][u] = from
  BY DEF Stages
<1>2. Stages' = [Stages EXCEPT ![n][u] = to]
  BY DEF Stages
<1>3. /\ OpenGames' \subseteq OpenGames \cup {n}
      /\ OpenGames \ {n} \subseteq OpenGames'
  BY DEF OpenGames
<1>4. n \in OpenGames' => \A v \in Users : Stages'[n][v] \in {"none", "taken", "given up"}
  BY OpenIsSettled DEF Stages
<1> QED  BY <1>1, <1>2, <1>3, <1>4 DEF Kept!Move, Kept!Opening, Kept!Settled, Stages, OpenGames

(* Nothing changes. *)
LEMMA NothingMoves ==
  ASSUME \A m \in GameNames, v \in Users : SeatStage(v, m)' = SeatStage(v, m),
         \A m \in GameNames : m \in OpenGames' <=> m \in OpenGames
  PROVE  UNCHANGED Kept!vars
<1>1. Stages' = Stages /\ OpenGames' = OpenGames
  BY DEF Stages, OpenGames
<1> QED  BY <1>1 DEF Kept!vars, Stages, OpenGames

-----------------------------------------------------------------------------
(* The connections a step leaves alone, and the seat the others are about *)

(* c is where it was. *)
Same(c) ==
  /\ sess'[c] = sess[c] /\ phase'[c] = phase[c]
  /\ c \in registered' <=> c \in registered
  /\ Live(c)' <=> Live(c)

(* c has something to do with the seat of u in n. *)
About(c, u, n) ==
  /\ sess[c].user = u /\ sess[c].game = n
  /\ Live(c) \/ phase[c] \in {"joined", "claiming", "failing", "refused"}

(* Whoever moves is about the seat of u in n. *)
OnlyAbout(u, n) ==
  \A c \in Conns : \/ Same(c)
                   \/ \A v, m : About(c, v, m) \/ About(c, v, m)' => v = u /\ m = n

LEMMA OthersStay ==
  ASSUME serverUp, serverUp', TypeOK, TypeOK', NEW u, NEW n, NEW v, NEW m,
         OnlyAbout(u, n), v # u \/ m # n, seats'[m] = seats[m],
         v \in DOMAIN seats[m] => (OnRoster(v, m)' <=> OnRoster(v, m))
  PROVE  SeatStage(v, m)' = SeatStage(v, m)
<1>1. ASSUME NEW c \in Conns, Same(c)
      PROVE  (Sits(c, v, m)' <=> Sits(c, v, m)) /\ (WaitedAs(c, v, m)' <=> WaitedAs(c, v, m))
  BY <1>1 DEF Same, Sits, WaitedAs
<1>2. ASSUME NEW c \in Conns, ~About(c, v, m), ~About(c, v, m)'
      PROVE  (Sits(c, v, m)' <=> Sits(c, v, m)) /\ (WaitedAs(c, v, m)' <=> WaitedAs(c, v, m))
  BY <1>2 DEF About, Sits, WaitedAs
<1> QED  BY <1>1, <1>2, StageStays DEF OnlyAbout

(* Who is about a seat has been here. *)
LEMMA AboutIsSeen ==
  ASSUME Base, NEW c \in Conns, NEW u, NEW n
  PROVE  /\ About(c, u, n) => phase[c] # "unused" /\ c \in SeenOf(u)
         /\ Sits(c, u, n) => About(c, u, n)
         /\ WaitedAs(c, u, n) => About(c, u, n)
<1>1. Live(c) => phase[c] = "closed"
  BY DEF Live, Base, Shape, OpportunitiesAreLeft
<1> QED  BY <1>1 DEF About, Sits, WaitedAs, SeenOf

LEMMA QuietStep ==
  ASSUME serverUp, serverUp', Base, Base',
         UNCHANGED <<seats, pending, sess, phase, registered, registry, game>>,
         \A c \in Conns : Live(c)' <=> Live(c)
  PROVE  UNCHANGED Kept!vars
<1> USE DEF Base, Shape
<1>1. ASSUME NEW n \in GameNames, NEW u \in Users
      PROVE  SeatStage(u, n)' = SeatStage(u, n)
  <2>1. (OnRoster(u, n)' <=> OnRoster(u, n))
    BY DEF OnRoster
  <2>2. \A c \in Conns : (Sits(c, u, n)' <=> Sits(c, u, n)) /\ (WaitedAs(c, u, n)' <=> WaitedAs(c, u, n))
    BY DEF Sits, WaitedAs
  <2> QED  BY <2>1, <2>2, StageStays
<1>2. \A n \in GameNames : n \in OpenGames' <=> n \in OpenGames
  BY DEF OpenGames, AcceptsInput
<1> QED  BY <1>1, <1>2, NothingMoves

LEMMA HandedStep ==
  ASSUME AuthUsers = {}, serverUp, serverUp', Base, Base', Amounts,
         NEW n \in GameNames, NEW f \in Seatings, Handed(n, f)
  PROVE  Kept!HandOff(n, DOMAIN f)
<1>1. /\ DOMAIN seats[n] = {} /\ seats'[n] = f /\ pending' = pending \cup {n} /\ DOMAIN f \subseteq Users
      /\ \A m \in GameNames \ {n} : seats'[m] = seats[m]
      /\ UNCHANGED <<sess, phase, registered, registry, game, opp>>
  BY DEF Handed, Seatings
<1>2. \A u \in Users : SeatStage(u, n) = "none"
  BY <1>1 DEF SeatStage
(* nobody has been in that game *)
<1>3. \A c \in Conns : \A u : ~About(c, u, n)
  <2>1. \A c \in Conns : phase[c] # "unused" => sess[c].game # n
    BY <1>1, AllAreSeated
  <2> QED  BY <2>1, AboutIsSeen DEF About
<1>4. \A c \in Conns : \A u : ~About(c, u, n)'
  BY <1>1, <1>3 DEF About, Live
<1>5. ASSUME NEW u \in Users
      PROVE  SeatStage(u, n)' = (IF u \in DOMAIN f THEN "expected" ELSE "none")
  <2>1. ~HasSession(u, n)' /\ ~Awaited(u, n)'
    <3>1. \A c \in Conns : ~Sits(c, u, n)' /\ ~WaitedAs(c, u, n)'
      BY <1>4 DEF About, Sits, WaitedAs
    <3> QED  BY <3>1, SeatViews DEF Base, Shape
  <2>2. n \in pending'
    BY <1>1
  <2> QED  BY <1>1, <2>1, <2>2 DEF SeatStage
<1>6. ASSUME NEW m \in GameNames \ {n}, NEW u \in Users
      PROVE  SeatStage(u, m)' = SeatStage(u, m)
  <2>1. OnRoster(u, m)' <=> OnRoster(u, m)
    BY <1>1 DEF OnRoster
  <2>2. \A c \in Conns : (Sits(c, u, m)' <=> Sits(c, u, m)) /\ (WaitedAs(c, u, m)' <=> WaitedAs(c, u, m))
    BY <1>1 DEF Sits, WaitedAs, Live
  <2> QED  BY <1>1, <2>1, <2>2, StageStays DEF Base, Shape
<1>7. OpenGames' = OpenGames
  BY <1>1 DEF OpenGames, AcceptsInput
<1>8. Stages' = [Stages EXCEPT ![n] = [u \in Users |-> IF u \in DOMAIN f THEN "expected" ELSE "none"]]
  BY <1>5, <1>6 DEF Stages
<1>9. \A u \in Users : Stages[n][u] = "none"
  BY <1>2 DEF Stages
<1> QED  BY <1>7, <1>8, <1>9 DEF Kept!HandOff, Stages, OpenGames

(* Arriving without a seat moves nothing: who is at the door of a game they
   still have a seat in was waited for already. *)
LEMMA CameStep ==
  ASSUME AuthUsers = {}, Held, serverUp, serverUp', Base, Base',
         NEW e \in Conns, NEW cl \in Claims, Came(e, cl),
         Waiting(e, cl) \/ Refused(e, cl) \/ Claiming(e, cl)
  PROVE  UNCHANGED Kept!vars
<1> DEFINE u == cl.user
           n == cl.game
<1>1. /\ cl \in claims /\ sess'[e] = SessionOf(cl) /\ phase[e] = "unused" /\ opp[e] = "none"
      /\ e \notin registered /\ UNCHANGED <<seats, pending, registered, registry, game>>
      /\ \A x \in Conns \ {e} : sess'[x] = sess[x] /\ phase'[x] = phase[x]
      /\ \A d \in registered : sess[d].user # u
  BY DEF Came, Elsewhere
<1>2. \A v, m : ~About(e, v, m)
  BY <1>1, AboutIsSeen
<1>3. sess'[e].user = u /\ sess'[e].game = n /\ sess'[e].name = cl.name /\ n \in GameNames
  BY <1>1 DEF SessionOf, Claims
<1>4. \A v, m : (OnRoster(v, m)' <=> OnRoster(v, m))
  BY <1>1 DEF OnRoster
<1>5. opp'[e] = "none"
  BY <1>1 DEF Waiting, Refused, Claiming, Base, Shape, TypeOK
(* another connection changes only when its opportunity is claimed *)
<1>6. ASSUME NEW c \in Conns, c # e, ~Same(c)
      PROVE  /\ Claiming(e, cl) /\ phase[c] = "closed" /\ phase'[c] = "closed"
             /\ sess[c].user = u /\ sess[c].game = n /\ sess'[c] = sess[c]
  BY <1>1, <1>6 DEF Same, Live, Waiting, Refused, Claiming, Base, Shape, TypeOK
<1>7. OnlyAbout(u, n)
  <2>1. ASSUME NEW v, NEW m, About(e, v, m)' PROVE v = u /\ m = n
    BY <1>3, <2>1 DEF About
  <2>2. ASSUME NEW c \in Conns, c # e, ~Same(c), NEW v, NEW m, About(c, v, m) \/ About(c, v, m)'
        PROVE  v = u /\ m = n
    BY <1>6, <2>2 DEF About
  <2> QED  BY <1>2, <2>1, <2>2 DEF OnlyAbout
<1>8. ASSUME NEW m \in GameNames, NEW v \in Users, v # u \/ m # n
      PROVE  SeatStage(v, m)' = SeatStage(v, m)
  BY <1>1, <1>4, <1>7, <1>8, OthersStay DEF Base, Shape
<1>9. SeatStage(u, n)' = SeatStage(u, n)
  (* e waits for nothing *)
  <2>1. CASE phase'[e] \in {"loading", "closed"}
    <3>1. opp' = opp
      BY <2>1 DEF Waiting, Refused, Claiming
    <3>2. \A c \in Conns \ {e} : Same(c)
      BY <1>1, <3>1 DEF Same, Live
    <3>3. ~Sits(e, u, n)' /\ ~WaitedAs(e, u, n)' /\ ~Sits(e, u, n) /\ ~WaitedAs(e, u, n)
      BY <1>2, <1>5, <2>1, AboutIsSeen DEF Sits, WaitedAs, Live
    <3>4. \A c \in Conns : /\ Sits(c, u, n)' <=> Sits(c, u, n)
                           /\ WaitedAs(c, u, n)' <=> WaitedAs(c, u, n)
      BY <1>1, <3>2, <3>3 DEF Same, Sits, WaitedAs
    <3> QED  BY <1>1, <1>4, <3>4, StageStays DEF Base, Shape
  (* e is at the door *)
  <2>2. CASE phase'[e] \in {"claiming", "failing", "refused"}
    <3>1. game[n].started
      BY <2>2 DEF Waiting, Refused, Claiming
    <3>2. n \notin pending
      <4>1. ASSUME Claiming(e, cl) PROVE n \notin pending
        BY <1>3, <4>1 DEF Claiming, Base, Table, PendingIsUntouched
      <4> QED  BY <2>2, <4>1 DEF Waiting, Refused
    <3>3. u \in DOMAIN seats[n]
      BY <1>1, AllAreSeated
    <3>4. ~HasSession(u, n)
      BY <1>1 DEF HasSession, SitsIn
    <3>5. ~HasSession(u, n)'
      BY <1>1, <3>4 DEF HasSession, SitsIn, Base, Shape, TypeOK
    <3>6. WaitedAs(e, u, n)'
      BY <1>1, <1>3, <2>2 DEF WaitedAs
    <3>7. Awaited(u, n)'
      BY <3>6, SeatViews DEF Base, Shape
    <3>8. OnRoster(u, n) => Awaited(u, n)
      BY <1>3, <3>1, <3>2, <3>3, <3>4 DEF OnRoster, Held, PlayersAreThere, Plays
    <3> QED  BY <1>1, <1>4, <3>4, <3>5, <3>7, <3>8 DEF SeatStage, OnRoster
  <2> QED  BY <2>1, <2>2 DEF Waiting, Refused, Claiming
<1>10. ASSUME NEW m \in GameNames
      PROVE  m \in OpenGames' <=> m \in OpenGames
  <2>1. \A c \in registered : c \in Conns \ {e} /\ sess'[c] = sess[c]
    BY <1>1 DEF Base, Shape, TypeOK
  <2> QED  BY <1>1, <2>1, OpenStays DEF Base, Shape
<1> QED  BY <1>8, <1>9, <1>10, NothingMoves

LEMMA FellStep ==
  ASSUME serverUp, serverUp', Base, Base', NEW e \in Conns, Fell(e)
  PROVE  UNCHANGED Kept!vars
<1>1. /\ UNCHANGED <<seats, pending, sess, registered, registry, game, opp>>
      /\ \A c \in Conns \ {e} : phase'[c] = phase[c]
      /\ opp[e] = "none" /\ e \notin registered
      /\ \/ phase[e] = "loading" /\ phase'[e] = "closed"
         \/ phase[e] = "failing" /\ phase'[e] = "refused"
  BY DEF Fell
<1>2. ASSUME NEW n \in GameNames, NEW u \in Users
      PROVE  SeatStage(u, n)' = SeatStage(u, n)
  <2>1. OnRoster(u, n)' <=> OnRoster(u, n)
    BY <1>1 DEF OnRoster
  <2>2. \A c \in Conns : /\ Sits(c, u, n)' <=> Sits(c, u, n)
                         /\ WaitedAs(c, u, n)' <=> WaitedAs(c, u, n)
    BY <1>1 DEF Sits, WaitedAs, Live
  <2> QED  BY <1>1, <2>1, <2>2, StageStays DEF Base, Shape
<1>3. OpenGames' = OpenGames
  BY <1>1 DEF OpenGames, AcceptsInput
<1> QED  BY <1>2, <1>3, NothingMoves

(* What every seating has in common *)
LEMMA SatAbout ==
  ASSUME serverUp, Base, NEW e \in Conns, NEW s \in BuiltSessions, NEW gm \in Games, Sat(e, s, gm),
         Joining(e, s, gm) \/ Loading(e, s, gm) \/ Returning(e, s, gm)
  PROVE  /\ s.game \in GameNames /\ s.user \in DOMAIN seats[s.game] /\ s.user \in Users
         /\ OnlyAbout(s.user, s.game)
         /\ s.name \in gm.players => /\ s.name = seats[s.game][s.user]
                                     /\ Sits(e, s.user, s.game)'
         /\ \A m \in GameNames \ {s.game} : /\ game'[m] = game[m]
                                            /\ m \in pending' <=> m \in pending
                                            /\ m \in registry' <=> m \in registry
<1>1. /\ OwnsSeat(s) /\ gm.players \subseteq Range(seats[s.game])
      /\ opp' = opp /\ opp[e] = "none" /\ registered' = registered \cup {e}
      /\ sess'[e].user = s.user /\ sess'[e].game = s.game /\ sess'[e].name = s.name
      /\ \A c \in Conns \ {e} : sess'[c] = sess[c] /\ phase'[c] = phase[c]
      /\ seats' = seats /\ phase[e] \in {"unused", "loading", "claiming"}
  BY DEF Sat, Elsewhere
<1>2. s.game \in GameNames /\ s.user \in DOMAIN seats[s.game] /\ s.user \in Users
  BY <1>1 DEF OwnsSeat, BuiltSessions
<1>3. ASSUME NEW v, NEW m, About(e, v, m) \/ About(e, v, m)'
      PROVE  v = s.user /\ m = s.game
  <2>1. ASSUME About(e, v, m) PROVE sess[e].user = s.user /\ sess[e].game = s.game
    BY <1>1, <2>1 DEF About, Live, Joining, Loading, Returning
  <2> QED  BY <1>1, <1>3, <2>1 DEF About
<1>4. \A c \in Conns \ {e} : Same(c)
  BY <1>1 DEF Same, Live
<1>5. OnlyAbout(s.user, s.game)
  BY <1>3, <1>4 DEF OnlyAbout
<1>6. ASSUME s.name \in gm.players
      PROVE  s.name = seats[s.game][s.user] /\ Sits(e, s.user, s.game)'
  <2>1. s.name = seats[s.game][s.user]
    BY <1>1, <1>2, <1>6, NameOfSeat
  <2>2. phase'[e] = "joined"
    BY <1>6 DEF Sat
  <2> QED  BY <1>1, <2>1, <2>2 DEF Sits
<1>7. ASSUME NEW m \in GameNames \ {s.game}
      PROVE  /\ game'[m] = game[m]
             /\ m \in pending' <=> m \in pending
             /\ m \in registry' <=> m \in registry
  BY DEF Sat, Joining, Loading, Returning
<1> QED  BY <1>2, <1>5, <1>6, <1>7

(* A seat is taken: the first time, or again. *)
LEMMA SeatTakenStep ==
  ASSUME AuthUsers = {}, Held, Held', serverUp, serverUp', Base, Base',
         NEW e \in Conns, NEW s \in BuiltSessions, NEW gm \in Games, Sat(e, s, gm),
         Joining(e, s, gm) \/ Loading(e, s, gm) \/ Returning(e, s, gm),
         s.name \in gm.players
  PROVE  Kept!Arrive(s.game, s.user) \/ Kept!Return(s.game, s.user)
<1> DEFINE u == s.user
           n == s.game
<1>1. /\ n \in GameNames /\ u \in DOMAIN seats[n] /\ u \in Users /\ OnlyAbout(u, n)
      /\ s.name = seats[n][u] /\ Sits(e, u, n)'
      /\ \A m \in GameNames \ {n} : /\ game'[m] = game[m]
                                    /\ m \in pending' <=> m \in pending
                                    /\ m \in registry' <=> m \in registry
  BY SatAbout
<1>2. /\ seats' = seats /\ game'[n].players = gm.players /\ registered' = registered \cup {e}
      /\ e \notin registered /\ \A c \in Conns \ {e} : sess'[c] = sess[c]
      /\ sess'[e].game = n
  BY DEF Sat, Elsewhere
<1>3. ASSUME NEW m \in GameNames, NEW v \in DOMAIN seats[m]
      PROVE  OnRoster(v, m)' <=> OnRoster(v, m)
  <2>1. CASE m # n
    BY <1>1, <1>2, <2>1 DEF OnRoster
  <2>2. CASE m = n /\ Loading(e, s, gm)
    <3>1. n \in pending /\ seats[n][v] \in game'[n].players
      BY <1>2, <1>3, <2>2 DEF Loading, Range
    <3> QED  BY <1>2, <2>2, <3>1 DEF OnRoster
  <2>3. CASE m = n /\ (Joining(e, s, gm) \/ Returning(e, s, gm))
    BY <1>2, <2>3 DEF OnRoster, Joining, Returning
  <2> QED  BY <2>1, <2>2, <2>3
<1>4. \A m \in GameNames, v \in Users : m # n \/ v # u => SeatStage(v, m)' = SeatStage(v, m)
  BY <1>1, <1>2, <1>3, OthersStay DEF Base, Shape
<1>5. SeatStage(u, n)' = "taken"
  <2>1. OnRoster(u, n)'
    BY <1>1, <1>2 DEF OnRoster
  <2>2. HasSession(u, n)'
    BY <1>1, SeatViews DEF Base, Shape
  <2> QED  BY <1>1, <1>2, <2>1, <2>2, StageWillBe
<1>6. OnRoster(u, n)
  BY <1>1, <1>2, <1>3, <1>5 DEF OnRoster
<1>7. ASSUME NEW m \in GameNames \ {n}
      PROVE  m \in OpenGames' <=> m \in OpenGames
  <2>1. (\E c \in registered' : sess'[c].game = m) <=> (\E c \in registered : sess[c].game = m)
    <3>1. \A c \in registered : c \in Conns \ {e}
      BY <1>2 DEF Base, Shape, TypeOK
    <3> QED  BY <1>2, <3>1
  <2> QED  BY <1>1, <2>1, OpenStays DEF Base, Shape
(* the first time nobody of that user's has been here, or nobody but e *)
<1>8. CASE Joining(e, s, gm) \/ Loading(e, s, gm)
  <2>1. SeenOf(u) \subseteq {e} /\ ~About(e, u, n)
    <3>1. CASE Joining(e, s, gm)
      <4>1. SeenOf(u) = {}
        BY <1>1, <3>1, JoiningIsFirst DEF Held
      <4> QED  BY <4>1, AboutIsSeen
    <3>2. CASE Loading(e, s, gm)
      <4>1. SeenOf(u) = {e}
        BY <3>2 DEF Loading, Early, Held, EarlyAreAlone
      <4>2. ~About(e, u, n)
        BY <3>2 DEF Loading, About, Live, Sat
      <4> QED  BY <4>1, <4>2
    <3> QED  BY <1>8, <3>1, <3>2
  <2>2. \A c \in Conns : ~Sits(c, u, n) /\ ~WaitedAs(c, u, n)
    BY <2>1, AboutIsSeen
  <2>3. ~HasSession(u, n) /\ ~Awaited(u, n)
    BY <2>2, SeatViews DEF Base, Shape
  <2>4. SeatStage(u, n) = "expected"
    BY <1>1, <1>6, <2>3, StageIs
  <2> HIDE DEF u, n
  <2> QED  BY <1>1, <1>4, <1>5, <1>7, <2>4, OneMoves DEF Kept!Arrive, u, n
(* when they come back nobody else stands in for them *)
<1>9. CASE Returning(e, s, gm)
  <2>1. /\ phase[e] = "claiming" /\ u = sess[e].user /\ n = sess[e].game
        /\ s.name = sess[claimOf[e]].name
    BY <1>9 DEF Returning
  <2>2. StandsIn(e)
    <3>1. sess[claimOf[e]].user = u /\ sess[claimOf[e]].game = n
      BY <2>1 DEF Base, Owned
    <3> QED  BY <1>1, <2>1, <3>1 DEF StandsIn, InTheirName
  <2>3. ASSUME NEW d \in Conns, Sits(d, u, n)
        PROVE  FALSE
    <3>1. StandsIn(d) /\ phase[d] = "joined" /\ sess[d].user = u
      BY <2>3 DEF Sits, StandsIn, InTheirName
    <3>2. d = e
      BY <2>1, <2>2, <3>1 DEF Held, OneStandsIn
    <3> QED  BY <2>1, <3>1, <3>2
  <2>4. WaitedAs(e, u, n)
    BY <2>1 DEF WaitedAs
  <2>5. ~HasSession(u, n) /\ Awaited(u, n)
    BY <2>3, <2>4, SeatViews DEF Base, Shape
  <2>6. SeatStage(u, n) = "vacant"
    BY <1>1, <1>6, <2>5, StageIs
  <2> HIDE DEF u, n
  <2> QED  BY <1>1, <1>4, <1>5, <1>7, <2>6, OneMoves DEF Kept!Return, u, n
<1> QED  BY <1>8, <1>9

(* Who is refused a seat has none in this game any more, or never had. *)
LEMMA SeatRefusedStep ==
  ASSUME AuthUsers = {}, Held, serverUp, serverUp', Base, Base',
         NEW e \in Conns, NEW s \in BuiltSessions, NEW gm \in Games, Sat(e, s, gm),
         Joining(e, s, gm) \/ Loading(e, s, gm) \/ Returning(e, s, gm),
         s.name \notin gm.players
  PROVE  UNCHANGED Kept!vars
<1> DEFINE u == s.user
           n == s.game
<1>1. /\ n \in GameNames /\ u \in DOMAIN seats[n] /\ u \in Users /\ OnlyAbout(u, n)
      /\ \A m \in GameNames \ {n} : /\ game'[m] = game[m]
                                    /\ m \in pending' <=> m \in pending
                                    /\ m \in registry' <=> m \in registry
  BY SatAbout
<1>2. /\ seats' = seats /\ game'[n] = gm /\ phase'[e] = "refused" /\ registered' = registered \cup {e}
      /\ \A c \in Conns \ {e} : sess'[c] = sess[c] /\ phase'[c] = phase[c]
      /\ e \notin registered /\ opp' = opp /\ opp[e] = "none" /\ sess'[e].game = n
  BY DEF Sat, Elsewhere
(* whoever loads the game is in its setup *)
<1>3. ~Loading(e, s, gm)
  <2>1. ASSUME Loading(e, s, gm) PROVE s.name = seats[n][u]
    BY <2>1 DEF Loading, Held, JoinedInName, InTheirName
  <2>2. ASSUME Loading(e, s, gm) PROVE s.name \in gm.players
    BY <1>1, <2>1, <2>2 DEF Loading, Range
  <2> QED  BY <2>2
<1>4. gm = game[n] /\ pending' = pending /\ registry' = registry
  BY <1>3 DEF Joining, Returning
<1>5. \A m \in GameNames : \A v : (OnRoster(v, m)' <=> OnRoster(v, m))
  BY <1>1, <1>2, <1>4 DEF OnRoster
<1>6. ASSUME NEW m \in GameNames, NEW v \in Users, v # u \/ m # n
      PROVE  SeatStage(v, m)' = SeatStage(v, m)
  BY <1>1, <1>2, <1>5, <1>6, OthersStay DEF Base, Shape
<1>7. SeatStage(u, n)' = SeatStage(u, n)
  <2>1. CASE Joining(e, s, gm)
    <3>1. \A c \in Conns : /\ Sits(c, u, n)' <=> Sits(c, u, n)
                           /\ WaitedAs(c, u, n)' <=> WaitedAs(c, u, n)
      BY <1>2, <2>1 DEF Joining, Sits, WaitedAs, Live
    <3> QED  BY <1>1, <1>2, <1>5, <3>1, StageStays DEF Base, Shape
  <2>2. CASE Returning(e, s, gm)
    <3>1. phase[e] = "claiming" /\ u = sess[e].user /\ n = sess[e].game /\ s.name = sess[claimOf[e]].name
      BY <2>2 DEF Returning
    <3>2. game[n].started
      BY <3>1 DEF Held, ReturnsAreLate
    <3>3. n \notin pending
      BY <3>1 DEF Base, Table, PendingIsUntouched
    <3>4. ~Plays(u, n)
      <4>1. ASSUME Plays(u, n)
            PROVE  s.name = seats[n][u]
        <5>1. InTheirName(claimOf[e])
          BY <3>1, <4>1 DEF Held, PlayersKeepTheirName
        <5>2. sess[claimOf[e]].user = u /\ sess[claimOf[e]].game = n
          BY <3>1 DEF Base, Owned
        <5> QED  BY <3>1, <5>1, <5>2 DEF InTheirName
      <4> QED  BY <1>4, <4>1 DEF Plays
    <3>5. ~OnRoster(u, n)
      BY <3>2, <3>3, <3>4 DEF OnRoster, Plays
    <3> QED  BY <1>1, <1>2, <1>5, <3>5, StageStays DEF Base, Shape
  <2> QED  BY <1>3, <2>1, <2>2
(* in a game that has started and waits for nobody somebody sits already *)
<1>8. ASSUME n \in registry, game[n].started, game[n].lock = {}
      PROVE  \E c \in registered : sess[c].game = n
  <2>1. PICK v \in DOMAIN seats[n] : seats[n][v] \in game[n].players
    <3>1. game[n].players # {} /\ game[n].players \subseteq Range(seats[n])
      BY <1>1, <1>8 DEF Held, GamesHavePlayers, Base, Table, PlayersAreSeated
    <3> QED  BY <3>1 DEF Range
  <2>2. HasSession(v, n)
    BY <1>8, <2>1 DEF Base, Seated, MissingIsLocked
  <2> QED  BY <2>2 DEF HasSession, SitsIn
<1>9. ASSUME NEW m \in GameNames
      PROVE  m \in OpenGames' <=> m \in OpenGames
  <2>1. \A c \in registered : c \in Conns \ {e}
    BY <1>2 DEF Base, Shape, TypeOK
  <2>2. m \in registry /\ game[m].started /\ game[m].lock = {} =>
           ((\E c \in registered' : sess'[c].game = m) <=> (\E c \in registered : sess[c].game = m))
    BY <1>2, <1>8, <2>1
  <2> QED  BY <1>1, <1>2, <1>4, <2>2, OpenStays DEF Base, Shape
<1> QED  BY <1>6, <1>7, <1>9, NothingMoves

(* A player who drops leaves a vacant seat; anybody else who does pauses the
   game and no more. *)
LEMMA DroppedStep ==
  ASSUME AuthUsers = {}, Held, serverUp, serverUp', Base, Base', NEW e \in Conns, Dropped(e),
         NEW n \in GameNames, NEW u \in Users, n = sess[e].game, u = sess[e].user
  PROVE  Kept!Drop(n, u) \/ Kept!Pause(n)
<1>1. /\ UNCHANGED <<seats, pending, sess, registry>>
      /\ e \in registered /\ registered' = registered \ {e} /\ phase[e] \in {"joined", "refused"}
      /\ phase'[e] = "closed" /\ opp[e] = "none" /\ opp'[e] = "active"
      /\ \A c \in Conns \ {e} : phase'[c] = phase[c] /\ opp'[c] = opp[c]
      /\ n \in registry
  BY DEF Dropped
<1>2. /\ \A m \in GameNames : game'[m].started = game[m].started /\ game'[m].players = game[m].players
      /\ \A m \in GameNames : m # n => game'[m] = game[m]
      /\ game'[n].lock # {}
  BY <1>1, DroppedGame
<1>3. u \in DOMAIN seats[n]
  BY <1>1, AllAreSeated
<1>4. OnlyAbout(u, n)
  BY <1>1 DEF OnlyAbout, Same, About, Live
<1>5. \A m \in GameNames : \A v : (OnRoster(v, m)' <=> OnRoster(v, m))
  BY <1>1, <1>2 DEF OnRoster
<1>6. \A m \in GameNames, v \in Users : m # n \/ v # u => SeatStage(v, m)' = SeatStage(v, m)
  BY <1>1, <1>4, <1>5, OthersStay DEF Base, Shape
<1>7. ASSUME NEW m \in GameNames \ {n}
      PROVE  m \in OpenGames' <=> m \in OpenGames
  <2>1. (\E c \in registered' : sess'[c].game = m) <=> (\E c \in registered : sess[c].game = m)
    BY <1>1
  <2> QED  BY <1>1, <1>2, <2>1, OpenStays DEF Base, Shape
<1>8. CASE phase[e] = "joined" /\ OnRoster(u, n)
  <2>1. InTheirName(e) /\ StandsIn(e)
    BY <1>1, <1>8 DEF Held, JoinedInName, StandsIn
  <2>2. Sits(e, u, n)
    BY <1>1, <1>8, <2>1 DEF Sits, InTheirName
  <2>3. ASSUME NEW d \in Conns, Sits(d, u, n)'
        PROVE  FALSE
    <3>1. d \in registered /\ d # e /\ phase[d] = "joined"
      BY <1>1, <2>3 DEF Sits
    <3>2. StandsIn(d) /\ sess[d].user = u
      BY <1>1, <2>3, <3>1 DEF Sits, StandsIn, InTheirName
    <3> QED  BY <1>8, <2>1, <3>1, <3>2 DEF Held, OneStandsIn
  <2>4. WaitedAs(e, u, n)'
    BY <1>1, <2>2 DEF WaitedAs, Sits, Live
  <2>5. HasSession(u, n) /\ ~HasSession(u, n)' /\ Awaited(u, n)'
    BY <2>2, <2>3, <2>4, SeatViews DEF Base, Shape
  <2>6. OnRoster(u, n)'
    BY <1>1, <1>5, <1>8
  <2>7. SeatStage(u, n) = "taken"
    BY <1>3, <1>8, <2>5, StageIs
  <2>8. SeatStage(u, n)' = "vacant"
    BY <1>1, <1>3, <2>5, <2>6, StageWillBe
  <2> QED  BY <1>1, <1>6, <1>7, <2>7, <2>8, OneMoves DEF Kept!Drop
<1>9. CASE ~(phase[e] = "joined" /\ OnRoster(u, n))
  <2>1. SeatStage(u, n)' = SeatStage(u, n)
    <3>1. CASE ~OnRoster(u, n)
      BY <1>1, <1>5, <3>1, StageStays DEF Base, Shape
    (* refused, under a name that is no player's *)
    <3>2. CASE phase[e] = "refused" /\ OnRoster(u, n)
      <4>1. n \notin pending
        BY <1>1 DEF Base, Table, PendingIsUntouched
      <4>2. sess[e].name # seats[n][u]
        BY <1>1, <3>2, <4>1 DEF OnRoster, Base, Seated, RefusedHasNoSeat
      <4>3. /\ ~Sits(e, u, n) /\ ~Sits(e, u, n)'
            /\ ~WaitedAs(e, u, n) /\ ~WaitedAs(e, u, n)'
        BY <1>1, <3>2, <4>2 DEF Sits, WaitedAs, Live
      <4>4. \A c \in Conns : /\ Sits(c, u, n)' <=> Sits(c, u, n)
                             /\ WaitedAs(c, u, n)' <=> WaitedAs(c, u, n)
        BY <1>1, <4>3 DEF Sits, WaitedAs, Live
      <4> QED  BY <1>1, <1>5, <4>4, StageStays DEF Base, Shape
    <3> QED  BY <1>1, <1>9, <3>1, <3>2
  <2>2. Stages' = Stages
    BY <1>6, <2>1 DEF Stages
  <2>3. n \notin OpenGames'
    BY <1>2 DEF OpenGames, AcceptsInput
  <2>4. OpenGames' = OpenGames \ {n}
    BY <1>7, <2>3 DEF OpenGames
  <2> QED  BY <2>2, <2>4 DEF Kept!Pause, Stages, OpenGames
<1> QED  BY <1>8, <1>9

(* Only a player who is away is given up. *)
LEMMA RemovedStep ==
  ASSUME AuthUsers = {}, Held, serverUp, serverUp', Base, Base', NEW e \in Conns, Removed(e),
         NEW n \in GameNames, NEW u \in Users, n = sess[e].game, u = sess[e].user
  PROVE  Kept!GiveUp(n, u)
<1>1. /\ UNCHANGED <<seats, pending, sess, phase, registered>>
      /\ opp[e] = "expiring" /\ opp' = [opp EXCEPT ![e] = "expired"]
      /\ registry' \subseteq registry /\ registry \subseteq registry' \cup {n}
      /\ n \in registry /\ sess[e].name \in game[n].players
  BY DEF Removed
<1>2. /\ \A m \in GameNames : game'[m].started = game[m].started
      /\ \A m \in GameNames : m # n => game'[m] = game[m]
      /\ game'[n].players = game[n].players \ {sess[e].name}
  BY <1>1, RemovedGame
<1>3. phase[e] = "closed" /\ opp'[e] = "expired" /\ \A c \in Conns \ {e} : opp'[c] = opp[c]
  BY <1>1 DEF Base, Shape, TypeOK, OpportunitiesAreLeft
<1>4. OwnsSeat(sess[e]) /\ game[n].players \subseteq Range(seats[n]) /\ n \notin pending
  BY <1>1, <1>3 DEF Base, Owned, Table, PlayersAreSeated, PendingIsUntouched
<1>5. sess[e].name = seats[n][u] /\ u \in DOMAIN seats[n]
  <2>1. sess[e].name \in Range(seats[sess[e].game])
    BY <1>1, <1>4
  <2> QED  BY <1>1, <1>4, <2>1, NameOfSeat DEF OwnsSeat
<1>6. OnlyAbout(u, n)
  BY <1>1, <1>3 DEF OnlyAbout, Same, About, Live
<1>7. ASSUME NEW m \in GameNames, NEW v \in DOMAIN seats[m], m # n \/ v # u
      PROVE  OnRoster(v, m)' <=> OnRoster(v, m)
  <2>1. seats[m][v] # sess[e].name
    BY <1>4, <1>7 DEF OwnsSeat
  <2> QED  BY <1>1, <1>2, <2>1 DEF OnRoster
<1>8. \A m \in GameNames, v \in Users : m # n \/ v # u => SeatStage(v, m)' = SeatStage(v, m)
  BY <1>1, <1>6, <1>7, OthersStay DEF Base, Shape
<1>9. ASSUME NEW m \in GameNames \ {n}
      PROVE  m \in OpenGames' <=> m \in OpenGames
  BY <1>1, <1>2, OpenStays DEF Base, Shape
<1>10. SeatStage(u, n) = "vacant"
  <2>1. StandsIn(e)
    BY <1>1, <1>5 DEF StandsIn, InTheirName, Live
  <2>2. ASSUME NEW d \in Conns, Sits(d, u, n)
        PROVE  FALSE
    <3>1. phase[d] = "joined" /\ sess[d].user = u /\ StandsIn(d)
      BY <2>2 DEF Sits, StandsIn, InTheirName
    <3> QED  BY <1>3, <2>1, <3>1 DEF Held, OneStandsIn
  <2>3. WaitedAs(e, u, n)
    BY <1>1, <1>5 DEF WaitedAs, Live
  <2>4. ~HasSession(u, n) /\ Awaited(u, n)
    BY <2>2, <2>3, SeatViews DEF Base, Shape
  <2>5. OnRoster(u, n)
    BY <1>1, <1>5 DEF OnRoster
  <2> QED  BY <1>5, <2>4, <2>5, StageIs
<1>11. SeatStage(u, n)' = "given up"
  <2>1. ~OnRoster(u, n)'
    BY <1>1, <1>2, <1>4, <1>5 DEF OnRoster
  <2> QED  BY <1>1, <1>5, <2>1, StageWillBe
<1> QED  BY <1>1, <1>8, <1>9, <1>10, <1>11, OneMoves DEF Kept!GiveUp

-----------------------------------------------------------------------------
(* The refinement *)

(* No step that leaves the server down hands a game off. *)
LEMMA DownSeatsStay ==
  ASSUME TypeOK, [Next]_vars, ~serverUp'
  PROVE  seats' = seats
<1>1. CASE HandoffSome
  BY <1>1 DEF HandoffSome, Handoff, MayDispatch
<1>2. CASE ForwardSome
  BY <1>2 DEF ForwardSome, Forward
<1> QED  BY <1>1, <1>2, OnlyLobbyIssues

LEMMA KeptCrash ==
  ASSUME TypeOK, [Next]_vars, ~serverUp'
  PROVE  Kept!Crash
<1>1. seats' = seats
  BY DownSeatsStay
<1>2. ASSUME NEW n \in GameNames, NEW u \in Users
      PROVE  SeatStage(u, n)' = (IF SeatStage(u, n) = "none" THEN "none" ELSE "lost")
  <2>1. CASE u \notin DOMAIN seats[n]
    BY <1>1, <2>1 DEF SeatStage
  <2>2. CASE u \in DOMAIN seats[n]
    <3>1. SeatStage(u, n)' = "lost"
      BY <1>1, <2>2 DEF SeatStage
    <3>2. SeatStage(u, n) # "none"
      BY <2>2 DEF SeatStage
    <3> QED  BY <3>1, <3>2
  <2> QED  BY <2>1, <2>2
<1>3. Stages' = [n \in GameNames |->
         [u \in Users |-> IF Stages[n][u] = "none" THEN "none" ELSE "lost"]]
  BY <1>2 DEF Stages
<1>4. OpenGames' = {}
  BY DEF OpenGames, AcceptsInput
<1> QED  BY <1>3, <1>4 DEF Kept!Crash, Stages, OpenGames

(* Every step is a step of the promise, or none. *)
LEMMA KeptStep ==
  ASSUME HandsOffOnce, AuthUsers = {}, Base, Held, [Next]_vars
  PROVE  [Kept!Next]_(Kept!vars)
<1>1. Base' /\ Held'
  BY HeldStep
<1>2. CASE ~serverUp'
  BY <1>2, KeptCrash DEF Kept!Next, Base, Shape
<1>3. CASE serverUp'
  <2>1. serverUp /\ Amounts
    BY <1>3, UpWasUp, StepAmounts DEF Base, Shape
  <2>2. ASSUME \/ Still \/ (\E k \in Keys : Sent(k)) \/ \E c \in Conns : Rang(c)
        PROVE  UNCHANGED Kept!vars
    <3>1. UNCHANGED <<seats, pending, sess, phase, registered, registry, game>>
          /\ \A c \in Conns : Live(c)' <=> Live(c)
      BY <2>2 DEF Still, Sent, Rang, Live, Base, Shape, TypeOK
    <3> QED  BY <1>1, <1>3, <2>1, <3>1, QuietStep
  <2>3. ASSUME NEW n \in GameNames, NEW f \in Seatings, Handed(n, f)
        PROVE  Kept!Next
    <3>1. DOMAIN f \in SUBSET Users
      BY DEF Seatings
    <3>2. Kept!HandOff(n, DOMAIN f)
      BY <1>1, <1>3, <2>1, <2>3, HandedStep
    <3> QED  BY <3>1, <3>2 DEF Kept!Next
  <2>4. ASSUME NEW c \in Conns, NEW cl \in Claims, Came(c, cl),
               Waiting(c, cl) \/ Refused(c, cl) \/ Claiming(c, cl)
        PROVE  UNCHANGED Kept!vars
    BY <1>1, <1>3, <2>1, <2>4, CameStep
  <2>5. ASSUME NEW c \in Conns, NEW s \in BuiltSessions, NEW gm \in Games, Sat(c, s, gm),
               Joining(c, s, gm) \/ Loading(c, s, gm) \/ Returning(c, s, gm)
        PROVE  [Kept!Next]_(Kept!vars)
    <3>1. CASE s.name \in gm.players
      <4>1. Kept!Arrive(s.game, s.user) \/ Kept!Return(s.game, s.user)
        BY <1>1, <1>3, <2>1, <2>5, <3>1, SeatTakenStep
      <4>2. s.game \in GameNames /\ s.user \in Users
        BY DEF BuiltSessions
      <4> QED  BY <4>1, <4>2 DEF Kept!Next
    <3>2. CASE s.name \notin gm.players
      BY <1>1, <1>3, <2>1, <2>5, <3>2, SeatRefusedStep
    <3> QED  BY <3>1, <3>2
  <2>6. ASSUME NEW c \in Conns, Fell(c)
        PROVE  UNCHANGED Kept!vars
    BY <1>1, <1>3, <2>1, <2>6, FellStep
  <2>7. ASSUME NEW c \in Conns, Dropped(c) \/ Removed(c)
        PROVE  Kept!Next
    <3>1. PICK n \in GameNames, u \in Users : n = sess[c].game /\ u = sess[c].user
      BY <2>7 DEF Dropped, Removed, BuiltSessions
    <3>2. Kept!Drop(n, u) \/ Kept!Pause(n) \/ Kept!GiveUp(n, u)
      BY <1>1, <1>3, <2>1, <2>7, <3>1, DroppedStep, RemovedStep
    <3> QED  BY <3>2 DEF Kept!Next
  <2> QED  BY <2>1, <2>2, <2>3, <2>4, <2>5, <2>6, <2>7 DEF Amounts
<1> QED  BY <1>2, <1>3

LEMMA KeptInit == Init => Base /\ Held /\ Kept!Init
<1> SUFFICES ASSUME Init PROVE Base /\ Held /\ Kept!Init
  OBVIOUS
<1>1. Base
  BY BaseInit
<1>2. Held
  BY DEF Init, Held, FirstClaims, EarlyAreAlone, Early, PendingIsNew, JoinedInName, ReturnsAreLate,
         OneStandsIn, PlayersKeepTheirName, PlayersAreThere, Plays, GamesHavePlayers
<1>3. \A n \in GameNames, u \in Users : SeatStage(u, n) = "none"
  BY DEF Init, SeatStage
<1>4. Stages = [n \in GameNames |-> [u \in Users |-> "none"]]
  BY <1>3 DEF Stages
<1>5. OpenGames = {}
  BY DEF Init, OpenGames, AcceptsInput
<1> QED  BY <1>1, <1>2, <1>4, <1>5 DEF Kept!Init, Stages, OpenGames

(* The game server keeps the promise of SeatPromise to guests, however many
   there are, whatever tokens they bring and whatever its stores delay or fail
   to delete: a seat handed off is only ever taken by its owner, left vacant by
   their drop, taken again by their return or given up by their timer, and
   input is open only while nobody is waited for. *)
THEOREM PromiseIsKept ==
  ASSUME "sharedUsername" \notin Quirks, AuthUsers = {}
  PROVE  Spec => SeatsAreKept
<1>1. Init => Base /\ Held /\ Kept!Init
  BY KeptInit
<1>2. Base /\ Held /\ [Next]_vars => Base' /\ Held'
  BY HeldStep, PlainHandsOffOnce
<1>3. Base /\ Held /\ [Next]_vars => [Kept!Next]_(Kept!vars)
  BY KeptStep, PlainHandsOffOnce
<1> QED  BY <1>1, <1>2, <1>3, PTL DEF Spec, SeatsAreKept, Kept!Spec
=============================================================================
