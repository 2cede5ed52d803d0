-------------------------- MODULE GameServerProofs --------------------------
(***************************************************************************)
(* Theorems about the game server, for every set of users, names, games     *)
(* and connections, either kind of store and all quirks.                    *)
(***************************************************************************)
EXTENDS GameServer, TLAPS

(* A session that createSession has built from a claim. *)
BuiltSessions == [user : Users, name : Usernames, token : Tokens \cup {None},
                  game : GameNames]

SessionsAreBuilt ==
  \A c \in Conns : phase[c] # "unused" => sess[c] \in BuiltSessions

(* Only a session that has ended left an opportunity. *)
OpportunitiesAreLeft ==
  \A c \in Conns : opp[c] # "none" => phase[c] = "closed"

(* A returning connection stands for an opportunity that was. *)
ClaimsAreOfLeft ==
  \A c \in Conns : phase[c] = "claiming" =>
    claimOf[c] \in Conns /\ opp[claimOf[c]] # "none"

Shape == TypeOK /\ SessionsAreBuilt /\ OpportunitiesAreLeft /\ ClaimsAreOfLeft

-----------------------------------------------------------------------------
(* What the operators of the model return *)

(* A claim is turned into a built session. *)
LEMMA SessionOfClaim ==
  ASSUME NEW cl \in Claims
  PROVE  SessionOf(cl) \in BuiltSessions
BY DEF SessionOf, Claims, BuiltSessions

(* A key that is not missing is a key of the stores. *)
LEMMA KeyIsKey ==
  ASSUME NEW s \in BuiltSessions, KeyOf(s) # None
  PROVE  KeyOf(s) \in Keys
BY DEF KeyOf, BuiltSessions, Keys, Tokens

(* The names of a seating are names. *)
LEMMA SeatingNames ==
  ASSUME NEW f \in Seatings
  PROVE  Range(f) \subseteq Usernames
BY DEF Seatings, Range

(* TakeSeat changes the entries of c and of its game and nothing else, and
   leaves a built session and a game in them. *)
LEMMA TakeSeatShape ==
  ASSUME TypeOK, NEW c \in Conns, NEW s \in BuiltSessions, NEW gm \in Games,
         TakeSeat(c, s, gm)
  PROVE  /\ registered' = registered \cup {c}
         /\ game' \in [GameNames -> Games]
         /\ sess' \in [Conns -> Sessions] /\ sess'[c] \in BuiltSessions
         /\ sess'[c].user = s.user /\ sess'[c].game = s.game
         /\ \A d \in Conns \ {c} : sess'[d] = sess[d]
         /\ phase' \in [Conns -> Phases] /\ phase'[c] \in {"joined", "refused"}
         /\ \A d \in Conns \ {c} : phase'[d] = phase[d]
<1> DEFINE seated == s.name \in gm.players
           issued == IF s.user \in AuthUsers THEN s ELSE [s EXCEPT !.token = c]
           new    == IF seated THEN issued ELSE s
           after  == [gm EXCEPT !.started = gm.started \/ AllConnected(gm, c, s),
                                !.lock    = @ \ {s.user}]
<1>1. new \in BuiltSessions /\ new.user = s.user /\ new.game = s.game
  BY DEF BuiltSessions, Tokens
<1>2. new \in Sessions
  BY <1>1 DEF BuiltSessions, Sessions
<1>3. after \in Games
  <2>1. (gm.started \/ AllConnected(gm, c, s)) \in BOOLEAN
    OBVIOUS
  <2> QED  BY <2>1 DEF Games
<1>4. sess' = [sess EXCEPT ![c] = new]
  BY DEF TakeSeat
<1>5. phase' = [phase EXCEPT ![c] = IF seated THEN "joined" ELSE "refused"]
  BY DEF TakeSeat
<1>6. game' = [game EXCEPT ![s.game] = IF seated THEN after ELSE gm]
  BY DEF TakeSeat
<1>7. s.game \in GameNames
  BY DEF BuiltSessions
<1> HIDE DEF new, after, seated
<1>8. game' \in [GameNames -> Games]
  BY <1>3, <1>6, <1>7 DEF TypeOK
<1>9. registered' = registered \cup {c}
  BY DEF TakeSeat
<1> QED  BY <1>1, <1>2, <1>4, <1>5, <1>8, <1>9 DEF TypeOK, Phases

-----------------------------------------------------------------------------
(* Shape is an invariant *)

LEMMA ShapeInit == Init => Shape
<1> SUFFICES ASSUME Init PROVE Shape
  OBVIOUS
<1>1. seats \in [GameNames -> Seatings]
  <2>1. [u \in {} |-> None] \in Seatings
    <3>1. [u \in {} |-> None] \in [{} -> Usernames] /\ {} \in SUBSET Users
      OBVIOUS
    <3> QED  BY <3>1 DEF Seatings
  <2> QED  BY <2>1 DEF Init
<1>2. NoSession \in Sessions
  BY DEF NoSession, Sessions
<1>3. [players |-> {}, started |-> FALSE, lock |-> {}] \in Games
  BY DEF Games
<1>4. TypeOK
  BY <1>1, <1>2, <1>3, ForwardsAssumption DEF Init, TypeOK, Phases
<1> QED  BY <1>4 DEF Init, Shape, SessionsAreBuilt, OpportunitiesAreLeft, ClaimsAreOfLeft

(* What every arrival changes besides its connection's session and phase. *)
LEMMA ArriveShape ==
  ASSUME Shape, NEW c \in Conns, NEW cl \in claims, Arrive(c, cl)
  PROVE  /\ SessionOf(cl) \in BuiltSessions /\ SessionOf(cl) \in Sessions
         /\ SessionOf(cl).game = cl.game /\ cl.game \in GameNames
         /\ phase[c] = "unused" /\ opp[c] = "none"
         /\ claims' \subseteq Claims /\ endpoints' \subseteq Conns
         /\ UNCHANGED <<seats, forwards, deaf>>
<1>1. cl \in Claims
  BY DEF Shape, TypeOK
<1>2. SessionOf(cl) \in BuiltSessions
  BY <1>1, SessionOfClaim
<1>3. phase[c] = "unused" /\ claims' = claims \ {cl} /\ endpoints' = endpoints \cup {c}
  BY DEF Arrive, Wired
<1>4. opp[c] = "none"
  BY <1>3 DEF Shape, OpportunitiesAreLeft
<1>5. SessionOf(cl).game = cl.game
  BY DEF SessionOf
<1> QED  BY <1>1, <1>2, <1>3, <1>4, <1>5
         DEF Shape, TypeOK, BuiltSessions, Sessions, Claims, Arrive

LEMMA ShapeStep == Shape /\ [Next]_vars => Shape'
<1> SUFFICES ASSUME Shape, [Next]_vars PROVE Shape'
  OBVIOUS
<1> USE DEF Shape
<1>1. ASSUME NEW n \in GameNames, NEW S \in SUBSET Users, NEW seating \in [S -> Usernames],
             Handoff(n, seating)
      PROVE  Shape'
  <2>1. seats' \in [GameNames -> Seatings]
    BY <1>1 DEF Handoff, TypeOK, Seatings
  <2>2. claims' \subseteq Claims
    <3>1. PICK tokenOf \in [S -> IssuedTokens \cup {None}] :
            claims' = claims \cup
              {[user |-> u, name |-> seating[u], token |-> tokenOf[u],
                game |-> n, nonce |-> n] : u \in S}
      BY <1>1 DEF Handoff
    <3>2. ASSUME NEW u \in S
          PROVE  [user |-> u, name |-> seating[u], token |-> tokenOf[u],
                  game |-> n, nonce |-> n] \in Claims
      BY DEF Claims, IssuedTokens, Tokens
    <3> QED  BY <3>1, <3>2 DEF TypeOK
  <2> QED  BY <1>1, <2>1, <2>2 DEF Handoff, TypeOK, gameVars, connVars, returnVars,
             SessionsAreBuilt, OpportunitiesAreLeft, ClaimsAreOfLeft
<1>2. ASSUME NEW k \in Keys, NEW name \in Usernames, Forward(k, name)
      PROVE  Shape'
  <2>1. records[k] \in Records
    BY <1>2 DEF Forward, TypeOK
  <2>2. (IF k \in AuthUsers THEN None ELSE k) \in Tokens \cup {None}
    BY DEF Keys
  <2>3. forwards' \in 0 .. MaxForwards /\ forwards + 1 \in 1 .. MaxForwards
    BY <1>2, ForwardsAssumption DEF Forward, TypeOK
  <2>4. claims' \subseteq Claims
    BY <1>2, <2>1, <2>2, <2>3 DEF Forward, TypeOK, Claims, Records
  <2> QED  BY <1>2, <2>3, <2>4 DEF Forward, TypeOK, storeVars, gameVars, connVars, returnVars,
             SessionsAreBuilt, OpportunitiesAreLeft, ClaimsAreOfLeft
<1>3. ASSUME NEW cl \in claims, RejectClaim(cl)
      PROVE  Shape'
  BY <1>3 DEF RejectClaim, TypeOK, storeVars, gameVars, connVars, returnVars,
       SessionsAreBuilt, OpportunitiesAreLeft, ClaimsAreOfLeft
<1>4. ASSUME NEW cl \in claims, NEW c \in Conns, AwaitSetup(c, cl) \/ FindNoGame(c, cl)
                                                  \/ RefuseReconnection(c, cl)
      PROVE  Shape'
  <2>1. Arrive(c, cl)
    BY <1>4 DEF AwaitSetup, FindNoGame, RefuseReconnection
  <2>2. /\ sess' = [sess EXCEPT ![c] = SessionOf(cl)]
        /\ \E p \in {"loading", "closed", "refused"} : phase' = [phase EXCEPT ![c] = p]
        /\ UNCHANGED <<storeVars, serverUp, registered, gameVars, returnVars>>
    BY <1>4 DEF AwaitSetup, FindNoGame, RefuseReconnection
  <2> QED  BY <2>1, <2>2, ArriveShape DEF TypeOK, Phases, storeVars, gameVars, returnVars,
             SessionsAreBuilt, OpportunitiesAreLeft, ClaimsAreOfLeft
<1>5. ASSUME NEW cl \in claims, NEW c \in Conns, JoinBeforeStart(c, cl)
      PROVE  Shape'
  <2>1. Arrive(c, cl)
    BY <1>5 DEF JoinBeforeStart
  <2>2. game[cl.game] \in Games
    BY <2>1, ArriveShape DEF TypeOK
  <2>3. TakeSeat(c, SessionOf(cl), game[cl.game])
    BY <1>5 DEF JoinBeforeStart
  <2>4. UNCHANGED <<storeVars, serverUp, registry, returnVars>>
    BY <1>5 DEF JoinBeforeStart
  <2>5. TypeOK'
    BY <2>1, <2>2, <2>3, <2>4, ArriveShape, TakeSeatShape DEF TypeOK, storeVars, returnVars
  <2> QED  BY <2>1, <2>2, <2>3, <2>4, <2>5, ArriveShape, TakeSeatShape
           DEF returnVars, SessionsAreBuilt, OpportunitiesAreLeft, ClaimsAreOfLeft
<1>6. ASSUME NEW cl \in claims, NEW c \in Conns, ClaimOpportunity(c, cl)
      PROVE  Shape'
  <2> DEFINE k == KeyOf(SessionOf(cl))
             d == manager[k]
  <2>1. Arrive(c, cl) /\ k \in Keys /\ d \in Conns /\ opp[d] = "active"
    <3>1. Arrive(c, cl) /\ k # None /\ d # None /\ opp[d] = "active"
      BY <1>6 DEF ClaimOpportunity, Claimable
    <3>2. k \in Keys
      BY <3>1, ArriveShape, KeyIsKey
    <3> QED  BY <3>1, <3>2 DEF TypeOK
  <2>2. /\ opp' = [opp EXCEPT ![d] = "claimed"]
        /\ manager' = [manager EXCEPT ![k] = None]
        /\ records' \in {records, [records EXCEPT ![k] = None]}
        /\ claimOf' = [claimOf EXCEPT ![c] = d]
        /\ sess' = [sess EXCEPT ![c] = SessionOf(cl)]
        /\ \E p \in {"claiming", "failing"} : phase' = [phase EXCEPT ![c] = p]
        /\ UNCHANGED <<pending, activeGames, serverUp, registered, gameVars>>
    BY <1>6 DEF ClaimOpportunity, Claimed, Withdrawn, Forgotten
  <2> HIDE DEF k, d
  <2>3. TypeOK'
    BY <2>1, <2>2, ArriveShape DEF TypeOK, Phases, gameVars
  <2>4. d # c
    BY <2>1, ArriveShape
  <2> QED  BY <2>1, <2>2, <2>3, <2>4, ArriveShape
           DEF TypeOK, SessionsAreBuilt, OpportunitiesAreLeft, ClaimsAreOfLeft
<1>7. ASSUME NEW c \in Conns, LoadGame(c)
      PROVE  Shape'
  <2> DEFINE gm == [players |-> Range(seats[sess[c].game]), started |-> FALSE, lock |-> {}]
  <2>1. sess[c] \in BuiltSessions /\ sess[c].game \in GameNames
    BY <1>7 DEF LoadGame, SessionsAreBuilt, BuiltSessions
  <2>2. gm \in Games
    BY <2>1, SeatingNames DEF TypeOK, Games
  <2>3. TakeSeat(c, sess[c], gm)
    BY <1>7 DEF LoadGame
  <2>4. /\ registry' = registry \cup {sess[c].game}
        /\ pending' = pending \ {sess[c].game}
        /\ activeGames' = activeGames \cup {sess[c].game}
        /\ opp[c] = "none"
        /\ UNCHANGED <<records, lobbyVars, serverUp, deaf, endpoints, returnVars>>
    BY <1>7 DEF LoadGame, OpportunitiesAreLeft
  <2> HIDE DEF gm
  <2>5. TypeOK'
    BY <2>1, <2>2, <2>3, <2>4, TakeSeatShape DEF TypeOK, lobbyVars, returnVars
  <2> QED  BY <2>1, <2>2, <2>3, <2>4, <2>5, TakeSeatShape
           DEF returnVars, SessionsAreBuilt, OpportunitiesAreLeft, ClaimsAreOfLeft
<1>8. ASSUME NEW c \in Conns, LoseLoadRace(c) \/ ClaimFails(c)
      PROVE  Shape'
  <2>1. opp[c] = "none"
    BY <1>8 DEF LoseLoadRace, ClaimFails, OpportunitiesAreLeft
  <2> QED  BY <1>8, <2>1 DEF LoseLoadRace, ClaimFails, TypeOK, Phases, storeVars, lobbyVars, gameVars, returnVars,
       SessionsAreBuilt, OpportunitiesAreLeft, ClaimsAreOfLeft
<1>9. ASSUME NEW c \in Conns, FinishClaim(c)
      PROVE  Shape'
  <2>1. phase[c] = "claiming" /\ opp[c] = "none"
    BY <1>9 DEF FinishClaim, OpportunitiesAreLeft
  <2>2. sess[c] \in BuiltSessions /\ sess[claimOf[c]] \in BuiltSessions
    BY <2>1 DEF SessionsAreBuilt, ClaimsAreOfLeft, OpportunitiesAreLeft
  <2>3. Renamed(c) \in BuiltSessions /\ Renamed(c).game = sess[c].game
    BY <2>2 DEF Renamed, BuiltSessions
  <2>4. game[sess[c].game] \in Games
    BY <2>2 DEF TypeOK, BuiltSessions
  <2>5. TakeSeat(c, Renamed(c), game[sess[c].game])
    BY <1>9 DEF FinishClaim
  <2>6. UNCHANGED <<storeVars, lobbyVars, serverUp, deaf, endpoints, registry, returnVars>>
    BY <1>9 DEF FinishClaim
  <2>7. TypeOK'
    BY <2>3, <2>4, <2>5, <2>6, TakeSeatShape DEF TypeOK, storeVars, lobbyVars, returnVars
  <2> QED  BY <2>1, <2>3, <2>4, <2>5, <2>6, <2>7, TakeSeatShape
           DEF returnVars, SessionsAreBuilt, OpportunitiesAreLeft, ClaimsAreOfLeft
<1>10. ASSUME NEW c \in Conns, Disconnect(c)
       PROVE  Shape'
  <2> DEFINE s == sess[c]
             k == KeyOf(s)
             gm == Paused(s)
  <2>1. s \in BuiltSessions
    BY <1>10 DEF Disconnect, Listening, SessionsAreBuilt
  <2>2. k \in Keys
    BY <1>10, <2>1, KeyIsKey DEF Disconnect
  <2>3. gm \in Games /\ s.game \in GameNames /\ [user |-> s.user, game |-> s.game] \in Records
    BY <2>1 DEF Paused, TypeOK, Games, Records, BuiltSessions
  <2>4. /\ records' = [records EXCEPT ![k] = [user |-> s.user, game |-> s.game]]
        /\ game' = [game EXCEPT ![s.game] = gm]
        /\ opp' = [opp EXCEPT ![c] = "active"]
        /\ manager' = [manager EXCEPT ![k] = c]
        /\ phase' = [phase EXCEPT ![c] = "closed"]
        /\ registered' = registered \ {c}
        /\ endpoints' \subseteq endpoints
        /\ serverUp' \in BOOLEAN
        /\ UNCHANGED <<pending, activeGames, lobbyVars, sess, deaf, registry, claimOf>>
    BY <1>10 DEF Disconnect
  <2> HIDE DEF s, k, gm
  <2>5. TypeOK'
    BY <2>2, <2>3, <2>4 DEF TypeOK, Phases, lobbyVars
  <2> QED  BY <1>10, <2>4, <2>5 DEF Disconnect, Listening, TypeOK,
             SessionsAreBuilt, OpportunitiesAreLeft, ClaimsAreOfLeft
<1>11. ASSUME NEW c \in Conns, DisconnectThrows(c)
       PROVE  Shape'
  BY <1>11 DEF DisconnectThrows, Listening, TypeOK, Phases, storeVars, lobbyVars, gameVars,
       returnVars, SessionsAreBuilt, OpportunitiesAreLeft, ClaimsAreOfLeft
<1>12. ASSUME NEW c \in Conns, CloseUnheard(c)
       PROVE  Shape'
  BY <1>12 DEF CloseUnheard, TypeOK, storeVars, lobbyVars, gameVars, returnVars,
       SessionsAreBuilt, OpportunitiesAreLeft, ClaimsAreOfLeft
<1>13. ASSUME NEW c \in Conns, Expire(c)
       PROVE  Shape'
  BY <1>13 DEF Expire, Withdrawn, Forgotten, TypeOK, lobbyVars, connVars, gameVars,
       SessionsAreBuilt, OpportunitiesAreLeft, ClaimsAreOfLeft
<1>14. ASSUME NEW c \in Conns, opp[c] = "expiring"
       PROVE  sess[c].game \in GameNames /\ Unpaused(sess[c]) \in Games
  <2>1. phase[c] = "closed"
    BY <1>14 DEF OpportunitiesAreLeft
  <2>2. sess[c] \in BuiltSessions
    BY <2>1 DEF SessionsAreBuilt
  <2>3. game[sess[c].game] \in Games /\ sess[c].game \in GameNames
    BY <2>2 DEF TypeOK, BuiltSessions
  <2> QED  BY <2>3 DEF Unpaused, Games
<1>15. ASSUME NEW c \in Conns, FinishTimeout(c)
       PROVE  Shape'
  <2> DEFINE after == [Unpaused(sess[c]) EXCEPT !.players = @ \ {sess[c].name}]
  <2>1. after \in Games /\ sess[c].game \in GameNames
    BY <1>14, <1>15 DEF FinishTimeout, Games
  <2>2. /\ opp' = [opp EXCEPT ![c] = "expired"] /\ opp[c] = "expiring"
        /\ game' = [game EXCEPT ![sess[c].game] = after]
        /\ registry' \subseteq registry
        /\ records' \in {records, ForgottenIn(sess[c].game)}
        /\ UNCHANGED <<pending, activeGames, lobbyVars, serverUp, connVars, manager, claimOf>>
    BY <1>15 DEF FinishTimeout
  <2> HIDE DEF after
  <2>3. TypeOK'
    BY <2>1, <2>2 DEF ForgottenIn, TypeOK, lobbyVars, connVars
  <2> QED  BY <2>2, <2>3 DEF TypeOK, connVars, SessionsAreBuilt, OpportunitiesAreLeft,
             ClaimsAreOfLeft
<1>16. ASSUME NEW c \in Conns, TimeoutThrows(c)
       PROVE  Shape'
  <2>1. TypeOK'
    BY <1>14, <1>16 DEF TimeoutThrows, TypeOK, storeVars, lobbyVars, connVars
  <2> QED  BY <1>16, <2>1 DEF TimeoutThrows, TypeOK, connVars, SessionsAreBuilt,
             OpportunitiesAreLeft, ClaimsAreOfLeft
<1>17. CASE UNCHANGED vars
  BY <1>17 DEF vars, TypeOK, storeVars, lobbyVars, connVars, gameVars, returnVars,
       SessionsAreBuilt, OpportunitiesAreLeft, ClaimsAreOfLeft
<1> HIDE DEF Shape
<1> QED  BY <1>1, <1>2, <1>3, <1>4, <1>5, <1>6, <1>7, <1>8, <1>9, <1>10, <1>11, <1>12, <1>13,
            <1>15, <1>16, <1>17
         DEF Next, HandoffSome, ForwardSome, ArriveSome, DepartSome, Continue, TimeOut

(* Type correctness: no handler, in whatever order and with whatever claims,
   leaves a value of the wrong kind behind. *)
THEOREM TypeCorrect == Spec => []TypeOK
<1>1. Init => Shape
  BY ShapeInit
<1>2. Shape /\ [Next]_vars => Shape'
  BY ShapeStep
<1>3. Shape => TypeOK
  BY DEF Shape
<1> QED  BY <1>1, <1>2, <1>3, PTL DEF Spec

LEMMA ShapeAlways == Spec => []Shape
<1>1. Init => Shape
  BY ShapeInit
<1>2. Shape /\ [Next]_vars => Shape'
  BY ShapeStep
<1> QED  BY <1>1, <1>2, PTL DEF Spec

-----------------------------------------------------------------------------
(* The store's promise: a record stands for a live opportunity *)

(* A store that fails may keep a record whose opportunity is gone. *)
Promise == (Services # "failing" => RecordHasOpportunity) /\ ManagerHoldsActive

(* Sessions that are over keep their contents, as far as the promise reads
   them: an opportunity's user, game and key. *)
LEMMA LeftSessionsStay ==
  ASSUME Shape, Promise, NEW c \in Conns, opp[c] = "none",
         \A d \in Conns \ {c} : sess'[d] = sess[d],
         UNCHANGED <<opp, manager>>,
         records' = records
  PROVE  Promise'
<1>1. \A k \in Keys : manager[k] # None => manager[k] \in Conns \ {c}
  BY DEF Shape, TypeOK, Promise, ManagerHoldsActive
<1> QED  BY <1>1 DEF Promise, RecordHasOpportunity, ManagerHoldsActive, KeyOf

LEMMA PromiseStep == Shape /\ Promise /\ [Next]_vars => Promise'
<1> SUFFICES ASSUME Shape, Promise, [Next]_vars PROVE Promise'
  OBVIOUS
<1> USE DEF Promise
<1>1. CASE UNCHANGED <<records, manager, opp, sess>>
  BY <1>1 DEF RecordHasOpportunity, ManagerHoldsActive, KeyOf
<1>2. ASSUME NEW c \in Conns, NEW cl \in claims,
             \/ AwaitSetup(c, cl) \/ FindNoGame(c, cl) \/ RefuseReconnection(c, cl)
             \/ JoinBeforeStart(c, cl)
      PROVE  Promise'
  <2>1. opp[c] = "none" /\ SessionOf(cl) \in BuiltSessions /\ cl.game \in GameNames
    BY <1>2, ArriveShape DEF AwaitSetup, FindNoGame, RefuseReconnection, JoinBeforeStart
  <2>2. UNCHANGED <<opp, manager, records>>
    BY <1>2 DEF AwaitSetup, FindNoGame, RefuseReconnection, JoinBeforeStart,
                storeVars, returnVars
  <2>3. ASSUME NEW d \in Conns \ {c} PROVE sess'[d] = sess[d]
    BY <1>2 DEF AwaitSetup, FindNoGame, RefuseReconnection, JoinBeforeStart, TakeSeat,
                Shape, TypeOK
  <2> QED  BY <2>1, <2>2, <2>3, LeftSessionsStay
<1>3. ASSUME NEW c \in Conns, NEW cl \in claims, ClaimOpportunity(c, cl)
      PROVE  Promise'
  <2> DEFINE k == KeyOf(SessionOf(cl))
             d == manager[k]
  <2>1. opp[c] = "none" /\ k \in Keys /\ d \in Conns
    <3>1. Arrive(c, cl) /\ k # None /\ d # None
      BY <1>3 DEF ClaimOpportunity, Claimable
    <3>2. k \in Keys
      BY <3>1, ArriveShape, KeyIsKey
    <3> QED  BY <3>1, <3>2, ArriveShape DEF Shape, TypeOK
  <2>2. /\ opp' = [opp EXCEPT ![d] = "claimed"]
        /\ manager' = [manager EXCEPT ![k] = None]
        /\ Services # "failing" => records' = [records EXCEPT ![k] = None]
        /\ sess' = [sess EXCEPT ![c] = SessionOf(cl)]
    BY <1>3 DEF ClaimOpportunity, Claimed, Withdrawn, Forgotten
  <2>3. KeyOf(sess[d]) = k
    BY <2>1, NoneAssumption DEF ManagerHoldsActive
  <2> HIDE DEF k, d
  (* no other key leads to d, whose own key k is, nor to c, which left nothing *)
  <2>4. ASSUME NEW j \in Keys, manager'[j] # None
        PROVE  j # k /\ manager'[j] = manager[j] /\ manager[j] \in Conns \ {c, d}
    BY <2>1, <2>2, <2>3, <2>4 DEF Shape, TypeOK, ManagerHoldsActive
  <2>5. ASSUME NEW j \in Keys, manager'[j] # None
        PROVE  sess'[manager'[j]] = sess[manager[j]] /\ opp'[manager'[j]] = "active"
    BY <2>2, <2>4, <2>5 DEF Shape, TypeOK, ManagerHoldsActive
  <2>6. Services # "failing" => RecordHasOpportunity'
    BY <2>1, <2>2, <2>4, <2>5 DEF RecordHasOpportunity, Shape, TypeOK
  <2>7. ManagerHoldsActive'
    BY <2>4, <2>5 DEF ManagerHoldsActive, KeyOf
  <2> QED  BY <2>6, <2>7
<1>4. ASSUME NEW c \in Conns, LoadGame(c) \/ FinishClaim(c)
      PROVE  Promise'
  <2>1. opp[c] = "none"
    BY <1>4 DEF LoadGame, FinishClaim, Shape, OpportunitiesAreLeft
  <2>2. UNCHANGED <<opp, manager, records>>
    BY <1>4 DEF LoadGame, FinishClaim, storeVars, returnVars
  <2>3. ASSUME NEW d \in Conns \ {c} PROVE sess'[d] = sess[d]
    BY <1>4 DEF LoadGame, FinishClaim, TakeSeat, Shape, TypeOK
  <2> QED  BY <2>1, <2>2, <2>3, LeftSessionsStay
<1>5. ASSUME NEW c \in Conns, Disconnect(c)
      PROVE  Promise'
  <2> DEFINE s == sess[c]
             k == KeyOf(s)
  <2>1. k \in Keys /\ opp[c] = "none"
    <3>1. s \in BuiltSessions
      BY <1>5 DEF Disconnect, Listening, Shape, SessionsAreBuilt
    <3> QED  BY <1>5, <3>1, KeyIsKey DEF Disconnect, Listening, Shape, OpportunitiesAreLeft
  <2>2. /\ records' = [records EXCEPT ![k] = [user |-> s.user, game |-> s.game]]
        /\ opp' = [opp EXCEPT ![c] = "active"]
        /\ manager' = [manager EXCEPT ![k] = c]
        /\ sess' = sess
    BY <1>5 DEF Disconnect
  <2> HIDE DEF k
  <2>3. manager'[k] = c /\ c # None /\ opp'[c] = "active"
    BY <2>1, <2>2, NoneAssumption DEF Shape, TypeOK
  <2>4. records'[k] = [user |-> s.user, game |-> s.game]
    BY <2>1, <2>2 DEF Shape, TypeOK
  <2>5. ASSUME NEW j \in Keys \ {k}
        PROVE  /\ records'[j] = records[j] /\ manager'[j] = manager[j]
               /\ manager[j] # None => opp'[manager[j]] = opp[manager[j]]
    BY <2>1, <2>2 DEF Shape, TypeOK, ManagerHoldsActive
  <2>6. Services # "failing" => RecordHasOpportunity'
    BY <2>2, <2>3, <2>4, <2>5 DEF RecordHasOpportunity
  <2>7. ManagerHoldsActive'
    BY <2>2, <2>3, <2>5 DEF ManagerHoldsActive, KeyOf, k
  <2> QED  BY <2>6, <2>7
<1>6. ASSUME NEW c \in Conns, Expire(c)
      PROVE  Promise'
  <2> DEFINE k == KeyOf(sess[c])
  <2>1. /\ opp' = [opp EXCEPT ![c] = "expiring"]
        /\ manager' = [manager EXCEPT ![k] = None]
        /\ Services # "failing" => records' = [records EXCEPT ![k] = None]
        /\ sess' = sess
    BY <1>6 DEF Expire, Withdrawn, Forgotten, connVars
  (* whatever the manager held under k is dropped; only under k could it be c *)
  <2>2. ASSUME NEW j \in Keys, manager'[j] # None
        PROVE  j # k /\ manager'[j] = manager[j] /\ manager[j] # c
    BY <2>1, <2>2 DEF Shape, TypeOK, ManagerHoldsActive
  <2> HIDE DEF k
  <2>3. ASSUME Services # "failing" PROVE RecordHasOpportunity'
    <3>1. ASSUME NEW j \in Keys, records'[j] # None PROVE j # k /\ records'[j] = records[j]
      BY <2>1, <2>3, <3>1 DEF Shape, TypeOK
    <3> QED  BY <2>1, <2>2, <2>3, <3>1 DEF RecordHasOpportunity, Shape, TypeOK
  <2>4. ManagerHoldsActive'
    BY <2>1, <2>2 DEF ManagerHoldsActive, Shape, TypeOK, KeyOf
  <2> QED  BY <2>3, <2>4
<1>7. ASSUME NEW c \in Conns, FinishTimeout(c) \/ TimeoutThrows(c)
      PROVE  Promise'
  <2>1. /\ opp[c] = "expiring" /\ opp' = [opp EXCEPT ![c] = "expired"]
        /\ UNCHANGED <<manager, sess>>
        /\ \A k \in Keys : records'[k] # None => records'[k] = records[k]
    BY <1>7 DEF FinishTimeout, TimeoutThrows, ForgottenIn, connVars, storeVars
  <2>2. ASSUME NEW k \in Keys, manager[k] # None
        PROVE  opp'[manager[k]] = opp[manager[k]]
    BY <2>1, <2>2 DEF ManagerHoldsActive, Shape, TypeOK
  <2> QED  BY <2>1, <2>2 DEF RecordHasOpportunity, ManagerHoldsActive, KeyOf
<1>8. (\E c \in Conns : LoseLoadRace(c) \/ ClaimFails(c) \/ DisconnectThrows(c) \/ CloseUnheard(c))
        \/ HandoffSome \/ (\E cl \in claims : RejectClaim(cl)) \/ UNCHANGED vars
        => UNCHANGED <<records, manager, opp, sess>>
  BY DEF LoseLoadRace, ClaimFails, DisconnectThrows, CloseUnheard, HandoffSome, Handoff, RejectClaim,
         vars, storeVars, connVars, returnVars
<1>9. ForwardSome => UNCHANGED <<records, manager, opp, sess>>
  BY DEF ForwardSome, Forward, storeVars, connVars, returnVars
<1> HIDE DEF Promise
<1> QED  BY <1>1, <1>2, <1>3, <1>4, <1>5, <1>6, <1>7, <1>8, <1>9
         DEF Next, ArriveSome, DepartSome, Continue, TimeOut

(* A forwarding record in the central store always stands for an opportunity
   of the same user in the same game on the game server: disconnect, claim
   and timeout keep the store and the manager in step under every
   interleaving, for as long as no delete fails and the process lives. *)
THEOREM RecordsArePromises ==
  ASSUME Services # "failing"
  PROVE  Spec => []RecordHasOpportunity
<1>1. Init => Promise
  BY DEF Init, Promise, RecordHasOpportunity, ManagerHoldsActive
<1>2. Shape /\ Promise /\ [Next]_vars => Promise'
  BY PromiseStep
<1>3. Promise => RecordHasOpportunity
  BY DEF Promise
<1> QED  BY <1>1, <1>2, <1>3, ShapeAlways, PTL DEF Spec

(* The manager never holds a spent opportunity, nor one under another
   session's key. *)
THEOREM ManagerIsCurrent == Spec => []ManagerHoldsActive
<1>1. Init => Promise
  BY DEF Init, Promise, RecordHasOpportunity, ManagerHoldsActive
<1>2. Shape /\ Promise /\ [Next]_vars => Promise'
  BY PromiseStep
<1>3. Promise => ManagerHoldsActive
  BY DEF Promise
<1> QED  BY <1>1, <1>2, <1>3, ShapeAlways, PTL DEF Spec

-----------------------------------------------------------------------------
(* Dispatching never throws *)

InFlight == {c \in Conns : phase[c] \in {"loading", "claiming"}}

(* Endpoints come before seats: a handler that may still seat its session, or
   has, registered the endpoint on arrival. *)
EndpointsFirst ==
  /\ InFlight \subseteq endpoints
  /\ registered \subseteq endpoints

LEMMA EndpointsStep == Shape /\ EndpointsFirst /\ [Next]_vars => EndpointsFirst'
<1> SUFFICES ASSUME Shape, EndpointsFirst, [Next]_vars PROVE EndpointsFirst'
  OBVIOUS
<1> USE DEF EndpointsFirst, InFlight
<1>1. ASSUME NEW c \in Conns, NEW cl \in claims,
             \/ AwaitSetup(c, cl) \/ FindNoGame(c, cl) \/ RefuseReconnection(c, cl)
             \/ JoinBeforeStart(c, cl) \/ ClaimOpportunity(c, cl)
      PROVE  EndpointsFirst'
  <2>1. endpoints' = endpoints \cup {c}
    BY <1>1 DEF AwaitSetup, FindNoGame, RefuseReconnection, JoinBeforeStart,
                ClaimOpportunity, Arrive, Wired
  <2>2. registered' \subseteq registered \cup {c}
    BY <1>1 DEF AwaitSetup, FindNoGame, RefuseReconnection, JoinBeforeStart,
                ClaimOpportunity, TakeSeat
  <2>3. ASSUME NEW d \in Conns \ {c} PROVE phase'[d] = phase[d]
    BY <1>1 DEF AwaitSetup, FindNoGame, RefuseReconnection, JoinBeforeStart,
                ClaimOpportunity, TakeSeat, Shape, TypeOK
  <2> QED  BY <2>1, <2>2, <2>3
<1>2. ASSUME NEW c \in Conns, LoadGame(c) \/ FinishClaim(c)
      PROVE  EndpointsFirst'
  <2>1. c \in endpoints /\ endpoints' = endpoints /\ registered' = registered \cup {c}
    BY <1>2 DEF LoadGame, FinishClaim, TakeSeat
  <2>2. ASSUME NEW d \in Conns \ {c} PROVE phase'[d] = phase[d]
    BY <1>2 DEF LoadGame, FinishClaim, TakeSeat, Shape, TypeOK
  <2> QED  BY <2>1, <2>2
<1>3. ASSUME NEW c \in Conns, Disconnect(c)
      PROVE  EndpointsFirst'
  <2>1. phase' = [phase EXCEPT ![c] = "closed"] /\ registered' = registered \ {c}
    BY <1>3 DEF Disconnect
  <2>2. endpoints \ {c} \subseteq endpoints'
    BY <1>3 DEF Disconnect
  <2> QED  BY <2>1, <2>2 DEF Shape, TypeOK
<1>4. ASSUME NEW c \in Conns, LoseLoadRace(c) \/ ClaimFails(c) \/ DisconnectThrows(c)
      PROVE  EndpointsFirst'
  BY <1>4 DEF LoseLoadRace, ClaimFails, DisconnectThrows, Shape, TypeOK
<1>5. ASSUME \/ HandoffSome \/ ForwardSome \/ (\E cl \in claims : RejectClaim(cl))
             \/ \E c \in Conns : CloseUnheard(c) \/ TimeOut(c)
             \/ UNCHANGED vars
      PROVE  EndpointsFirst'
  <2>1. UNCHANGED <<phase, registered, endpoints>>
    BY <1>5 DEF HandoffSome, Handoff, ForwardSome, Forward, RejectClaim, CloseUnheard,
                TimeOut, Expire, FinishTimeout, TimeoutThrows, vars, connVars
  <2> QED  BY <2>1
<1> HIDE DEF EndpointsFirst
<1> QED  BY <1>1, <1>2, <1>3, <1>4, <1>5 DEF Next, ArriveSome, DepartSome, Continue, TimeOut

(* Every registered session can be sent to, so neither a fan-out nor a reply
   ever throws in the middle of a handler. *)
THEOREM DispatchReaches == Spec => []RegisteredHasEndpoint
<1>1. Init => EndpointsFirst
  BY DEF Init, EndpointsFirst, InFlight
<1>2. Shape /\ EndpointsFirst /\ [Next]_vars => EndpointsFirst'
  BY EndpointsStep
<1>3. EndpointsFirst => RegisteredHasEndpoint
  BY DEF EndpointsFirst, RegisteredHasEndpoint
<1> QED  BY <1>1, <1>2, <1>3, ShapeAlways, PTL DEF Spec

-----------------------------------------------------------------------------
(* One connection per user, as long as a handler is not overtaken *)

(* Sessions are registered only when their handler gets to it, and keep their
   user from then on. *)
RegisteredHaveArrived ==
  \A c \in registered : phase[c] \in {"joined", "refused", "closed"}

(* With stores in the process at most one handler is under way, and the check
   createSession made for its user still stands. *)
CheckStillHolds ==
  Services = "inProcess" =>
    /\ \A c, d \in InFlight : c = d
    /\ \A c \in InFlight : ~AlreadyConnected(sess[c].user)

Single == RegisteredHaveArrived /\ CheckStillHolds
            /\ (Services = "inProcess" => OneConnectionPerUser)

LEMMA SingleStep == Shape /\ Single /\ [Next]_vars => Single'
<1> SUFFICES ASSUME Shape, Single, [Next]_vars PROVE Single'
  OBVIOUS
<1> USE DEF Single, RegisteredHaveArrived, CheckStillHolds, InFlight, OneConnectionPerUser,
            AlreadyConnected
(* an arrival: nobody else is under way, and its user is not connected *)
<1>1. ASSUME NEW c \in Conns, NEW cl \in claims, Arrive(c, cl)
      PROVE  /\ phase[c] = "unused" /\ c \notin registered
             /\ \A d \in registered : sess[d].user # cl.user
             /\ Services = "inProcess" => InFlight = {}
             /\ SessionOf(cl) \in BuiltSessions /\ SessionOf(cl).user = cl.user
             /\ cl.game \in GameNames
  BY <1>1, ArriveShape DEF Arrive, MayDispatch, SessionOf
<1>2. ASSUME NEW c \in Conns, NEW cl \in claims,
             \/ AwaitSetup(c, cl) \/ FindNoGame(c, cl) \/ RefuseReconnection(c, cl)
             \/ ClaimOpportunity(c, cl)
      PROVE  Single'
  <2>1. Arrive(c, cl) /\ registered' = registered /\ sess' = [sess EXCEPT ![c] = SessionOf(cl)]
    BY <1>2 DEF AwaitSetup, FindNoGame, RefuseReconnection, ClaimOpportunity
  <2>2. /\ \A d \in Conns \ {c} : phase'[d] = phase[d] /\ sess'[d] = sess[d]
        /\ sess'[c].user = cl.user
    BY <1>1, <1>2, <2>1 DEF AwaitSetup, FindNoGame, RefuseReconnection, ClaimOpportunity,
                            Shape, TypeOK
  <2> QED  BY <1>1, <2>1, <2>2 DEF Shape, TypeOK
<1>3. ASSUME NEW c \in Conns, NEW cl \in claims, JoinBeforeStart(c, cl)
      PROVE  Single'
  <2>1. Arrive(c, cl) /\ TakeSeat(c, SessionOf(cl), game[cl.game])
    BY <1>3 DEF JoinBeforeStart
  <2>2. game[cl.game] \in Games
    BY <1>1, <2>1 DEF Shape, TypeOK
  <2>3. /\ registered' = registered \cup {c}
        /\ sess'[c].user = cl.user /\ phase'[c] \in {"joined", "refused"}
        /\ \A d \in Conns \ {c} : phase'[d] = phase[d] /\ sess'[d] = sess[d]
    BY <1>1, <2>1, <2>2, TakeSeatShape DEF Shape
  <2> QED  BY <1>1, <2>1, <2>3 DEF Shape, TypeOK
<1>4. ASSUME NEW c \in Conns, LoadGame(c) \/ FinishClaim(c)
      PROVE  Single'
  <2>1. PICK s \in BuiltSessions, gm \in Games : TakeSeat(c, s, gm) /\ s.user = sess[c].user
    <3>1. CASE LoadGame(c)
      <4>1. sess[c] \in BuiltSessions /\ sess[c].game \in GameNames
        BY <3>1 DEF LoadGame, Shape, SessionsAreBuilt, BuiltSessions
      <4>2. [players |-> Range(seats[sess[c].game]), started |-> FALSE, lock |-> {}] \in Games
        BY <4>1, SeatingNames DEF Shape, TypeOK, Games
      <4> QED  BY <3>1, <4>1, <4>2 DEF LoadGame
    <3>2. CASE FinishClaim(c)
      <4>1. sess[c] \in BuiltSessions /\ sess[claimOf[c]] \in BuiltSessions
        BY <3>2 DEF FinishClaim, Shape, SessionsAreBuilt, ClaimsAreOfLeft, OpportunitiesAreLeft
      <4>2. Renamed(c) \in BuiltSessions /\ Renamed(c).user = sess[c].user
        BY <4>1 DEF Renamed, BuiltSessions
      <4>3. game[sess[c].game] \in Games
        BY <4>1 DEF Shape, TypeOK, BuiltSessions
      <4> QED  BY <3>2, <4>2, <4>3 DEF FinishClaim
    <3> QED  BY <1>4, <3>1, <3>2
  <2>2. /\ registered' = registered \cup {c}
        /\ sess'[c].user = sess[c].user /\ phase'[c] \in {"joined", "refused"}
        /\ \A d \in Conns \ {c} : phase'[d] = phase[d] /\ sess'[d] = sess[d]
    BY <2>1, TakeSeatShape DEF Shape
  <2>3. c \in InFlight
    BY <1>4 DEF LoadGame, FinishClaim
  <2> QED  BY <2>2, <2>3 DEF Shape, TypeOK
<1>5. ASSUME NEW c \in Conns,
             Disconnect(c) \/ DisconnectThrows(c) \/ LoseLoadRace(c) \/ ClaimFails(c)
      PROVE  Single'
  <2>1. /\ \E p \in {"closed", "refused"} : phase' = [phase EXCEPT ![c] = p]
        /\ sess' = sess /\ registered' \subseteq registered
    BY <1>5 DEF Disconnect, DisconnectThrows, LoseLoadRace, ClaimFails
  <2> QED  BY <2>1 DEF Shape, TypeOK
<1>6. ASSUME \/ HandoffSome \/ ForwardSome \/ (\E cl \in claims : RejectClaim(cl))
             \/ \E c \in Conns : CloseUnheard(c) \/ TimeOut(c)
             \/ UNCHANGED vars
      PROVE  Single'
  <2>1. UNCHANGED <<phase, registered, sess>>
    BY <1>6 DEF HandoffSome, Handoff, ForwardSome, Forward, RejectClaim, CloseUnheard,
                TimeOut, Expire, FinishTimeout, TimeoutThrows, vars, connVars
  <2> QED  BY <2>1
<1> HIDE DEF Single
<1> QED  BY <1>2, <1>3, <1>4, <1>5, <1>6 DEF Next, ArriveSome, DepartSome, Continue

(* "Only one connection per user is permitted on a single game server": with
   stores in the process the check made before the awaits is still good when
   the session is registered after them. *)
THEOREM OneConnection ==
  ASSUME Services = "inProcess"
  PROVE  Spec => []OneConnectionPerUser
<1>1. Init => Single
  BY DEF Init, Single, RegisteredHaveArrived, CheckStillHolds, InFlight, OneConnectionPerUser
<1>2. Shape /\ Single /\ [Next]_vars => Single'
  BY SingleStep
<1>3. Single => OneConnectionPerUser
  BY DEF Single
<1> QED  BY <1>1, <1>2, <1>3, ShapeAlways, PTL DEF Spec
=============================================================================
