-------------------------- MODULE GameServerSafety --------------------------
(***************************************************************************)
(* Two promises to players, proved for every set of users, names, games and *)
(* connections, when the lobby draws no name twice and hands nobody off      *)
(* twice, whatever token of an earlier game a guest brings: a paused game    *)
(* has a way out of its pause, and nobody's input is accepted while somebody *)
(* is missing.  The second needs stores in the process; with others it is    *)
(* proved but for the one player who hung up while the setup was loaded.     *)
(*                                                                          *)
(* Both rest on who is who (Owned): a session, a claim or a record that      *)
(* speaks for a user speaks for that user's seat, under whatever name and    *)
(* key it is found.                                                          *)
(***************************************************************************)
EXTENDS GameServerProofs

-----------------------------------------------------------------------------
(* What a step does to the sessions, claims and records *)

(* A session of the next state was there before, or comes from a claim; only
   its token and, at the end of a claim, its name may have changed. *)
LEMMA SessionStep ==
  ASSUME Shape, [Next]_vars, NEW c \in Conns, phase'[c] # "unused"
  PROVE  \/ /\ phase[c] = "unused"
            /\ \E cl \in claims \ claims' :
                 /\ sess'[c].user = cl.user /\ sess'[c].game = cl.game
                 /\ sess'[c].name = cl.name
                 /\ sess'[c].token \in {cl.token, c}
         \/ /\ phase[c] # "unused"
            /\ sess'[c].user = sess[c].user /\ sess'[c].game = sess[c].game
            /\ sess'[c].token \in {sess[c].token, c}
            /\ \/ sess'[c].name = sess[c].name
               \/ phase[c] = "claiming" /\ sess'[c].name = sess[claimOf[c]].name
<1> DEFINE Goal ==
         \/ /\ phase[c] = "unused"
            /\ \E cl \in claims \ claims' :
                 /\ sess'[c].user = cl.user /\ sess'[c].game = cl.game
                 /\ sess'[c].name = cl.name
                 /\ sess'[c].token \in {cl.token, c}
         \/ /\ phase[c] # "unused"
            /\ sess'[c].user = sess[c].user /\ sess'[c].game = sess[c].game
            /\ sess'[c].token \in {sess[c].token, c}
            /\ \/ sess'[c].name = sess[c].name
               \/ phase[c] = "claiming" /\ sess'[c].name = sess[claimOf[c]].name
<1>1. CASE UNCHANGED <<sess, phase>>
  BY <1>1
(* what TakeSeat makes of a session *)
<1>2. ASSUME NEW d \in Conns, NEW s \in BuiltSessions, NEW gm, TakeSeat(d, s, gm)
      PROVE  /\ sess'[d].user = s.user /\ sess'[d].game = s.game
             /\ sess'[d].name = s.name /\ sess'[d].token \in {s.token, d}
             /\ \A e \in Conns \ {d} : sess'[e] = sess[e] /\ phase'[e] = phase[e]
  BY <1>2 DEF TakeSeat, BuiltSessions, Shape, TypeOK
<1>3. ASSUME NEW cl \in claims, NEW d \in Conns,
             \/ AwaitSetup(d, cl) \/ FindNoGame(d, cl) \/ ClaimOpportunity(d, cl)
             \/ RefuseReconnection(d, cl)
      PROVE  Goal
  <2>1. Arrive(d, cl) /\ sess' = [sess EXCEPT ![d] = SessionOf(cl)]
    BY <1>3 DEF AwaitSetup, FindNoGame, ClaimOpportunity, RefuseReconnection
  <2>2. \A e \in Conns \ {d} : phase'[e] = phase[e]
    BY <1>3 DEF AwaitSetup, FindNoGame, ClaimOpportunity, RefuseReconnection, Shape, TypeOK
  <2> QED  BY <2>1, <2>2 DEF Arrive, SessionOf, Shape, TypeOK
<1>4. ASSUME NEW cl \in claims, NEW d \in Conns, JoinBeforeStart(d, cl)
      PROVE  Goal
  <2>1. Arrive(d, cl) /\ TakeSeat(d, SessionOf(cl), game[cl.game])
    BY <1>4 DEF JoinBeforeStart
  <2>2. SessionOf(cl) \in BuiltSessions /\ phase[d] = "unused"
    BY <2>1, ArriveShape
  <2>3. cl \notin claims'
    BY <2>1 DEF Arrive
  <2> QED  BY <1>2, <2>1, <2>2, <2>3 DEF SessionOf
<1>5. ASSUME NEW d \in Conns, LoadGame(d)
      PROVE  Goal
  <2>1. /\ TakeSeat(d, sess[d], [players |-> Range(seats[sess[d].game]), started |-> FALSE, lock |-> {}])
        /\ phase[d] = "loading"
    BY <1>5 DEF LoadGame
  <2>2. sess[d] \in BuiltSessions
    BY <2>1 DEF Shape, SessionsAreBuilt
  <2> QED  BY <1>2, <2>1, <2>2
<1>6. ASSUME NEW d \in Conns, FinishClaim(d)
      PROVE  Goal
  <2>1. TakeSeat(d, Renamed(d), game[sess[d].game]) /\ phase[d] = "claiming"
    BY <1>6 DEF FinishClaim
  <2>2. sess[d] \in BuiltSessions /\ sess[claimOf[d]] \in BuiltSessions
    BY <2>1 DEF Shape, SessionsAreBuilt, ClaimsAreOfLeft, OpportunitiesAreLeft
  <2>3. /\ Renamed(d) \in BuiltSessions /\ Renamed(d).user = sess[d].user
        /\ Renamed(d).game = sess[d].game /\ Renamed(d).token = sess[d].token
        /\ Renamed(d).name = sess[claimOf[d]].name
    BY <2>2 DEF Renamed, BuiltSessions
  <2> QED  BY <1>2, <2>1, <2>3
<1>7. ASSUME NEW d \in Conns,
             LoseLoadRace(d) \/ ClaimFails(d) \/ Disconnect(d) \/ DisconnectThrows(d)
      PROVE  Goal
  <2>1. sess' = sess /\ phase[d] # "unused" /\ \A e \in Conns \ {d} : phase'[e] = phase[e]
    BY <1>7 DEF LoseLoadRace, ClaimFails, Disconnect, DisconnectThrows, Listening, Shape, TypeOK
  <2> QED  BY <2>1
<1>8. ASSUME \/ HandoffSome \/ ForwardSome \/ (\E cl \in claims : RejectClaim(cl))
             \/ \E d \in Conns : CloseUnheard(d) \/ TimeOut(d)
             \/ UNCHANGED vars
      PROVE  UNCHANGED <<sess, phase>>
  BY <1>8 DEF HandoffSome, Handoff, ForwardSome, Forward, RejectClaim, CloseUnheard,
              TimeOut, Expire, FinishTimeout, TimeoutThrows, vars, connVars
<1> HIDE DEF Goal
<1> QED  BY <1>1, <1>3, <1>4, <1>5, <1>6, <1>7, <1>8
         DEF Next, ArriveSome, DepartSome, Continue, Goal

(* A record of the next state was there before, or is of a session that ends. *)
LEMMA RecordStep ==
  ASSUME Shape, [Next]_vars, NEW k \in Keys, records'[k] # None
  PROVE  \/ records'[k] = records[k]
         \/ \E c \in Conns : /\ phase[c] \notin {"unused", "loading", "closed"}
                             /\ KeyOf(sess[c]) = k
                             /\ records'[k].user = sess[c].user
                             /\ records'[k].game = sess[c].game
<1>1. CASE UNCHANGED records
  BY <1>1
<1>2. ASSUME NEW c \in Conns, Disconnect(c)
      PROVE  \/ records'[k] = records[k]
             \/ /\ phase[c] \notin {"unused", "loading", "closed"} /\ KeyOf(sess[c]) = k
                /\ records'[k].user = sess[c].user
                /\ records'[k].game = sess[c].game
  <2>1. /\ records' = [records EXCEPT ![KeyOf(sess[c])] = [user |-> sess[c].user, game |-> sess[c].game]]
        /\ phase[c] \notin {"unused", "loading", "closed"}
    BY <1>2 DEF Disconnect, Listening
  <2> QED  BY <2>1 DEF Shape, TypeOK
<1>3. ASSUME NEW c \in Conns, Expire(c) \/ FinishTimeout(c)
      PROVE  records'[k] = records[k]
  BY <1>3 DEF Expire, FinishTimeout, Forgotten, ForgottenIn, Shape, TypeOK
<1>4. ASSUME NEW cl \in claims, NEW c \in Conns, ClaimOpportunity(c, cl)
      PROVE  records'[k] = records[k]
  BY <1>4 DEF ClaimOpportunity, Forgotten, Shape, TypeOK
<1>5. ASSUME \/ HandoffSome \/ ForwardSome
             \/ \E cl \in claims : \/ RejectClaim(cl)
                                   \/ \E c \in Conns : AwaitSetup(c, cl) \/ FindNoGame(c, cl)
                                        \/ JoinBeforeStart(c, cl) \/ RefuseReconnection(c, cl)
             \/ \E c \in Conns : \/ DisconnectThrows(c) \/ CloseUnheard(c)
                                 \/ Continue(c) \/ TimeoutThrows(c)
             \/ UNCHANGED vars
      PROVE  UNCHANGED records
  BY <1>5 DEF HandoffSome, Handoff, ForwardSome, Forward, RejectClaim, AwaitSetup, FindNoGame,
              JoinBeforeStart, RefuseReconnection, DisconnectThrows, CloseUnheard, Continue,
              LoadGame, LoseLoadRace, FinishClaim, ClaimFails, TimeoutThrows, vars, storeVars
<1> QED  BY <1>1, <1>2, <1>3, <1>4, <1>5 DEF Next, ArriveSome, DepartSome, TimeOut

(* A connection once used stays used. *)
LEMMA UsedStays ==
  ASSUME Shape, [Next]_vars, NEW c \in Conns, phase[c] # "unused"
  PROVE  phase'[c] # "unused"
<1>1. ASSUME NEW d \in Conns, NEW s, NEW gm, TakeSeat(d, s, gm)
      PROVE  phase'[c] # "unused"
  BY <1>1 DEF TakeSeat, Shape, TypeOK
<1>2. CASE UNCHANGED phase
  BY <1>2
<1>3. ASSUME NEW d \in Conns,
             \/ \E cl \in claims : AwaitSetup(d, cl) \/ FindNoGame(d, cl)
                                  \/ ClaimOpportunity(d, cl) \/ RefuseReconnection(d, cl)
             \/ LoseLoadRace(d) \/ ClaimFails(d) \/ Disconnect(d) \/ DisconnectThrows(d)
      PROVE  phase'[c] # "unused"
  BY <1>3 DEF AwaitSetup, FindNoGame, ClaimOpportunity, RefuseReconnection, LoseLoadRace,
              ClaimFails, Disconnect, DisconnectThrows, Shape, TypeOK
<1>4. ASSUME NEW d \in Conns, \/ \E cl \in claims : JoinBeforeStart(d, cl)
                              \/ LoadGame(d) \/ FinishClaim(d)
      PROVE  phase'[c] # "unused"
  BY <1>1, <1>4 DEF JoinBeforeStart, LoadGame, FinishClaim
<1>5. ASSUME \/ HandoffSome \/ ForwardSome \/ (\E cl \in claims : RejectClaim(cl))
             \/ \E d \in Conns : CloseUnheard(d) \/ TimeOut(d)
             \/ UNCHANGED vars
      PROVE  UNCHANGED phase
  BY <1>5 DEF HandoffSome, Handoff, ForwardSome, Forward, RejectClaim, CloseUnheard,
              TimeOut, Expire, FinishTimeout, TimeoutThrows, vars, connVars
<1> QED  BY <1>2, <1>3, <1>4, <1>5 DEF Next, ArriveSome, DepartSome, Continue

(* Only the lobby seats users and issues claims. *)
LEMMA OnlyLobbyIssues ==
  ASSUME [Next]_vars
  PROVE  \/ HandoffSome \/ ForwardSome
         \/ seats' = seats /\ claims' \subseteq claims
<1>1. ASSUME NEW cl \in claims, NEW c \in Conns,
             \/ AwaitSetup(c, cl) \/ FindNoGame(c, cl) \/ JoinBeforeStart(c, cl)
             \/ ClaimOpportunity(c, cl) \/ RefuseReconnection(c, cl)
      PROVE  seats' = seats /\ claims' \subseteq claims
  <2>1. Arrive(c, cl)
    BY <1>1 DEF AwaitSetup, FindNoGame, JoinBeforeStart, ClaimOpportunity, RefuseReconnection
  <2> QED  BY <2>1 DEF Arrive
<1>2. ASSUME \/ \E cl \in claims : RejectClaim(cl)
             \/ \E c \in Conns : \/ Continue(c) \/ TimeOut(c) \/ Disconnect(c)
                                 \/ DisconnectThrows(c) \/ CloseUnheard(c)
             \/ UNCHANGED vars
      PROVE  seats' = seats /\ claims' \subseteq claims
  BY <1>2 DEF RejectClaim, Continue, LoadGame, LoseLoadRace, FinishClaim, ClaimFails, TimeOut,
              Expire, FinishTimeout, TimeoutThrows, Disconnect, DisconnectThrows, CloseUnheard,
              vars, lobbyVars
<1> QED  BY <1>1, <1>2 DEF Next, ArriveSome, DepartSome

-----------------------------------------------------------------------------
(* Nobody is handed off twice *)

(* A step seats new users under new names only, and forwards a guest under a
   name no seat bears. *)
HandsOffOnce ==
  /\ HandoffSome => \E n \in GameNames, S \in SUBSET Users :
       \E seating \in [S -> Usernames] : Handoff(n, seating) /\ IsNew(seating)
  /\ ForwardSome => \E k \in Keys, name \in Usernames :
       Forward(k, name) /\ (k \in AuthUsers \/ name \notin SeatedNames)

LEMMA PlainHandsOffOnce ==
  ASSUME "sharedUsername" \notin Quirks
  PROVE  HandsOffOnce
BY DEF HandsOffOnce, HandoffSome, ForwardSome, Handoff, Forward

(* Every claim, session and record is of a user who was handed off in its game,
   be it once or often. *)
Issued ==
  /\ \A cl \in claims : cl.user \in DOMAIN seats[cl.game]
  /\ \A c \in Conns : phase[c] # "unused" => sess[c].user \in DOMAIN seats[sess[c].game]
  /\ \A k \in Keys : records[k] # None => records[k].user \in DOMAIN seats[records[k].game]

LEMMA IssuedStep ==
  ASSUME Shape, Issued, [Next]_vars
  PROVE  Issued'
<1>1. \A n \in GameNames : \A u \in DOMAIN seats[n] : u \in DOMAIN seats'[n]
  <2>1. ASSUME HandoffSome PROVE \A n \in GameNames : DOMAIN seats[n] # {} => seats'[n] = seats[n]
    BY <2>1 DEF HandoffSome, Handoff, Shape, TypeOK
  <2>2. ASSUME ForwardSome PROVE seats' = seats
    BY <2>2 DEF ForwardSome, Forward
  <2> QED  BY <2>1, <2>2, OnlyLobbyIssues
<1>2. ASSUME NEW cl \in claims'
      PROVE  cl.user \in DOMAIN seats'[cl.game]
  <2>1. CASE cl \in claims
    <3>1. cl.game \in GameNames
      BY <2>1 DEF Shape, TypeOK, Claims
    <3> QED  BY <1>1, <2>1, <3>1 DEF Issued
  <2>2. CASE cl \notin claims /\ HandoffSome
    <3>1. PICK n \in GameNames, S \in SUBSET Users : \E f \in [S -> Usernames] : Handoff(n, f)
      BY <2>2 DEF HandoffSome
    <3>2. PICK f \in [S -> Usernames] : Handoff(n, f)
      BY <3>1
    <3>3. cl.game = n /\ cl.user \in S /\ seats'[n] = f
      BY <2>2, <3>2 DEF Handoff, Shape, TypeOK
    <3> QED  BY <3>3
  <2>3. CASE cl \notin claims /\ ForwardSome
    <3>1. PICK k \in Keys : /\ records[k] # None /\ seats' = seats
                            /\ cl.user = records[k].user /\ cl.game = records[k].game
      BY <2>3 DEF ForwardSome, Forward
    <3> QED  BY <3>1 DEF Issued
  <2> QED  BY <2>1, <2>2, <2>3, OnlyLobbyIssues
<1>3. ASSUME NEW c \in Conns, phase'[c] # "unused"
      PROVE  sess'[c].user \in DOMAIN seats'[sess'[c].game]
  <2>1. CASE phase[c] = "unused"
    <3>1. PICK cl \in claims : sess'[c].user = cl.user /\ sess'[c].game = cl.game
      BY <1>3, <2>1, SessionStep
    <3>2. cl.game \in GameNames
      BY DEF Shape, TypeOK, Claims
    <3> QED  BY <1>1, <3>1, <3>2 DEF Issued
  <2>2. CASE phase[c] # "unused"
    <3>1. sess'[c].user = sess[c].user /\ sess'[c].game = sess[c].game
      BY <1>3, <2>2, SessionStep
    <3>2. sess[c].game \in GameNames
      BY <2>2 DEF Shape, SessionsAreBuilt, BuiltSessions
    <3> QED  BY <1>1, <2>2, <3>1, <3>2 DEF Issued
  <2> QED  BY <2>1, <2>2
<1>4. ASSUME NEW k \in Keys, records'[k] # None
      PROVE  records'[k].user \in DOMAIN seats'[records'[k].game]
  <2>1. CASE records'[k] = records[k]
    <3>1. records[k].game \in GameNames
      BY <1>4, <2>1 DEF Shape, TypeOK, Records
    <3> QED  BY <1>1, <1>4, <2>1, <3>1 DEF Issued
  <2>2. CASE records'[k] # records[k]
    <3>1. PICK c \in Conns : /\ phase[c] # "unused"
                             /\ records'[k].user = sess[c].user /\ records'[k].game = sess[c].game
      BY <1>4, <2>2, RecordStep
    <3>2. sess[c].game \in GameNames
      BY <3>1 DEF Shape, SessionsAreBuilt, BuiltSessions
    <3> QED  BY <1>1, <3>1, <3>2 DEF Issued
  <2> QED  BY <2>1, <2>2
<1> QED  BY <1>2, <1>3, <1>4 DEF Issued

-----------------------------------------------------------------------------
(* Who is who *)

(* s speaks for a seat of its game: its user has one there, and no seat but
   that one bears its name. *)
OwnsSeat(s) ==
  /\ s.user \in DOMAIN seats[s.game]
  /\ \A n \in GameNames : \A u \in DOMAIN seats[n] :
       seats[n][u] = s.name => n = s.game /\ u = s.user

(* Its reconnection token was issued to a session of the same user. *)
OwnsToken(s) ==
  s.token # None => phase[s.token] # "unused" /\ sess[s.token].user = s.user

(* Neither a user nor a name has two seats. *)
SeatsApart ==
  \A n, m \in GameNames : \A u \in DOMAIN seats[n], v \in DOMAIN seats[m] :
    u = v \/ seats[n][u] = seats[m][v] => n = m /\ u = v

(* Key k is one user u may have. *)
KeyIsOf(k, u) ==
  IF k \in AuthUsers THEN u = k ELSE phase[k] # "unused" /\ sess[k].user = u

(* Nobody has come as user u yet. *)
Unseen(u) == \A c \in Conns : phase[c] # "unused" => sess[c].user # u

(* The claim a guest was handed off with, with whatever token they brought to
   the lobby: nobody has come as this user, and no other claim lets them. *)
FirstClaim(cl) ==
  /\ cl.user \notin AuthUsers /\ Unseen(cl.user)
  /\ cl.name = seats[cl.game][cl.user]
  /\ \A other \in claims : other.user = cl.user => other = cl

(* A guest who has come with it and has not been seated: they wait for the
   setup, or found nothing and left no opportunity. *)
Fresh(c) ==
  /\ sess[c].user \notin AuthUsers
  /\ \/ phase[c] = "loading" /\ InTheirName(c)
     \/ phase[c] = "closed" /\ opp[c] = "none"

(* The game of a player who has not come yet waits for them, and keeps their
   seat. *)
SeatsWait ==
  \A n \in GameNames : \A u \in DOMAIN seats[n] :
    Unseen(u) => IF n \in registry
                 THEN ~game[n].started /\ seats[n][u] \in game[n].players
                 ELSE n \in pending

Owned ==
  /\ SeatsApart /\ SeatsWait
  /\ \A cl \in claims : OwnsSeat(SessionOf(cl)) /\ (OwnsToken(SessionOf(cl)) \/ FirstClaim(cl))
  /\ \A c \in Conns : phase[c] # "unused" => OwnsSeat(sess[c]) /\ (OwnsToken(sess[c]) \/ Fresh(c))
  /\ \A k \in Keys : records[k] # None =>
       records[k].user \in DOMAIN seats[records[k].game] /\ KeyIsOf(k, records[k].user)
  /\ \A c \in Conns : phase[c] = "claiming" =>
       sess[claimOf[c]].user = sess[c].user /\ sess[claimOf[c]].game = sess[c].game

LEMMA OwnedIsIssued ==
  ASSUME Owned
  PROVE  Issued
<1>1. \A cl \in claims : SessionOf(cl).user = cl.user /\ SessionOf(cl).game = cl.game
  BY DEF SessionOf
<1> QED  BY <1>1 DEF Owned, OwnsSeat, Issued

(* The key of a built session is one its user may have. *)
LEMMA KeyOfOwner ==
  ASSUME NEW s \in BuiltSessions, OwnsToken(s), KeyOf(s) # None
  PROVE  KeyIsOf(KeyOf(s), s.user)
BY UsersAssumption DEF OwnsToken, KeyOf, KeyIsOf, BuiltSessions, Tokens

(* A key belongs to one user. *)
LEMMA KeyHasOneUser ==
  ASSUME NEW k, NEW u, NEW v, KeyIsOf(k, u), KeyIsOf(k, v)
  PROVE  u = v
BY DEF KeyIsOf

(* Whoever shows a claim to a game that has started owns its token. *)
LEMMA LateClaimOwnsToken ==
  ASSUME Shape, Owned, NEW cl \in claims, cl.game \in registry, game[cl.game].started
  PROVE  OwnsToken(SessionOf(cl))
<1>1. cl \in Claims /\ OwnsSeat(SessionOf(cl))
  BY DEF Shape, TypeOK, Owned
<1>2. cl.game \in GameNames /\ cl.user \in DOMAIN seats[cl.game]
  BY <1>1 DEF Claims, OwnsSeat, SessionOf
<1>3. ~Unseen(cl.user)
  BY <1>2 DEF Owned, SeatsWait
<1> QED  BY <1>3 DEF Owned, FirstClaim

(* An opportunity is claimed by the user it was opened for, in its game. *)
LEMMA ClaimantIsOwner ==
  ASSUME Shape, Promise, Owned, NEW c \in Conns, NEW cl \in claims, ClaimOpportunity(c, cl)
  PROVE  LET d == manager[KeyOf(SessionOf(cl))]
         IN /\ d \in Conns \ {c} /\ opp[d] = "active"
            /\ sess[d].user = cl.user /\ sess[d].game = cl.game
<1> DEFINE s == SessionOf(cl)
           k == KeyOf(s)
           d == manager[k]
<1>1. /\ Arrive(c, cl) /\ k # None /\ d # None /\ opp[d] = "active"
      /\ cl.game \in registry /\ game[cl.game].started
  BY DEF ClaimOpportunity, Claimable
<1>2. s \in BuiltSessions /\ k \in Keys
  BY <1>1, ArriveShape, KeyIsKey
<1>3. d \in Conns /\ KeyOf(sess[d]) = k /\ phase[d] # "unused"
  BY <1>1, <1>2 DEF Promise, ManagerHoldsActive, Shape, TypeOK, OpportunitiesAreLeft
<1>4. sess[d] \in BuiltSessions /\ OwnsToken(sess[d]) /\ OwnsSeat(sess[d])
  BY <1>1, <1>3 DEF Shape, SessionsAreBuilt, OpportunitiesAreLeft, Owned, Fresh
<1>5. OwnsToken(s) /\ OwnsSeat(s)
  BY <1>1, LateClaimOwnsToken DEF Owned
<1>6. s.user = sess[d].user
  BY <1>1, <1>2, <1>3, <1>4, <1>5, KeyOfOwner, KeyHasOneUser
<1>7. s.game = sess[d].game
  <2>1. s.user \in DOMAIN seats[s.game] /\ s.user \in DOMAIN seats[sess[d].game]
    BY <1>4, <1>5, <1>6 DEF OwnsSeat
  <2>2. s.game \in GameNames /\ sess[d].game \in GameNames
    BY <1>2, <1>4 DEF BuiltSessions
  <2>3. SeatsApart
    BY DEF Owned
  <2> HIDE DEF s, d
  <2> QED  BY <2>1, <2>2, <2>3 DEF SeatsApart
<1>8. s.user = cl.user /\ s.game = cl.game
  BY DEF SessionOf
<1>9. phase[c] = "unused"
  BY <1>1 DEF Arrive
<1> QED  BY <1>1, <1>3, <1>6, <1>7, <1>8, <1>9

(* A claim under way in the next state was under way, for the same user and
   game, or begins for an opportunity of its user in its game. *)
LEMMA ClaimingStep ==
  ASSUME Shape, Promise, Owned, [Next]_vars, NEW c \in Conns, phase'[c] = "claiming"
  PROVE  LET d == claimOf'[c]
         IN /\ d \in Conns /\ phase[d] # "unused"
            /\ sess[d].user = sess'[c].user /\ sess[d].game = sess'[c].game
<1> DEFINE Goal == /\ claimOf'[c] \in Conns /\ phase[claimOf'[c]] # "unused"
                   /\ sess[claimOf'[c]].user = sess'[c].user
                   /\ sess[claimOf'[c]].game = sess'[c].game
<1>1. ASSUME phase[c] = "claiming", sess'[c] = sess[c], claimOf'[c] = claimOf[c]
      PROVE  Goal
  BY <1>1 DEF Shape, ClaimsAreOfLeft, OpportunitiesAreLeft, Owned
<1>2. ASSUME NEW e \in Conns, NEW s, NEW gm, TakeSeat(e, s, gm), claimOf' = claimOf
      PROVE  Goal
  <2>1. e # c /\ phase'[c] = phase[c] /\ sess'[c] = sess[c]
    BY <1>2 DEF TakeSeat, Shape, TypeOK
  <2> QED  BY <1>1, <1>2, <2>1
<1>3. ASSUME NEW e \in Conns, NEW cl \in claims, ClaimOpportunity(e, cl)
      PROVE  Goal
  <2> DEFINE d == manager[KeyOf(SessionOf(cl))]
  <2>1. /\ sess' = [sess EXCEPT ![e] = SessionOf(cl)]
        /\ claimOf' = [claimOf EXCEPT ![e] = d]
        /\ e # c => phase'[c] = phase[c]
    BY <1>3 DEF ClaimOpportunity, Shape, TypeOK
  <2>2. CASE e # c
    BY <1>1, <2>1, <2>2 DEF Shape, TypeOK
  <2>3. CASE e = c
    <3>1. d \in Conns /\ opp[d] = "active" /\ sess[d].user = cl.user /\ sess[d].game = cl.game
      BY <1>3, ClaimantIsOwner
    <3>2. phase[d] # "unused"
      BY <3>1 DEF Shape, OpportunitiesAreLeft
    <3> QED  BY <2>1, <2>3, <3>1, <3>2 DEF Shape, TypeOK, SessionOf
  <2> QED  BY <2>2, <2>3
<1>4. ASSUME NEW e \in Conns,
             \/ \E cl \in claims : \/ AwaitSetup(e, cl) \/ FindNoGame(e, cl)
                                   \/ RefuseReconnection(e, cl)
             \/ LoseLoadRace(e) \/ ClaimFails(e) \/ Disconnect(e) \/ DisconnectThrows(e)
      PROVE  Goal
  <2>1. claimOf' = claimOf /\ phase[c] = "claiming" /\ sess'[c] = sess[c]
    BY <1>4 DEF AwaitSetup, FindNoGame, RefuseReconnection, LoseLoadRace, ClaimFails,
                Disconnect, DisconnectThrows, Arrive, returnVars, Shape, TypeOK
  <2> QED  BY <1>1, <2>1
<1>5. ASSUME NEW e \in Conns, \/ \E cl \in claims : JoinBeforeStart(e, cl)
                              \/ LoadGame(e) \/ FinishClaim(e)
      PROVE  Goal
  BY <1>2, <1>5 DEF JoinBeforeStart, LoadGame, FinishClaim, returnVars
<1>6. ASSUME \/ HandoffSome \/ ForwardSome \/ (\E cl \in claims : RejectClaim(cl))
             \/ \E e \in Conns : CloseUnheard(e) \/ TimeOut(e)
             \/ UNCHANGED vars
      PROVE  Goal
  <2>1. UNCHANGED <<sess, phase, claimOf>>
    BY <1>6 DEF HandoffSome, Handoff, ForwardSome, Forward, RejectClaim, CloseUnheard,
                TimeOut, Expire, FinishTimeout, TimeoutThrows, vars, connVars, returnVars
  <2> QED  BY <1>1, <2>1
<1> HIDE DEF Goal
<1>7. Goal
  BY <1>3, <1>4, <1>5, <1>6 DEF Next, ArriveSome, DepartSome, Continue
<1> QED  BY <1>7 DEF Goal

-----------------------------------------------------------------------------
(* A paused game has a way out *)

(* c will end the wait for user u in game n. *)
EndsWait(c, u, n) ==
  /\ sess[c].user = u /\ sess[c].game = n
  /\ \/ opp[c] \in {"active", "expiring"}
     \/ phase[c] \in {"claiming", "failing", "refused"}

(* What becomes of a wait in a step: whoever is locked out of n afterwards
   is waited for by somebody. *)
LEMMA WayOutStep ==
  ASSUME Shape, Promise, Owned, PausedGameHasWayOut, [Next]_vars
  PROVE  PausedGameHasWayOut'
<1> DEFINE Waited(u, n) == \E c \in Conns : EndsWait(c, u, n)
<1>1. ASSUME serverUp, NEW n \in registry, NEW u \in game[n].lock
      PROVE  Waited(u, n)
  BY <1>1 DEF PausedGameHasWayOut, EndsWait
<1>2. ASSUME serverUp' => \A n \in registry' : \A u \in game'[n].lock : \E c \in Conns : EndsWait(c, u, n)'
      PROVE  PausedGameHasWayOut'
  BY <1>2 DEF PausedGameHasWayOut, EndsWait
<1> USE DEF EndsWait
(* nobody new is locked out, and who waited still does *)
<1>3. ASSUME UNCHANGED <<serverUp, registry, game, opp>>,
             NEW c \in Conns, phase[c] \notin {"claiming", "failing", "refused"}, opp[c] = "none",
             \A d \in Conns \ {c} : sess'[d] = sess[d] /\ phase'[d] = phase[d]
      PROVE  PausedGameHasWayOut'
  <2>1. \A u, n : \A d \in Conns : EndsWait(d, u, n) => d # c /\ EndsWait(d, u, n)'
    BY <1>3
  <2> QED  BY <1>1, <1>2, <1>3, <2>1
<1>4. ASSUME NEW c \in Conns, NEW cl \in claims,
             AwaitSetup(c, cl) \/ FindNoGame(c, cl) \/ RefuseReconnection(c, cl)
      PROVE  PausedGameHasWayOut'
  <2>1. Arrive(c, cl)
    BY <1>4 DEF AwaitSetup, FindNoGame, RefuseReconnection
  <2>2. UNCHANGED <<serverUp, registry, game, opp>>
    BY <1>4 DEF AwaitSetup, FindNoGame, RefuseReconnection, gameVars, returnVars
  <2>3. \A d \in Conns \ {c} : sess'[d] = sess[d] /\ phase'[d] = phase[d]
    BY <1>4 DEF AwaitSetup, FindNoGame, RefuseReconnection, Shape, TypeOK
  <2> QED  BY <1>3, <2>1, <2>2, <2>3, ArriveShape
(* taking the seat in gm, whose lock holds nobody but those in the game's *)
<1>5. ASSUME NEW c \in Conns, NEW s \in BuiltSessions, NEW gm \in Games, TakeSeat(c, s, gm),
             UNCHANGED <<serverUp, opp>>, registry' \subseteq registry \cup {s.game},
             gm.lock = {} \/ (s.game \in registry /\ gm = game[s.game]), opp[c] = "none",
             phase[c] \in {"claiming", "failing", "refused"} => sess[c].user = s.user /\ sess[c].game = s.game
      PROVE  PausedGameHasWayOut'
  <2>1. /\ game' = [game EXCEPT ![s.game] =
                      IF s.name \in gm.players
                      THEN [gm EXCEPT !.started = gm.started \/ AllConnected(gm, c, s),
                                      !.lock    = @ \ {s.user}]
                      ELSE gm]
        /\ phase'[c] = IF s.name \in gm.players THEN "joined" ELSE "refused"
    BY <1>5 DEF TakeSeat, Shape, TypeOK
  <2>2. /\ \A d \in Conns \ {c} : sess'[d] = sess[d] /\ phase'[d] = phase[d]
        /\ sess'[c].user = s.user /\ sess'[c].game = s.game /\ s.game \in GameNames
    BY <1>5, TakeSeatShape DEF Shape, BuiltSessions
  <2>3. /\ \A n \in GameNames \ {s.game} : game'[n] = game[n]
        /\ game'[s.game].lock = IF s.name \in gm.players THEN gm.lock \ {s.user} ELSE gm.lock
    BY <2>1, <2>2 DEF Shape, TypeOK, Games
  <2>4. ASSUME serverUp', NEW n \in registry', NEW u \in game'[n].lock
        PROVE  \E d \in Conns : EndsWait(d, u, n)'
    <3>1. n \in registry /\ u \in game[n].lock
      BY <1>5, <2>3, <2>4 DEF Shape, TypeOK
    <3>2. PICK d \in Conns : EndsWait(d, u, n)
      BY <1>1, <1>5, <2>4, <3>1
    <3>3. CASE d # c
      BY <1>5, <2>2, <3>2, <3>3
    <3>4. CASE d = c
      <4>1. s.user = u /\ s.game = n
        BY <1>5, <3>2, <3>4
      <4>2. s.name \notin gm.players
        BY <2>3, <2>4, <4>1
      <4> QED  BY <2>1, <2>2, <4>1, <4>2
    <3> QED  BY <3>3, <3>4
  <2> QED  BY <1>2, <2>4
<1>6. ASSUME NEW c \in Conns, NEW cl \in claims, JoinBeforeStart(c, cl)
      PROVE  PausedGameHasWayOut'
  <2>1. /\ Arrive(c, cl) /\ TakeSeat(c, SessionOf(cl), game[cl.game]) /\ cl.game \in registry
        /\ UNCHANGED <<serverUp, opp, registry>>
    BY <1>6 DEF JoinBeforeStart, returnVars
  <2>2. game[cl.game] \in Games
    BY <2>1, ArriveShape DEF Shape, TypeOK
  <2> QED  BY <1>5, <2>1, <2>2, ArriveShape
<1>7. ASSUME NEW c \in Conns, LoadGame(c)
      PROVE  PausedGameHasWayOut'
  <2> DEFINE gm == [players |-> Range(seats[sess[c].game]), started |-> FALSE, lock |-> {}]
  <2>1. TakeSeat(c, sess[c], gm) /\ UNCHANGED <<serverUp, opp>>
        /\ phase[c] = "loading" /\ registry' = registry \cup {sess[c].game}
    BY <1>7 DEF LoadGame, returnVars
  <2>2. sess[c] \in BuiltSessions /\ opp[c] = "none"
    BY <2>1 DEF Shape, SessionsAreBuilt, OpportunitiesAreLeft
  <2>3. gm \in Games
    BY <2>2, SeatingNames DEF Shape, TypeOK, Games, BuiltSessions
  <2>4. /\ gm.lock = {} /\ phase[c] \notin {"claiming", "failing", "refused"}
        /\ registry' \subseteq registry \cup {sess[c].game} /\ UNCHANGED <<serverUp, opp>>
    BY <2>1
  <2> HIDE DEF gm, EndsWait
  <2> QED  BY <1>5, <2>1, <2>2, <2>3, <2>4
<1>8. ASSUME NEW c \in Conns, FinishClaim(c)
      PROVE  PausedGameHasWayOut'
  <2>1. TakeSeat(c, Renamed(c), game[sess[c].game]) /\ phase[c] = "claiming"
        /\ UNCHANGED <<serverUp, opp, registry>>
    BY <1>8 DEF FinishClaim, returnVars
  <2>2. sess[c] \in BuiltSessions /\ sess[claimOf[c]] \in BuiltSessions /\ opp[c] = "none"
    BY <2>1 DEF Shape, SessionsAreBuilt, ClaimsAreOfLeft, OpportunitiesAreLeft
  <2>3. /\ Renamed(c) \in BuiltSessions
        /\ Renamed(c).user = sess[c].user /\ Renamed(c).game = sess[c].game
    BY <2>2 DEF Renamed, BuiltSessions
  <2>4. game[sess[c].game] \in Games
    BY <2>2 DEF Shape, TypeOK, BuiltSessions
  <2>5. CASE sess[c].game \in registry
    BY <1>5, <2>1, <2>2, <2>3, <2>4, <2>5
  (* the game has ended meanwhile: only an unregistered game changes *)
  <2>6. CASE sess[c].game \notin registry
    <3>1. \A n \in registry : game'[n] = game[n]
      BY <2>1, <2>3, <2>6 DEF TakeSeat, Shape, TypeOK
    <3>2. \A d \in Conns \ {c} : sess'[d] = sess[d] /\ phase'[d] = phase[d]
      BY <2>1, <2>3, <2>4, TakeSeatShape DEF Shape
    <3> QED  BY <1>1, <1>2, <2>1, <2>2, <2>6, <3>1, <3>2
  <2> QED  BY <2>5, <2>6
(* the claimed opportunity hands its wait on to the one who claims it *)
<1>9. ASSUME NEW c \in Conns, NEW cl \in claims, ClaimOpportunity(c, cl)
      PROVE  PausedGameHasWayOut'
  <2> DEFINE d == manager[KeyOf(SessionOf(cl))]
  <2>1. /\ d \in Conns \ {c} /\ opp[d] = "active"
        /\ sess[d].user = cl.user /\ sess[d].game = cl.game
    BY <1>9, ClaimantIsOwner
  <2>2. /\ opp' = [opp EXCEPT ![d] = "claimed"]
        /\ sess' = [sess EXCEPT ![c] = SessionOf(cl)]
        /\ \E p \in {"claiming", "failing"} : phase' = [phase EXCEPT ![c] = p]
        /\ UNCHANGED <<serverUp, registry, game>> /\ Arrive(c, cl)
    BY <1>9 DEF ClaimOpportunity, Claimed, gameVars
  <2> HIDE DEF d
  <2>3. opp[c] = "none" /\ phase[c] = "unused"
    BY <2>2, ArriveShape
  <2>4. EndsWait(c, cl.user, cl.game)'
    BY <2>2 DEF SessionOf, Shape, TypeOK
  <2>5. ASSUME NEW e \in Conns \ {c, d}, NEW u, NEW n, EndsWait(e, u, n)
        PROVE  EndsWait(e, u, n)'
    BY <2>2, <2>5 DEF Shape, TypeOK
  <2>6. \A u, n : ~EndsWait(c, u, n)
    BY <2>3
  <2>7. \A u, n : EndsWait(d, u, n) => u = cl.user /\ n = cl.game
    BY <2>1
  <2>8. ASSUME serverUp', NEW n \in registry', NEW u \in game'[n].lock
        PROVE  \E e \in Conns : EndsWait(e, u, n)'
    <3>1. PICK e \in Conns : EndsWait(e, u, n)
      BY <1>1, <2>2, <2>8
    <3> HIDE DEF EndsWait
    <3> QED  BY <2>4, <2>5, <2>6, <2>7, <3>1
  <2> QED  BY <1>2, <2>8
<1>10. ASSUME NEW c \in Conns, Disconnect(c)
       PROVE  PausedGameHasWayOut'
  <2>1. /\ game' = [game EXCEPT ![sess[c].game] = Paused(sess[c])]
        /\ opp' = [opp EXCEPT ![c] = "active"]
        /\ phase' = [phase EXCEPT ![c] = "closed"]
        /\ UNCHANGED <<sess, registry>> /\ serverUp
    BY <1>10 DEF Disconnect, MayDispatch
  <2>2. \A n \in registry : game'[n].lock \subseteq
          game[n].lock \cup (IF n = sess[c].game THEN {sess[c].user} ELSE {})
    BY <2>1 DEF Paused, Shape, TypeOK, Games
  <2>3. EndsWait(c, sess[c].user, sess[c].game)'
    BY <2>1 DEF Shape, TypeOK
  <2>4. ASSUME NEW d \in Conns, NEW u, NEW n, EndsWait(d, u, n)
        PROVE  EndsWait(d, u, n)'
    BY <2>1, <2>4 DEF Shape, TypeOK
  <2>5. ASSUME NEW n \in registry', NEW u \in game'[n].lock
        PROVE  \E d \in Conns : EndsWait(d, u, n)'
    <3>1. CASE u \in game[n].lock
      <4>1. PICK d \in Conns : EndsWait(d, u, n)
        BY <1>1, <2>1, <2>5, <3>1
      <4> QED  BY <2>4, <4>1
    <3>2. CASE u \notin game[n].lock
      BY <2>1, <2>2, <2>3, <2>5, <3>2
    <3> QED  BY <3>1, <3>2
  <2> QED  BY <1>2, <2>5
<1>11. ASSUME NEW c \in Conns, DisconnectThrows(c) \/ TimeoutThrows(c)
       PROVE  PausedGameHasWayOut'
  BY <1>11 DEF DisconnectThrows, TimeoutThrows, PausedGameHasWayOut
<1>12. ASSUME NEW c \in Conns, LoseLoadRace(c) \/ ClaimFails(c) \/ Expire(c)
       PROVE  PausedGameHasWayOut'
  <2>1. UNCHANGED <<serverUp, registry, game, sess>>
    BY <1>12 DEF LoseLoadRace, ClaimFails, Expire, gameVars, connVars
  <2>2. ASSUME NEW d \in Conns, NEW u, NEW n, EndsWait(d, u, n)
        PROVE  EndsWait(d, u, n)'
    BY <1>12, <2>2 DEF LoseLoadRace, ClaimFails, Expire, Shape, TypeOK, OpportunitiesAreLeft,
                       gameVars, connVars, returnVars
  <2> QED  BY <1>1, <1>2, <2>1, <2>2
<1>13. ASSUME NEW c \in Conns, FinishTimeout(c)
       PROVE  PausedGameHasWayOut'
  <2> DEFINE after == [Unpaused(sess[c]) EXCEPT !.players = @ \ {sess[c].name}]
  <2>1. /\ game' = [game EXCEPT ![sess[c].game] = after]
        /\ opp' = [opp EXCEPT ![c] = "expired"]
        /\ UNCHANGED <<serverUp, sess, phase>> /\ registry' \subseteq registry
        /\ sess[c].game \in registry
    BY <1>13 DEF FinishTimeout, connVars
  <2>2. after.lock = game[sess[c].game].lock \ {sess[c].user}
    BY <2>1 DEF Unpaused, Shape, TypeOK, Games
  <2> HIDE DEF after
  <2>3. ASSUME serverUp', NEW n \in registry', NEW u \in game'[n].lock
        PROVE  \E d \in Conns : EndsWait(d, u, n)'
    <3>1. u \in game[n].lock /\ ~(u = sess[c].user /\ n = sess[c].game)
      BY <2>1, <2>2, <2>3 DEF Shape, TypeOK
    <3>2. PICK d \in Conns : EndsWait(d, u, n)
      BY <1>1, <2>1, <2>3, <3>1
    <3> QED  BY <2>1, <3>1, <3>2
  <2> QED  BY <1>2, <2>3
<1>14. ASSUME \/ HandoffSome \/ ForwardSome \/ (\E cl \in claims : RejectClaim(cl))
              \/ \E c \in Conns : CloseUnheard(c)
              \/ UNCHANGED vars
       PROVE  PausedGameHasWayOut'
  <2>1. UNCHANGED <<serverUp, registry, game, sess, opp, phase>>
    BY <1>14 DEF HandoffSome, Handoff, ForwardSome, Forward, RejectClaim, CloseUnheard,
                 vars, connVars, gameVars, returnVars
  <2> QED  BY <2>1 DEF PausedGameHasWayOut
<1> QED  BY <1>4, <1>6, <1>7, <1>8, <1>9, <1>10, <1>11, <1>12, <1>13, <1>14
         DEF Next, ArriveSome, DepartSome, Continue, TimeOut

-----------------------------------------------------------------------------
(* Nobody's input is accepted while somebody is missing *)

(* A game whose setup is pending is untouched: nobody has got further in it
   than waiting for the setup. *)
PendingIsUntouched ==
  \A n \in pending :
    /\ n \notin registry
    /\ \A c \in Conns : phase[c] # "unused" /\ sess[c].game = n => phase[c] = "loading"

(* A handler waits for a setup that is there or was loaded by another, into a
   game that no timeout is about to end. *)
LoadingIsAwaited ==
  \A d \in Conns : phase[d] = "loading" =>
    /\ sess[d].game \in pending \cup registry
    /\ \A c \in Conns : opp[c] = "expiring" => sess[c].game # sess[d].game

PlayersAreSeated ==
  \A n \in GameNames :
    /\ n \in registry => DOMAIN seats[n] # {}
    /\ game[n].players \subseteq Range(seats[n])

Table == PendingIsUntouched /\ LoadingIsAwaited /\ PlayersAreSeated

(* What TakeSeat does to the game. *)
LEMMA TakeSeatGame ==
  ASSUME TypeOK, NEW c \in Conns, NEW s \in BuiltSessions, NEW gm \in Games, TakeSeat(c, s, gm)
  PROVE  /\ s.game \in GameNames
         /\ \A n \in GameNames \ {s.game} : game'[n] = game[n]
         /\ game'[s.game].players = gm.players
         /\ \/ /\ s.name \in gm.players /\ phase'[c] = "joined"
               /\ game'[s.game].started = (gm.started \/ AllConnected(gm, c, s))
               /\ game'[s.game].lock = gm.lock \ {s.user}
            \/ /\ s.name \notin gm.players /\ phase'[c] = "refused"
               /\ game'[s.game] = gm
         /\ sess'[c].name = s.name
<1>1. s.game \in GameNames
  BY DEF BuiltSessions
<1>2. game' = [game EXCEPT ![s.game] =
                 IF s.name \in gm.players
                 THEN [gm EXCEPT !.started = gm.started \/ AllConnected(gm, c, s),
                                 !.lock    = @ \ {s.user}]
                 ELSE gm]
  BY DEF TakeSeat
<1>3. phase'[c] = (IF s.name \in gm.players THEN "joined" ELSE "refused")
  BY DEF TakeSeat, TypeOK
<1>4. sess'[c].name = s.name
  BY DEF TakeSeat, TypeOK, BuiltSessions
<1>5. CASE s.name \in gm.players
  BY <1>1, <1>2, <1>3, <1>4, <1>5 DEF TypeOK, Games
<1>6. CASE s.name \notin gm.players
  BY <1>1, <1>2, <1>3, <1>4, <1>6 DEF TypeOK, Games
<1> QED  BY <1>5, <1>6

LEMMA TableStep ==
  ASSUME Shape, Issued, Table, [Next]_vars
  PROVE  Table'
<1> USE DEF Table
(* a step of c in a game whose setup is not pending, or no longer *)
<1>1. ASSUME NEW c \in Conns, \A d \in Conns \ {c} : sess'[d] = sess[d] /\ phase'[d] = phase[d],
             phase'[c] # "loading", sess'[c].game \notin pending',
             opp'[c] = "expiring" => FALSE,
             \A d \in Conns : opp'[d] = "expiring" => opp[d] = "expiring",
             pending' \subseteq pending, pending \cup registry \subseteq pending' \cup registry',
             pending' \cap registry' = {}
      PROVE  PendingIsUntouched' /\ LoadingIsAwaited'
  <2>1. PendingIsUntouched'
    BY <1>1 DEF PendingIsUntouched
  <2>2. LoadingIsAwaited'
    BY <1>1 DEF LoadingIsAwaited
  <2> QED  BY <2>1, <2>2
<1>2. ASSUME NEW c \in Conns, phase[c] \notin {"unused", "loading"}
      PROVE  sess[c].game \notin pending
  BY <1>2 DEF PendingIsUntouched
<1>3. pending \cap registry = {}
  BY DEF PendingIsUntouched
<1>4. ASSUME NEW n \in GameNames, NEW S \in SUBSET Users, NEW f \in [S -> Usernames], Handoff(n, f)
      PROVE  Table'
  <2>1. /\ DOMAIN seats[n] = {} /\ seats' = [seats EXCEPT ![n] = f] /\ pending' = pending \cup {n}
        /\ UNCHANGED <<sess, phase, opp, registry, game>>
    BY <1>4 DEF Handoff, connVars, gameVars, returnVars
  <2>2. n \notin registry /\ game[n].players = {}
    BY <2>1 DEF PlayersAreSeated, Range
  <2>3. \A c \in Conns : phase[c] # "unused" => sess[c].game # n
    BY <2>1 DEF Issued
  <2>4. PendingIsUntouched'
    BY <2>1, <2>2, <2>3 DEF PendingIsUntouched
  <2>5. LoadingIsAwaited'
    BY <2>1 DEF LoadingIsAwaited
  <2>6. PlayersAreSeated'
    BY <2>1, <2>2 DEF PlayersAreSeated, Shape, TypeOK
  <2> QED  BY <2>4, <2>5, <2>6
<1>5. ASSUME NEW c \in Conns, NEW cl \in claims, AwaitSetup(c, cl)
      PROVE  Table'
  <2>1. /\ Arrive(c, cl) /\ cl.game \in pending
        /\ sess' = [sess EXCEPT ![c] = SessionOf(cl)] /\ phase' = [phase EXCEPT ![c] = "loading"]
        /\ UNCHANGED <<pending, registry, game, opp>>
    BY <1>5 DEF AwaitSetup, storeVars, gameVars, returnVars
  <2>2. seats' = seats /\ SessionOf(cl).game = cl.game /\ opp[c] = "none"
    BY <2>1, ArriveShape
  <2>3. PendingIsUntouched'
    BY <2>1 DEF PendingIsUntouched, Shape, TypeOK
  (* the setup is still pending, so no opportunity was ever left in the game *)
  <2>4. \A d \in Conns : opp[d] = "expiring" => sess[d].game # cl.game
    BY <1>2, <2>1 DEF Shape, OpportunitiesAreLeft
  <2>5. LoadingIsAwaited'
    BY <2>1, <2>2, <2>4 DEF LoadingIsAwaited, Shape, TypeOK
  <2> QED  BY <2>1, <2>2, <2>3, <2>5 DEF PlayersAreSeated
<1>6. ASSUME NEW c \in Conns, NEW cl \in claims,
             FindNoGame(c, cl) \/ RefuseReconnection(c, cl)
      PROVE  Table'
  <2>1. /\ Arrive(c, cl) /\ cl.game \notin pending
        /\ sess' = [sess EXCEPT ![c] = SessionOf(cl)]
        /\ \E p \in {"closed", "refused"} : phase' = [phase EXCEPT ![c] = p]
        /\ UNCHANGED <<pending, registry, game, opp>>
    BY <1>3, <1>6 DEF FindNoGame, RefuseReconnection, storeVars, gameVars, returnVars
  <2>2. seats' = seats /\ SessionOf(cl).game = cl.game /\ opp[c] = "none"
    BY <2>1, ArriveShape
  <2>3. PendingIsUntouched' /\ LoadingIsAwaited'
    BY <1>1, <1>3, <2>1, <2>2 DEF Shape, TypeOK
  <2> QED  BY <2>1, <2>2, <2>3 DEF PlayersAreSeated
<1>7. ASSUME NEW c \in Conns, NEW cl \in claims, JoinBeforeStart(c, cl)
      PROVE  Table'
  <2>1. /\ Arrive(c, cl) /\ TakeSeat(c, SessionOf(cl), game[cl.game]) /\ cl.game \in registry
        /\ UNCHANGED <<pending, registry, opp>>
    BY <1>7 DEF JoinBeforeStart, storeVars, returnVars
  <2>2. /\ game[cl.game] \in Games /\ SessionOf(cl) \in BuiltSessions /\ SessionOf(cl).game = cl.game
        /\ seats' = seats /\ opp[c] = "none"
    BY <2>1, ArriveShape DEF Shape, TypeOK
  <2>3. /\ \A d \in Conns \ {c} : sess'[d] = sess[d] /\ phase'[d] = phase[d]
        /\ phase'[c] \in {"joined", "refused"} /\ sess'[c].game = cl.game
    BY <2>1, <2>2, TakeSeatShape DEF Shape
  <2>4. PendingIsUntouched' /\ LoadingIsAwaited'
    BY <1>1, <1>3, <2>1, <2>2, <2>3
  <2>5. \A n \in GameNames : game'[n].players = game[n].players
    BY <2>1, <2>2, TakeSeatGame DEF Shape
  <2> QED  BY <2>1, <2>2, <2>4, <2>5 DEF PlayersAreSeated
<1>8. ASSUME NEW c \in Conns, NEW cl \in claims, ClaimOpportunity(c, cl)
      PROVE  Table'
  <2>1. /\ Arrive(c, cl) /\ cl.game \in registry
        /\ sess' = [sess EXCEPT ![c] = SessionOf(cl)]
        /\ \E p \in {"claiming", "failing"} : phase' = [phase EXCEPT ![c] = p]
        /\ opp' = [opp EXCEPT ![manager[KeyOf(SessionOf(cl))]] = "claimed"]
        /\ UNCHANGED <<pending, registry, game>>
    BY <1>8 DEF ClaimOpportunity, Claimed, gameVars
  <2>2. seats' = seats /\ SessionOf(cl).game = cl.game /\ opp[c] = "none"
    BY <2>1, ArriveShape
  <2>3. /\ \A d \in Conns \ {c} : sess'[d] = sess[d] /\ phase'[d] = phase[d]
        /\ phase'[c] # "loading" /\ sess'[c].game \notin pending'
    BY <1>3, <2>1, <2>2 DEF Shape, TypeOK
  <2>4. \A d \in Conns : opp'[d] = "expiring" => opp[d] = "expiring"
    BY <2>1 DEF Shape, TypeOK
  <2>5. PendingIsUntouched' /\ LoadingIsAwaited'
    BY <1>1, <1>3, <2>1, <2>2, <2>3, <2>4
  <2> QED  BY <2>1, <2>2, <2>5 DEF PlayersAreSeated
<1>9. ASSUME NEW c \in Conns, LoadGame(c)
      PROVE  Table'
  <2> DEFINE n  == sess[c].game
             gm == [players |-> Range(seats[n]), started |-> FALSE, lock |-> {}]
  <2>1. /\ TakeSeat(c, sess[c], gm) /\ phase[c] = "loading"
        /\ registry' = registry \cup {n} /\ pending' = pending \ {n}
        /\ UNCHANGED <<opp, seats>>
    BY <1>9 DEF LoadGame, returnVars, lobbyVars
  <2>2. /\ sess[c] \in BuiltSessions /\ sess[c].user \in DOMAIN seats[n]
        /\ opp[c] = "none"
    BY <2>1 DEF Shape, SessionsAreBuilt, OpportunitiesAreLeft, Issued
  <2>3. gm \in Games /\ gm.players = Range(seats[n]) /\ DOMAIN seats[n] # {}
    BY <2>2, SeatingNames DEF Shape, TypeOK, Games, BuiltSessions
  <2> HIDE DEF gm
  <2>4. /\ \A d \in Conns \ {c} : sess'[d] = sess[d] /\ phase'[d] = phase[d]
        /\ phase'[c] \in {"joined", "refused"} /\ sess'[c].game = n
    BY <2>1, <2>2, <2>3, TakeSeatShape DEF Shape
  <2>5. PendingIsUntouched' /\ LoadingIsAwaited'
    BY <1>1, <1>3, <2>1, <2>2, <2>4
  <2>6. n \in GameNames /\ game'[n].players = Range(seats[n])
        /\ \A m \in GameNames \ {n} : game'[m] = game[m]
    BY <2>1, <2>2, <2>3, TakeSeatGame DEF Shape
  <2>7. PlayersAreSeated'
    BY <2>1, <2>3, <2>6 DEF PlayersAreSeated
  <2> QED  BY <2>5, <2>7
<1>10. ASSUME NEW c \in Conns, FinishClaim(c)
       PROVE  Table'
  <2>1. TakeSeat(c, Renamed(c), game[sess[c].game]) /\ phase[c] = "claiming"
        /\ UNCHANGED <<opp, registry, pending, seats>>
    BY <1>10 DEF FinishClaim, storeVars, lobbyVars, returnVars
  <2>2. sess[c] \in BuiltSessions /\ sess[claimOf[c]] \in BuiltSessions /\ opp[c] = "none"
    BY <2>1 DEF Shape, SessionsAreBuilt, ClaimsAreOfLeft, OpportunitiesAreLeft
  <2>3. Renamed(c) \in BuiltSessions /\ Renamed(c).game = sess[c].game
    BY <2>2 DEF Renamed, BuiltSessions
  <2>4. game[sess[c].game] \in Games
    BY <2>2 DEF Shape, TypeOK, BuiltSessions
  <2>5. /\ \A d \in Conns \ {c} : sess'[d] = sess[d] /\ phase'[d] = phase[d]
        /\ phase'[c] \in {"joined", "refused"} /\ sess'[c].game = sess[c].game
    BY <2>1, <2>3, <2>4, TakeSeatShape DEF Shape
  <2>6. PendingIsUntouched' /\ LoadingIsAwaited'
    BY <1>1, <1>2, <1>3, <2>1, <2>2, <2>5
  <2>7. \A n \in GameNames : game'[n].players = game[n].players
    BY <2>1, <2>3, <2>4, TakeSeatGame DEF Shape
  <2> QED  BY <2>1, <2>6, <2>7 DEF PlayersAreSeated
<1>11. ASSUME NEW c \in Conns,
              LoseLoadRace(c) \/ ClaimFails(c) \/ Disconnect(c) \/ DisconnectThrows(c)
       PROVE  Table'
  <2>1. /\ \E p \in {"closed", "refused"} : phase' = [phase EXCEPT ![c] = p]
        /\ UNCHANGED <<sess, pending, registry, seats>>
        /\ \A d \in Conns : opp'[d] = "expiring" => opp[d] = "expiring"
        /\ \A n \in GameNames : game'[n].players = game[n].players
    BY <1>11 DEF LoseLoadRace, ClaimFails, Disconnect, DisconnectThrows, Paused, storeVars,
                 lobbyVars, gameVars, returnVars, Shape, TypeOK, Games
  <2>2. sess[c].game \notin pending /\ opp[c] = "none"
    BY <1>2, <1>3, <1>11 DEF LoseLoadRace, ClaimFails, Disconnect, DisconnectThrows, Listening,
                             Shape, OpportunitiesAreLeft
  <2>3. PendingIsUntouched' /\ LoadingIsAwaited'
    BY <1>1, <1>3, <2>1, <2>2 DEF Shape, TypeOK
  <2> QED  BY <2>1, <2>3 DEF PlayersAreSeated
<1>12. ASSUME NEW c \in Conns, Expire(c)
       PROVE  Table'
  <2>1. /\ opp' = [opp EXCEPT ![c] = "expiring"]
        /\ \A d \in Conns : phase[d] = "loading" => sess[d].game # sess[c].game
        /\ UNCHANGED <<sess, phase, pending, registry, seats, game>>
    BY <1>12 DEF Expire, lobbyVars, connVars, gameVars
  <2>2. LoadingIsAwaited'
    BY <2>1 DEF LoadingIsAwaited, Shape, TypeOK
  <2> QED  BY <2>1, <2>2 DEF PendingIsUntouched, PlayersAreSeated
<1>13. ASSUME NEW c \in Conns, FinishTimeout(c) \/ TimeoutThrows(c)
       PROVE  Table'
  <2>1. /\ opp[c] = "expiring" /\ opp' = [opp EXCEPT ![c] = "expired"]
        /\ UNCHANGED <<sess, phase, pending, seats>>
        /\ registry' \subseteq registry /\ registry \subseteq registry' \cup {sess[c].game}
    BY <1>13 DEF FinishTimeout, TimeoutThrows, storeVars, lobbyVars, connVars
  <2>2. \A n \in GameNames : game'[n].players \subseteq game[n].players
    <3>1. game[sess[c].game] \in Games
      BY <2>1 DEF Shape, OpportunitiesAreLeft, SessionsAreBuilt, BuiltSessions, TypeOK
    <3>2. Unpaused(sess[c]) \in Games /\ Unpaused(sess[c]).players = game[sess[c].game].players
      BY <3>1 DEF Unpaused, Games
    <3>3. PICK after \in Games : /\ game' = [game EXCEPT ![sess[c].game] = after]
                                 /\ after.players \subseteq Unpaused(sess[c]).players
      BY <1>13, <3>2 DEF FinishTimeout, TimeoutThrows, Games
    <3> QED  BY <3>1, <3>2, <3>3 DEF Shape, TypeOK
  <2>3. LoadingIsAwaited'
    BY <2>1 DEF LoadingIsAwaited, Shape, TypeOK
  <2>4. PendingIsUntouched' /\ PlayersAreSeated'
    BY <2>1, <2>2 DEF PendingIsUntouched, PlayersAreSeated
  <2> QED  BY <2>3, <2>4
<1>14. ASSUME \/ ForwardSome \/ (\E cl \in claims : RejectClaim(cl))
              \/ \E c \in Conns : CloseUnheard(c)
              \/ UNCHANGED vars
       PROVE  Table'
  <2>1. UNCHANGED <<pending, registry, game, sess, opp, phase, seats>>
    BY <1>14 DEF ForwardSome, Forward, RejectClaim, CloseUnheard, vars, storeVars, lobbyVars,
                 connVars, gameVars, returnVars
  <2> QED  BY <2>1 DEF PendingIsUntouched, LoadingIsAwaited, PlayersAreSeated
<1> HIDE DEF Table
<1> QED  BY <1>4, <1>5, <1>6, <1>7, <1>8, <1>9, <1>10, <1>11, <1>12, <1>13, <1>14
         DEF Next, HandoffSome, ArriveSome, DepartSome, Continue, TimeOut
(* A registered session without a seat bears no player's name; and whoever of
   a started game is missing is locked out of it. *)
RefusedHasNoSeat ==
  serverUp => \A c \in registered :
    /\ phase[c] \in {"joined", "refused"}
    /\ phase[c] = "refused" => sess[c].name \notin game[sess[c].game].players

MissingIsLocked ==
  serverUp => \A n \in registry : game[n].started =>
    \A u \in DOMAIN seats[n] :
      seats[n][u] \in game[n].players => HasSession(u, n) \/ u \in game[n].lock

Seated == RefusedHasNoSeat /\ MissingIsLocked

(* Taking a seat keeps it so: a game starts only when all its players have a
   session, and each of them is in their seat. *)
LEMMA SeatTaken ==
  ASSUME Shape, Owned, Table, Seated, serverUp,
         NEW c \in Conns, NEW s \in BuiltSessions, NEW gm \in Games, TakeSeat(c, s, gm),
         phase[c] \notin {"joined", "refused"}, OwnsSeat(s), seats' = seats,
         gm.players \subseteq Range(seats[s.game]),
         \/ gm = game[s.game] /\ registry' = registry
         \/ /\ ~gm.started /\ registry' = registry \cup {s.game}
            /\ \A d \in registered : sess[d].game # s.game
  PROVE  Seated'
<1>1. /\ registered' = registered \cup {c} /\ s.game \in GameNames
      /\ sess'[c].user = s.user /\ sess'[c].game = s.game /\ sess'[c].name = s.name
      /\ \A d \in Conns \ {c} : sess'[d] = sess[d] /\ phase'[d] = phase[d]
  BY TakeSeatShape, TakeSeatGame DEF Shape
<1>2. /\ \A n \in GameNames \ {s.game} : game'[n] = game[n]
      /\ game'[s.game].players = gm.players
      /\ \/ /\ s.name \in gm.players /\ phase'[c] = "joined"
            /\ game'[s.game].started = (gm.started \/ AllConnected(gm, c, s))
            /\ game'[s.game].lock = gm.lock \ {s.user}
         \/ s.name \notin gm.players /\ phase'[c] = "refused" /\ game'[s.game] = gm
  BY TakeSeatGame DEF Shape
<1>3. /\ registered \subseteq Conns \ {c}
      /\ \A d \in registered : phase[d] # "unused" /\ sess[d].game \in GameNames
  <2>1. \A d \in registered : phase[d] \in {"joined", "refused"}
    BY DEF Seated, RefusedHasNoSeat
  <2> QED  BY <2>1 DEF Shape, TypeOK, SessionsAreBuilt, BuiltSessions
<1>4. RefusedHasNoSeat'
  BY <1>1, <1>2, <1>3 DEF Seated, RefusedHasNoSeat
<1>5. ASSUME NEW u, NEW n, HasSession(u, n)
      PROVE  HasSession(u, n)'
  BY <1>1, <1>3, <1>5 DEF HasSession, SitsIn
<1>6. ASSUME NEW n \in registry', n # s.game, game'[n].started, NEW u \in DOMAIN seats[n],
             seats[n][u] \in game'[n].players
      PROVE  HasSession(u, n)' \/ u \in game'[n].lock
  <2>1. n \in registry /\ game'[n] = game[n]
    BY <1>2, <1>6 DEF Shape, TypeOK
  <2>2. HasSession(u, n) \/ u \in game[n].lock
    BY <1>6, <2>1 DEF Seated, MissingIsLocked
  <2> QED  BY <1>5, <2>1, <2>2
<1>7. ASSUME s.game \in registry', game'[s.game].started, NEW u \in DOMAIN seats[s.game],
             seats[s.game][u] \in gm.players
      PROVE  HasSession(u, s.game)' \/ u \in game'[s.game].lock
  (* the game had started before: it is the one that was there *)
  <2>1. ASSUME gm.started PROVE HasSession(u, s.game) \/ u \in gm.lock
    BY <1>7, <2>1 DEF Seated, MissingIsLocked
  (* c sits in its user's seat *)
  <2>2. ASSUME s.name \in gm.players PROVE HasSession(s.user, s.game)'
    <3>1. PICK v \in DOMAIN seats[s.game] : seats[s.game][v] = s.name
      BY <2>2 DEF Range
    <3>2. seats[s.game][s.user] = s.name
      BY <1>1, <3>1 DEF OwnsSeat
    <3> QED  BY <1>1, <1>2, <2>2, <3>2 DEF HasSession, SitsIn
  <2>3. CASE s.name \notin gm.players
    BY <1>2, <1>5, <1>7, <2>1, <2>3
  <2>4. CASE s.name \in gm.players /\ gm.started
    BY <1>2, <1>5, <2>1, <2>2, <2>4
  (* the game starts: everybody's name is borne by somebody, by its owner *)
  <2>5. CASE s.name \in gm.players /\ ~gm.started
    <3>1. AllConnected(gm, c, s)
      BY <1>2, <1>7, <2>5 DEF Games
    <3>2. CASE seats[s.game][u] = s.name
      <4>1. u = s.user
        BY <1>1, <3>2 DEF OwnsSeat
      <4> QED  BY <2>2, <2>5, <4>1
    <3>3. CASE seats[s.game][u] # s.name
      <4>1. PICK d \in registered : sess[d].name = seats[s.game][u]
        BY <1>7, <3>1, <3>3 DEF AllConnected
      <4>2. OwnsSeat(sess[d])
        BY <1>3, <4>1 DEF Owned
      <4>3. sess[d].game = s.game /\ sess[d].user = u
        BY <1>1, <4>1, <4>2 DEF OwnsSeat
      <4>4. gm = game[s.game]
        BY <4>3
      <4>5. phase[d] = "joined"
        BY <1>7, <4>1, <4>3, <4>4 DEF Seated, RefusedHasNoSeat
      <4>6. HasSession(u, s.game)
        BY <4>1, <4>3, <4>5 DEF HasSession, SitsIn
      <4> QED  BY <1>5, <4>6
    <3> QED  BY <3>2, <3>3
  <2> QED  BY <2>3, <2>4, <2>5
<1>8. MissingIsLocked'
  BY <1>2, <1>6, <1>7 DEF MissingIsLocked
<1> QED  BY <1>4, <1>8 DEF Seated

LEMMA SeatedStep ==
  ASSUME Shape, Owned, Table, Seated, [Next]_vars
  PROVE  Seated'
<1> USE DEF Seated
(* nothing changes but for a connection that is not registered *)
<1>1. ASSUME NEW c \in Conns, c \notin registered,
             \A d \in Conns \ {c} : sess'[d] = sess[d] /\ phase'[d] = phase[d],
             UNCHANGED <<serverUp, registered, registry, game, seats>>
      PROVE  Seated'
  <2>1. registered \subseteq Conns \ {c}
    BY <1>1 DEF Shape, TypeOK
  <2> QED  BY <1>1, <2>1 DEF RefusedHasNoSeat, MissingIsLocked, HasSession, SitsIn
<1>2. ASSUME serverUp, NEW c \in Conns, phase[c] \notin {"joined", "refused"}
      PROVE  c \notin registered
  BY <1>2 DEF RefusedHasNoSeat
<1>3. ASSUME NEW c \in Conns, NEW cl \in claims, Arrive(c, cl)
      PROVE  serverUp /\ phase[c] = "unused" /\ c \notin registered /\ seats' = seats
  BY <1>2, <1>3 DEF Arrive, MayDispatch
<1>4. ASSUME NEW n \in GameNames, NEW S \in SUBSET Users, NEW f \in [S -> Usernames], Handoff(n, f)
      PROVE  Seated'
  <2>1. /\ DOMAIN seats[n] = {} /\ seats' = [seats EXCEPT ![n] = f]
        /\ UNCHANGED <<serverUp, sess, phase, registered, registry, game>>
    BY <1>4 DEF Handoff, connVars, gameVars
  <2>2. n \notin registry /\ registry \subseteq GameNames
    BY <2>1 DEF Table, PlayersAreSeated, Shape, TypeOK
  <2>3. \A m \in registry : seats'[m] = seats[m]
    BY <2>1, <2>2 DEF Shape, TypeOK
  <2> QED  BY <2>1, <2>3 DEF RefusedHasNoSeat, MissingIsLocked, HasSession, SitsIn
<1>5. ASSUME NEW c \in Conns, NEW cl \in claims,
             \/ AwaitSetup(c, cl) \/ FindNoGame(c, cl) \/ RefuseReconnection(c, cl)
             \/ ClaimOpportunity(c, cl)
      PROVE  Seated'
  <2>1. /\ Arrive(c, cl) /\ sess' = [sess EXCEPT ![c] = SessionOf(cl)]
        /\ UNCHANGED <<serverUp, registered, registry, game>>
    BY <1>5 DEF AwaitSetup, FindNoGame, RefuseReconnection, ClaimOpportunity, gameVars
  <2>2. \A d \in Conns \ {c} : sess'[d] = sess[d] /\ phase'[d] = phase[d]
    BY <1>5, <2>1 DEF AwaitSetup, FindNoGame, RefuseReconnection, ClaimOpportunity, Shape, TypeOK
  <2> QED  BY <1>1, <1>3, <2>1, <2>2
<1>6. ASSUME NEW c \in Conns, NEW cl \in claims, JoinBeforeStart(c, cl)
      PROVE  Seated'
  <2>1. /\ Arrive(c, cl) /\ TakeSeat(c, SessionOf(cl), game[cl.game]) /\ registry' = registry
    BY <1>6 DEF JoinBeforeStart
  <2>2. /\ game[cl.game] \in Games /\ SessionOf(cl) \in BuiltSessions /\ SessionOf(cl).game = cl.game
        /\ cl.game \in GameNames
    BY <2>1, ArriveShape DEF Shape, TypeOK
  <2>3. OwnsSeat(SessionOf(cl)) /\ game[cl.game].players \subseteq Range(seats[cl.game])
    BY <2>2 DEF Owned, Table, PlayersAreSeated
  <2> QED  BY <1>3, <2>1, <2>2, <2>3, SeatTaken
<1>7. ASSUME NEW c \in Conns, LoadGame(c)
      PROVE  Seated'
  <2> DEFINE n  == sess[c].game
             gm == [players |-> Range(seats[n]), started |-> FALSE, lock |-> {}]
  <2>1. /\ TakeSeat(c, sess[c], gm) /\ phase[c] = "loading" /\ n \notin registry /\ serverUp
        /\ registry' = registry \cup {n} /\ seats' = seats
    BY <1>7 DEF LoadGame, lobbyVars
  <2>2. sess[c] \in BuiltSessions /\ OwnsSeat(sess[c])
    BY <2>1 DEF Shape, SessionsAreBuilt, Owned
  <2>3. gm \in Games /\ gm.players = Range(seats[n]) /\ ~gm.started
    BY <2>2, SeatingNames DEF Shape, TypeOK, Games, BuiltSessions
  (* the game is loaded from its setup, so nobody is in it yet *)
  <2>4. \A d \in registered : sess[d].game # n
    <3>1. n \in pending
      BY <2>1 DEF Table, LoadingIsAwaited
    <3>2. \A d \in registered : phase[d] \in {"joined", "refused"} /\ d \in Conns
      BY <2>1 DEF RefusedHasNoSeat, Shape, TypeOK
    <3> QED  BY <3>1, <3>2 DEF Table, PendingIsUntouched
  <2> HIDE DEF gm
  <2> QED  BY <2>1, <2>2, <2>3, <2>4, SeatTaken
<1>8. ASSUME NEW c \in Conns, FinishClaim(c)
      PROVE  Seated'
  <2>1. /\ TakeSeat(c, Renamed(c), game[sess[c].game]) /\ phase[c] = "claiming" /\ serverUp
        /\ UNCHANGED <<registry, seats>>
    BY <1>8 DEF FinishClaim, lobbyVars
  <2>2. /\ sess[c] \in BuiltSessions /\ OwnsSeat(sess[c])
        /\ sess[claimOf[c]] \in BuiltSessions /\ OwnsSeat(sess[claimOf[c]])
        /\ sess[claimOf[c]].user = sess[c].user /\ sess[claimOf[c]].game = sess[c].game
    BY <2>1 DEF Shape, SessionsAreBuilt, ClaimsAreOfLeft, OpportunitiesAreLeft, Owned
  <2>3. /\ Renamed(c) \in BuiltSessions /\ OwnsSeat(Renamed(c))
        /\ Renamed(c).game = sess[c].game
    BY <2>2 DEF Renamed, BuiltSessions, OwnsSeat
  <2>4. /\ game[sess[c].game] \in Games
        /\ game[sess[c].game].players \subseteq Range(seats[sess[c].game])
    BY <2>2 DEF Shape, TypeOK, BuiltSessions, Table, PlayersAreSeated
  <2> QED  BY <2>1, <2>3, <2>4, SeatTaken
<1>9. ASSUME NEW c \in Conns, LoseLoadRace(c) \/ ClaimFails(c)
      PROVE  Seated'
  <2>1. /\ UNCHANGED <<serverUp, registered, registry, game, seats, sess>> /\ serverUp
        /\ phase[c] \notin {"joined", "refused"}
        /\ \A d \in Conns \ {c} : phase'[d] = phase[d]
    BY <1>9 DEF LoseLoadRace, ClaimFails, gameVars, lobbyVars, Shape, TypeOK
  <2> QED  BY <1>1, <1>2, <2>1
(* whoever leaves their seat is locked out of the game *)
<1>10. ASSUME NEW c \in Conns, Disconnect(c)
       PROVE  Seated'
  <2>1. /\ game' = [game EXCEPT ![sess[c].game] = Paused(sess[c])]
        /\ phase' = [phase EXCEPT ![c] = "closed"] /\ registered' = registered \ {c}
        /\ UNCHANGED <<sess, registry, seats>> /\ serverUp
    BY <1>10 DEF Disconnect, MayDispatch, lobbyVars
  <2>2. \A n \in GameNames : /\ game'[n].players = game[n].players
                             /\ game'[n].started = game[n].started
                             /\ game[n].lock \subseteq game'[n].lock
                             /\ n = sess[c].game => sess[c].user \in game'[n].lock
    BY <2>1 DEF Paused, Shape, TypeOK, Games
  <2>3. ASSUME NEW u, NEW n, HasSession(u, n)
        PROVE  HasSession(u, n)' \/ (u = sess[c].user /\ n = sess[c].game)
    BY <2>1, <2>3 DEF HasSession, SitsIn, Shape, TypeOK
  <2>4. RefusedHasNoSeat'
    <3>1. \A d \in registered' : d \in registered /\ phase'[d] = phase[d] /\ sess[d].game \in GameNames
      BY <2>1 DEF RefusedHasNoSeat, Shape, TypeOK, SessionsAreBuilt, BuiltSessions
    <3> QED  BY <2>1, <2>2, <3>1 DEF RefusedHasNoSeat
  <2>5. MissingIsLocked'
    <3>1. registry \subseteq GameNames
      BY DEF Shape, TypeOK
    <3> QED  BY <2>1, <2>2, <2>3, <3>1 DEF MissingIsLocked
  <2> QED  BY <2>4, <2>5
(* the lock is released for a player who leaves the roster with it *)
<1>11. ASSUME NEW c \in Conns, FinishTimeout(c)
       PROVE  Seated'
  <2> DEFINE n     == sess[c].game
             after == [Unpaused(sess[c]) EXCEPT !.players = @ \ {sess[c].name}]
  <2>1. /\ game' = [game EXCEPT ![n] = after] /\ opp[c] = "expiring"
        /\ n \in registry /\ sess[c].name \in game[n].players
        /\ UNCHANGED <<sess, phase, registered, seats>> /\ serverUp
        /\ registry' \subseteq registry
    BY <1>11 DEF FinishTimeout, connVars, lobbyVars
  <2>2. OwnsSeat(sess[c]) /\ n \in GameNames /\ registry \subseteq GameNames
    BY <2>1 DEF Shape, OpportunitiesAreLeft, Owned, TypeOK
  <2>3. /\ after.players = game[n].players \ {sess[c].name}
        /\ after.lock = game[n].lock \ {sess[c].user} /\ after.started = game[n].started
    BY <2>1, <2>2 DEF Unpaused, Shape, TypeOK, Games
  <2> HIDE DEF after
  <2>4. /\ \A m \in GameNames : game'[m].players \subseteq game[m].players
        /\ \A m \in GameNames \ {n} : game'[m] = game[m]
        /\ game'[n] = after
    BY <2>1, <2>2, <2>3 DEF Shape, TypeOK
  <2>5. RefusedHasNoSeat'
    <3>1. \A d \in registered : sess[d].game \in GameNames
      BY <2>1 DEF RefusedHasNoSeat, Shape, TypeOK, SessionsAreBuilt, BuiltSessions
    <3> QED  BY <2>1, <2>4, <3>1 DEF RefusedHasNoSeat
  <2>6. seats[n][sess[c].user] = sess[c].name
    <3>1. PICK v \in DOMAIN seats[n] : seats[n][v] = sess[c].name
      BY <2>1, <2>2 DEF Table, PlayersAreSeated, Range
    <3> QED  BY <2>2, <3>1 DEF OwnsSeat
  <2>7. ASSUME NEW m \in registry', game'[m].started, NEW u \in DOMAIN seats[m],
               seats[m][u] \in game'[m].players
        PROVE  HasSession(u, m)' \/ u \in game'[m].lock
    <3>1. HasSession(u, m) \/ u \in game[m].lock
      BY <2>1, <2>2, <2>3, <2>4, <2>7 DEF MissingIsLocked
    <3>2. u \in game[m].lock => u \in game'[m].lock
      <4>1. CASE m # n
        BY <2>1, <2>2, <2>4, <4>1
      <4>2. CASE m = n
        <5>1. u # sess[c].user
          BY <2>3, <2>4, <2>6, <2>7, <4>2
        <5> QED  BY <2>3, <2>4, <4>2, <5>1
      <4> QED  BY <4>1, <4>2
    <3>3. HasSession(u, m) => HasSession(u, m)'
      BY <2>1 DEF HasSession, SitsIn
    <3> QED  BY <3>1, <3>2, <3>3
  <2>8. MissingIsLocked'
    BY <2>1, <2>7 DEF MissingIsLocked
  <2> QED  BY <2>5, <2>8
<1>12. ASSUME NEW c \in Conns, DisconnectThrows(c) \/ TimeoutThrows(c)
       PROVE  Seated'
  BY <1>12 DEF DisconnectThrows, TimeoutThrows, RefusedHasNoSeat, MissingIsLocked
<1>13. ASSUME \/ ForwardSome \/ (\E cl \in claims : RejectClaim(cl))
              \/ \E c \in Conns : CloseUnheard(c) \/ Expire(c)
              \/ UNCHANGED vars
       PROVE  Seated'
  <2>1. UNCHANGED <<serverUp, registered, registry, game, sess, phase, seats>>
    BY <1>13 DEF ForwardSome, Forward, RejectClaim, CloseUnheard, Expire, vars, lobbyVars,
                 connVars, gameVars
  <2> QED  BY <2>1 DEF RefusedHasNoSeat, MissingIsLocked, HasSession, SitsIn
<1> HIDE DEF Seated
<1> QED  BY <1>4, <1>5, <1>6, <1>7, <1>8, <1>9, <1>10, <1>11, <1>12, <1>13
         DEF Next, HandoffSome, ArriveSome, DepartSome, Continue, TimeOut

-----------------------------------------------------------------------------
(* Who is who stays so *)

(* Where the token of a session of the next state is from: issued to it, or
   brought along and of no use yet, or owned before. *)
LEMMA TokenStep ==
  ASSUME Shape, Owned, [Next]_vars, NEW c \in Conns, phase'[c] # "unused"
  PROVE  \/ sess'[c].token = c
         \/ Fresh(c)'
         \/ /\ phase[c] = "unused"
            /\ \E cl \in claims : /\ sess'[c].user = cl.user /\ sess'[c].token = cl.token
                                  /\ OwnsToken(SessionOf(cl))
         \/ /\ phase[c] # "unused" /\ OwnsToken(sess[c])
            /\ sess'[c].user = sess[c].user /\ sess'[c].token = sess[c].token
<1> DEFINE Goal ==
         \/ sess'[c].token = c
         \/ Fresh(c)'
         \/ /\ phase[c] = "unused"
            /\ \E cl \in claims : /\ sess'[c].user = cl.user /\ sess'[c].token = cl.token
                                  /\ OwnsToken(SessionOf(cl))
         \/ /\ phase[c] # "unused" /\ OwnsToken(sess[c])
            /\ sess'[c].user = sess[c].user /\ sess'[c].token = sess[c].token
(* it was there, and stays as fresh as it was *)
<1>1. ASSUME phase[c] # "unused", sess'[c] = sess[c],
             Fresh(c) /\ ~OwnsToken(sess[c]) => Fresh(c)'
      PROVE  Goal
  BY <1>1 DEF Owned
<1>2. ASSUME phase[c] # "unused", sess'[c] = sess[c], phase'[c] = phase[c], opp'[c] = opp[c],
             sess[c].game \in GameNames => seats'[sess[c].game] = seats[sess[c].game]
      PROVE  Goal
  <2>1. sess[c].game \in GameNames
    BY <1>2 DEF Shape, SessionsAreBuilt, BuiltSessions
  <2> QED  BY <1>1, <1>2, <2>1 DEF Fresh, InTheirName
(* it takes a seat: with a token of its own, unless it is not on the roster *)
<1>3. ASSUME NEW d \in Conns, NEW s \in BuiltSessions, NEW gm, TakeSeat(d, s, gm),
             UNCHANGED <<seats, opp>>
      PROVE  /\ d = c => \/ s.user \notin AuthUsers /\ s.name \in gm.players /\ sess'[c].token = c
                         \/ (s.user \in AuthUsers \/ s.name \notin gm.players) /\ sess'[c] = s
             /\ d # c => Goal
  <2>1. /\ sess'[d] = IF s.name \in gm.players /\ s.user \notin AuthUsers THEN [s EXCEPT !.token = d] ELSE s
        /\ \A e \in Conns \ {d} : sess'[e] = sess[e] /\ phase'[e] = phase[e]
    BY <1>3 DEF TakeSeat, BuiltSessions, Shape, TypeOK
  <2>2. d # c => Goal
    BY <1>2, <1>3, <2>1
  <2> QED  BY <2>1, <2>2 DEF BuiltSessions
(* what an arriving claim leaves *)
<1>4. ASSUME NEW cl \in claims, NEW d \in Conns, Arrive(d, cl), UNCHANGED opp
      PROVE  /\ seats' = seats /\ phase[d] = "unused" /\ opp[d] = "none"
             /\ SessionOf(cl) \in BuiltSessions /\ cl.game \in GameNames
             /\ SessionOf(cl).user = cl.user /\ SessionOf(cl).token = cl.token
             /\ SessionOf(cl).game = cl.game /\ SessionOf(cl).name = cl.name
             /\ cl.user \in DOMAIN seats[cl.game]
             /\ OwnsToken(SessionOf(cl)) \/ FirstClaim(cl)
  <2>1. OwnsSeat(SessionOf(cl)) /\ (OwnsToken(SessionOf(cl)) \/ FirstClaim(cl))
    BY DEF Owned
  <2> QED  BY <1>4, <2>1, ArriveShape DEF SessionOf, OwnsSeat
<1>5. ASSUME NEW cl \in claims, NEW d \in Conns, AwaitSetup(d, cl) \/ FindNoGame(d, cl)
      PROVE  Goal
  <2>1. /\ Arrive(d, cl) /\ sess' = [sess EXCEPT ![d] = SessionOf(cl)] /\ opp' = opp
        /\ \/ phase' = [phase EXCEPT ![d] = "loading"]
           \/ phase' = [phase EXCEPT ![d] = "closed"]
    BY <1>5 DEF AwaitSetup, FindNoGame, returnVars
  <2>2. CASE d # c
    BY <1>2, <1>4, <2>1, <2>2 DEF Shape, TypeOK
  <2>3. CASE d = c /\ OwnsToken(SessionOf(cl))
    BY <1>4, <2>1, <2>3 DEF Shape, TypeOK
  <2>4. CASE d = c /\ FirstClaim(cl)
    BY <1>4, <2>1, <2>4 DEF FirstClaim, Fresh, InTheirName, Shape, TypeOK
  <2> QED  BY <1>4, <2>1, <2>2, <2>3, <2>4
<1>6. ASSUME NEW cl \in claims, NEW d \in Conns, JoinBeforeStart(d, cl)
      PROVE  Goal
  <2>1. /\ Arrive(d, cl) /\ TakeSeat(d, SessionOf(cl), game[cl.game]) /\ opp' = opp
        /\ cl.game \in registry
    BY <1>6 DEF JoinBeforeStart, returnVars
  <2>2. CASE d # c
    BY <1>3, <1>4, <2>1, <2>2
  <2>3. CASE d = c /\ OwnsToken(SessionOf(cl))
    BY <1>3, <1>4, <2>1, <2>3
  <2>4. CASE d = c /\ FirstClaim(cl)
    <3>1. cl.name \in game[cl.game].players /\ cl.user \notin AuthUsers
      BY <1>4, <2>1, <2>4 DEF FirstClaim, Owned, SeatsWait
    <3> QED  BY <1>3, <1>4, <2>1, <2>4, <3>1
  <2> QED  BY <1>4, <2>1, <2>2, <2>3, <2>4
<1>7. ASSUME NEW cl \in claims, NEW d \in Conns, ClaimOpportunity(d, cl) \/ RefuseReconnection(d, cl)
      PROVE  Goal
  <2>1. /\ Arrive(d, cl) /\ sess' = [sess EXCEPT ![d] = SessionOf(cl)]
        /\ cl.game \in registry /\ game[cl.game].started
        /\ \A e \in Conns \ {d} : phase'[e] = phase[e]
        /\ \A e \in Conns : opp[e] = "none" \/ phase[e] # "closed" => phase'[e] = phase[e] \/ e = d
    BY <1>7 DEF ClaimOpportunity, RefuseReconnection, Shape, TypeOK
  <2>2. phase[d] = "unused" /\ seats' = seats
    BY <2>1 DEF Arrive
  <2>3. CASE d = c
    <3>1. OwnsToken(SessionOf(cl))
      BY <2>1, LateClaimOwnsToken
    <3> QED  BY <2>1, <2>2, <2>3, <3>1 DEF SessionOf, Shape, TypeOK
  <2>4. CASE d # c
    <3>1. sess'[c] = sess[c] /\ phase'[c] = phase[c]
      BY <2>1, <2>4 DEF Shape, TypeOK
    <3>2. opp[c] = "none" => opp'[c] = "none"
      BY <1>7 DEF ClaimOpportunity, RefuseReconnection, Claimable, Claimed, returnVars, Shape, TypeOK
    <3> QED  BY <1>1, <2>2, <2>4, <3>1, <3>2 DEF Fresh, InTheirName
  <2> QED  BY <2>3, <2>4
<1>8. ASSUME NEW d \in Conns, LoadGame(d)
      PROVE  Goal
  <2>1. /\ TakeSeat(d, sess[d], [players |-> Range(seats[sess[d].game]), started |-> FALSE, lock |-> {}])
        /\ phase[d] = "loading" /\ UNCHANGED <<seats, opp>>
    BY <1>8 DEF LoadGame, lobbyVars, returnVars
  <2>2. sess[d] \in BuiltSessions /\ OwnsSeat(sess[d]) /\ (OwnsToken(sess[d]) \/ Fresh(d))
    BY <2>1 DEF Shape, SessionsAreBuilt, Owned
  <2>3. CASE d # c
    BY <1>3, <2>1, <2>2, <2>3
  <2>4. CASE d = c /\ OwnsToken(sess[d])
    BY <1>3, <2>1, <2>2, <2>4
  <2>5. CASE d = c /\ Fresh(d)
    <3>1. sess[d].name \in Range(seats[sess[d].game]) /\ sess[d].user \notin AuthUsers
      BY <2>1, <2>2, <2>5 DEF Fresh, InTheirName, OwnsSeat, Range
    <3> QED  BY <1>3, <2>1, <2>2, <2>5, <3>1
  <2> QED  BY <2>2, <2>3, <2>4, <2>5
<1>9. ASSUME NEW d \in Conns, FinishClaim(d)
      PROVE  Goal
  <2>1. TakeSeat(d, Renamed(d), game[sess[d].game]) /\ phase[d] = "claiming" /\ UNCHANGED <<seats, opp>>
    BY <1>9 DEF FinishClaim, lobbyVars, returnVars
  <2>2. sess[d] \in BuiltSessions /\ sess[claimOf[d]] \in BuiltSessions /\ OwnsToken(sess[d])
    BY <2>1 DEF Shape, SessionsAreBuilt, ClaimsAreOfLeft, OpportunitiesAreLeft, Owned, Fresh
  <2>3. /\ Renamed(d) \in BuiltSessions /\ Renamed(d).user = sess[d].user
        /\ Renamed(d).token = sess[d].token
    BY <2>2 DEF Renamed, BuiltSessions
  <2> HIDE DEF Goal
  <2>4. CASE d # c
    BY <1>3, <2>1, <2>3, <2>4
  <2>5. CASE d = c
    <3>1. sess'[c].token = c \/ sess'[c] = Renamed(d)
      BY <1>3, <2>1, <2>3, <2>5
    <3> QED  BY <2>1, <2>2, <2>3, <2>5, <3>1 DEF Goal
  <2> QED  BY <2>4, <2>5
<1>10. ASSUME NEW d \in Conns, LoseLoadRace(d) \/ ClaimFails(d) \/ Disconnect(d) \/ DisconnectThrows(d)
       PROVE  Goal
  <2>1. /\ sess' = sess /\ seats' = seats
        /\ \A e \in Conns \ {d} : phase'[e] = phase[e] /\ opp'[e] = opp[e]
        /\ phase[d] = "loading" => phase'[d] = "closed" /\ opp'[d] = opp[d]
        /\ phase[d] # "closed"
    BY <1>10 DEF LoseLoadRace, ClaimFails, Disconnect, DisconnectThrows, Listening, lobbyVars,
                 returnVars, Shape, TypeOK
  <2>2. phase[c] # "unused"
    BY <1>10, <2>1 DEF LoseLoadRace, ClaimFails, Disconnect, DisconnectThrows, Listening
  <2>3. phase[c] = "loading" => opp[c] = "none"
    BY DEF Shape, OpportunitiesAreLeft
  <2>4. Fresh(c) => Fresh(c)'
    BY <2>1, <2>3 DEF Fresh, InTheirName
  <2> QED  BY <1>1, <2>1, <2>2, <2>4
<1>11. ASSUME \/ ForwardSome \/ (\E cl \in claims : RejectClaim(cl))
              \/ \E d \in Conns : CloseUnheard(d) \/ TimeOut(d)
              \/ UNCHANGED vars
       PROVE  Goal
  <2>1. UNCHANGED <<sess, phase, seats>> /\ (opp[c] = "none" => opp'[c] = "none")
    BY <1>11 DEF ForwardSome, Forward, RejectClaim, CloseUnheard, TimeOut, Expire, FinishTimeout,
                 TimeoutThrows, vars, lobbyVars, connVars, returnVars, Shape, TypeOK
  <2>2. Fresh(c) => Fresh(c)'
    BY <2>1 DEF Fresh, InTheirName
  <2> QED  BY <1>1, <2>1, <2>2
<1>12. ASSUME NEW n \in GameNames, NEW S \in SUBSET Users, NEW f \in [S -> Usernames], Handoff(n, f)
       PROVE  Goal
  <2>1. /\ UNCHANGED <<sess, phase, opp>> /\ DOMAIN seats[n] = {}
        /\ \A m \in GameNames \ {n} : seats'[m] = seats[m]
    BY <1>12 DEF Handoff, connVars, returnVars, Shape, TypeOK
  <2>2. sess[c].user \in DOMAIN seats[sess[c].game]
    BY <2>1 DEF Owned, OwnsSeat
  <2> QED  BY <1>2, <2>1, <2>2
<1> HIDE DEF Goal
<1>13. Goal
  BY <1>5, <1>6, <1>7, <1>8, <1>9, <1>10, <1>11, <1>12
     DEF Next, HandoffSome, ArriveSome, DepartSome, Continue
<1> QED  BY <1>13 DEF Goal

(* Whoever takes a seat starts no game that an unseen player belongs to. *)
LEMMA SeatTakenWaits ==
  ASSUME Shape, Owned, Table, Seated, serverUp,
         NEW c \in Conns, NEW s \in BuiltSessions, NEW gm \in Games, TakeSeat(c, s, gm),
         OwnsSeat(s), UNCHANGED seats,
         \/ gm = game[s.game] /\ UNCHANGED <<pending, registry>>
         \/ /\ gm.players = Range(seats[s.game]) /\ ~gm.started
            /\ pending' = pending \ {s.game} /\ registry' = registry \cup {s.game},
         NEW n \in GameNames, NEW u \in DOMAIN seats[n], Unseen(u), u # s.user
  PROVE  IF n \in registry' THEN ~game'[n].started /\ seats[n][u] \in game'[n].players
                            ELSE n \in pending'
<1>1. /\ s.game \in GameNames
      /\ \A m \in GameNames \ {s.game} : game'[m] = game[m]
      /\ game'[s.game].players = gm.players
      /\ \/ game'[s.game].started = (gm.started \/ AllConnected(gm, c, s))
         \/ game'[s.game] = gm
  BY TakeSeatGame DEF Shape
<1>2. IF n \in registry THEN ~game[n].started /\ seats[n][u] \in game[n].players ELSE n \in pending
  BY DEF Owned, SeatsWait
<1>3. CASE n # s.game
  BY <1>1, <1>2, <1>3
<1>4. ASSUME n = s.game, seats[n][u] \in gm.players, AllConnected(gm, c, s)
      PROVE  FALSE
  <2>1. seats[n][u] # s.name
    BY <1>4 DEF OwnsSeat
  <2>2. PICK d \in registered : sess[d].name = seats[n][u]
    BY <1>4, <2>1 DEF AllConnected
  <2>3. d \in Conns /\ phase[d] # "unused"
    BY <2>2 DEF Seated, RefusedHasNoSeat, Shape, TypeOK
  <2>4. sess[d].user = u
    BY <2>2, <2>3 DEF Owned, OwnsSeat
  <2> QED  BY <2>3, <2>4 DEF Unseen
<1>5. CASE n = s.game /\ gm = game[s.game] /\ UNCHANGED <<pending, registry>>
  <2>1. n \in registry => ~AllConnected(gm, c, s) /\ ~gm.started
    BY <1>2, <1>4, <1>5
  <2> QED  BY <1>1, <1>2, <1>5, <2>1
<1>6. CASE /\ n = s.game /\ gm.players = Range(seats[s.game]) /\ ~gm.started
           /\ registry' = registry \cup {s.game}
  <2>1. seats[n][u] \in gm.players
    BY <1>6 DEF Range
  <2>2. ~AllConnected(gm, c, s)
    BY <1>4, <1>6, <2>1
  <2> QED  BY <1>1, <1>6, <2>1, <2>2
<1> QED  BY <1>3, <1>5, <1>6

(* Nobody starts or ends a game, or takes a seat in it, before its owner came. *)
LEMMA SeatsWaitStep ==
  ASSUME Shape, Owned, Table, Seated, [Next]_vars
  PROVE  SeatsWait'
<1>1. ASSUME NEW u, Unseen(u)'
      PROVE  Unseen(u)
  <2>1. ASSUME NEW c \in Conns, phase[c] # "unused"
        PROVE  sess[c].user # u
    BY <1>1, <2>1, UsedStays, SessionStep DEF Unseen
  <2> QED  BY <2>1 DEF Unseen
<1> SUFFICES ASSUME NEW n \in GameNames, NEW u \in DOMAIN seats'[n], Unseen(u)'
             PROVE  IF n \in registry' THEN ~game'[n].started /\ seats'[n][u] \in game'[n].players
                                       ELSE n \in pending'
  BY DEF SeatsWait
<1> DEFINE Waits == IF n \in registry' THEN ~game'[n].started /\ seats'[n][u] \in game'[n].players
                                       ELSE n \in pending'
<1>2. Unseen(u)
  BY <1>1
<1>3. ASSUME seats'[n] = seats[n], n \in pending => n \in pending', n \in registry' <=> n \in registry,
             game'[n].started = game[n].started, game'[n].players = game[n].players
      PROVE  Waits
  BY <1>2, <1>3 DEF Owned, SeatsWait
<1>4. ASSUME NEW c \in Conns, NEW s \in BuiltSessions, NEW gm \in Games, TakeSeat(c, s, gm),
             serverUp, OwnsSeat(s), UNCHANGED seats,
             \/ gm = game[s.game] /\ UNCHANGED <<pending, registry>>
             \/ /\ gm.players = Range(seats[s.game]) /\ ~gm.started
                /\ pending' = pending \ {s.game} /\ registry' = registry \cup {s.game}
      PROVE  Waits
  <2>1. u # s.user
    BY <1>4, TakeSeatShape DEF Unseen, Shape
  <2> QED  BY <1>2, <1>4, <2>1, SeatTakenWaits
<1>5. ASSUME NEW cl \in claims, NEW c \in Conns, JoinBeforeStart(c, cl)
      PROVE  Waits
  <2>1. /\ Arrive(c, cl) /\ TakeSeat(c, SessionOf(cl), game[cl.game])
        /\ UNCHANGED <<pending, registry>> /\ serverUp
    BY <1>5 DEF JoinBeforeStart, storeVars, Arrive, MayDispatch
  <2>2. /\ game[cl.game] \in Games /\ SessionOf(cl) \in BuiltSessions /\ SessionOf(cl).game = cl.game
        /\ OwnsSeat(SessionOf(cl)) /\ UNCHANGED seats
    BY <2>1, ArriveShape DEF Shape, TypeOK, Owned
  <2> HIDE DEF Waits
  <2> QED  BY <1>4, <2>1, <2>2
<1>6. ASSUME NEW c \in Conns, LoadGame(c)
      PROVE  Waits
  <2> DEFINE gm == [players |-> Range(seats[sess[c].game]), started |-> FALSE, lock |-> {}]
  <2>1. /\ TakeSeat(c, sess[c], gm) /\ phase[c] = "loading" /\ serverUp /\ UNCHANGED seats
        /\ registry' = registry \cup {sess[c].game} /\ pending' = pending \ {sess[c].game}
    BY <1>6 DEF LoadGame, lobbyVars
  <2>2. sess[c] \in BuiltSessions /\ OwnsSeat(sess[c])
    BY <2>1 DEF Shape, SessionsAreBuilt, Owned
  <2>3. gm \in Games /\ gm.players = Range(seats[sess[c].game]) /\ ~gm.started
    BY <2>2, SeatingNames DEF Shape, TypeOK, Games, BuiltSessions
  <2> HIDE DEF Waits, gm
  <2> QED  BY <1>4, <2>1, <2>2, <2>3
<1>7. ASSUME NEW c \in Conns, FinishClaim(c)
      PROVE  Waits
  <2>1. /\ TakeSeat(c, Renamed(c), game[sess[c].game]) /\ phase[c] = "claiming" /\ serverUp
        /\ UNCHANGED <<seats, pending, registry>>
    BY <1>7 DEF FinishClaim, storeVars, lobbyVars
  <2>2. /\ sess[c] \in BuiltSessions /\ OwnsSeat(sess[c])
        /\ sess[claimOf[c]] \in BuiltSessions /\ OwnsSeat(sess[claimOf[c]])
        /\ sess[claimOf[c]].user = sess[c].user /\ sess[claimOf[c]].game = sess[c].game
    BY <2>1 DEF Shape, SessionsAreBuilt, ClaimsAreOfLeft, OpportunitiesAreLeft, Owned
  <2>3. /\ Renamed(c) \in BuiltSessions /\ OwnsSeat(Renamed(c)) /\ Renamed(c).game = sess[c].game
        /\ game[sess[c].game] \in Games
    BY <2>2 DEF Renamed, BuiltSessions, OwnsSeat, Shape, TypeOK
  <2> HIDE DEF Waits
  <2> QED  BY <1>4, <2>1, <2>3
<1>8. ASSUME NEW c \in Conns, Disconnect(c)
      PROVE  Waits
  <2>1. /\ game' = [game EXCEPT ![sess[c].game] = Paused(sess[c])]
        /\ UNCHANGED <<seats, pending, registry>>
    BY <1>8 DEF Disconnect, lobbyVars
  <2>2. game'[n].players = game[n].players /\ game'[n].started = game[n].started
    BY <2>1 DEF Paused, Shape, TypeOK, Games
  <2> HIDE DEF Waits
  <2> QED  BY <1>3, <2>1, <2>2
(* whose timer it is has been here, and the name that goes is their own *)
<1>9. ASSUME NEW c \in Conns, FinishTimeout(c) \/ TimeoutThrows(c)
      PROVE  Waits
  <2> DEFINE s == sess[c]
  <2>1. /\ opp[c] = "expiring" /\ UNCHANGED <<seats, pending>>
        /\ registry' \subseteq registry
        /\ \E players : /\ game' = [game EXCEPT ![s.game] = [Unpaused(s) EXCEPT !.players = players]]
                        /\ game[s.game].players \ {s.name} \subseteq players
                        /\ players # {} => registry' = registry
    <3>1. CASE FinishTimeout(c)
      <4>1. game' = [game EXCEPT ![s.game] = [Unpaused(s) EXCEPT !.players = @ \ {s.name}]]
        BY <3>1 DEF FinishTimeout
      <4>2. game[s.game] \in Games
        BY <3>1 DEF FinishTimeout, Shape, TypeOK
      <4>3. Unpaused(s).players = game[s.game].players
        BY <4>2 DEF Unpaused, Games
      <4>4. [Unpaused(s) EXCEPT !.players = @ \ {s.name}].players = game[s.game].players \ {s.name}
        BY <4>2, <4>3 DEF Unpaused, Games
      <4>5. game' = [game EXCEPT ![s.game] = [Unpaused(s) EXCEPT !.players = game[s.game].players \ {s.name}]]
        BY <4>1, <4>3
      <4>6. game[s.game].players \ {s.name} # {} => registry' = registry
        BY <3>1, <4>4 DEF FinishTimeout
      <4> QED  BY <3>1, <4>5, <4>6 DEF FinishTimeout, lobbyVars
    <3>2. CASE TimeoutThrows(c)
      <4>1. /\ game' = [game EXCEPT ![s.game] = Unpaused(s)] /\ opp[c] = "expiring"
            /\ UNCHANGED <<seats, pending, registry>>
        BY <3>2 DEF TimeoutThrows, lobbyVars, storeVars
      <4>2. game[s.game] \in Games
        BY <4>1 DEF Shape, OpportunitiesAreLeft, SessionsAreBuilt, BuiltSessions, TypeOK
      <4>3. [Unpaused(s) EXCEPT !.players = game[s.game].players] = Unpaused(s)
        BY <4>2 DEF Unpaused, Games
      <4> QED  BY <4>1, <4>3
    <3> QED  BY <1>9, <3>1, <3>2
  <2>2. s \in BuiltSessions /\ OwnsSeat(s) /\ u # s.user
    BY <1>2, <2>1 DEF Shape, OpportunitiesAreLeft, SessionsAreBuilt, Owned, Unseen
  <2>3. PICK players :
          /\ game' = [game EXCEPT ![s.game] = [Unpaused(s) EXCEPT !.players = players]]
          /\ game[s.game].players \ {s.name} \subseteq players
          /\ players # {} => registry' = registry
    BY <2>1
  <2>4. IF n \in registry THEN ~game[n].started /\ seats[n][u] \in game[n].players ELSE n \in pending
    BY <1>2, <2>1 DEF Owned, SeatsWait
  <2>5. seats[n][u] # s.name
    BY <2>1, <2>2 DEF OwnsSeat
  <2>6. CASE n # s.game
    <3>1. game'[n] = game[n]
      BY <2>3, <2>6 DEF Shape, TypeOK
    <3>2. n \in registry => n \in registry'
      BY <1>9, <2>6 DEF FinishTimeout, TimeoutThrows
    <3> QED  BY <2>1, <2>4, <3>1, <3>2
  <2>7. CASE n = s.game
    <3>1. game[n] \in Games
      BY DEF Shape, TypeOK
    <3>2. game'[n].players = players /\ game'[n].started = game[n].started
      BY <2>3, <2>7, <3>1 DEF Unpaused, Shape, TypeOK, Games
    <3>3. n \in registry => seats[n][u] \in players
      BY <2>3, <2>4, <2>5, <2>7
    <3> QED  BY <2>1, <2>3, <2>4, <3>2, <3>3
  <2> QED  BY <2>6, <2>7
<1>10. ASSUME NEW m \in GameNames, NEW S \in SUBSET Users, NEW f \in [S -> Usernames], Handoff(m, f)
       PROVE  Waits
  <2>1. /\ DOMAIN seats[m] = {} /\ seats' = [seats EXCEPT ![m] = f] /\ pending' = pending \cup {m}
        /\ UNCHANGED <<registry, game>>
    BY <1>10 DEF Handoff, gameVars
  <2>2. m \notin registry
    BY <2>1 DEF Table, PlayersAreSeated
  <2>3. n # m => seats'[n] = seats[n]
    BY <2>1 DEF Shape, TypeOK
  <2> QED  BY <1>3, <2>1, <2>2, <2>3
<1>11. ASSUME \/ ForwardSome
              \/ \E cl \in claims :
                   \/ RejectClaim(cl)
                   \/ \E c \in Conns : \/ AwaitSetup(c, cl) \/ FindNoGame(c, cl)
                                       \/ ClaimOpportunity(c, cl) \/ RefuseReconnection(c, cl)
              \/ \E c \in Conns : \/ LoseLoadRace(c) \/ ClaimFails(c) \/ DisconnectThrows(c)
                                  \/ CloseUnheard(c) \/ Expire(c)
              \/ UNCHANGED vars
       PROVE  Waits
  <2>1. UNCHANGED <<seats, pending, registry, game>>
    BY <1>11 DEF ForwardSome, Forward, RejectClaim, AwaitSetup, FindNoGame, ClaimOpportunity,
                 RefuseReconnection, Arrive, LoseLoadRace, ClaimFails, DisconnectThrows, CloseUnheard,
                 Expire, vars, storeVars, lobbyVars, gameVars
  <2> QED  BY <1>3, <2>1
<1> HIDE DEF Waits
<1>12. Waits
  BY <1>5, <1>6, <1>7, <1>8, <1>9, <1>10, <1>11
     DEF Next, HandoffSome, ArriveSome, DepartSome, Continue, TimeOut
<1> QED  BY <1>12 DEF Waits

(* Owned is inductive while nobody and no name is handed off twice: a game
   handed off brings new users and new names, and a visitor bears no seat's
   name. *)
LEMMA OwnedStep ==
  ASSUME HandsOffOnce, Shape, Promise, Owned, Table, Seated, [Next]_vars
  PROVE  Owned'
<1>1. SeatsWait'
  BY SeatsWaitStep
<1>2. ASSUME HandoffSome
      PROVE  Owned'
  <2>1. PICK n \in GameNames, S \in SUBSET Users :
          \E f \in [S -> Usernames] : Handoff(n, f) /\ IsNew(f)
    BY <1>2 DEF HandsOffOnce
  <2>2. PICK f \in [S -> Usernames] : Handoff(n, f) /\ IsNew(f)
    BY <2>1
  <2>3. /\ DOMAIN seats[n] = {} /\ DOMAIN f = S
        /\ seats'[n] = f /\ DOMAIN seats'[n] = S
        /\ \A m \in GameNames \ {n} : seats'[m] = seats[m]
        /\ UNCHANGED <<records, sess, phase, claimOf>>
    BY <2>2 DEF Handoff, Shape, TypeOK, connVars, returnVars
  (* the names and the users of the new seats are new *)
  <2>4. /\ \A u, v \in S : f[u] = f[v] => u = v
        /\ Range(f) \cap (SeatedNames \cup BorneNames) = {} /\ S \cap SeatedUsers = {}
    BY <2>2, <2>3 DEF Handoff, IsNew, IsInjective
  <2>5. \A m \in GameNames \ {n} : \A v \in DOMAIN seats[m] :
          v \notin S /\ \A u \in S : f[u] # seats[m][v]
    <3>1. ASSUME NEW m \in GameNames, NEW v \in DOMAIN seats[m]
          PROVE  v \in SeatedUsers /\ seats[m][v] \in SeatedNames
      BY DEF SeatedUsers, SeatedNames, Range
    <3>2. \A u \in S : f[u] \in Range(f)
      BY DEF Range
    <3> QED  BY <2>4, <3>1, <3>2
  <2>6. SeatsApart'
    BY <2>3, <2>4, <2>5 DEF Owned, SeatsApart
  (* whoever was there keeps their seat, and bears none of the new names *)
  <2>7. ASSUME NEW s \in BuiltSessions, OwnsSeat(s), s.name \in BorneNames
        PROVE  OwnsSeat(s)'
    <3>1. s.game \in GameNames \ {n}
      BY <2>3, <2>7 DEF OwnsSeat, BuiltSessions
    <3>2. \A u \in S : f[u] # s.name
      BY <2>4, <2>7 DEF Range
    <3> QED  BY <2>3, <2>7, <3>1, <3>2 DEF OwnsSeat
  (* nobody has come, or may come, as one of the new users *)
  <2>8. /\ \A x \in Conns : phase[x] # "unused" => sess[x].user \notin S
        /\ \A x \in claims : x.user \notin S /\ x.game \in GameNames \ {n}
    <3>1. ASSUME NEW s \in BuiltSessions, OwnsSeat(s)
          PROVE  s.user \notin S /\ s.game \in GameNames \ {n}
      BY <2>3, <2>4, <3>1 DEF OwnsSeat, BuiltSessions, SeatedUsers
    <3>2. \A x \in Conns : phase[x] # "unused" => sess[x] \in BuiltSessions /\ OwnsSeat(sess[x])
      BY DEF Shape, SessionsAreBuilt, Owned
    <3>3. \A x \in claims : SessionOf(x) \in BuiltSessions /\ OwnsSeat(SessionOf(x))
      BY SessionOfClaim DEF Shape, TypeOK, Owned
    <3>4. \A x : SessionOf(x).user = x.user /\ SessionOf(x).game = x.game
      BY DEF SessionOf
    <3> QED  BY <3>1, <3>2, <3>3, <3>4
  <2>9. PICK tokenOf \in [S -> IssuedTokens \cup {None}] :
          /\ \A u \in S : tokenOf[u] # None => u \notin AuthUsers
          /\ claims' = claims \cup
               {[user |-> u, name |-> f[u], token |-> tokenOf[u], game |-> n, nonce |-> n] : u \in S}
    BY <2>2, <2>3 DEF Handoff
  <2>10. ASSUME NEW cl \in claims'
         PROVE  OwnsSeat(SessionOf(cl))' /\ (OwnsToken(SessionOf(cl))' \/ FirstClaim(cl)')
    <3>1. CASE cl \in claims
      <4>1. SessionOf(cl) \in BuiltSessions /\ SessionOf(cl).name \in BorneNames
        BY <3>1, SessionOfClaim DEF Shape, TypeOK, SessionOf, BorneNames
      <4>2. OwnsSeat(SessionOf(cl)) /\ (OwnsToken(SessionOf(cl)) \/ FirstClaim(cl))
        BY <3>1 DEF Owned
      <4>3. OwnsToken(SessionOf(cl)) => OwnsToken(SessionOf(cl))'
        BY <2>3 DEF OwnsToken
      <4>4. \A x \in claims' : x \in claims \/ x.user \in S
        BY <2>9
      <4>5. FirstClaim(cl) => FirstClaim(cl)'
        BY <2>3, <2>8, <3>1, <4>4 DEF FirstClaim, Unseen
      <4> QED  BY <2>7, <4>1, <4>2, <4>3, <4>5
    <3>2. CASE cl \notin claims
      <4>1. PICK u \in S : cl = [user |-> u, name |-> f[u], token |-> tokenOf[u], game |-> n, nonce |-> n]
        BY <2>9, <3>2
      <4>2. /\ SessionOf(cl).user = u /\ SessionOf(cl).name = f[u]
            /\ SessionOf(cl).token = tokenOf[u] /\ SessionOf(cl).game = n
        BY <4>1 DEF SessionOf
      <4>3. OwnsSeat(SessionOf(cl))'
        BY <2>3, <2>4, <2>5, <4>2 DEF OwnsSeat
      <4>4. Unseen(u)'
        BY <2>3, <2>8 DEF Unseen
      <4>5. \A x \in claims' : x.user = u => x = cl
        BY <2>8, <2>9, <4>1
      <4>6. CASE u \in AuthUsers
        BY <2>9, <4>2, <4>3, <4>6 DEF OwnsToken
      <4>7. CASE u \notin AuthUsers
        BY <2>3, <4>1, <4>3, <4>4, <4>5, <4>7 DEF FirstClaim
      <4> QED  BY <4>6, <4>7
    <3> QED  BY <3>1, <3>2
  <2>11. ASSUME NEW c \in Conns, phase[c] # "unused"
         PROVE  OwnsSeat(sess[c])' /\ (OwnsToken(sess[c])' \/ Fresh(c)')
    <3>1. sess[c] \in BuiltSessions /\ sess[c].name \in BorneNames
      BY <2>11 DEF Shape, SessionsAreBuilt, BorneNames
    <3>2. OwnsSeat(sess[c]) /\ (OwnsToken(sess[c]) \/ Fresh(c))
      BY <2>11 DEF Owned
    <3>3. OwnsToken(sess[c]) => OwnsToken(sess[c])'
      BY <2>3 DEF OwnsToken
    <3>4. sess[c].game \in GameNames \ {n} /\ opp' = opp
      BY <2>2, <2>3, <3>1, <3>2 DEF OwnsSeat, BuiltSessions, Handoff, returnVars
    <3>5. Fresh(c) => Fresh(c)'
      BY <2>3, <3>4 DEF Fresh, InTheirName
    <3> QED  BY <2>3, <2>7, <3>1, <3>2, <3>3, <3>5 DEF OwnsSeat
  <2>12. ASSUME NEW k \in Keys, records[k] # None
         PROVE  records[k].user \in DOMAIN seats'[records[k].game] /\ KeyIsOf(k, records[k].user)'
    <3>1. records[k] \in Records
      BY <2>12 DEF Shape, TypeOK
    <3>2. records[k].game \in GameNames
      BY <3>1 DEF Records
    <3> QED  BY <2>3, <2>12, <3>2 DEF Owned, KeyIsOf
  <2> QED  BY <1>1, <2>3, <2>6, <2>10, <2>11, <2>12 DEF Owned
<1>3. ASSUME ForwardSome
      PROVE  Owned'
  <2>1. PICK k \in Keys, name \in Usernames :
          Forward(k, name) /\ (k \in AuthUsers \/ name \notin SeatedNames)
    BY <1>3 DEF HandsOffOnce
  <2>2. UNCHANGED <<seats, records, sess, phase, claimOf>>
    BY <2>1 DEF Forward, storeVars, connVars, returnVars
  <2> DEFINE r == records[k]
             s == [user |-> r.user, name |-> name,
                   token |-> IF k \in AuthUsers THEN None ELSE k, game |-> r.game]
  <2>3. \A cl \in claims' : cl \in claims \/ SessionOf(cl) = s
    BY <2>1 DEF Forward, SessionOf
  <2>4. r \in Records /\ r.user \in DOMAIN seats[r.game] /\ KeyIsOf(k, r.user)
    BY <2>1 DEF Forward, Owned, Shape, TypeOK
  <2>5. /\ r.game \in GameNames
        /\ IF k \in AuthUsers THEN name = seats[r.game][k] ELSE name \notin SeatedNames
    BY <2>1, <2>4 DEF Forward, Records
  <2> HIDE DEF r
  <2>6. OwnsSeat(s)
    <3>1. CASE k \in AuthUsers
      BY <2>4, <2>5, <3>1 DEF OwnsSeat, KeyIsOf, Owned, SeatsApart
    <3>2. CASE k \notin AuthUsers
      <4>1. \A n \in GameNames : \A u \in DOMAIN seats[n] : seats[n][u] # name
        BY <2>5, <3>2 DEF SeatedNames, Range
      <4> QED  BY <2>4, <4>1 DEF OwnsSeat
    <3> QED  BY <3>1, <3>2
  <2>7. OwnsToken(s)
    BY <2>4 DEF OwnsToken, KeyIsOf
  <2> HIDE DEF s
  <2>8. OwnsSeat(s)' /\ OwnsToken(s)'
    BY <2>2, <2>6, <2>7 DEF OwnsSeat, OwnsToken, s, r
  (* whoever is on record as a guest has been here *)
  <2>9. ASSUME NEW cl \in claims, FirstClaim(cl)
        PROVE  FirstClaim(cl)'
    <3>1. r.user # cl.user
      BY <2>4, <2>9 DEF FirstClaim, Unseen, KeyIsOf, Keys, Tokens
    <3>2. \A x \in claims' : x \in claims \/ x.user = r.user
      BY <2>1 DEF Forward, r
    <3> QED  BY <2>2, <2>9, <3>1, <3>2 DEF FirstClaim, Unseen
  <2>10. ASSUME NEW cl \in claims'
         PROVE  OwnsSeat(SessionOf(cl))' /\ (OwnsToken(SessionOf(cl))' \/ FirstClaim(cl)')
    <3>1. CASE cl \in claims
      <4>1. OwnsSeat(SessionOf(cl))' /\ (OwnsToken(SessionOf(cl)) => OwnsToken(SessionOf(cl))')
        BY <2>2, <3>1 DEF Owned, OwnsSeat, OwnsToken
      <4> QED  BY <2>9, <3>1, <4>1 DEF Owned
    <3>2. CASE SessionOf(cl) = s
      <4>1. \A x : SessionOf(x)' = SessionOf(x)
        BY DEF SessionOf
      <4>2. OwnsSeat(SessionOf(cl)) /\ OwnsToken(SessionOf(cl))
        BY <2>6, <2>7, <3>2
      <4> QED  BY <2>2, <4>2 DEF OwnsSeat, OwnsToken
    <3> QED  BY <2>3, <3>1, <3>2
  <2>11. ASSUME NEW c \in Conns, phase[c] # "unused"
         PROVE  OwnsSeat(sess[c])' /\ (OwnsToken(sess[c])' \/ Fresh(c)')
    <3>1. opp' = opp
      BY <2>1 DEF Forward, returnVars
    <3> QED  BY <2>2, <2>11, <3>1 DEF Owned, OwnsSeat, OwnsToken, Fresh, InTheirName
  <2> QED  BY <1>1, <2>2, <2>10, <2>11 DEF Owned, SeatsApart, KeyIsOf
<1>4. ASSUME seats' = seats, claims' \subseteq claims
      PROVE  Owned'
  (* a session that was there keeps its user and its game, and what it owned *)
  <2>1. ASSUME NEW c \in Conns, phase[c] # "unused"
        PROVE  phase'[c] # "unused" /\ sess'[c].user = sess[c].user /\ sess'[c].game = sess[c].game
    BY <2>1, UsedStays, SessionStep
  <2>2. ASSUME NEW t \in Tokens \cup {None}, NEW u, t # None => phase[t] # "unused" /\ sess[t].user = u
        PROVE  t # None => phase'[t] # "unused" /\ sess'[t].user = u
    BY <2>1, <2>2 DEF Tokens
  <2>3. ASSUME NEW cl \in claims
        PROVE  OwnsSeat(SessionOf(cl))' /\ (OwnsToken(SessionOf(cl)) => OwnsToken(SessionOf(cl))')
    <3>1. SessionOf(cl) \in BuiltSessions /\ SessionOf(cl).token \in Tokens \cup {None}
      BY SessionOfClaim DEF Shape, TypeOK, BuiltSessions
    <3> QED  BY <1>4, <2>2, <3>1 DEF Owned, OwnsSeat, OwnsToken
  (* a first claim that is still there has not been shown *)
  <2>4. ASSUME NEW cl \in claims', FirstClaim(cl)
        PROVE  FirstClaim(cl)'
    <3>1. ASSUME NEW c \in Conns, phase'[c] # "unused", sess'[c].user = cl.user
          PROVE  FALSE
      <4>1. phase[c] = "unused"
        BY <2>1, <2>4, <3>1 DEF FirstClaim, Unseen
      <4>2. PICK x \in claims \ claims' : sess'[c].user = x.user
        BY <3>1, <4>1, SessionStep
      <4> QED  BY <2>4, <3>1, <4>2 DEF FirstClaim
    <3>2. Unseen(cl.user)'
      BY <3>1 DEF Unseen
    <3> QED  BY <1>4, <2>4, <3>2 DEF FirstClaim
  <2>5. ASSUME NEW cl \in claims'
        PROVE  OwnsSeat(SessionOf(cl))' /\ (OwnsToken(SessionOf(cl))' \/ FirstClaim(cl)')
    BY <1>4, <2>3, <2>4 DEF Owned
  <2>6. ASSUME NEW c \in Conns, phase'[c] # "unused"
        PROVE  OwnsSeat(sess[c])' /\ (OwnsToken(sess[c])' \/ Fresh(c)')
    <3>1. CASE phase[c] = "unused"
      <4>1. PICK cl \in claims : /\ sess'[c].user = cl.user /\ sess'[c].game = cl.game
                                 /\ sess'[c].name = cl.name
        BY <2>6, <3>1, SessionStep
      <4>2. OwnsSeat(SessionOf(cl))'
        BY <2>3
      <4>3. OwnsSeat(sess[c])'
        BY <4>1, <4>2 DEF OwnsSeat, SessionOf
      <4>4. CASE \E x \in claims : /\ sess'[c].user = x.user /\ sess'[c].token = x.token
                                    /\ OwnsToken(SessionOf(x))
        <5>1. PICK x \in claims : /\ sess'[c].user = x.user /\ sess'[c].token = x.token
                                  /\ OwnsToken(SessionOf(x))'
          BY <2>3, <4>4
        <5> QED  BY <4>3, <5>1 DEF OwnsToken, SessionOf
      <4>5. CASE sess'[c].token = c
        BY <2>6, <4>3, <4>5 DEF OwnsToken
      <4> QED  BY <2>6, <3>1, <4>3, <4>4, <4>5, TokenStep
    <3>2. CASE phase[c] # "unused"
      <4>1. sess[c] \in BuiltSessions /\ OwnsSeat(sess[c])
        BY <3>2 DEF Shape, SessionsAreBuilt, Owned
      <4>2. /\ sess'[c].user = sess[c].user /\ sess'[c].game = sess[c].game
            /\ \/ sess'[c].name = sess[c].name
               \/ phase[c] = "claiming" /\ sess'[c].name = sess[claimOf[c]].name
        BY <2>6, <3>2, SessionStep
      <4>3. phase[c] = "claiming" =>
              /\ OwnsSeat(sess[claimOf[c]])
              /\ sess[claimOf[c]].user = sess[c].user /\ sess[claimOf[c]].game = sess[c].game
        BY DEF Shape, ClaimsAreOfLeft, OpportunitiesAreLeft, Owned
      <4>4. OwnsSeat(sess[c])'
        BY <1>4, <4>1, <4>2, <4>3 DEF OwnsSeat
      <4>5. CASE OwnsToken(sess[c]) /\ sess'[c].user = sess[c].user /\ sess'[c].token = sess[c].token
        <5>1. sess[c].token \in Tokens \cup {None}
          BY <4>1 DEF BuiltSessions
        <5>2. sess[c].token # None =>
                phase'[sess[c].token] # "unused" /\ sess'[sess[c].token].user = sess[c].user
          BY <2>2, <4>5, <5>1 DEF OwnsToken
        <5> QED  BY <4>4, <4>5, <5>2 DEF OwnsToken
      <4>6. CASE sess'[c].token = c
        BY <2>6, <4>4, <4>6 DEF OwnsToken
      <4> QED  BY <2>6, <3>2, <4>4, <4>5, <4>6, TokenStep
    <3> QED  BY <3>1, <3>2
  <2>7. ASSUME NEW k \in Keys \ AuthUsers, phase[k] # "unused"
        PROVE  phase'[k] # "unused" /\ sess'[k].user = sess[k].user
    BY <2>1, <2>7 DEF Keys, Tokens
  <2>8. ASSUME NEW k \in Keys, records'[k] # None
        PROVE  /\ records'[k].user \in DOMAIN seats'[records'[k].game]
               /\ KeyIsOf(k, records[k].user)'
    <3>1. CASE records'[k] = records[k]
      <4>1. records[k].user \in DOMAIN seats[records[k].game] /\ KeyIsOf(k, records[k].user)
        BY <2>8, <3>1 DEF Owned
      <4> QED  BY <1>4, <2>7, <3>1, <4>1 DEF KeyIsOf
    <3>2. CASE records'[k] # records[k]
      <4>1. PICK c \in Conns : /\ phase[c] \notin {"unused", "loading", "closed"}
                               /\ KeyOf(sess[c]) = k
                               /\ records'[k].user = sess[c].user
                               /\ records'[k].game = sess[c].game
        BY <2>8, <3>2, RecordStep
      <4>2. sess[c] \in BuiltSessions /\ OwnsSeat(sess[c]) /\ OwnsToken(sess[c])
        BY <4>1 DEF Shape, SessionsAreBuilt, Owned, Fresh
      <4>3. KeyIsOf(k, sess[c].user)
        BY <4>1, <4>2, KeyOfOwner, NoneAssumption, UsersAssumption DEF Keys, Tokens
      <4> QED  BY <1>4, <2>7, <4>1, <4>2, <4>3 DEF OwnsSeat, KeyIsOf
    <3> QED  BY <3>1, <3>2
  <2>9. ASSUME NEW c \in Conns, phase'[c] = "claiming"
        PROVE  sess'[claimOf'[c]].user = sess'[c].user /\ sess'[claimOf'[c]].game = sess'[c].game
    BY <2>1, <2>9, ClaimingStep
  <2> QED  BY <1>1, <1>4, <2>5, <2>6, <2>8, <2>9 DEF Owned, SeatsApart
<1> QED  BY <1>2, <1>3, <1>4, OnlyLobbyIssues

(* Ground holds however often users and names are handed off. *)
Ground == Shape /\ Promise /\ Issued /\ Table

LEMMA GroundInit == Init => Ground
<1> SUFFICES ASSUME Init PROVE Ground
  OBVIOUS
<1>1. Shape
  BY ShapeInit
<1>2. Promise /\ Issued /\ Table
  BY NoneAssumption DEF Init, Promise, RecordHasOpportunity, ManagerHoldsActive, Issued,
     Table, PendingIsUntouched, LoadingIsAwaited, PlayersAreSeated
<1> QED  BY <1>1, <1>2 DEF Ground

LEMMA GroundStep ==
  ASSUME Ground, [Next]_vars
  PROVE  Ground'
BY ShapeStep, PromiseStep, IssuedStep, TableStep DEF Ground

(* Base is what later proofs start from. *)
Base == Shape /\ Promise /\ Owned /\ Table /\ Seated

LEMMA BaseInit == Init => Base
<1> SUFFICES ASSUME Init PROVE Base
  OBVIOUS
<1>1. Shape
  BY ShapeInit
<1>2. Promise /\ Owned /\ Table /\ Seated
  BY NoneAssumption DEF Init, Promise, RecordHasOpportunity, ManagerHoldsActive,
     Owned, SeatsApart, SeatsWait, Table, PendingIsUntouched, LoadingIsAwaited, PlayersAreSeated,
     Seated, RefusedHasNoSeat, MissingIsLocked
<1> QED  BY <1>1, <1>2 DEF Base

LEMMA BaseStep ==
  ASSUME HandsOffOnce, Base, [Next]_vars
  PROVE  Base'
BY ShapeStep, PromiseStep, OwnedStep, OwnedIsIssued, TableStep, SeatedStep DEF Base

LEMMA BaseAlways ==
  ASSUME "sharedUsername" \notin Quirks
  PROVE  Spec => []Base
<1>1. Base /\ [Next]_vars => Base'
  BY BaseStep, PlainHandsOffOnce
<1> QED  BY <1>1, BaseInit, PTL DEF Spec

-----------------------------------------------------------------------------
(* Who hung up unheard *)

LEMMA HearingStep ==
  ASSUME [Next]_vars
  PROVE  deaf' = deaf \/ \E c \in Conns : CloseUnheard(c)
<1>1. ASSUME NEW c \in Conns, NEW cl \in claims, Arrive(c, cl)
      PROVE  deaf' = deaf
  BY <1>1 DEF Arrive
<1>2. ASSUME NEW c \in Conns, Continue(c) \/ TimeOut(c) \/ Disconnect(c) \/ DisconnectThrows(c)
      PROVE  deaf' = deaf
  BY <1>2 DEF Continue, LoadGame, LoseLoadRace, FinishClaim, ClaimFails, TimeOut, Expire,
              FinishTimeout, TimeoutThrows, Disconnect, DisconnectThrows, connVars
<1>3. ASSUME HandoffSome \/ ForwardSome \/ (\E cl \in claims : RejectClaim(cl)) \/ UNCHANGED vars
      PROVE  deaf' = deaf
  BY <1>3 DEF HandoffSome, Handoff, ForwardSome, Forward, RejectClaim, vars, connVars
<1> QED  BY <1>1, <1>2, <1>3 DEF Next, ArriveSome, DepartSome, AwaitSetup, FindNoGame,
            JoinBeforeStart, ClaimOpportunity, RefuseReconnection

(* In the process no event comes between a setup being asked for and given. *)
LEMMA NobodyIsUnheard ==
  ASSUME Services = "inProcess", deaf = {}, [Next]_vars
  PROVE  deaf' = {}
<1>1. \A c \in Conns : ~CloseUnheard(c)
  BY DEF CloseUnheard, MayDispatch
<1> QED  BY <1>1, HearingStep

(* Whoever hung up while loading sits in a game only as the one who loaded it:
   its setup was taken over for them. *)
OneUnheard ==
  /\ \A c \in deaf : phase[c] \notin {"unused", "claiming", "failing"}
  /\ \A c, d \in deaf : /\ phase[c] = "joined" /\ phase[d] = "joined"
                        /\ sess[c].game = sess[d].game
                        => c = d

(* From then on the connection only ends, or loads the game. *)
LEMMA UnheardStep ==
  ASSUME Shape, [Next]_vars, NEW c \in Conns,
         phase[c] \in {"loading", "joined", "refused", "closed"}, c \in deaf
  PROVE  \/ phase'[c] \in {phase[c], "closed"}
         \/ LoadGame(c) /\ phase'[c] \in {"joined", "refused"}
<1>1. ASSUME NEW d \in Conns, NEW s, NEW gm, TakeSeat(d, s, gm)
      PROVE  /\ d # c => phase'[c] = phase[c]
             /\ phase'[d] \in {"joined", "refused"}
  BY <1>1 DEF TakeSeat, Shape, TypeOK
<1>2. ASSUME NEW d \in Conns, NEW cl \in claims,
             \/ AwaitSetup(d, cl) \/ FindNoGame(d, cl) \/ JoinBeforeStart(d, cl)
             \/ ClaimOpportunity(d, cl) \/ RefuseReconnection(d, cl)
      PROVE  phase'[c] = phase[c]
  <2>1. d # c
    BY <1>2 DEF AwaitSetup, FindNoGame, JoinBeforeStart, ClaimOpportunity, RefuseReconnection, Arrive
  <2>2. CASE JoinBeforeStart(d, cl)
    BY <1>1, <2>1, <2>2 DEF JoinBeforeStart
  <2>3. CASE ~JoinBeforeStart(d, cl)
    BY <1>2, <2>1, <2>3 DEF AwaitSetup, FindNoGame, ClaimOpportunity, RefuseReconnection,
                            Shape, TypeOK
  <2> QED  BY <2>2, <2>3
<1>3. ASSUME NEW d \in Conns, LoadGame(d)
      PROVE  phase'[c] = phase[c] \/ (LoadGame(c) /\ phase'[c] \in {"joined", "refused"})
  BY <1>1, <1>3 DEF LoadGame
<1>4. ASSUME NEW d \in Conns, FinishClaim(d)
      PROVE  phase'[c] = phase[c]
  BY <1>1, <1>4 DEF FinishClaim
<1>5. ASSUME NEW d \in Conns,
             LoseLoadRace(d) \/ ClaimFails(d) \/ Disconnect(d) \/ DisconnectThrows(d)
      PROVE  phase'[c] \in {phase[c], "closed"}
  BY <1>5 DEF LoseLoadRace, ClaimFails, Disconnect, DisconnectThrows, Shape, TypeOK
<1>6. ASSUME \/ HandoffSome \/ ForwardSome \/ (\E cl \in claims : RejectClaim(cl))
             \/ \E d \in Conns : CloseUnheard(d) \/ TimeOut(d)
             \/ UNCHANGED vars
      PROVE  phase'[c] = phase[c]
  BY <1>6 DEF HandoffSome, Handoff, ForwardSome, Forward, RejectClaim, CloseUnheard, TimeOut,
              Expire, FinishTimeout, TimeoutThrows, vars, connVars
<1> QED  BY <1>2, <1>3, <1>4, <1>5, <1>6 DEF Next, ArriveSome, DepartSome, Continue

LEMMA OneUnheardStep ==
  ASSUME Shape, Table, OneUnheard, [Next]_vars
  PROVE  OneUnheard'
<1>1. deaf \subseteq Conns /\ \A c \in deaf : phase[c] \in {"loading", "joined", "refused", "closed"}
  BY DEF OneUnheard, Shape, TypeOK, Phases
<1>2. ASSUME NEW c \in Conns, CloseUnheard(c)
      PROVE  OneUnheard'
  BY <1>2 DEF CloseUnheard, OneUnheard
<1>3. ASSUME deaf' = deaf
      PROVE  OneUnheard'
  <2>1. ASSUME NEW c \in deaf
        PROVE  phase'[c] \notin {"unused", "claiming", "failing"}
    BY <1>1, UnheardStep
  <2>2. ASSUME NEW c \in deaf, phase'[c] = "joined"
        PROVE  sess'[c].game = sess[c].game /\ (phase[c] = "joined" \/ LoadGame(c))
    <3>1. sess'[c].game = sess[c].game
      BY <1>1, <2>2, SessionStep
    <3> QED  BY <1>1, <2>2, <3>1, UnheardStep
  (* the game is loaded from its setup, so nobody is in it yet *)
  <2>3. ASSUME NEW c \in deaf, NEW d \in deaf \ {c}, LoadGame(c), phase'[d] = "joined",
               sess[c].game = sess[d].game
        PROVE  FALSE
    <3>1. phase[d] = "joined"
      BY <1>1, <2>3 DEF LoadGame, TakeSeat, Shape, TypeOK
    <3>2. sess[c].game \in pending
      BY <1>1, <2>3 DEF LoadGame, Table, LoadingIsAwaited
    <3> QED  BY <1>1, <2>3, <3>1, <3>2 DEF Table, PendingIsUntouched
  <2>4. ASSUME NEW c \in deaf, NEW d \in deaf, phase'[c] = "joined", phase'[d] = "joined",
               sess'[c].game = sess'[d].game
        PROVE  c = d
    <3>1. sess[c].game = sess[d].game
      BY <2>2, <2>4
    <3>2. CASE phase[c] = "joined" /\ phase[d] = "joined"
      BY <3>1, <3>2 DEF OneUnheard
    <3>3. CASE LoadGame(c) \/ LoadGame(d)
      BY <2>3, <2>4, <3>1, <3>3
    <3> QED  BY <2>2, <2>4, <3>2, <3>3
  <2> QED  BY <1>3, <2>1, <2>4 DEF OneUnheard
<1> QED  BY <1>2, <1>3, HearingStep

-----------------------------------------------------------------------------
(* The two promises *)

(* No game stays paused by accident: whoever the input of a running game waits
   for has a timer running, is coming back, or is being turned away, which
   starts a timer; with any stores, and whichever deletes fail. *)
THEOREM PausesHaveAnEnd ==
  ASSUME "sharedUsername" \notin Quirks
  PROVE  Spec => []PausedGameHasWayOut
<1>1. Init => PausedGameHasWayOut
  BY DEF Init, PausedGameHasWayOut
<1>2. Base /\ PausedGameHasWayOut /\ [Next]_vars => PausedGameHasWayOut'
  BY WayOutStep DEF Base
<1> QED  BY <1>1, <1>2, BaseAlways, PTL DEF Spec

(* Input waits for everybody: with stores in the process it is accepted only
   while the owner of every seat still in the game is connected to it in their
   own name, in whichever order people come, drop, return and time out. *)
THEOREM InputWaitsForAll ==
  ASSUME "sharedUsername" \notin Quirks, Services = "inProcess"
  PROVE  Spec => []NoInputWhileSomeoneIsMissing
<1>1. Base /\ deaf = {} => NoInputWhileSomeoneIsMissing
  BY DEF Base, Seated, MissingIsLocked, NoInputWhileSomeoneIsMissing, AcceptsInput,
         HasSession, InSeat
<1>2. Init => deaf = {}
  BY DEF Init
<1>3. deaf = {} /\ [Next]_vars => (deaf = {})'
  BY NobodyIsUnheard
<1> QED  BY <1>1, <1>2, <1>3, BaseAlways, PTL DEF Spec

(* With any stores, and whichever deletes fail: whoever is missing while input
   is accepted hung up while they loaded the game, and they are the only one.
   Nobody is passed over who has not come, has dropped or may come back. *)
THEOREM InputWaitsForAllButOne ==
  ASSUME "sharedUsername" \notin Quirks
  PROVE  Spec => []OnlyTheUnheardIsMissed
<1>1. Base /\ OneUnheard => OnlyTheUnheardIsMissed
  <2> SUFFICES ASSUME Base, OneUnheard, NEW c \in Conns, AcceptsInput(c)
               PROVE  LET n       == sess[c].game
                          seated  == {u \in DOMAIN seats[n] : seats[n][u] \in game[n].players}
                          missing == {u \in seated : ~InSeat(u, n)}
                      IN /\ \A u \in missing : HasSession(u, n)
                         /\ \A u, v \in missing : u = v
    BY DEF OnlyTheUnheardIsMissed
  <2> DEFINE n == sess[c].game
  <2>1. ASSUME NEW u \in DOMAIN seats[n], seats[n][u] \in game[n].players
        PROVE  HasSession(u, n)
    BY <2>1 DEF Base, Seated, MissingIsLocked, AcceptsInput
  <2>2. ASSUME NEW u, NEW v, HasSession(u, n), HasSession(v, n), ~InSeat(u, n), ~InSeat(v, n)
        PROVE  u = v
    <3>1. PICK d \in registered \cap deaf : SitsIn(d, u, n)
      BY <2>2 DEF HasSession, InSeat
    <3>2. PICK e \in registered \cap deaf : SitsIn(e, v, n)
      BY <2>2 DEF HasSession, InSeat
    <3>3. d = e
      BY <3>1, <3>2 DEF SitsIn, OneUnheard
    <3> QED  BY <3>1, <3>2, <3>3 DEF SitsIn
  <2> QED  BY <2>1, <2>2
<1>2. Init => OneUnheard
  BY DEF Init, OneUnheard
<1>3. Base /\ OneUnheard /\ [Next]_vars => OneUnheard'
  BY OneUnheardStep DEF Base
<1> QED  BY <1>1, <1>2, <1>3, BaseAlways, PTL DEF Spec
=============================================================================
