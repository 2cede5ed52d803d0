------------------------- MODULE SessionClaimProofs -------------------------
(***************************************************************************)
(* Theorems about session claim tokens, for every set of tokens and users,  *)
(* every life time and every pause between the two readings of the clock.   *)
(***************************************************************************)
EXTENDS SessionClaim, TLAPS

(* Only what the lobby sealed was ever remembered, and only that was let in. *)
PresentedWereSealed ==
  \A c \in Claims : /\ c \in used \/ c \in spent => sealed[c] # None
                    /\ accepted[c] > 0 => c \in spent

(* Who was let in twice has expired, and cannot come a third time. *)
TwiceMeansExpired == \A c \in Claims : accepted[c] > 1 => Expired(c, now)

Inv == /\ TypeOK /\ PresentedWereSealed /\ SpentClaimsAreRemembered
       /\ AcceptedAtMostTwice /\ TwiceMeansExpired

-----------------------------------------------------------------------------
(* A sealed claim has a whole number for its expiry. *)
LEMMA ExpiryIsInt ==
  ASSUME TypeOK, NEW c \in Claims, sealed[c] # None
  PROVE  sealed[c].expires \in Int
BY DEF TypeOK, Sealed

(* Expiry is for good: the clock only goes forward. *)
LEMMA ExpiryIsFinal ==
  ASSUME TypeOK, NEW c \in Claims, sealed[c] # None, NEW d \in Nat, Expired(c, now)
  PROVE  Expired(c, now + d)
BY ExpiryIsInt DEF Expired, TypeOK

(* What pruning at time t drops has expired at t. *)
LEMMA DroppedHaveExpired ==
  ASSUME TypeOK, PresentedWereSealed, NEW t \in Int, NEW c \in used \ Kept(t)
  PROVE  Expired(c, t)
BY ExpiryIsInt DEF Kept, Outdated, Expired, TypeOK, PresentedWereSealed

LEMMA InvInit == Init => Inv
BY TimeAssumption
   DEF Init, Inv, TypeOK, PresentedWereSealed, SpentClaimsAreRemembered,
       AcceptedAtMostTwice, TwiceMeansExpired

(* A presented claim leaves the clock at now + d, which is in range. *)
LEMMA PresentTime ==
  ASSUME TypeOK, NEW c \in Claims, NEW d \in 0 .. MaxPause, Present(c, d)
  PROVE  /\ now' = now + d /\ now' \in 0 .. MaxTime /\ d \in Nat /\ now + d \in Int
         /\ sealed' = sealed /\ sealed[c] # None /\ ~Expired(c, now)
BY PauseAssumption, TimeAssumption DEF Present, TypeOK

LEMMA InvStep == Inv /\ [Next]_vars => Inv'
<1> SUFFICES ASSUME Inv, [Next]_vars PROVE Inv'
  OBVIOUS
<1> USE DEF Inv
<1>1. CASE Tick
  <2>1. now' = now + 1 /\ now' \in 0 .. MaxTime /\ UNCHANGED <<sealed, used, spent, accepted, connected>>
    BY <1>1, TimeAssumption DEF Tick, TypeOK
  <2>2. ASSUME NEW c \in Claims, sealed[c] # None, Expired(c, now)
        PROVE  Expired(c, now)'
    <3>1. Expired(c, now + 1)
      BY <2>2, ExpiryIsFinal
    <3> QED  BY <2>1, <3>1 DEF Expired
  <2>3. TypeOK' /\ PresentedWereSealed' /\ AcceptedAtMostTwice'
    BY <2>1 DEF TypeOK, PresentedWereSealed, AcceptedAtMostTwice
  <2>4. SpentClaimsAreRemembered' /\ TwiceMeansExpired'
    BY <2>1, <2>2 DEF PresentedWereSealed, SpentClaimsAreRemembered, TwiceMeansExpired, TypeOK
  <2> QED  BY <2>3, <2>4
<1>2. ASSUME NEW c \in Claims, NEW u \in Users, Issue(c, u)
      PROVE  Inv'
  <2>1. now + TimeToLive \in Int
    BY LifeAssumption DEF TypeOK
  <2>2. TypeOK'
    BY <1>2, <2>1 DEF Issue, TypeOK, Sealed
  <2>3. ~(accepted[c] > 0) /\ c \notin used /\ c \notin spent
    BY <1>2 DEF Issue, PresentedWereSealed
  <2>4. \A e \in Claims \ {c} : sealed'[e] = sealed[e]
    BY <1>2 DEF Issue, TypeOK
  <2>5. UNCHANGED <<now, used, spent, accepted, connected>>
    BY <1>2 DEF Issue
  <2>6. accepted[c] = 0 /\ spent \subseteq Claims
    BY <2>3 DEF TypeOK
  <2> QED  BY <2>2, <2>3, <2>4, <2>5, <2>6
           DEF PresentedWereSealed, SpentClaimsAreRemembered, AcceptedAtMostTwice,
               TwiceMeansExpired, Expired
<1>3. ASSUME NEW c \in Claims, NEW d \in 0 .. MaxPause,
             RefuseReplay(c, d) \/ RefuseSecondTab(c, d) \/ Accept(c, d)
      PROVE  Inv'
  <2>1. Present(c, d)
    BY <1>3 DEF RefuseReplay, RefuseSecondTab, Accept
  <2>2. /\ now' = now + d /\ now' \in 0 .. MaxTime /\ d \in Nat /\ now + d \in Int
        /\ sealed' = sealed /\ sealed[c] # None /\ ~Expired(c, now)
    BY <2>1, PresentTime
  <2>3. /\ \/ used' = Kept(now + d) /\ spent' = spent
           \/ used' = Kept(now + d) \cup {c} /\ spent' = spent \cup {c}
        /\ connected' = connected
    BY <1>3 DEF RefuseReplay, RefuseSecondTab, Accept, Spend, Remembered
  <2>4. Kept(now + d) \subseteq used
    BY DEF Kept
  <2>5. \/ accepted' = accepted
        \/ /\ accepted' = [accepted EXCEPT ![c] = @ + 1]
           /\ c \notin Kept(now + d) /\ c \in used' /\ c \in spent'
    BY <1>3 DEF RefuseReplay, RefuseSecondTab, Accept, Spend, Remembered
  (* the time that has passed *)
  <2>6. ASSUME NEW e \in Claims, sealed[e] # None, Expired(e, now) \/ e \in used \ Kept(now + d)
        PROVE  Expired(e, now)'
    <3>1. Expired(e, now + d)
      BY <2>2, <2>6, ExpiryIsFinal, DroppedHaveExpired
    <3> QED  BY <2>2, <3>1 DEF Expired
  (* a claim let in before is here again only if its nonce has just gone *)
  <2>7. ASSUME accepted[c] > 0, c \notin Kept(now + d)
        PROVE  accepted[c] = 1 /\ Expired(c, now)'
    <3>1. c \in used
      BY <2>2, <2>7 DEF SpentClaimsAreRemembered, PresentedWereSealed
    <3>2. Expired(c, now)'
      BY <2>2, <2>6, <2>7, <3>1
    <3>3. ~(accepted[c] > 1)
      BY <2>2 DEF TwiceMeansExpired
    <3> QED  BY <2>7, <3>2, <3>3 DEF TypeOK
  <2>8. TypeOK'
    BY <2>2, <2>3, <2>4, <2>5 DEF TypeOK
  <2>9. PresentedWereSealed'
    BY <2>2, <2>3, <2>4, <2>5 DEF PresentedWereSealed, TypeOK
  <2>10. SpentClaimsAreRemembered'
    <3> SUFFICES ASSUME NEW e \in spent', ~Expired(e, now)'
                 PROVE  e \in used'
      BY DEF SpentClaimsAreRemembered
    <3>1. CASE e \notin spent
      BY <2>3, <3>1
    <3>2. CASE e \in spent
      <4>1. e \in Claims /\ sealed[e] # None
        BY <3>2 DEF PresentedWereSealed, TypeOK
      <4>2. ~Expired(e, now) /\ e \notin used \ Kept(now + d)
        BY <2>6, <4>1
      <4>3. e \in used
        BY <3>2, <4>2 DEF SpentClaimsAreRemembered
      <4> QED  BY <2>3, <4>2, <4>3
    <3> QED  BY <3>1, <3>2
  <2>11. AcceptedAtMostTwice' /\ TwiceMeansExpired'
    <3> SUFFICES ASSUME NEW e \in Claims
                 PROVE  accepted'[e] <= 2 /\ (accepted'[e] > 1 => Expired(e, now)')
      BY DEF AcceptedAtMostTwice, TwiceMeansExpired, Expired
    <3>1. CASE accepted'[e] = accepted[e]
      <4>1. accepted[e] <= 2
        BY DEF AcceptedAtMostTwice
      <4>2. ASSUME accepted[e] > 1 PROVE Expired(e, now)'
        <5>1. Expired(e, now) /\ accepted[e] > 0
          BY <4>2 DEF TwiceMeansExpired, TypeOK
        <5> QED  BY <2>6, <5>1 DEF PresentedWereSealed
      <4> QED  BY <3>1, <4>1, <4>2
    <3>2. CASE accepted'[e] # accepted[e]
      <4>1. e = c /\ accepted'[c] = accepted[c] + 1 /\ c \notin Kept(now + d)
        BY <2>5, <3>2 DEF TypeOK
      <4>2. CASE accepted[c] > 0
        BY <2>7, <4>1, <4>2
      <4>3. CASE ~(accepted[c] > 0)
        BY <4>1, <4>3 DEF TypeOK
      <4> QED  BY <4>2, <4>3
    <3> QED  BY <3>1, <3>2
  <2> QED  BY <2>8, <2>9, <2>10, <2>11
<1>4. ASSUME NEW u \in Users, Register(u) \/ Unregister(u)
      PROVE  Inv'
  BY <1>4 DEF Register, Unregister, TypeOK, PresentedWereSealed, SpentClaimsAreRemembered,
              AcceptedAtMostTwice, TwiceMeansExpired, Expired
<1>5. CASE UNCHANGED vars
  BY <1>5 DEF vars, TypeOK, PresentedWereSealed, SpentClaimsAreRemembered,
              AcceptedAtMostTwice, TwiceMeansExpired, Expired
<1> HIDE DEF Inv
<1> QED  BY <1>1, <1>2, <1>3, <1>4, <1>5 DEF Next, PresentSome

LEMMA InvAlways == Spec => []Inv
<1>1. Init => Inv
  BY InvInit
<1>2. Inv /\ [Next]_vars => Inv'
  BY InvStep
<1> QED  BY <1>1, <1>2, PTL DEF Spec

-----------------------------------------------------------------------------
(* Nonces are only ever those of claims, expiries those Issue can seal, and the
   registry holds nothing but users, however createSession is interleaved. *)
THEOREM TypeCorrect == Spec => []TypeOK
<1>1. Inv => TypeOK
  BY DEF Inv
<1> QED  BY <1>1, InvAlways, PTL

(* Pruning never forgets the nonce of a claim that was let in, or refused for a
   second tab, and could still pass the expiry check. *)
THEOREM NoncesOutliveClaims == Spec => []SpentClaimsAreRemembered
<1>1. Inv => SpentClaimsAreRemembered
  BY DEF Inv
<1> QED  BY <1>1, InvAlways, PTL

(* No claim is let in a third time, however long the pauses. *)
THEOREM NeverThrice == Spec => []AcceptedAtMostTwice
<1>1. Inv => AcceptedAtMostTwice
  BY DEF Inv
<1> QED  BY <1>1, InvAlways, PTL

(* A claim that was shown before is let in only while the clock passes its expiry between the
   two readings of one createSession. *)
THEOREM ReplayNeedsTheGap == Spec => ReplayOnlyAcrossExpiry
<1> DEFINE Step == \A c \in spent : accepted'[c] > accepted[c] =>
                     ~Expired(c, now) /\ Expired(c, now')
<1>1. Inv /\ [Next]_vars => [Step]_vars
  <2> SUFFICES ASSUME Inv, Next, NEW c \in spent, accepted'[c] > accepted[c]
               PROVE  ~Expired(c, now) /\ Expired(c, now')
    OBVIOUS
  <2>1. PICK e \in Claims, d \in 0 .. MaxPause : Accept(e, d)
    BY DEF Next, PresentSome, Tick, Issue, RefuseReplay, RefuseSecondTab, Register,
           Unregister, Inv, TypeOK
  <2>2. e = c
    BY <2>1 DEF Accept, Inv, TypeOK
  <2>3. now' = now + d /\ now + d \in Int /\ sealed[c] # None /\ ~Expired(c, now)
    BY <2>1, <2>2, PresentTime DEF Accept, Inv
  <2>4. c \in used \ Kept(now + d)
    BY <2>1, <2>2, <2>3 DEF Accept, Inv, SpentClaimsAreRemembered
  <2> QED  BY <2>3, <2>4, DroppedHaveExpired DEF Inv
<1> QED  BY <1>1, InvAlways, PTL DEF Spec, ReplayOnlyAcrossExpiry

(* If the clock does not move between the readings, a claim is good for once. *)
AcceptedAtMostOnce == \A c \in Claims : accepted[c] <= 1

THEOREM SingleUse ==
  ASSUME MaxPause = 0
  PROVE  Spec => []AcceptedAtMostOnce
<1>1. Init => AcceptedAtMostOnce
  <2> SUFFICES ASSUME Init, NEW c \in Claims PROVE accepted[c] <= 1
    BY DEF AcceptedAtMostOnce
  <2>1. accepted[c] = 0
    BY DEF Init
  <2> QED  BY <2>1
<1>2. Inv /\ AcceptedAtMostOnce /\ [Next]_vars => AcceptedAtMostOnce'
  <2> SUFFICES ASSUME Inv, AcceptedAtMostOnce, [Next]_vars, NEW c \in Claims
               PROVE  accepted'[c] <= 1
    BY DEF AcceptedAtMostOnce
  <2>1. CASE accepted'[c] = accepted[c]
    BY <2>1 DEF AcceptedAtMostOnce
  <2>2. CASE accepted'[c] # accepted[c]
    <3>1. PICK e \in Claims, d \in 0 .. MaxPause : Accept(e, d)
      BY <2>2 DEF Next, PresentSome, Tick, Issue, RefuseReplay, RefuseSecondTab, Register,
                  Unregister, vars
    <3>2. e = c /\ accepted'[c] = accepted[c] + 1
      BY <2>2, <3>1 DEF Accept, Inv, TypeOK
    <3>3. now + d = now /\ now \in Int /\ ~Expired(c, now) /\ sealed[c] # None
      BY <3>1, <3>2, PresentTime DEF Accept, Inv, TypeOK
    <3>4. c \notin used
      BY <3>1, <3>2, <3>3, DroppedHaveExpired DEF Accept, Inv
    <3>5. ~(accepted[c] > 0)
      BY <3>3, <3>4 DEF Inv, SpentClaimsAreRemembered, PresentedWereSealed
    <3> QED  BY <3>2, <3>5 DEF Inv, TypeOK
  <2> QED  BY <2>1, <2>2
<1> QED  BY <1>1, <1>2, InvAlways, PTL DEF Spec
=============================================================================
