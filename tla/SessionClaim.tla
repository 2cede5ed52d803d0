---------------------------- MODULE SessionClaim ----------------------------
(***************************************************************************)
(* Session claim tokens over time: the lobby seals one with an expiry, the  *)
(* game server accepts it, remembers its nonce until it has expired, and    *)
(* refuses it from then on.  createSession reads the clock twice, once to   *)
(* judge the expiry and once to drop old nonces; the clock may have gone on *)
(* in between.  GameServer leaves time out and has claims that vanish when   *)
(* presented: this module says how far that is so.                          *)
(***************************************************************************)
EXTENDS Integers

CONSTANTS
  Claims,      \* tokens, each with a nonce of its own
  Users,
  TimeToLive,  \* milliseconds between sealing and expiry
  MaxPause,    \* the most the clock goes on between the two readings
  MaxTime,     \* bound: when the clock stops
  None

ASSUME LifeAssumption  == TimeToLive \in Nat
ASSUME PauseAssumption == MaxPause \in Nat
ASSUME TimeAssumption  == MaxTime \in Nat
ASSUME NoneAssumption  == None \notin [user : Users, expires : Int]

VARIABLES
  now,        \* Date.now()
  sealed,     \* claim -> what is sealed in it, once it is issued
  used,       \* claims whose nonce is in expirableUsedNonceRecords
  spent,      \* claims whose nonce was ever put there,
  accepted,   \* and how often each was let in: both kept for the properties
  connected   \* users with a registered session

vars == <<now, sealed, used, spent, accepted, connected>>

Sealed == [user : Users, expires : Int]

-----------------------------------------------------------------------------
(* Slips, each a bug that could have been written in place of the next ones *)

DroppedEarly(t)         == {c \in used : sealed[c].expires <= t}  \* <= for <
NotRemembered(kept, c)  == kept                              \* no set() of the nonce
RememberedUser(kept, c) == kept \cup {sealed[c].user}         \* the wrong key

(* tokenIsExpired: valid through its last millisecond *)
Expired(c, t) == t > sealed[c].expires

(* nonceUseRecordIsExpired *)
Outdated(t) == {c \in used : sealed[c].expires < t}

(* expirableUsedNonceRecords.set *)
Remembered(kept, c) == kept \cup {c}

-----------------------------------------------------------------------------
Init ==
  /\ now = 0
  /\ sealed = [c \in Claims |-> None]
  /\ used = {}
  /\ spent = {}
  /\ accepted = [c \in Claims |-> 0]
  /\ connected = {}

Tick ==
  /\ now < MaxTime
  /\ now' = now + 1
  /\ UNCHANGED <<sealed, used, spent, accepted, connected>>

(* The lobby makes a claim for u; the expiry is stamped as it is made. *)
Issue(c, u) ==
  /\ sealed[c] = None
  /\ sealed' = [sealed EXCEPT ![c] = [user |-> u, expires |-> now + TimeToLive]]
  /\ UNCHANGED <<now, used, spent, accepted, connected>>

(* createSession once the token is decoded, up to the pruning: the token has
   not expired at the first reading, and the second is d later.  An expired
   token is refused before anything is changed and is no action. *)
Present(c, d) ==
  /\ sealed[c] # None /\ ~Expired(c, now)
  /\ d \in 0 .. MaxPause /\ now + d <= MaxTime
  /\ now' = now + d
  /\ UNCHANGED sealed

Kept(t) == used \ Outdated(t)

(* The nonce is remembered before the user's connections are looked at. *)
Spend(c, d) ==
  /\ used' = Remembered(Kept(now + d), c)
  /\ spent' = spent \cup {c}

(* "Token replay attack suspected" *)
RefuseReplay(c, d) ==
  /\ Present(c, d) /\ c \in Kept(now + d)
  /\ used' = Kept(now + d)
  /\ UNCHANGED <<spent, accepted, connected>>

(* A claim refused for a second tab is spent all the same. *)
RefuseSecondTab(c, d) ==
  /\ Present(c, d) /\ c \notin Kept(now + d) /\ sealed[c].user \in connected
  /\ Spend(c, d)
  /\ UNCHANGED <<accepted, connected>>

Accept(c, d) ==
  /\ Present(c, d) /\ c \notin Kept(now + d) /\ sealed[c].user \notin connected
  /\ Spend(c, d)
  /\ accepted' = [accepted EXCEPT ![c] = @ + 1]
  /\ UNCHANGED connected

(* What becomes of an accepted session is up to the rest of the server: it is
   registered after some awaits, if at all, and unregistered when it closes. *)
Register(u) ==
  /\ u \notin connected
  /\ \E c \in Claims : accepted[c] > 0 /\ sealed[c].user = u
  /\ connected' = connected \cup {u}
  /\ UNCHANGED <<now, sealed, used, spent, accepted>>

Unregister(u) ==
  /\ u \in connected
  /\ connected' = connected \ {u}
  /\ UNCHANGED <<now, sealed, used, spent, accepted>>

PresentSome ==
  \E c \in Claims, d \in 0 .. MaxPause :
    RefuseReplay(c, d) \/ RefuseSecondTab(c, d) \/ Accept(c, d)

Next ==
  \/ Tick
  \/ \E c \in Claims, u \in Users : Issue(c, u)
  \/ PresentSome
  \/ \E u \in Users : Register(u) \/ Unregister(u)

Spec == Init /\ [][Next]_vars

-----------------------------------------------------------------------------
(* Properties *)

(* Values have the types of their declarations. *)
TypeOK ==
  /\ now \in 0 .. MaxTime
  /\ sealed \in [Claims -> Sealed \cup {None}]
  /\ used \subseteq Claims
  /\ spent \subseteq Claims
  /\ accepted \in [Claims -> Nat]
  /\ connected \subseteq Users

(* As long as a claim that was shown, let in or refused for a second tab, would
   still pass the expiry check, its nonce is remembered: pruning never runs
   ahead of expiry, although the two are decided by different comparisons at
   different times, and every later showing prunes again. *)
SpentClaimsAreRemembered ==
  \A c \in spent : ~Expired(c, now) => c \in used

(* The one way to be let in with a claim that was shown before, whether it was
   let in or refused for a second tab then: it is presented in its last
   millisecond or before, and the clock passes its expiry between the two
   readings, so that its own nonce is dropped just before it is looked up. *)
ReplayOnlyAcrossExpiry ==
  [][\A c \in spent : accepted'[c] > accepted[c] =>
       ~Expired(c, now) /\ Expired(c, now')]_vars

(* And it works once: nothing is let in a third time. *)
AcceptedAtMostTwice == \A c \in Claims : accepted[c] <= 2
=============================================================================
