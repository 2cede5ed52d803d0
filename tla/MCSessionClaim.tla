--------------------------- MODULE MCSessionClaim ---------------------------
(***************************************************************************)
(* An instance of SessionClaim for TLC.                                     *)
(***************************************************************************)
EXTENDS SessionClaim, TLC

CONSTANTS k1, k2, k3,  \* claims
          alice, bob   \* users

ThreeClaims == {k1, k2, k3}
TwoUsers    == {alice, bob}

Interchangeable == Permutations(ThreeClaims) \cup Permutations(TwoUsers)
=============================================================================
