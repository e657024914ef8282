------------------------------- MODULE MCMfa -------------------------------
(***************************************************************************)
(* Instances of Mfa for TLC.  Requests, sessions and passkeys are          *)
(* interchangeable: each request chooses its operation when it comes in.   *)
(***************************************************************************)
EXTENDS Mfa, TLC

Symmetry ==
    Permutations(Requests) \cup Permutations(Sessions) \cup Permutations(Seeded)

=============================================================================
