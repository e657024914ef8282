----------------------------- MODULE MCSessions -----------------------------
(***************************************************************************)
(* Instances of Sessions for TLC.  The requests are interchangeable: each  *)
(* chooses its endpoint when it comes in.                                  *)
(***************************************************************************)
EXTENDS Sessions, TLC

NoFaults == {}

Symmetry == Permutations(Requests)

=============================================================================
