----------------------------- MODULE MCThrottle -----------------------------
(***************************************************************************)
(* Instances of Throttle for TLC.                                          *)
(***************************************************************************)
EXTENDS Throttle

SmallLimits == [s \in Scopes \cup {"password"} |-> IF s = "reauth" THEN 1 ELSE 2]

SmallOffers ==
    <<{"login", "reverify"}, {"login", "reverify"}, {"reauth", "reverify"}>>

=============================================================================
