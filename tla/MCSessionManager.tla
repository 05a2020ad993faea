-------------------------- MODULE MCSessionManager --------------------------
(* Values for the constants of SessionManager: two deployments, of which   *)
(* the second does not list the context the first one has on its own.      *)
EXTENDS SessionManager, TLC

CONSTANTS e1, e2, x1, x2

MCOffered == (e1 :> {x1, x2}) @@ (e2 :> {x2})
MCOffered1 == e1 :> {x2}

SessionSymmetry == Permutations(Sessions)
CallSymmetry == Permutations(Sessions) \cup Permutations(Calls)
ProfileSymmetry == CallSymmetry \cup Permutations(Profiles)
=============================================================================
