------------------------- MODULE ConnectionService -------------------------
(***************************************************************************)
(* What the connection side of the extension promises its callers, without *)
(* requests, prompts or callbacks: for each profile the session a window   *)
(* uses now, and the one the workspace will take up again after a reload.  *)
(*                                                                         *)
(* A session comes into use only by being remembered first, changes hands  *)
(* with no other profile, and is never swapped for another under a caller: *)
(* a profile is without a session in between.                              *)
(***************************************************************************)
CONSTANTS Profiles, Sessions, None

VARIABLES
    current,     \* the session this window uses for each profile, or None
    remembered   \* the session this workspace comes back to, or None

vars == <<current, remembered>>

Init ==
    /\ current = [p \in Profiles |-> None]
    /\ remembered = [p \in Profiles |-> None]

(* A new session is remembered for a profile that has none.                *)
Remember(p, s) ==
    /\ current[p] = None /\ remembered[p] = None
    /\ \A q \in Profiles : remembered[q] # s
    /\ remembered' = [remembered EXCEPT ![p] = s]
    /\ UNCHANGED current

(* The remembered session is taken into use.                               *)
Use(p) ==
    /\ current[p] = None /\ remembered[p] # None
    /\ current' = [current EXCEPT ![p] = remembered[p]]
    /\ UNCHANGED remembered

(* The window lets go of the session and can still come back to it.        *)
LetGo(p) ==
    /\ current[p] # None
    /\ current' = [current EXCEPT ![p] = None]
    /\ UNCHANGED remembered

(* The user ends it, or it is found gone or made for something else.       *)
End(p) ==
    /\ remembered[p] # None
    /\ current' = [current EXCEPT ![p] = None]
    /\ remembered' = [remembered EXCEPT ![p] = None]

Reload ==
    /\ current' = [p \in Profiles |-> None]
    /\ UNCHANGED remembered

Next ==
    \/ \E p \in Profiles : Use(p) \/ LetGo(p) \/ End(p)
    \/ \E p \in Profiles, s \in Sessions : Remember(p, s)
    \/ Reload

Spec == Init /\ [][Next]_vars

-----------------------------------------------------------------------------
(* The session in use is the remembered one, and no two profiles share it. *)
Promise ==
    /\ \A p \in Profiles : current[p] # None => current[p] = remembered[p]
    /\ \A p, q \in Profiles :
          remembered[p] # None /\ remembered[p] = remembered[q] => p = q
=============================================================================
