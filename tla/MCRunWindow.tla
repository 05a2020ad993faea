---------------------------- MODULE MCRunWindow ----------------------------
(* Symmetry for TLC: objects and slots are told apart by identity alone.   *)
EXTENDS RunWindow, TLC

Objects == Permutations(Cmds) \cup Permutations(Sessions)
             \cup Permutations(Conns) \cup Permutations(Backends)
=============================================================================
