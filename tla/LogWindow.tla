----------------------------- MODULE LogWindow -----------------------------
(***************************************************************************)
(* What the log stream promises about the lines it has read, whatever pace *)
(* its consumer keeps: each is shown, still waiting, or counted as lost,   *)
(* exactly once; what is lost is the oldest that waited; and the consumer  *)
(* is told of every loss before it sees the next line.                     *)
(*                                                                         *)
(* Lines are numbered as they are read, so the lines that wait are always  *)
(* low+1 .. read.                                                          *)
(***************************************************************************)
EXTENDS Naturals

CONSTANTS
    MaxLines,  \* lines that may wait
    Limit      \* lines a page may bring

(* streamJobLog refuses anything else of them (positiveInteger).           *)
PositiveBounds == MaxLines \in Nat \ {0} /\ Limit \in Nat \ {0}

VARIABLES
    read,    \* lines read so far
    low,     \* lines read that no longer wait
    shown,   \* lines the consumer was shown
    told,    \* lost lines the consumer was told of
    gap      \* lost lines it has not been told of yet

vars == <<read, low, shown, told, gap>>

Init == read = 0 /\ low = 0 /\ shown = 0 /\ told = 0 /\ gap = 0

(* A page of n lines arrives; the k oldest that wait make room.            *)
Read(n, k) ==
    /\ read + n - (low + k) <= MaxLines
    /\ read' = read + n
    /\ low' = low + k
    /\ gap' = gap + k
    /\ UNCHANGED <<shown, told>>

Show ==
    /\ gap = 0 /\ low < read
    /\ low' = low + 1
    /\ shown' = shown + 1
    /\ UNCHANGED <<read, told, gap>>

Tell ==
    /\ gap > 0
    /\ told' = told + gap
    /\ gap' = 0
    /\ UNCHANGED <<read, low, shown>>

Next ==
    \/ \E n \in 0..Limit : \E k \in 0..(read + n - low) : Read(n, k)
    \/ Show \/ Tell

Spec == Init /\ [][Next]_vars

-----------------------------------------------------------------------------
TypeOK == read \in Nat /\ low \in Nat /\ shown \in Nat /\ told \in Nat /\ gap \in Nat

(* Every line read is shown, told lost, about to be told lost, or waiting. *)
Accounted == shown + told + gap = low /\ low <= read

(* The lines that wait never outgrow the bound.                            *)
Bounded == read - low <= MaxLines
=============================================================================
