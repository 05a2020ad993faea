-------------------------- MODULE LogWindowProofs --------------------------
(* What the log window promises, for every bound and every page size.      *)
EXTENDS LogWindow, TLAPS

(* The counts move together, so the three conjuncts are proved as one.     *)
IInv == TypeOK /\ Accounted /\ Bounded

(* Nothing has been read, and nothing waits.                               *)
LEMMA InitInv == ASSUME PositiveBounds PROVE Init => IInv
  BY DEF PositiveBounds, Init, IInv, TypeOK, Accounted, Bounded

(* A page, a line shown and a loss told each keep the account and the      *)
(* bound; trimming happens inside the step that reads.                     *)
LEMMA NextInv == ASSUME PositiveBounds PROVE IInv /\ [Next]_vars => IInv'
<1> SUFFICES ASSUME IInv, [Next]_vars PROVE IInv'
  OBVIOUS
<1> USE DEF PositiveBounds, IInv, TypeOK, Accounted, Bounded
<1>1. ASSUME NEW n \in 0..Limit, NEW k \in 0..(read + n - low), Read(n, k)
      PROVE  IInv'
  <2>1. n \in Nat /\ k \in Nat /\ k <= read + n - low
    OBVIOUS
  <2>2. read' \in Nat /\ low' \in Nat /\ gap' \in Nat
    BY <1>1, <2>1 DEF Read
  <2>3. shown' + told' + gap' = low' /\ low' <= read'
    BY <1>1, <2>1 DEF Read
  <2>4. read' - low' <= MaxLines
    BY <1>1, <2>1 DEF Read
  <2> QED
    BY <1>1, <2>2, <2>3, <2>4 DEF Read
<1>2. CASE Show
  BY <1>2 DEF Show
<1>3. CASE Tell
  BY <1>3 DEF Tell
<1>4. CASE UNCHANGED vars
  BY <1>4 DEF vars
<1> QED
  BY <1>1, <1>2, <1>3, <1>4 DEF Next

(* Every line the stream read is shown, waiting, told lost or about to be, *)
(* exactly once: EventBuffer's account balances at every step.             *)
THEOREM WindowAccounts ==
    ASSUME PositiveBounds PROVE Spec => []Accounted
<1>1. IInv => Accounted
  BY DEF IInv
<1> QED
  BY InitInv, NextInv, <1>1, PTL DEF Spec

(* However slow the consumer, the lines that wait stay within the bound.   *)
THEOREM WindowIsBounded ==
    ASSUME PositiveBounds PROVE Spec => []Bounded
<1>1. IInv => Bounded
  BY DEF IInv
<1> QED
  BY InitInv, NextInv, <1>1, PTL DEF Spec

(* A consumer that has taken all there is has been shown, or told it lost, *)
(* each line that was read: what a slow one misses is never unannounced.   *)
THEOREM CaughtUpKnowsAll ==
    ASSUME PositiveBounds PROVE Spec => [](low = read /\ gap = 0 => shown + told = read)
<1>1. IInv => (low = read /\ gap = 0 => shown + told = read)
  BY DEF IInv, TypeOK, Accounted
<1> QED
  BY InitInv, NextInv, <1>1, PTL DEF Spec
=============================================================================
