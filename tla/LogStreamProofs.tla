--------------------------- MODULE LogStreamProofs ---------------------------
(***************************************************************************)
(* What the log stream says of its end is so, every line of the log is     *)
(* shown, waiting or counted as lost where it was, and LogWindow is        *)
(* implemented: for logs, pages and buffers of any size.                   *)
(*                                                                         *)
(* In this order: the end; sums; what events of a sequence count for; what *)
(* trim(), a page and the consumer do to the buffer; the theorems.         *)
(***************************************************************************)
EXTENDS LogStream, FiniteSetTheorems, SequenceTheorems, WellFoundedInduction, TLAPS

(* The cursor is within the log and the drain's next link too.  The drain  *)
(* begins once the job is over, so that the log it reads does not grow.    *)
EndInv ==
    /\ written \in Nat /\ start \in 0..written /\ next \in 0..written \cup {None}
    /\ pc \in {"poll", "state", "first", "follow", "ended"}
    /\ pc \in {"first", "follow"} => job = "terminal"
    /\ pc = "follow" => next # None
    /\ pc = "ended" <=> outcome # None
    /\ outcome = "terminal" => job = "terminal" /\ start = written
    /\ told # "no" => cancelled /\ outcome \in {None, "cancelled"}

(* A page ends within the log, and is the last one if it has no next link. *)
LEMMA PageFits ==
    ASSUME written \in Nat, NEW from \in 0..written
    PROVE  /\ from + Available(from) \in 0..written
           /\ NextOf(from) \subseteq {from + Available(from), None}
           /\ None \in NextOf(from) => from + Available(from) = written
<1>1. Limit \in Nat
  BY LogAssumption
<1>2. Available(from) \in 0..(written - from)
  BY <1>1 DEF Available
<1>3. from + Available(from) \in 0..written
  BY <1>2
<1>4. NextOf(from) \subseteq {from + Available(from), None}
  BY DEF NextOf
<1>5. from + Available(from) # None
  BY <1>3, LogAssumption
<1>6. None \in NextOf(from) => from + Available(from) = written
  BY <1>2, <1>3, <1>5 DEF NextOf
<1>7. QED
  BY <1>3, <1>4, <1>6

(* A page of the drain: the last one ends the stream with the whole log.   *)
LEMMA DrainEnds ==
    ASSUME EndInv, job = "terminal", ~cancelled, pc # "ended", NEW from \in 0..written,
           start' = from + Available(from), \E link \in NextOf(from) : Drain(link),
           UNCHANGED <<written, job, cancelled, told>>
    PROVE  EndInv'
<1>1. PICK link \in NextOf(from) : Drain(link)
  OBVIOUS
<1>2. /\ start' \in 0..written /\ link \in 0..written \cup {None}
      /\ link = None => start' = written
  BY <1>1, PageFits DEF EndInv
<1>3. told = "no" /\ outcome = None
  BY DEF EndInv
<1>4. CASE link = None
  BY <1>1, <1>2, <1>3, <1>4, LogAssumption DEF EndInv, Drain, End
<1>5. CASE link # None
  BY <1>1, <1>2, <1>3, <1>5, LogAssumption DEF EndInv, Drain
<1>6. QED
  BY <1>4, <1>5

LEMMA PumpEnds ==
    ASSUME EndInv, Pump
    PROVE  EndInv'
<1>1. CASE RequestFails
  BY <1>1, LogAssumption DEF RequestFails, EndInv, End
<1>2. CASE NoticesCancel
  BY <1>2, LogAssumption DEF NoticesCancel, EndInv, End
<1>3. CASE PollPage
  <2>1. start' \in 0..written /\ pc' \in {"poll", "state"} /\ pc = "poll" /\ ~cancelled
        /\ UNCHANGED <<written, job, next, cancelled, outcome, told>>
    BY <1>3, PageFits DEF PollPage, EndInv
  <2>2. QED
    BY <2>1, LogAssumption DEF EndInv
<1>4. CASE StateRead
  BY <1>4 DEF StateRead, EndInv
<1>5. CASE DrainFirst
  <2>1. start \in 0..written /\ job = "terminal"
    BY <1>5 DEF DrainFirst, EndInv
  <2>2. QED
    BY <1>5, <2>1, DrainEnds DEF DrainFirst
<1>6. CASE DrainNext
  <2>1. next \in 0..written /\ job = "terminal"
    BY <1>6 DEF DrainNext, EndInv
  <2>2. QED
    BY <1>6, <2>1, DrainEnds DEF DrainNext
<1>7. CASE PagingDidNotEnd
  BY <1>7, LogAssumption DEF PagingDidNotEnd, EndInv, End
<1>8. QED
  BY <1>1, <1>2, <1>3, <1>4, <1>5, <1>6, <1>7 DEF Pump

LEMMA EndInvHolds == Spec => []EndInv
<1>1. Init => EndInv
  BY LogAssumption DEF Init, EndInv
<1>2. EndInv /\ [Next]_vars => EndInv'
  <2> SUFFICES ASSUME EndInv, [Next]_vars PROVE EndInv'
    OBVIOUS
  <2>1. CASE Pump
    BY <2>1, PumpEnds
  <2>2. CASE Take
    BY <2>2 DEF Take, EndInv
  <2>3. CASE JobWrites
    BY <2>3 DEF JobWrites, EndInv
  <2>4. CASE JobEnds
    BY <2>4 DEF JobEnds, EndInv
  <2>5. CASE Cancel
    BY <2>5 DEF Cancel, EndInv
  <2>6. CASE CancelAnswered
    BY <2>6 DEF CancelAnswered, EndInv
  <2>7. CASE CallerAborts
    BY <2>7 DEF CallerAborts, EndInv
  <2>8. CASE UNCHANGED vars
    BY <2>8 DEF vars, EndInv
  <2>9. QED
    BY <2>1, <2>2, <2>3, <2>4, <2>5, <2>6, <2>7, <2>8 DEF Next
<1>3. QED
  BY <1>1, <1>2, PTL DEF Spec

(* A stream that ended because the job did has read the whole log, and one *)
(* that somebody asked to stop ends as cancelled, whatever came back to    *)
(* the request it awaited.                                                 *)
THEOREM EndHolds == Spec => []EndIsTold
<1>1. EndInv => EndIsTold
  BY DEF EndInv, EndIsTold, TerminalIsComplete, CancelIsCancelled
<1>2. QED
  BY <1>1, EndInvHolds, PTL

-----------------------------------------------------------------------------
(* Sums.  SumFunctionOnSet takes the places in whatever order CHOOSE gives  *)
(* them; the sum is the same in any.                                        *)
LEMMA BySize ==
    ASSUME NEW S, IsFiniteSet(S), NEW P \in SUBSET SUBSET S,
           \A T \in SUBSET S :
              (\A U \in SUBSET S : Cardinality(U) < Cardinality(T) => U \in P) => T \in P
    PROVE  \A T \in SUBSET S : T \in P
<1> DEFINE Sizes == {Cardinality(T) : T \in (SUBSET S) \ P}
<1>1. \A T \in SUBSET S : Cardinality(T) \in Nat
  BY FS_Subset, FS_CardinalityType
<1>2. SUFFICES ASSUME Sizes # {} PROVE FALSE
  OBVIOUS
<1>3. PICK n \in Sizes : \A m \in Sizes : ~(<<m, n>> \in OpToRel(<, Nat))
  <2>1. Sizes \subseteq Nat
    BY <1>1
  <2>2. QED
    <3> HIDE DEF Sizes
    <3> QED BY <1>2, <2>1, NatLessThanWellFounded, WFMin
<1>4. PICK T \in (SUBSET S) \ P : n = Cardinality(T)
  OBVIOUS
<1>5. \A U \in SUBSET S : Cardinality(U) < Cardinality(T) => U \in P
  <2> SUFFICES ASSUME NEW U \in (SUBSET S) \ P, Cardinality(U) < Cardinality(T) PROVE FALSE
    OBVIOUS
  <2>1. Cardinality(U) \in Sizes /\ Cardinality(U) \in Nat /\ n \in Nat
    BY <1>1, <1>4
  <2>2. <<Cardinality(U), n>> \in OpToRel(<, Nat)
    BY <2>1, <1>4 DEF OpToRel
  <2>3. QED
    <3> HIDE DEF Sizes
    <3> QED BY <1>3, <2>1, <2>2
<1>6. QED
  BY <1>4, <1>5

Pick(T) == CHOOSE x \in T : TRUE
Adds(g, f, S) ==
    g[{}] = 0 /\ \A T \in SUBSET S : T # {} => g[T] = f[Pick(T)] + g[T \ {Pick(T)}]

LEMMA Smaller ==
    ASSUME NEW S, IsFiniteSet(S), NEW T \in SUBSET S, NEW x \in T
    PROVE  /\ T \ {x} \in SUBSET S /\ Cardinality(T \ {x}) < Cardinality(T)
           /\ Cardinality(T) \in Nat /\ Cardinality(T \ {x}) = Cardinality(T) - 1
<1>1. IsFiniteSet(T)
  BY FS_Subset
<1>2. Cardinality(T \ {x}) = Cardinality(T) - 1 /\ Cardinality(T) \in Nat
  BY <1>1, FS_RemoveElement, FS_CardinalityType
<1>3. QED
  BY <1>2

LEMMA PickIn == ASSUME NEW T, T # {} PROVE Pick(T) \in T
BY DEF Pick

(* Two ways to add agree.                                                  *)
LEMMA AddsOnce ==
    ASSUME NEW f, NEW S, IsFiniteSet(S), NEW g, NEW h, Adds(g, f, S), Adds(h, f, S)
    PROVE  \A T \in SUBSET S : g[T] = h[T]
<1> DEFINE P == {T \in SUBSET S : g[T] = h[T]}
<1>1. ASSUME NEW T \in SUBSET S, \A U \in SUBSET S : Cardinality(U) < Cardinality(T) => U \in P
      PROVE  T \in P
  <2>1. CASE T = {}
    BY <2>1 DEF Adds
  <2>2. CASE T # {}
    <3>1. Pick(T) \in T
      BY <2>2, PickIn
    <3>2. T \ {Pick(T)} \in P
      BY <1>1, <3>1, Smaller
    <3>3. g[T] = h[T]
      BY <2>2, <3>2 DEF Adds
    <3>4. QED
      BY <3>3
  <2>3. QED
    BY <2>1, <2>2
<1>2. P \in SUBSET SUBSET S
  OBVIOUS
<1>3. \A T \in SUBSET S : T \in P
  <2> HIDE DEF P
  <2> QED
    BY <1>1, <1>2, BySize
<1>4. QED
  BY <1>3

LEMMA ByNumber ==
    ASSUME NEW P \in SUBSET Nat, 0 \in P, \A n \in P : n + 1 \in P
    PROVE  \A n \in Nat : n \in P
<1> DEFINE Rest == Nat \ P
<1>1. SUFFICES ASSUME Rest # {} PROVE FALSE
  OBVIOUS
<1>2. PICK n \in Rest : \A m \in Rest : ~(<<m, n>> \in OpToRel(<, Nat))
  <2>1. Rest \subseteq Nat
    OBVIOUS
  <2>2. QED
    <3> HIDE DEF Rest
    <3> QED BY <1>1, <2>1, NatLessThanWellFounded, WFMin
<1>3. n \in Nat /\ n # 0 /\ n - 1 \in Nat
  OBVIOUS
<1>4. <<n - 1, n>> \in OpToRel(<, Nat)
  BY <1>3 DEF OpToRel
<1>5. n - 1 \in P
  BY <1>2, <1>3, <1>4
<1>6. QED
  BY <1>3, <1>5

LEMMA AddsExists ==
    ASSUME NEW f, NEW S, IsFiniteSet(S), \A x \in S : f[x] \in Nat
    PROVE  \E g \in [SUBSET S -> Nat] : Adds(g, f, S)
<1> DEFINE Good(g, n) ==
      g[{}] = 0 /\ \A T \in SUBSET S :
         T # {} /\ Cardinality(T) <= n => g[T] = f[Pick(T)] + g[T \ {Pick(T)}]
<1> DEFINE Reaches(n) == \E g \in [SUBSET S -> Nat] : Good(g, n)
<1> DEFINE P == {n \in Nat : Reaches(n)}
<1>1. \A T \in SUBSET S : Cardinality(T) \in Nat /\ (Cardinality(T) = 0 <=> T = {})
  BY FS_Subset, FS_CardinalityType, FS_EmptySet
<1>2. 0 \in P
  <2> DEFINE z == [T \in SUBSET S |-> 0]
  <2>1. z \in [SUBSET S -> Nat] /\ Good(z, 0)
    BY <1>1
  <2>2. QED
    BY <2>1
<1>3. ASSUME NEW n \in P PROVE n + 1 \in P
  <2>1. PICK g \in [SUBSET S -> Nat] : Good(g, n)
    BY <1>3
  <2> DEFINE h == [T \in SUBSET S |-> IF Cardinality(T) <= n THEN g[T]
                                      ELSE f[Pick(T)] + g[T \ {Pick(T)}]]
  <2>2. ASSUME NEW T \in SUBSET S, T # {}
        PROVE  /\ Pick(T) \in T /\ f[Pick(T)] \in Nat /\ T \ {Pick(T)} \in SUBSET S
               /\ Cardinality(T \ {Pick(T)}) = Cardinality(T) - 1
               /\ g[T \ {Pick(T)}] \in Nat
    <3>1. Pick(T) \in T
      BY <2>2, PickIn
    <3>2. T \ {Pick(T)} \in SUBSET S
      BY <3>1
    <3>3. QED
      BY <3>1, <3>2, Smaller
  <2>3. n \in Nat
    OBVIOUS
  <2>4. h \in [SUBSET S -> Nat]
    <3>1. ASSUME NEW T \in SUBSET S PROVE h[T] \in Nat
      <4>1. T = {} => Cardinality(T) <= n
        BY <1>1, <2>3
      <4>2. QED
        BY <4>1, <2>2
    <3>2. QED
      BY <3>1
  <2>5. h[{}] = 0
    BY <1>1, <2>1, <2>3
  <2>6. ASSUME NEW T \in SUBSET S, T # {}, Cardinality(T) <= n + 1
        PROVE  h[T] = f[Pick(T)] + h[T \ {Pick(T)}]
    <3>1. Cardinality(T) \in Nat /\ Cardinality(T \ {Pick(T)}) = Cardinality(T) - 1
          /\ T \ {Pick(T)} \in SUBSET S
      BY <1>1, <2>2, <2>6
    <3>2. h[T \ {Pick(T)}] = g[T \ {Pick(T)}]
      BY <3>1, <2>3, <2>6
    <3>3. h[T] = f[Pick(T)] + g[T \ {Pick(T)}]
      <4>1. CASE Cardinality(T) <= n
        BY <4>1, <2>1, <2>6
      <4>2. CASE ~(Cardinality(T) <= n)
        BY <4>2
      <4>3. QED
        BY <4>1, <4>2
    <3>4. QED
      BY <3>2, <3>3
  <2>7. Good(h, n + 1)
    <3> HIDE DEF h
    <3> QED BY <2>5, <2>6
  <2>8. Reaches(n + 1)
    <3> HIDE DEF h
    <3> WITNESS h \in [SUBSET S -> Nat]
    <3> QED BY <2>7
  <2>9. n + 1 \in Nat
    BY <2>3
  <2>10. QED
    <3> HIDE DEF Reaches
    <3> QED BY <2>8, <2>9
<1>4. Cardinality(S) \in P
  <2>1. P \in SUBSET Nat
    OBVIOUS
  <2>2. \A n \in Nat : n \in P
    <3> HIDE DEF P
    <3> QED BY <1>2, <1>3, <2>1, ByNumber
  <2>3. QED
    BY <1>1, <2>2
<1>5. PICK g \in [SUBSET S -> Nat] : Good(g, Cardinality(S))
  BY <1>4
<1>6. \A T \in SUBSET S : Cardinality(T) <= Cardinality(S)
  BY FS_Subset
<1>7. Adds(g, f, S)
  BY <1>5, <1>6 DEF Adds
<1>8. QED
  BY <1>7

(* What SumFunctionOnSet adds up.                                           *)
LEMMA SumAdds ==
    ASSUME NEW f, NEW S, IsFiniteSet(S), \A x \in S : f[x] \in Nat
    PROVE  \E g \in [SUBSET S -> Nat] : Adds(g, f, S) /\ SumFunctionOnSet(f, S) = g[S]
<1> DEFINE Equals(g) ==
      g = [T \in SUBSET S |-> IF T = {} THEN 0 ELSE LET x == Pick(T) IN f[x] + g[T \ {x}]]
<1>1. SumFunctionOnSet(f, S) = (CHOOSE g : Equals(g))[S]
  BY DEF SumFunctionOnSet, FoldFunctionOnSet, MapThenFoldSet, Pick
<1>2. PICK h \in [SUBSET S -> Nat] : Adds(h, f, S)
  BY AddsExists
<1>3. Equals(h)
  <2>1. \A T \in SUBSET S :
          h[T] = IF T = {} THEN 0 ELSE LET x == Pick(T) IN f[x] + h[T \ {x}]
    BY <1>2 DEF Adds
  <2>2. QED
    BY <2>1
<1> DEFINE g == CHOOSE k : Equals(k)
<1>4. Equals(g)
  BY <1>3
<1>5. Adds(g, f, S)
  <2> HIDE DEF g
  <2>1. \A T \in SUBSET S :
          g[T] = IF T = {} THEN 0 ELSE LET x == Pick(T) IN f[x] + g[T \ {x}]
    BY <1>4
  <2>2. QED
    BY <2>1 DEF Adds
<1>6. g[S] = h[S]
  <2> HIDE DEF g
  <2> QED BY <1>2, <1>5, AddsOnce
<1>7. QED
  BY <1>1, <1>2, <1>6

(* Any element may be the last one added.                                  *)
AddsAny(g, f, S) == \A T \in SUBSET S : \A x \in T : g[T] = f[x] + g[T \ {x}]
LEMMA AddsLast ==
    ASSUME NEW f, NEW S, IsFiniteSet(S), \A x \in S : f[x] \in Nat,
           NEW g \in [SUBSET S -> Nat], Adds(g, f, S)
    PROVE  AddsAny(g, f, S)
<1> DEFINE FromAny(T) == \A x \in T : g[T] = f[x] + g[T \ {x}]
<1> DEFINE P == {T \in SUBSET S : FromAny(T)}
<1>1. ASSUME NEW T \in SUBSET S, \A U \in SUBSET S : Cardinality(U) < Cardinality(T) => U \in P
      PROVE  FromAny(T)
  <2> SUFFICES ASSUME NEW x \in T PROVE g[T] = f[x] + g[T \ {x}]
    OBVIOUS
  <2> DEFINE y == Pick(T)
  <2>1. y \in T /\ g[T] = f[y] + g[T \ {y}]
    BY PickIn DEF Adds
  <2>2. CASE x = y
    BY <2>1, <2>2
  <2>3. CASE x # y
    <3> HIDE DEF y
    <3> DEFINE C == (T \ {x}) \ {y}
    <3>1. T \ {y} \in P /\ T \ {x} \in P
      <4>1. ASSUME NEW z \in T PROVE T \ {z} \in P
        <5>1. T \ {z} \in SUBSET S /\ Cardinality(T \ {z}) < Cardinality(T)
          BY Smaller
        <5>2. QED
          <6> HIDE DEF P
          <6> QED BY <1>1, <5>1
      <4>2. QED
        <5> HIDE DEF P
        <5> QED BY <2>1, <4>1
    <3>2. x \in T \ {y} /\ y \in T \ {x} /\ C = (T \ {y}) \ {x} /\ C \in SUBSET S
      BY <2>1, <2>3
    <3>3. g[T \ {y}] = f[x] + g[C] /\ g[T \ {x}] = f[y] + g[C]
      BY <3>1, <3>2
    <3>4. f[x] \in Nat /\ f[y] \in Nat /\ g[C] \in Nat
      BY <2>1, <3>2
    <3>5. QED
      <4> HIDE DEF C
      <4> QED BY <2>1, <3>3, <3>4
  <2>4. QED
    BY <2>2, <2>3
<1>2. \A T \in SUBSET S : T \in P
  <2>1. P \in SUBSET SUBSET S
    OBVIOUS
  <2>2. \A T \in SUBSET S :
           (\A U \in SUBSET S : Cardinality(U) < Cardinality(T) => U \in P) => T \in P
    <3> HIDE DEF FromAny
    <3> QED BY <1>1
  <2>3. QED
    <3> HIDE DEF P
    <3> QED BY <2>1, <2>2, BySize
<1>3. QED
  BY <1>2 DEF AddsAny

LEMMA SumNone == \A f : SumFunctionOnSet(f, {}) = 0
<1> SUFFICES ASSUME NEW f PROVE SumFunctionOnSet(f, {}) = 0
  OBVIOUS
<1>1. IsFiniteSet({})
  BY FS_EmptySet
<1>2. PICK g \in [SUBSET {} -> Nat] : Adds(g, f, {}) /\ SumFunctionOnSet(f, {}) = g[{}]
  BY <1>1, SumAdds
<1>3. QED
  BY <1>2 DEF Adds

Less(f, S, x) ==
    /\ SumFunctionOnSet(f, S) = f[x] + SumFunctionOnSet(f, S \ {x})
    /\ SumFunctionOnSet(f, S \ {x}) \in Nat

LEMMA SumLess ==
    ASSUME NEW f, NEW S, IsFiniteSet(S), \A x \in S : f[x] \in Nat, NEW x \in S
    PROVE  Less(f, S, x)
<1> DEFINE R == S \ {x}
<1>1. IsFiniteSet(R) /\ R \in SUBSET S
  BY FS_RemoveElement
<1>2. PICK g \in [SUBSET S -> Nat] : Adds(g, f, S) /\ SumFunctionOnSet(f, S) = g[S]
  BY SumAdds
<1>3. PICK h \in [SUBSET R -> Nat] : Adds(h, f, R) /\ SumFunctionOnSet(f, R) = h[R]
  <2>1. \A y \in R : f[y] \in Nat
    OBVIOUS
  <2>2. QED
    <3> HIDE DEF R
    <3> QED BY <1>1, <2>1, SumAdds
<1>4. g[R] = h[R]
  <2>1. Adds(g, f, R)
    BY <1>2 DEF Adds
  <2>2. QED
    <3> HIDE DEF R
    <3> QED BY <1>1, <1>3, <2>1, AddsOnce
<1>5. g[S] = f[x] + g[R]
  <2>1. Adds(g, f, S)
    BY <1>2
  <2>2. AddsAny(g, f, S)
    BY <2>1, AddsLast
  <2>3. QED
    BY <2>2 DEF AddsAny
<1>6. QED
  BY <1>2, <1>3, <1>4, <1>5 DEF Less

LEMMA SumNat ==
    ASSUME NEW f, NEW S, IsFiniteSet(S), \A x \in S : f[x] \in Nat
    PROVE  SumFunctionOnSet(f, S) \in Nat
<1>1. PICK g \in [SUBSET S -> Nat] : Adds(g, f, S) /\ SumFunctionOnSet(f, S) = g[S]
  BY SumAdds
<1>2. QED
  BY <1>1

LEMMA SumBoth ==
    ASSUME NEW f, NEW S, NEW T, IsFiniteSet(S), IsFiniteSet(T), S \cap T = {},
           \A x \in S \cup T : f[x] \in Nat
    PROVE  SumFunctionOnSet(f, S \cup T) = SumFunctionOnSet(f, S) + SumFunctionOnSet(f, T)
<1> DEFINE Adding(U) ==
      SumFunctionOnSet(f, S \cup U) = SumFunctionOnSet(f, S) + SumFunctionOnSet(f, U)
<1> DEFINE P == {U \in SUBSET T : Adding(U)}
<1>1. ASSUME NEW U \in SUBSET T, \A V \in SUBSET T : Cardinality(V) < Cardinality(U) => V \in P
      PROVE  Adding(U)
  <2>1. IsFiniteSet(U) /\ IsFiniteSet(S \cup U)
    BY FS_Subset, FS_Union
  <2>2. SumFunctionOnSet(f, S) \in Nat
    BY SumNat
  <2>3. CASE U = {}
    <3>1. S \cup U = S
      BY <2>3
    <3>2. QED
      BY <2>2, <2>3, <3>1, SumNone
  <2>4. CASE U # {}
    <3>1. PICK x \in U : TRUE
      BY <2>4
    <3>2. Adding(U \ {x})
      <4>1. U \ {x} \in SUBSET T /\ Cardinality(U \ {x}) < Cardinality(U)
        BY Smaller
      <4>2. U \ {x} \in P
        BY <1>1, <4>1
      <4>3. QED
        BY <4>2
    <3>3. (S \cup U) \ {x} = S \cup (U \ {x}) /\ x \in S \cup U
      OBVIOUS
    <3>4. /\ SumFunctionOnSet(f, U) = f[x] + SumFunctionOnSet(f, U \ {x})
          /\ SumFunctionOnSet(f, U \ {x}) \in Nat
      BY <2>1, SumLess DEF Less
    <3>5. SumFunctionOnSet(f, S \cup U) = f[x] + SumFunctionOnSet(f, S \cup (U \ {x}))
      BY <2>1, <3>3, SumLess DEF Less
    <3>6. QED
      BY <2>2, <3>2, <3>4, <3>5
  <2>5. QED
    BY <2>3, <2>4
<1>2. T \in P
  <2>1. P \in SUBSET SUBSET T
    OBVIOUS
  <2>2. \A U \in SUBSET T :
           (\A V \in SUBSET T : Cardinality(V) < Cardinality(U) => V \in P) => U \in P
    <3> HIDE DEF Adding
    <3> QED BY <1>1
  <2>3. \A U \in SUBSET T : U \in P
    <3> HIDE DEF P
    <3> QED BY <2>1, <2>2, BySize
  <2>4. QED
    BY <2>3
<1>3. QED
  BY <1>2

(* The same values at places further on add up to the same.                *)
Shifted(S, k) == {i + k : i \in S}

LEMMA ShiftedLess ==
    ASSUME NEW S \in SUBSET Nat, NEW k \in Nat, NEW x \in S
    PROVE  /\ x + k \in Shifted(S, k)
           /\ Shifted(S, k) \ {x + k} = Shifted(S \ {x}, k)
           /\ Shifted(S, k) \in SUBSET Nat
BY DEF Shifted

LEMMA ShiftedFinite ==
    ASSUME NEW n \in Nat, NEW S \in SUBSET (1..n), NEW k \in Nat
    PROVE  IsFiniteSet(S) /\ IsFiniteSet(Shifted(S, k)) /\ S \in SUBSET Nat
<1>1. IsFiniteSet(1..n) /\ IsFiniteSet(1..(n + k))
  BY FS_Interval
<1>2. Shifted(S, k) \in SUBSET (1..(n + k))
  BY DEF Shifted
<1>3. IsFiniteSet(S)
  BY <1>1, FS_Subset
<1>4. IsFiniteSet(Shifted(S, k))
  <2> HIDE DEF Shifted
  <2> QED BY <1>1, <1>2, FS_Subset
<1>5. QED
  BY <1>3, <1>4

Repeats(f, g, S, k) == \A i \in S : g[i] \in Nat /\ f[i + k] = g[i]

LEMMA SumShift ==
    ASSUME NEW n \in Nat, NEW S \in SUBSET (1..n), NEW k \in Nat, NEW f, NEW g,
           Repeats(f, g, S, k)
    PROVE  SumFunctionOnSet(f, Shifted(S, k)) = SumFunctionOnSet(g, S)
<1> DEFINE Same(T) == SumFunctionOnSet(f, Shifted(T, k)) = SumFunctionOnSet(g, T)
<1> DEFINE P == {T \in SUBSET S : Same(T)}
<1>1. IsFiniteSet(S)
  BY ShiftedFinite
<1>2. ASSUME NEW T \in SUBSET S, \A U \in SUBSET S : Cardinality(U) < Cardinality(T) => U \in P
      PROVE  Same(T)
  <2>1. CASE T = {}
    <3>1. Shifted(T, k) = {}
      BY <2>1 DEF Shifted
    <3>2. QED
      BY <2>1, <3>1, SumNone
  <2>2. CASE T # {}
    <3>1. PICK x \in T : TRUE
      BY <2>2
    <3>2. T \in SUBSET (1..n) /\ T \in SUBSET Nat
      OBVIOUS
    <3>3. IsFiniteSet(T) /\ IsFiniteSet(Shifted(T, k))
      BY <3>2, ShiftedFinite
    <3>4. Same(T \ {x})
      <4>1. T \ {x} \in SUBSET S /\ Cardinality(T \ {x}) < Cardinality(T)
        BY <1>1, Smaller
      <4>2. T \ {x} \in P
        BY <1>2, <4>1
      <4>3. QED
        BY <4>2
    <3>5. SumFunctionOnSet(g, T) = g[x] + SumFunctionOnSet(g, T \ {x})
      <4>1. \A y \in T : g[y] \in Nat
        BY DEF Repeats
      <4>2. IsFiniteSet(T)
        BY <3>3
      <4>3. Less(g, T, x)
        BY <4>1, <4>2, SumLess
      <4>4. QED
        BY <4>3 DEF Less
    <3>6. SumFunctionOnSet(f, Shifted(T, k))
             = f[x + k] + SumFunctionOnSet(f, Shifted(T \ {x}, k))
      <4>1. x + k \in Shifted(T, k) /\ Shifted(T, k) \ {x + k} = Shifted(T \ {x}, k)
        BY <3>2, ShiftedLess
      <4>2. \A j \in Shifted(T, k) : f[j] \in Nat
        BY DEF Shifted, Repeats
      <4>3. Less(f, Shifted(T, k), x + k)
        BY <3>3, <4>1, <4>2, SumLess
      <4>4. QED
        BY <4>1, <4>3 DEF Less
    <3>7. f[x + k] = g[x]
      BY DEF Repeats
    <3>8. QED
      BY <3>4, <3>5, <3>6, <3>7
  <2>3. QED
    BY <2>1, <2>2
<1>3. \A T \in SUBSET S : T \in P
  <2>1. P \in SUBSET SUBSET S
    OBVIOUS
  <2>2. \A T \in SUBSET S :
           (\A U \in SUBSET S : Cardinality(U) < Cardinality(T) => U \in P) => T \in P
    <3> HIDE DEF Same
    <3> QED BY <1>2
  <2>3. QED
    <3> HIDE DEF P
    <3> QED BY <1>1, <2>1, <2>2, BySize
<1>4. QED
  BY <1>3

LEMMA SumOnes ==
    ASSUME NEW S, IsFiniteSet(S), NEW f, \A x \in S : f[x] = 1
    PROVE  SumFunctionOnSet(f, S) = Cardinality(S)
<1> DEFINE Counts(T) == SumFunctionOnSet(f, T) = Cardinality(T)
<1> DEFINE P == {T \in SUBSET S : Counts(T)}
<1>1. ASSUME NEW T \in SUBSET S, \A U \in SUBSET S : Cardinality(U) < Cardinality(T) => U \in P
      PROVE  Counts(T)
  <2>1. CASE T = {}
    BY <2>1, SumNone, FS_EmptySet
  <2>2. CASE T # {}
    <3>1. PICK x \in T : TRUE
      BY <2>2
    <3>2. T \ {x} \in SUBSET S /\ Cardinality(T \ {x}) < Cardinality(T)
          /\ Cardinality(T) \in Nat /\ Cardinality(T \ {x}) = Cardinality(T) - 1
      BY Smaller
    <3>3. T \ {x} \in P
      BY <1>1, <3>2
    <3>4. SumFunctionOnSet(f, T) = f[x] + SumFunctionOnSet(f, T \ {x})
      <4>1. IsFiniteSet(T) /\ \A y \in T : f[y] \in Nat
        BY FS_Subset
      <4>2. QED
        BY <4>1, SumLess DEF Less
    <3>5. f[x] = 1 /\ SumFunctionOnSet(f, T \ {x}) = Cardinality(T \ {x})
      BY <3>3
    <3>6. QED
      BY <3>2, <3>4, <3>5
  <2>3. QED
    BY <2>1, <2>2
<1>2. \A T \in SUBSET S : T \in P
  <2>1. P \in SUBSET SUBSET S
    OBVIOUS
  <2>2. \A T \in SUBSET S :
           (\A U \in SUBSET S : Cardinality(U) < Cardinality(T) => U \in P) => T \in P
    <3> HIDE DEF Counts
    <3> QED BY <1>1
  <2>3. QED
    <3> HIDE DEF P
    <3> QED BY <2>1, <2>2, BySize
<1>3. QED
  BY <1>2

-----------------------------------------------------------------------------
(* What events at some places of a sequence count for.                     *)
Counts == [lines : Nat, characters : Nat]
LinesAt(q) == [i \in DOMAIN q |-> q[i].lines]
CharactersAt(q) == [i \in DOMAIN q |-> q[i].characters]

LEMMA TallyIs ==
    ASSUME NEW q, NEW S
    PROVE  Tally(q, S) = [lines |-> SumFunctionOnSet(LinesAt(q), S),
                          characters |-> SumFunctionOnSet(CharactersAt(q), S)]
BY DEF Tally, LinesAt, CharactersAt

LEMMA EventsAre ==
    ASSUME NEW q \in Seq(Event)
    PROVE  /\ Len(q) \in Nat /\ DOMAIN q = 1..Len(q)
           /\ \A i \in 1..Len(q) :
                /\ q[i] \in Event
                /\ LinesAt(q)[i] = q[i].lines /\ q[i].lines \in Nat
                /\ CharactersAt(q)[i] = q[i].characters /\ q[i].characters \in Nat
<1>1. Len(q) \in Nat /\ DOMAIN q = 1..Len(q) /\ \A i \in 1..Len(q) : q[i] \in Event
  OBVIOUS
<1>2. \A e \in Event : e.lines \in Nat /\ e.characters \in Nat
  BY DEF Event
<1>3. QED
  BY <1>1, <1>2 DEF LinesAt, CharactersAt

LEMMA PlacesFinite ==
    ASSUME NEW q \in Seq(Event), NEW S \in SUBSET (1..Len(q))
    PROVE  IsFiniteSet(S)
<1>1. IsFiniteSet(1..Len(q))
  <2>1. Len(q) \in Int /\ 1 \in Int
    BY EventsAre
  <2>2. QED
    BY <2>1, FS_Interval
<1>2. QED
  BY <1>1, FS_Subset

LEMMA TallyNat ==
    ASSUME NEW q \in Seq(Event), NEW S \in SUBSET (1..Len(q))
    PROVE  Tally(q, S) \in Counts
<1>1. IsFiniteSet(S)
  BY PlacesFinite
<1>2. /\ \A i \in S : LinesAt(q)[i] \in Nat
      /\ \A i \in S : CharactersAt(q)[i] \in Nat
  BY EventsAre
<1>3. SumFunctionOnSet(LinesAt(q), S) \in Nat
  BY <1>1, <1>2, SumNat
<1>4. SumFunctionOnSet(CharactersAt(q), S) \in Nat
  BY <1>1, <1>2, SumNat
<1>5. QED
  BY <1>3, <1>4, TallyIs DEF Counts

LEMMA TallyNone == \A q : Tally(q, {}) = NoTally
BY SumNone DEF Tally, NoTally

LEMMA TallyBoth ==
    ASSUME NEW q \in Seq(Event), NEW S \in SUBSET (1..Len(q)), NEW T \in SUBSET (1..Len(q)),
           S \cap T = {}
    PROVE  Tally(q, S \cup T) = Plus(Tally(q, S), Tally(q, T))
<1>1. IsFiniteSet(S) /\ IsFiniteSet(T)
  BY PlacesFinite
<1>2. /\ \A i \in S \cup T : LinesAt(q)[i] \in Nat
      /\ \A i \in S \cup T : CharactersAt(q)[i] \in Nat
  BY EventsAre
<1>3. SumFunctionOnSet(LinesAt(q), S \cup T)
        = SumFunctionOnSet(LinesAt(q), S) + SumFunctionOnSet(LinesAt(q), T)
  BY <1>1, <1>2, SumBoth
<1>4. SumFunctionOnSet(CharactersAt(q), S \cup T)
        = SumFunctionOnSet(CharactersAt(q), S) + SumFunctionOnSet(CharactersAt(q), T)
  BY <1>1, <1>2, SumBoth
<1>5. QED
  BY <1>3, <1>4, TallyIs DEF Plus

LEMMA TallyShift ==
    ASSUME NEW q \in Seq(Event), NEW r \in Seq(Event), NEW S \in SUBSET (1..Len(r)),
           NEW k \in Nat, \A i \in S : i + k \in 1..Len(q) /\ q[i + k] = r[i]
    PROVE  Tally(q, Shifted(S, k)) = Tally(r, S)
<1>1. Len(r) \in Nat
  BY EventsAre
<1>2. ASSUME NEW i \in S
      PROVE  /\ LinesAt(r)[i] \in Nat /\ LinesAt(q)[i + k] = LinesAt(r)[i]
             /\ CharactersAt(r)[i] \in Nat /\ CharactersAt(q)[i + k] = CharactersAt(r)[i]
  <2>1. /\ LinesAt(r)[i] = r[i].lines /\ r[i].lines \in Nat
        /\ CharactersAt(r)[i] = r[i].characters /\ r[i].characters \in Nat
    BY EventsAre
  <2>2. i + k \in 1..Len(q) /\ q[i + k] = r[i]
    OBVIOUS
  <2>3. LinesAt(q)[i + k] = q[i + k].lines /\ CharactersAt(q)[i + k] = q[i + k].characters
    BY <2>2, EventsAre
  <2>4. QED
    BY <2>1, <2>2, <2>3
<1>3. Repeats(LinesAt(q), LinesAt(r), S, k) /\ Repeats(CharactersAt(q), CharactersAt(r), S, k)
  BY <1>2 DEF Repeats
<1>4. SumFunctionOnSet(LinesAt(q), Shifted(S, k)) = SumFunctionOnSet(LinesAt(r), S)
  BY <1>1, <1>3, SumShift
<1>5. SumFunctionOnSet(CharactersAt(q), Shifted(S, k)) = SumFunctionOnSet(CharactersAt(r), S)
  BY <1>1, <1>3, SumShift
<1>6. QED
  BY <1>4, <1>5, TallyIs

LEMMA TallyOne ==
    ASSUME NEW q \in Seq(Event), NEW i \in 1..Len(q)
    PROVE  Tally(q, {i}) = [lines |-> q[i].lines, characters |-> q[i].characters]
<1>1. IsFiniteSet({i}) /\ {i} \ {i} = {}
  BY FS_Singleton
<1>2. /\ LinesAt(q)[i] = q[i].lines /\ q[i].lines \in Nat
      /\ CharactersAt(q)[i] = q[i].characters /\ q[i].characters \in Nat
  BY EventsAre
<1>3. Less(LinesAt(q), {i}, i) /\ Less(CharactersAt(q), {i}, i)
  <2>1. /\ \A j \in {i} : LinesAt(q)[j] \in Nat
        /\ \A j \in {i} : CharactersAt(q)[j] \in Nat
    BY <1>2
  <2>2. QED
    BY <1>1, <2>1, SumLess
<1>4. /\ SumFunctionOnSet(LinesAt(q), {i}) = q[i].lines
      /\ SumFunctionOnSet(CharactersAt(q), {i}) = q[i].characters
  <2>1. /\ SumFunctionOnSet(LinesAt(q), {i} \ {i}) = 0
        /\ SumFunctionOnSet(CharactersAt(q), {i} \ {i}) = 0
    BY <1>1, SumNone
  <2>2. /\ SumFunctionOnSet(LinesAt(q), {i}) = LinesAt(q)[i] + 0
        /\ SumFunctionOnSet(CharactersAt(q), {i}) = CharactersAt(q)[i] + 0
    BY <1>3, <2>1 DEF Less
  <2>3. QED
    BY <1>2, <2>2
<1>5. QED
  BY <1>4, TallyIs

(* A sequence that is another one after one more.                          *)
LEMMA JoinedIs ==
    ASSUME NEW a \in Seq(Event), NEW b \in Seq(Event)
    PROVE  /\ a \o b \in Seq(Event) /\ Len(a \o b) = Len(a) + Len(b)
           /\ \A i \in 1..Len(a) : (a \o b)[i] = a[i] /\ i \in 1..Len(a \o b)
           /\ \A i \in 1..Len(b) : i + Len(a) \in 1..Len(a \o b) /\ (a \o b)[i + Len(a)] = b[i]
           /\ \A i \in 1..Len(a \o b) :
                i \in 1..Len(a) \/ (i > Len(a) /\ i - Len(a) \in 1..Len(b))
<1>1. Len(a) \in Nat /\ Len(b) \in Nat
  OBVIOUS
<1>2. QED
  BY <1>1

LEMMA TallyJoined ==
    ASSUME NEW a \in Seq(Event), NEW b \in Seq(Event),
           NEW S \in SUBSET (1..Len(a)), NEW T \in SUBSET (1..Len(b))
    PROVE  Tally(a \o b, S \cup Shifted(T, Len(a))) = Plus(Tally(a, S), Tally(b, T))
<1> DEFINE c == a \o b
<1>1. c \in Seq(Event) /\ Len(c) = Len(a) + Len(b) /\ Len(a) \in Nat /\ Len(b) \in Nat
  BY JoinedIs, EventsAre
<1>2. S \in SUBSET (1..Len(c)) /\ Shifted(T, Len(a)) \in SUBSET (1..Len(c))
      /\ S \cap Shifted(T, Len(a)) = {}
  BY <1>1 DEF Shifted
<1>3. Tally(c, Shifted(T, Len(a))) = Tally(b, T)
  <2>1. \A i \in T : i + Len(a) \in 1..Len(c) /\ c[i + Len(a)] = b[i]
    BY JoinedIs
  <2>2. QED
    <3> HIDE DEF c
    <3> QED BY <1>1, <2>1, TallyShift
<1>4. Tally(c, S) = Tally(a, S)
  <2>1. Shifted(S, 0) = S
    <3>1. \A i \in S : i + 0 = i
      BY <1>1
    <3>2. QED
      BY <3>1 DEF Shifted
  <2>2. \A i \in S : i + 0 \in 1..Len(c) /\ c[i + 0] = a[i]
    BY JoinedIs
  <2>3. QED
    <3> HIDE DEF c
    <3> QED BY <1>1, <2>1, <2>2, TallyShift
<1>5. Tally(c, S \cup Shifted(T, Len(a))) = Plus(Tally(c, S), Tally(c, Shifted(T, Len(a))))
  <2> HIDE DEF c
  <2> QED BY <1>1, <1>2, TallyBoth
<1>6. QED
  BY <1>3, <1>4, <1>5

LEMMA PlusOf ==
    ASSUME NEW x \in Counts, NEW y \in Counts
    PROVE  /\ Plus(x, y) \in Counts /\ Plus(x, NoTally) = x /\ Plus(NoTally, x) = x
           /\ Plus(x, y).lines = x.lines + y.lines
           /\ Plus(x, y).characters = x.characters + y.characters
           /\ Minus(Plus(x, y), x) = y
           /\ x.lines \in Nat /\ x.characters \in Nat
BY DEF Plus, Minus, NoTally, Counts

LEMMA PlusAgain == \A x, y, z \in Counts : Plus(x, Plus(y, z)) = Plus(Plus(x, y), z)
BY DEF Plus, Counts

LEMMA PlusLines ==
    /\ \A x, y : Plus(x, y).lines = x.lines + y.lines
    /\ \A x \in Counts : x.lines \in Nat
BY DEF Plus, Counts

(* A sequence counts for its lines, for its markers, and for both.         *)
OfLines(q) == Tally(q, LinesIn(q))
OfMarkers(q) == Tally(q, MarkersIn(q))
OfAll(q) == Tally(q, 1..Len(q))

LEMMA PartsAre ==
    ASSUME NEW q \in Seq(Event)
    PROVE  /\ LinesIn(q) \in SUBSET (1..Len(q)) /\ MarkersIn(q) \in SUBSET (1..Len(q))
           /\ \A i \in 1..Len(q) : (i \in LinesIn(q) <=> IsLine(q[i]))
                                   /\ (i \in MarkersIn(q) <=> ~IsLine(q[i]))
           /\ OfLines(q) \in Counts /\ OfMarkers(q) \in Counts /\ OfAll(q) \in Counts
           /\ OfAll(q) = Plus(OfLines(q), OfMarkers(q))
<1>1. DOMAIN q = 1..Len(q)
  BY EventsAre
<1>2. /\ LinesIn(q) \in SUBSET (1..Len(q)) /\ MarkersIn(q) \in SUBSET (1..Len(q))
      /\ LinesIn(q) \cap MarkersIn(q) = {} /\ LinesIn(q) \cup MarkersIn(q) = 1..Len(q)
      /\ \A i \in 1..Len(q) : (i \in LinesIn(q) <=> IsLine(q[i]))
                              /\ (i \in MarkersIn(q) <=> ~IsLine(q[i]))
  BY <1>1 DEF LinesIn, MarkersIn
<1>3. OfLines(q) \in Counts /\ OfMarkers(q) \in Counts /\ OfAll(q) \in Counts
  BY <1>2, TallyNat DEF OfLines, OfMarkers, OfAll
<1>4. OfAll(q) = Plus(OfLines(q), OfMarkers(q))
  BY <1>2, TallyBoth DEF OfLines, OfMarkers, OfAll
<1>5. QED
  BY <1>2, <1>3, <1>4

LEMMA PlacesJoined ==
    ASSUME NEW a \in Seq(Event), NEW b \in Seq(Event)
    PROVE  /\ LinesIn(a \o b) = LinesIn(a) \cup Shifted(LinesIn(b), Len(a))
           /\ MarkersIn(a \o b) = MarkersIn(a) \cup Shifted(MarkersIn(b), Len(a))
           /\ \A i \in 0..Len(b) : 1..(i + Len(a)) = (1..Len(a)) \cup Shifted(1..i, Len(a))
<1> DEFINE c == a \o b
<1>1. c \in Seq(Event) /\ Len(a) \in Nat /\ Len(b) \in Nat /\ Len(c) = Len(a) + Len(b)
  BY JoinedIs, EventsAre
<1>2. ASSUME NEW i \in 1..Len(c)
      PROVE  /\ i \in LinesIn(c) <=> i \in LinesIn(a) \cup Shifted(LinesIn(b), Len(a))
             /\ i \in MarkersIn(c) <=> i \in MarkersIn(a) \cup Shifted(MarkersIn(b), Len(a))
  <2>1. CASE i \in 1..Len(a)
    <3>1. i \notin Shifted(LinesIn(b), Len(a)) /\ i \notin Shifted(MarkersIn(b), Len(a))
      BY <1>1, <2>1, PartsAre DEF Shifted
    <3>2. c[i] = a[i]
      BY <2>1, JoinedIs
    <3>3. QED
      <4> HIDE DEF c
      <4> QED BY <1>1, <2>1, <3>1, <3>2, PartsAre
  <2>2. CASE i > Len(a) /\ i - Len(a) \in 1..Len(b)
    <3>1. i \notin LinesIn(a) /\ i \notin MarkersIn(a)
      BY <1>1, <2>2, PartsAre
    <3>2. /\ i \in Shifted(LinesIn(b), Len(a)) <=> i - Len(a) \in LinesIn(b)
          /\ i \in Shifted(MarkersIn(b), Len(a)) <=> i - Len(a) \in MarkersIn(b)
      <4>1. \A j \in 1..Len(b) : i = j + Len(a) <=> j = i - Len(a)
        BY <1>1
      <4>2. QED
        BY <2>2, <4>1, PartsAre DEF Shifted
    <3>3. c[i] = b[i - Len(a)]
      <4>1. i = (i - Len(a)) + Len(a)
        BY <1>1, <2>2
      <4>2. c[(i - Len(a)) + Len(a)] = b[i - Len(a)]
        BY <2>2, JoinedIs
      <4>3. QED
        BY <4>1, <4>2
    <3>4. QED
      <4> HIDE DEF c
      <4> QED BY <1>1, <2>2, <3>1, <3>2, <3>3, PartsAre
  <2>3. QED
    BY <2>1, <2>2, JoinedIs
<1>3. /\ LinesIn(a) \cup Shifted(LinesIn(b), Len(a)) \in SUBSET (1..Len(c))
      /\ MarkersIn(a) \cup Shifted(MarkersIn(b), Len(a)) \in SUBSET (1..Len(c))
  <2>1. /\ LinesIn(a) \in SUBSET (1..Len(a)) /\ MarkersIn(a) \in SUBSET (1..Len(a))
        /\ LinesIn(b) \in SUBSET (1..Len(b)) /\ MarkersIn(b) \in SUBSET (1..Len(b))
    BY PartsAre
  <2>2. QED
    <3> HIDE DEF c
    <3> QED BY <1>1, <2>1 DEF Shifted
<1>4. LinesIn(c) \in SUBSET (1..Len(c)) /\ MarkersIn(c) \in SUBSET (1..Len(c))
  BY <1>1, PartsAre
<1>5. \A i \in 0..Len(b) : 1..(i + Len(a)) = (1..Len(a)) \cup Shifted(1..i, Len(a))
  <2> SUFFICES ASSUME NEW i \in 0..Len(b)
               PROVE  1..(i + Len(a)) = (1..Len(a)) \cup Shifted(1..i, Len(a))
    OBVIOUS
  <2>1. ASSUME NEW j \in 1..(i + Len(a)) PROVE j \in (1..Len(a)) \cup Shifted(1..i, Len(a))
    <3>1. CASE j <= Len(a)
      BY <1>1, <3>1
    <3>2. CASE j > Len(a)
      <4>1. j - Len(a) \in 1..i /\ j = (j - Len(a)) + Len(a)
        BY <1>1, <3>2
      <4>2. QED
        BY <4>1 DEF Shifted
    <3>3. QED
      BY <1>1, <3>1, <3>2
  <2>2. (1..Len(a)) \cup Shifted(1..i, Len(a)) \in SUBSET (1..(i + Len(a)))
    BY <1>1 DEF Shifted
  <2>3. QED
    BY <2>1, <2>2
<1>6. QED
  <2> HIDE DEF c
  <2>1. /\ LinesIn(c) = LinesIn(a) \cup Shifted(LinesIn(b), Len(a))
        /\ MarkersIn(c) = MarkersIn(a) \cup Shifted(MarkersIn(b), Len(a))
    BY <1>2, <1>3, <1>4
  <2>2. QED
    BY <1>5, <2>1 DEF c

LEMMA PartsJoined ==
    ASSUME NEW a \in Seq(Event), NEW b \in Seq(Event)
    PROVE  /\ OfLines(a \o b) = Plus(OfLines(a), OfLines(b))
           /\ OfMarkers(a \o b) = Plus(OfMarkers(a), OfMarkers(b))
           /\ OfAll(a \o b) = Plus(OfAll(a), OfAll(b))
<1>1. /\ LinesIn(a) \in SUBSET (1..Len(a)) /\ MarkersIn(a) \in SUBSET (1..Len(a))
      /\ LinesIn(b) \in SUBSET (1..Len(b)) /\ MarkersIn(b) \in SUBSET (1..Len(b))
  BY PartsAre
<1>2. Len(b) \in 0..Len(b) /\ Len(a \o b) = Len(b) + Len(a)
  BY JoinedIs, EventsAre
<1>3. OfLines(a \o b) = Plus(OfLines(a), OfLines(b))
  BY <1>1, PlacesJoined, TallyJoined DEF OfLines
<1>4. OfMarkers(a \o b) = Plus(OfMarkers(a), OfMarkers(b))
  BY <1>1, PlacesJoined, TallyJoined DEF OfMarkers
<1>5. OfAll(a \o b) = Plus(OfAll(a), OfAll(b))
  <2>1. 1..Len(a \o b) = (1..Len(a)) \cup Shifted(1..Len(b), Len(a))
    BY <1>2, PlacesJoined
  <2>2. QED
    BY <2>1, TallyJoined DEF OfAll
<1>6. QED
  BY <1>3, <1>4, <1>5

(* Read after n lines, the events of a sequence stand where they should.   *)
MarkedFrom(q, n) ==
    \A i \in LinesIn(q) : n + Tally(q, 1..i).lines = Cardinality(Parsed(q[i].at))

LEMMA MarkedJoined ==
    ASSUME NEW a \in Seq(Event), NEW b \in Seq(Event), NEW n \in Nat
    PROVE  MarkedFrom(a \o b, n) <=> MarkedFrom(a, n) /\ MarkedFrom(b, n + OfAll(a).lines)
<1> DEFINE c == a \o b
<1>1. c \in Seq(Event) /\ Len(a) \in Nat /\ Len(b) \in Nat
  BY JoinedIs, EventsAre
<1>2. LinesIn(c) = LinesIn(a) \cup Shifted(LinesIn(b), Len(a))
  BY PlacesJoined
<1>3. LinesIn(a) \in SUBSET (1..Len(a)) /\ LinesIn(b) \in SUBSET (1..Len(b))
  BY PartsAre
<1>4. ASSUME NEW i \in LinesIn(a)
      PROVE  c[i] = a[i] /\ Tally(c, 1..i) = Tally(a, 1..i)
  <2>1. c[i] = a[i]
    BY <1>3, JoinedIs
  <2>2. 1..i \in SUBSET (1..Len(a)) /\ {} \in SUBSET (1..Len(b))
        /\ (1..i) \cup Shifted({}, Len(a)) = 1..i
    BY <1>1, <1>3 DEF Shifted
  <2>3. Tally(c, 1..i) = Plus(Tally(a, 1..i), Tally(b, {}))
    <3>1. \A S \in SUBSET (1..Len(a)), T \in SUBSET (1..Len(b)) :
             Tally(c, S \cup Shifted(T, Len(a))) = Plus(Tally(a, S), Tally(b, T))
      BY TallyJoined
    <3>2. QED
      BY <2>2, <3>1
  <2>4. QED
    BY <2>1, <2>2, <2>3, TallyNone, TallyNat, PlusOf
<1>5. ASSUME NEW i \in LinesIn(b)
      PROVE  /\ c[i + Len(a)] = b[i]
             /\ n + Tally(c, 1..(i + Len(a))).lines = (n + OfAll(a).lines) + Tally(b, 1..i).lines
  <2>1. c[i + Len(a)] = b[i]
    BY <1>3, JoinedIs
  <2>2. i \in 0..Len(b) /\ 1..i \in SUBSET (1..Len(b)) /\ 1..Len(a) \in SUBSET (1..Len(a))
    BY <1>1, <1>3
  <2>3. Tally(c, 1..(i + Len(a))) = Plus(OfAll(a), Tally(b, 1..i))
    <3>1. 1..(i + Len(a)) = (1..Len(a)) \cup Shifted(1..i, Len(a))
      BY <2>2, PlacesJoined
    <3>2. QED
      BY <2>2, <3>1, TallyJoined DEF OfAll
  <2>4. OfAll(a) \in Counts /\ Tally(b, 1..i) \in Counts
    BY <2>2, TallyNat, PartsAre
  <2>5. /\ Tally(c, 1..(i + Len(a))).lines = OfAll(a).lines + Tally(b, 1..i).lines
        /\ OfAll(a).lines \in Nat /\ Tally(b, 1..i).lines \in Nat
    <3>1. /\ Plus(OfAll(a), Tally(b, 1..i)).lines = OfAll(a).lines + Tally(b, 1..i).lines
          /\ OfAll(a).lines \in Nat
      BY <2>4, PlusOf
    <3>2. Tally(b, 1..i).lines \in Nat
      BY <2>4, PlusOf
    <3>3. QED
      BY <2>3, <3>1, <3>2
  <2>6. n + Tally(c, 1..(i + Len(a))).lines = (n + OfAll(a).lines) + Tally(b, 1..i).lines
    BY <2>5
  <2>7. QED
    BY <2>1, <2>6
<1>6. MarkedFrom(c, n) <=>
        /\ \A i \in LinesIn(a) : n + Tally(c, 1..i).lines = Cardinality(Parsed(c[i].at))
        /\ \A i \in LinesIn(b) :
              n + Tally(c, 1..(i + Len(a))).lines = Cardinality(Parsed(c[i + Len(a)].at))
  <2> HIDE DEF c
  <2> QED BY <1>2 DEF MarkedFrom, Shifted
<1>7. QED
  <2> HIDE DEF c
  <2>1. MarkedFrom(c, n) <=> MarkedFrom(a, n) /\ MarkedFrom(b, n + OfAll(a).lines)
    BY <1>4, <1>5, <1>6 DEF MarkedFrom
  <2>2. QED
    BY <2>1 DEF c

-----------------------------------------------------------------------------
(* What trim() takes off the front.                                        *)
Out(q, k) == SubSeq(q, 1, k)
Stays(q, k) == SubSeq(q, k + 1, Len(q))

LEMMA CutIs ==
    ASSUME NEW q \in Seq(Event), NEW k \in 0..Len(q)
    PROVE  /\ Out(q, k) \in Seq(Event) /\ Len(Out(q, k)) = k
           /\ Stays(q, k) \in Seq(Event) /\ Len(Stays(q, k)) = Len(q) - k
           /\ q = Out(q, k) \o Stays(q, k)
<1>1. Len(q) \in Nat /\ k \in Nat /\ \A i \in 1..Len(q) : q[i] \in Event
  BY EventsAre
<1>2. Out(q, k) \in Seq(Event) /\ Len(Out(q, k)) = k
  <2>1. \A i \in 1..k : q[i] \in Event
    BY <1>1
  <2>2. /\ SubSeq(q, 1, k) \in Seq(Event)
        /\ Len(SubSeq(q, 1, k)) = IF 1 <= k THEN k - 1 + 1 ELSE 0
    BY <1>1, <2>1, SubSeqProperties
  <2>3. QED
    BY <1>1, <2>2 DEF Out
<1>3. Stays(q, k) \in Seq(Event) /\ Len(Stays(q, k)) = Len(q) - k
  <2>1. \A i \in (k + 1)..Len(q) : q[i] \in Event
    BY <1>1
  <2>2. k + 1 \in Int /\ Len(q) \in Int
    BY <1>1
  <2>3. /\ SubSeq(q, k + 1, Len(q)) \in Seq(Event)
        /\ Len(SubSeq(q, k + 1, Len(q))) = IF k + 1 <= Len(q) THEN Len(q) - (k + 1) + 1 ELSE 0
    BY <2>1, <2>2, SubSeqProperties
  <2>4. QED
    BY <1>1, <2>3 DEF Stays
<1>4. q = Out(q, k) \o Stays(q, k)
  <2>1. 1 \in 1..Len(q) + 1 /\ k \in 1 - 1..Len(q) /\ Len(q) \in k..Len(q)
    BY <1>1
  <2>2. SubSeq(q, 1, k) \o SubSeq(q, k + 1, Len(q)) = SubSeq(q, 1, Len(q))
    BY <2>1, ConcatAdjacentSubSeq
  <2>3. QED
    BY <2>2, SubSeqFull DEF Out, Stays
<1>5. QED
  BY <1>2, <1>3, <1>4

LEMMA OutIs ==
    ASSUME NEW q \in Seq(Event), NEW k \in 0..Len(q)
    PROVE  /\ Tally(q, First(q, k)) = OfLines(Out(q, k))
           /\ Tally(q, 1..k) = OfAll(Out(q, k))
           /\ OfLines(q) = Plus(OfLines(Out(q, k)), OfLines(Stays(q, k)))
<1> DEFINE a == Out(q, k)
           b == Stays(q, k)
<1>1. a \in Seq(Event) /\ Len(a) = k /\ b \in Seq(Event) /\ q = a \o b /\ k \in Nat
  <2>1. a \in Seq(Event) /\ Len(a) = k /\ b \in Seq(Event) /\ q = a \o b
    BY CutIs
  <2>2. k \in Nat
    BY EventsAre
  <2>3. QED
    <3> HIDE DEF a, b
    <3> QED BY <2>1, <2>2
<1> HIDE DEF a, b
<1>2. LinesIn(a) \in SUBSET (1..Len(a)) /\ 1..k \in SUBSET (1..Len(a))
  BY <1>1, PartsAre
<1>3. First(q, k) = LinesIn(a)
  <2>1. LinesIn(q) = LinesIn(a) \cup Shifted(LinesIn(b), Len(a))
    BY <1>1, PlacesJoined
  <2>2. \A i \in Shifted(LinesIn(b), Len(a)) : i > k
    <3>1. \A i \in LinesIn(b) : i \in Nat /\ i >= 1
      <4>1. LinesIn(b) \in SUBSET (1..Len(b))
        BY <1>1, PartsAre
      <4>2. QED
        BY <4>1
    <3>2. QED
      BY <1>1, <3>1 DEF Shifted
  <2>3. QED
    BY <1>1, <1>2, <2>1, <2>2 DEF First
<1>4. ASSUME NEW S \in SUBSET (1..Len(a)) PROVE Tally(q, S) = Tally(a, S)
  <2>1. \A T \in SUBSET (1..Len(b)) :
           Tally(q, S \cup Shifted(T, Len(a))) = Plus(Tally(a, S), Tally(b, T))
    BY <1>1, TallyJoined
  <2>2. S \cup Shifted({}, Len(a)) = S
    BY DEF Shifted
  <2>3. Tally(q, S \cup Shifted({}, Len(a))) = Plus(Tally(a, S), Tally(b, {}))
    BY <2>1
  <2>4. Tally(a, S) \in Counts /\ Tally(b, {}) = NoTally
    BY <1>1, TallyNat, TallyNone
  <2>5. QED
    BY <2>2, <2>3, <2>4, PlusOf
<1>5. Tally(q, First(q, k)) = OfLines(a) /\ Tally(q, 1..k) = OfAll(a)
  BY <1>1, <1>2, <1>3, <1>4 DEF OfLines, OfAll
<1>6. OfLines(q) = Plus(OfLines(a), OfLines(b))
  BY <1>1, PartsJoined
<1>7. QED
  BY <1>5, <1>6 DEF a, b

(* It takes off the fewest that will do, and the last of them is a line.   *)
LEMMA ExcessIs ==
    ASSUME NEW q \in Seq(Event)
    PROVE  /\ Excess(q, OfLines(q)) \in 0..Len(q)
           /\ Fits(OfLines(Stays(q, Excess(q, OfLines(q)))))
           /\ Excess(q, OfLines(q)) # 0 => IsLine(q[Excess(q, OfLines(q))])
<1> DEFINE t == OfLines(q)
           Left(j) == Minus(t, Tally(q, First(q, j)))
           K == {k \in 0..Len(q) : Fits(Left(k))}
<1>1. Len(q) \in Nat
  BY EventsAre
<1>2. \A k \in 0..Len(q) : Left(k) = OfLines(Stays(q, k))
  <2> SUFFICES ASSUME NEW k \in 0..Len(q) PROVE Left(k) = OfLines(Stays(q, k))
    OBVIOUS
  <2>1. OfLines(Out(q, k)) \in Counts /\ OfLines(Stays(q, k)) \in Counts
    BY CutIs, PartsAre
  <2>2. Left(k) = Minus(Plus(OfLines(Out(q, k)), OfLines(Stays(q, k))), OfLines(Out(q, k)))
    BY OutIs
  <2>3. QED
    <3> HIDE DEF Left
    <3> QED BY <2>1, <2>2, PlusOf
<1>3. Len(q) \in K
  <2>1. Len(q) \in 0..Len(q)
    BY <1>1
  <2>2. OfLines(Stays(q, Len(q))) = NoTally
    <3>1. Stays(q, Len(q)) \in Seq(Event) /\ Len(Stays(q, Len(q))) = 0
      BY <1>1, <2>1, CutIs
    <3>2. LinesIn(Stays(q, Len(q))) = {}
      <4>1. LinesIn(Stays(q, Len(q))) \in SUBSET (1..Len(Stays(q, Len(q))))
        BY <3>1, PartsAre
      <4>2. QED
        BY <3>1, <4>1
    <3>3. QED
      BY <3>2, TallyNone DEF OfLines
  <2>3. Fits(NoTally)
    <3>1. MaxLines \in Nat /\ MaxCharacters \in Nat
      BY LogAssumption
    <3>2. QED
      BY <3>1 DEF Fits, NoTally
  <2>4. Fits(Left(Len(q)))
    <3> HIDE DEF Left
    <3> QED BY <1>2, <2>1, <2>2, <2>3
  <2>5. QED
    <3> HIDE DEF Left
    <3> QED BY <2>1, <2>4
<1>4. \E k \in K : \A j \in 0..(k - 1) : ~Fits(Left(j))
  <2>1. K \subseteq Nat /\ K # {}
    BY <1>1, <1>3
  <2>2. PICK k \in K : \A j \in K : ~(<<j, k>> \in OpToRel(<, Nat))
    <3> HIDE DEF K
    <3> QED BY <2>1, NatLessThanWellFounded, WFMin
  <2>3. ASSUME NEW j \in 0..(k - 1), Fits(Left(j)) PROVE FALSE
    <3>1. j \in K
      <4> HIDE DEF Left
      <4> QED BY <1>1, <2>3
    <3>2. <<j, k>> \in OpToRel(<, Nat)
      BY <1>1 DEF OpToRel
    <3>3. QED
      <4> HIDE DEF K
      <4> QED BY <2>2, <3>1, <3>2
  <2>4. QED
    <3> HIDE DEF K, Left
    <3> QED BY <2>3
<1> DEFINE x == Excess(q, t)
<1>5. x \in 0..Len(q) /\ Fits(Left(x)) /\ \A j \in 0..(x - 1) : ~Fits(Left(j))
  <2> DEFINE IsIt(k) == Fits(Left(k)) /\ \A j \in 0..(k - 1) : ~Fits(Left(j))
  <2>1. x = CHOOSE k \in 0..Len(q) : IsIt(k)
    BY DEF Excess
  <2>2. \E k \in 0..Len(q) : IsIt(k)
    <3> HIDE DEF Left
    <3> QED BY <1>4
  <2>3. x \in 0..Len(q) /\ IsIt(x)
    <3> HIDE DEF IsIt, x
    <3> QED BY <2>1, <2>2
  <2>4. QED
    BY <2>3
<1>6. ASSUME x # 0, ~IsLine(q[x]) PROVE FALSE
  <2> HIDE DEF x, Left
  <2>1. x \in 1..Len(q) /\ x - 1 \in 0..(x - 1)
    BY <1>1, <1>5, <1>6
  <2>2. First(q, x) = First(q, x - 1)
    <3>1. x \notin LinesIn(q)
      BY <1>6, <2>1, PartsAre
    <3>2. 1..x = (1..(x - 1)) \cup {x}
      BY <2>1
    <3>3. QED
      BY <3>1, <3>2 DEF First
  <2>3. Left(x) = Left(x - 1)
    BY <2>2 DEF Left
  <2>4. QED
    BY <1>5, <2>1, <2>3
<1>7. QED
  <2> HIDE DEF Left
  <2>1. x \in 0..Len(q) /\ Fits(OfLines(Stays(q, x))) /\ (x # 0 => IsLine(q[x]))
    <3> HIDE DEF x
    <3> QED BY <1>2, <1>5, <1>6
  <2>2. QED
    BY <2>1 DEF x, t

(* Lines count one each, and a marker stands for some.                     *)
EventFits(e) == (IsLine(e) => e.lines = 1) /\ (~IsLine(e) => e.lines >= 1)
AllFit(q) == \A i \in 1..Len(q) : EventFits(q[i])

LEMMA FitJoined ==
    ASSUME NEW a \in Seq(Event), NEW b \in Seq(Event)
    PROVE  AllFit(a \o b) <=> AllFit(a) /\ AllFit(b)
<1> DEFINE c == a \o b
<1>1. /\ \A i \in 1..Len(a) : c[i] = a[i] /\ i \in 1..Len(c)
      /\ \A i \in 1..Len(b) : i + Len(a) \in 1..Len(c) /\ c[i + Len(a)] = b[i]
      /\ \A i \in 1..Len(c) : i \in 1..Len(a) \/ (i > Len(a) /\ i - Len(a) \in 1..Len(b))
      /\ Len(a) \in Nat /\ Len(b) \in Nat /\ Len(c) = Len(a) + Len(b)
  BY JoinedIs, EventsAre
<1> HIDE DEF c
<1>2. ASSUME AllFit(c) PROVE AllFit(a) /\ AllFit(b)
  BY <1>1, <1>2 DEF AllFit
<1>3. ASSUME AllFit(a), AllFit(b), NEW i \in 1..Len(c) PROVE EventFits(c[i])
  <2>1. CASE i \in 1..Len(a)
    BY <1>1, <1>3, <2>1 DEF AllFit
  <2>2. CASE i > Len(a) /\ i - Len(a) \in 1..Len(b)
    <3>1. i = (i - Len(a)) + Len(a)
      BY <1>1
    <3>2. c[i] = b[i - Len(a)]
      <4>1. c[(i - Len(a)) + Len(a)] = b[i - Len(a)]
        BY <1>1, <2>2
      <4>2. QED
        BY <3>1, <4>1
    <3>3. QED
      BY <1>3, <2>2, <3>2 DEF AllFit
  <2>3. QED
    BY <1>1, <2>1, <2>2
<1>4. QED
  <2>1. AllFit(c) <=> AllFit(a) /\ AllFit(b)
    BY <1>2, <1>3 DEF AllFit
  <2>2. QED
    BY <2>1 DEF c

LEMMA LinesCounted ==
    ASSUME NEW q \in Seq(Event), AllFit(q)
    PROVE  OfLines(q).lines = Cardinality(LinesIn(q)) /\ IsFiniteSet(LinesIn(q))
<1>1. LinesIn(q) \in SUBSET (1..Len(q)) /\ \A i \in LinesIn(q) : IsLine(q[i])
  BY PartsAre
<1>2. IsFiniteSet(LinesIn(q))
  BY <1>1, PlacesFinite
<1>3. \A i \in LinesIn(q) : LinesAt(q)[i] = 1
  BY <1>1, EventsAre DEF AllFit, EventFits
<1>4. SumFunctionOnSet(LinesAt(q), LinesIn(q)) = Cardinality(LinesIn(q))
  BY <1>2, <1>3, SumOnes
<1>5. QED
  BY <1>2, <1>4, TallyIs DEF OfLines

(* One marker.                                                             *)
LEMMA MarkerIs ==
    ASSUME NEW t \in Counts
    PROVE  /\ Dropped(t) \in Event /\ ~IsLine(Dropped(t)) /\ Dropped(t).lines = t.lines
           /\ <<Dropped(t)>> \in Seq(Event) /\ LinesIn(<<Dropped(t)>>) = {}
           /\ OfLines(<<Dropped(t)>>) = NoTally /\ OfMarkers(<<Dropped(t)>>) = t
           /\ OfAll(<<Dropped(t)>>) = t
<1> DEFINE d == Dropped(t)
           q == <<d>>
<1>1. /\ d \in Event /\ ~IsLine(d) /\ d.lines = t.lines /\ d.characters = t.characters
      /\ t = [lines |-> t.lines, characters |-> t.characters]
  BY DEF Counts, Dropped, Event, IsLine
<1> HIDE DEF d
<1>2. q \in Seq(Event) /\ Len(q) = 1 /\ q[1] = d /\ 1 \in 1..1 /\ 1..1 = {1}
  BY <1>1
<1> HIDE DEF q
<1>3. LinesIn(q) = {} /\ MarkersIn(q) = {1}
  BY <1>1, <1>2, PartsAre
<1>4. Tally(q, {1}) = t
  BY <1>1, <1>2, TallyOne
<1>5. OfLines(q) = NoTally /\ OfMarkers(q) = t /\ OfAll(q) = t
  BY <1>2, <1>3, <1>4, TallyNone DEF OfLines, OfMarkers, OfAll
<1>6. QED
  BY <1>1, <1>2, <1>3, <1>5 DEF d, q

(* Trimming loses no count: what goes is in the marker left in its place.  *)
Trims(q, r) ==
    /\ r.queue \in Seq(Event) /\ AllFit(r.queue) /\ MarkersIn(r.queue) \subseteq {1}
    /\ \A n \in Nat : MarkedFrom(q, n) => MarkedFrom(r.queue, n)
    /\ r.held = OfLines(r.queue) /\ Fits(r.held)
    /\ r.gone \in Counts /\ OfLines(q) = Plus(r.gone, r.held)
    /\ OfMarkers(r.queue) = Plus(OfMarkers(q), r.gone)
    /\ OfAll(r.queue) = OfAll(q)

LEMMA TrimIs ==
    ASSUME NEW q \in Seq(Event), AllFit(q), MarkersIn(q) \subseteq {1}
    PROVE  Trims(q, Trim(q, OfLines(q)))
<1> DEFINE k == Excess(q, OfLines(q))
           out == Out(q, k)
           rest == Stays(q, k)
           r == Trim(q, OfLines(q))
<1>1. k \in 0..Len(q) /\ Fits(OfLines(rest)) /\ (k # 0 => IsLine(q[k]))
  BY ExcessIs
<1>2. r = [queue |-> IF k = 0 THEN q ELSE <<Dropped(Tally(q, 1..k))>> \o rest,
           held |-> Minus(OfLines(q), Tally(q, First(q, k))), gone |-> Tally(q, First(q, k))]
  BY DEF Trim, Stays
<1> HIDE DEF k, r
<1>3. /\ out \in Seq(Event) /\ Len(out) = k /\ rest \in Seq(Event) /\ q = out \o rest
      /\ Tally(q, First(q, k)) = OfLines(out) /\ Tally(q, 1..k) = OfAll(out)
      /\ OfLines(q) = Plus(OfLines(out), OfLines(rest)) /\ k \in Nat
      /\ Fits(OfLines(rest))
  <2>1. /\ out \in Seq(Event) /\ Len(out) = k /\ rest \in Seq(Event) /\ q = out \o rest
    BY <1>1, CutIs
  <2>2. /\ Tally(q, First(q, k)) = OfLines(out) /\ Tally(q, 1..k) = OfAll(out)
        /\ OfLines(q) = Plus(OfLines(out), OfLines(rest))
    BY <1>1, OutIs
  <2>3. k \in Nat
    BY <1>1, EventsAre
  <2>4. Fits(OfLines(rest))
    BY <1>1
  <2>5. QED
    <3> HIDE DEF out, rest
    <3> QED BY <2>1, <2>2, <2>3, <2>4
<1>4. r.queue = IF k = 0 THEN q ELSE <<Dropped(OfAll(out))>> \o rest
  BY <1>2, <1>3
<1>5. r.held = Minus(OfLines(q), OfLines(out)) /\ r.gone = OfLines(out)
  BY <1>2, <1>3
<1> HIDE DEF out, rest
<1>6. /\ OfLines(out) \in Counts /\ OfMarkers(out) \in Counts /\ OfAll(out) \in Counts
      /\ OfLines(rest) \in Counts /\ OfMarkers(rest) \in Counts /\ OfAll(rest) \in Counts
      /\ OfAll(out) = Plus(OfLines(out), OfMarkers(out))
      /\ OfMarkers(q) \in Counts
  BY <1>3, PartsAre
<1>7. r.held = OfLines(rest) /\ r.gone = OfLines(out)
  <2>1. Minus(OfLines(q), OfLines(out)) = OfLines(rest)
    BY <1>3, <1>6, PlusOf
  <2>2. QED
    BY <1>5, <2>1
<1>8. ASSUME k = 0 PROVE Trims(q, r)
  <2>1. r.queue = q
    BY <1>4, <1>8
  <2>2. First(q, 0) = {}
    BY DEF First
  <2>3. r.gone = NoTally
    BY <1>3, <1>7, <1>8, <2>2, TallyNone
  <2>4. r.gone \in Counts
    BY <1>6, <1>7
  <2>5. OfLines(q) = r.held
    BY <1>3, <1>6, <1>7, <2>3, PlusOf
  <2>6. OfMarkers(r.queue) = Plus(OfMarkers(q), r.gone)
    BY <1>6, <2>1, <2>3, PlusOf
  <2>7. OfLines(q) = Plus(r.gone, r.held)
    BY <1>3, <1>7
  <2>8. Fits(r.held)
    BY <1>3, <1>7
  <2>9. QED
    BY <1>7, <2>1, <2>4, <2>5, <2>6, <2>7, <2>8 DEF Trims
<1>9. ASSUME k # 0 PROVE Trims(q, r)
  <2> DEFINE d == Dropped(OfAll(out))
             m == <<d>>
  <2>1. /\ m \in Seq(Event) /\ LinesIn(m) = {} /\ OfLines(m) = NoTally
        /\ OfMarkers(m) = OfAll(out) /\ OfAll(m) = OfAll(out)
        /\ ~IsLine(d) /\ d.lines = OfAll(out).lines
    BY <1>6, MarkerIs
  <2>2. r.queue = m \o rest
    BY <1>4, <1>9
  <2>3. Len(m) = 1 /\ m[1] = d
    OBVIOUS
  <2> HIDE DEF m, d
  <2>4. AllFit(out) /\ AllFit(rest)
    BY <1>3, FitJoined
  <2>5. OfAll(out).lines >= 1
    <3>1. k \in LinesIn(out)
      <4>1. k \in 1..Len(out) /\ q[k] = out[k]
        BY <1>3, <1>9, JoinedIs
      <4>2. IsLine(out[k])
        BY <1>1, <1>9, <4>1
      <4>3. QED
        BY <1>3, <4>1, <4>2, PartsAre
    <3>2. IsFiniteSet(LinesIn(out)) /\ OfLines(out).lines = Cardinality(LinesIn(out))
      BY <1>3, <2>4, LinesCounted
    <3>3. Cardinality(LinesIn(out)) # 0 /\ Cardinality(LinesIn(out)) \in Nat
      BY <3>1, <3>2, FS_EmptySet, FS_CardinalityType
    <3>4. /\ OfAll(out).lines = OfLines(out).lines + OfMarkers(out).lines
          /\ OfMarkers(out).lines \in Nat
      BY <1>6, PlusOf
    <3>5. QED
      BY <3>2, <3>3, <3>4
  <2>6. AllFit(m)
    BY <2>1, <2>3, <2>5 DEF AllFit, EventFits
  <2>7. m \o rest \in Seq(Event) /\ AllFit(m \o rest)
    BY <1>3, <2>1, <2>4, <2>6, JoinedIs, FitJoined
  <2>8. MarkersIn(rest) = {}
    <3>1. MarkersIn(q) = MarkersIn(out) \cup Shifted(MarkersIn(rest), Len(out))
      BY <1>3, PlacesJoined
    <3>2. MarkersIn(rest) \in SUBSET (1..Len(rest))
      BY <1>3, PartsAre
    <3>3. ASSUME NEW i \in MarkersIn(rest) PROVE FALSE
      <4>1. i + k \in MarkersIn(q) /\ i \in Nat /\ i >= 1
        BY <1>3, <3>1, <3>2 DEF Shifted
      <4>2. i + k > 1
        BY <1>3, <1>9, <4>1
      <4>3. QED
        BY <4>1, <4>2
    <3>4. QED
      BY <3>3
  <2>9. MarkersIn(m \o rest) \subseteq {1}
    <3>1. MarkersIn(m \o rest) = MarkersIn(m) \cup Shifted(MarkersIn(rest), 1)
      BY <1>3, <2>1, <2>3, PlacesJoined
    <3>2. MarkersIn(m) \in SUBSET (1..1)
      BY <2>1, <2>3, PartsAre
    <3>3. Shifted({}, 1) = {}
      BY DEF Shifted
    <3>4. QED
      BY <2>8, <3>1, <3>2, <3>3
  <2>10. ASSUME NEW n \in Nat, MarkedFrom(q, n) PROVE MarkedFrom(m \o rest, n)
    <3>1. MarkedFrom(rest, n + OfAll(out).lines)
      BY <1>3, <2>10, MarkedJoined
    <3>2. MarkedFrom(m, n)
      BY <2>1 DEF MarkedFrom
    <3>3. MarkedFrom(rest, n + OfAll(m).lines)
      BY <2>1, <3>1
    <3>4. QED
      BY <1>3, <2>1, <3>2, <3>3, MarkedJoined
  <2>11. OfLines(m \o rest) = OfLines(rest)
    BY <1>3, <1>6, <2>1, PartsJoined, PlusOf
  <2>12. OfAll(m \o rest) = OfAll(q)
    <3>1. OfAll(m \o rest) = Plus(OfAll(out), OfAll(rest))
      BY <1>3, <2>1, PartsJoined
    <3>2. OfAll(q) = Plus(OfAll(out), OfAll(rest))
      BY <1>3, PartsJoined
    <3>3. QED
      BY <3>1, <3>2
  <2>13. OfMarkers(m \o rest) = Plus(OfMarkers(q), OfLines(out))
    <3>1. OfMarkers(m \o rest) = Plus(Plus(OfLines(out), OfMarkers(out)), OfMarkers(rest))
      BY <1>3, <1>6, <2>1, PartsJoined
    <3>2. OfMarkers(q) = Plus(OfMarkers(out), OfMarkers(rest))
      BY <1>3, PartsJoined
    <3>3. Plus(Plus(OfLines(out), OfMarkers(out)), OfMarkers(rest))
            = Plus(Plus(OfMarkers(out), OfMarkers(rest)), OfLines(out))
      <4>1. \A x, y, z \in Counts : Plus(Plus(x, y), z) = Plus(Plus(y, z), x)
        BY DEF Plus, Counts
      <4>2. QED
        BY <1>6, <4>1
    <3>4. QED
      BY <3>1, <3>2, <3>3
  <2>14. QED
    BY <1>3, <1>6, <1>7, <2>2, <2>7, <2>9, <2>10, <2>11, <2>12, <2>13 DEF Trims
<1>10. Trims(q, r)
  BY <1>8, <1>9
<1>11. QED
  BY <1>10 DEF r

-----------------------------------------------------------------------------
(* Numbers in order: among the numbers of a set is one of each rank.       *)
UpTo(S, n) == {m \in S : m <= n}
Ranked(S) == \A i \in 1..Cardinality(S) : \E n \in S : Cardinality(UpTo(S, n)) = i

LEMMA HasNth ==
    ASSUME NEW b \in Nat, NEW S \in SUBSET (1..b)
    PROVE  Ranked(S)
<1> DEFINE Cut(n) == S \cap 1..n
           P == {n \in Nat : Ranked(Cut(n))}
<1>1. 0 \in P
  <2>1. Cut(0) = {} /\ Cardinality({}) = 0
    BY FS_EmptySet
  <2>2. Ranked({})
    BY <2>1 DEF Ranked
  <2>3. QED
    BY <2>1, <2>2
<1>2. ASSUME NEW n \in P PROVE n + 1 \in P
  <2>1. n \in Nat /\ Ranked(Cut(n))
    OBVIOUS
  <2>2. IsFiniteSet(Cut(n)) /\ Cardinality(Cut(n)) \in Nat
    <3>1. IsFiniteSet(1..b)
      BY FS_Interval
    <3>2. Cut(n) \in SUBSET (1..b)
      OBVIOUS
    <3>3. QED
      <4> HIDE DEF Cut
      <4> QED BY <3>1, <3>2, FS_Subset, FS_CardinalityType
  <2>3. CASE n + 1 \notin S
    <3>1. Cut(n + 1) = Cut(n)
      BY <2>1, <2>3
    <3>2. QED
      BY <2>1, <3>1
  <2>4. CASE n + 1 \in S
    <3>1. Cut(n + 1) = Cut(n) \cup {n + 1} /\ n + 1 \notin Cut(n)
      BY <2>1, <2>4
    <3>2. \A m \in Cut(n) : UpTo(Cut(n + 1), m) = UpTo(Cut(n), m)
      BY <2>1, <3>1 DEF UpTo
    <3>3. UpTo(Cut(n + 1), n + 1) = Cut(n + 1)
      BY <2>1 DEF UpTo
    <3> HIDE DEF Cut
    <3>4. Cardinality(Cut(n + 1)) = Cardinality(Cut(n)) + 1
      BY <2>2, <3>1, FS_AddElement
    <3>5. ASSUME NEW i \in 1..Cardinality(Cut(n + 1))
          PROVE  \E m \in Cut(n + 1) : Cardinality(UpTo(Cut(n + 1), m)) = i
      <4>1. CASE i \in 1..Cardinality(Cut(n))
        <5>1. PICK m \in Cut(n) : Cardinality(UpTo(Cut(n), m)) = i
          BY <2>1, <4>1 DEF Ranked
        <5>2. m \in Cut(n + 1) /\ Cardinality(UpTo(Cut(n + 1), m)) = i
          BY <3>1, <3>2, <5>1
        <5>3. QED
          BY <5>2
      <4>2. CASE i = Cardinality(Cut(n)) + 1
        <5>1. n + 1 \in Cut(n + 1) /\ Cardinality(UpTo(Cut(n + 1), n + 1)) = i
          BY <3>1, <3>3, <3>4, <4>2
        <5>2. QED
          BY <5>1
      <4>3. QED
        BY <2>2, <3>4, <4>1, <4>2
    <3>6. Ranked(Cut(n + 1))
      BY <3>5 DEF Ranked
    <3>7. QED
      BY <2>1, <3>6
  <2>5. QED
    BY <2>3, <2>4
<1>3. b \in P
  <2> HIDE DEF P
  <2>1. P \in SUBSET Nat
    BY DEF P
  <2>2. QED
    BY <1>1, <1>2, <2>1, ByNumber
<1>4. Cut(b) = S
  OBVIOUS
<1>5. QED
  BY <1>3, <1>4

LEMMA NthIs ==
    ASSUME NEW b \in Nat, NEW S \in SUBSET (1..b), NEW i \in 1..Cardinality(S)
    PROVE  Nth(S, i) \in S /\ Cardinality(UpTo(S, Nth(S, i))) = i
<1>1. \E n \in S : Cardinality(UpTo(S, n)) = i
  BY HasNth DEF Ranked
<1>2. QED
  BY <1>1 DEF Nth, UpTo

(* A page holds the parsed lines of its window, in the log's order.        *)
PageFrom(page, from, to) ==
    /\ page \in Seq(Event) /\ AllFit(page) /\ MarkersIn(page) = {}
    /\ MarkedFrom(page, Cardinality(Parsed(from)))
    /\ Cardinality(Parsed(from)) \in Nat /\ Cardinality(Parsed(to)) \in Nat
    /\ OfAll(page).lines \in 0..(to - from)
    /\ Cardinality(Parsed(to)) = Cardinality(Parsed(from)) + OfAll(page).lines

LEMMA FirstLines ==
    ASSUME NEW q \in Seq(Event), NEW i \in 0..Len(q), \A j \in 1..Len(q) : q[j].lines = 1
    PROVE  Tally(q, 1..i).lines = i
<1>1. Len(q) \in Nat /\ 1..i \in SUBSET (1..Len(q)) /\ i \in Nat
  BY EventsAre
<1>2. IsFiniteSet(1..i) /\ Cardinality(1..i) = i
  BY <1>1, FS_Interval
<1>3. \A j \in 1..i : LinesAt(q)[j] = 1
  BY <1>1, EventsAre
<1>4. SumFunctionOnSet(LinesAt(q), 1..i) = i
  BY <1>2, <1>3, SumOnes
<1>5. QED
  BY <1>4, TallyIs

LEMMA PageIs ==
    ASSUME NEW from \in Nat, NEW items \in Nat, from + items <= MaxLog
    PROVE  PageFrom(Page(from, items), from, from + items)
<1> DEFINE S == (from + 1 .. from + items) \ Junk
           page == Page(from, items)
           before == Parsed(from)
<1>1. MaxLog \in Nat /\ Size \in [1..MaxLog -> Nat]
  BY LogAssumption
<1>2. /\ S \in SUBSET (1..MaxLog) /\ S \in SUBSET (from + 1 .. from + items)
      /\ before \in SUBSET (1..MaxLog) /\ before \cap S = {}
  BY <1>1 DEF Parsed
<1>3. Parsed(from + items) = before \cup S
  <2>1. 1..(from + items) = (1..from) \cup (from + 1 .. from + items)
    OBVIOUS
  <2>2. QED
    BY <2>1 DEF Parsed
<1>4. ASSUME NEW n \in S PROVE Parsed(n) = before \cup UpTo(S, n)
  <2>1. n \in from + 1 .. from + items
    BY <1>2
  <2>2. 1..n = (1..from) \cup {m \in from + 1 .. from + items : m <= n}
    BY <2>1
  <2>3. QED
    BY <2>2 DEF Parsed, UpTo
<1>5. page = [i \in 1..Cardinality(S) |-> Line(Nth(S, i))]
  BY DEF Page
<1> HIDE DEF S, page, before
<1>6. IsFiniteSet(S) /\ IsFiniteSet(before) /\ Cardinality(S) \in Nat /\ Cardinality(before) \in Nat
  <2>1. IsFiniteSet(1..MaxLog)
    BY <1>1, FS_Interval
  <2>2. QED
    BY <1>2, <2>1, FS_Subset, FS_CardinalityType
<1>7. ASSUME NEW T \in SUBSET S
      PROVE  /\ Cardinality(before \cup T) = Cardinality(before) + Cardinality(T)
             /\ Cardinality(T) \in Nat
  <2>1. IsFiniteSet(T) /\ before \cap T = {} /\ Cardinality({}) = 0 /\ Cardinality(T) \in Nat
    BY <1>2, <1>6, FS_Subset, FS_EmptySet, FS_CardinalityType
  <2>2. Cardinality(before \cup T)
          = Cardinality(before) + Cardinality(T) - Cardinality(before \cap T)
    BY <1>6, <2>1, FS_Union
  <2>3. Cardinality(before \cap T) = 0
    BY <2>1
  <2>4. QED
    BY <1>6, <2>1, <2>2, <2>3
<1>8. ASSUME NEW i \in 1..Cardinality(S)
      PROVE  /\ Nth(S, i) \in S /\ Cardinality(UpTo(S, Nth(S, i))) = i
             /\ page[i] = Line(Nth(S, i)) /\ page[i] \in Event
  <2>1. Nth(S, i) \in S /\ Cardinality(UpTo(S, Nth(S, i))) = i
    BY <1>1, <1>2, NthIs
  <2>2. page[i] = Line(Nth(S, i))
    BY <1>5
  <2>3. Nth(S, i) \in 1..MaxLog /\ Size[Nth(S, i)] \in Nat
    BY <1>1, <1>2, <2>1
  <2>4. Line(Nth(S, i)) \in Event
    BY <2>3 DEF Line, Event
  <2>5. QED
    BY <2>1, <2>2, <2>4
<1>9. page \in Seq(Event) /\ Len(page) = Cardinality(S)
  <2>1. page \in [1..Cardinality(S) -> Event]
    BY <1>5, <1>8
  <2>2. QED
    BY <1>6, <2>1
<1>10. ASSUME NEW i \in 1..Len(page)
       PROVE  IsLine(page[i]) /\ page[i].lines = 1 /\ page[i].at = Nth(S, i)
  <2>1. page[i] = Line(Nth(S, i))
    BY <1>8, <1>9
  <2>2. QED
    BY <2>1 DEF Line, IsLine
<1>11. AllFit(page) /\ MarkersIn(page) = {}
  BY <1>9, <1>10, PartsAre DEF AllFit, EventFits
<1>12. ASSUME NEW i \in 0..Len(page) PROVE Tally(page, 1..i).lines = i
  BY <1>9, <1>10, FirstLines
<1>13. ASSUME NEW i \in 1..Len(page)
       PROVE  Cardinality(before) + Tally(page, 1..i).lines = Cardinality(Parsed(page[i].at))
  <2>1. Tally(page, 1..i).lines = i
    BY <1>6, <1>9, <1>12
  <2>2. Parsed(page[i].at) = before \cup UpTo(S, Nth(S, i))
    BY <1>4, <1>8, <1>9, <1>10
  <2>3. Cardinality(before \cup UpTo(S, Nth(S, i))) = Cardinality(before) + i
    <3>1. UpTo(S, Nth(S, i)) \in SUBSET S
      BY DEF UpTo
    <3>2. QED
      BY <1>7, <1>8, <1>9, <3>1
  <2>4. QED
    BY <2>1, <2>2, <2>3
<1>14. MarkedFrom(page, Cardinality(before))
  BY <1>9, <1>13, PartsAre DEF MarkedFrom
<1>15. OfAll(page).lines = Cardinality(S)
  BY <1>6, <1>9, <1>12 DEF OfAll
<1>16. Cardinality(S) \in 0..items
  <2>1. from + 1 \in Int /\ from + items \in Int
    OBVIOUS
  <2>2. /\ IsFiniteSet(from + 1 .. from + items)
        /\ Cardinality(from + 1 .. from + items)
             = IF from + 1 > from + items THEN 0 ELSE from + items - (from + 1) + 1
    BY <2>1, FS_Interval
  <2>3. Cardinality(S) <= Cardinality(from + 1 .. from + items)
    BY <1>2, <2>2, FS_Subset
  <2>4. QED
    BY <1>6, <2>2, <2>3
<1>17. (from + items) - from = items
  OBVIOUS
<1>18. Cardinality(Parsed(from + items)) = Cardinality(before) + OfAll(page).lines
  BY <1>3, <1>7, <1>15
<1>19. PageFrom(page, from, from + items)
  BY <1>6, <1>9, <1>11, <1>14, <1>15, <1>16, <1>17, <1>18 DEF PageFrom, before
<1>20. QED
  BY <1>19 DEF page

(* One event.                                                              *)
LEMMA OneIs ==
    ASSUME NEW e \in Event
    PROVE  /\ <<e>> \in Seq(Event) /\ Len(<<e>>) = 1 /\ <<e>>[1] = e
           /\ Tally(<<e>>, {1}) = [lines |-> e.lines, characters |-> e.characters]
           /\ OfAll(<<e>>) = Tally(<<e>>, {1})
           /\ IsLine(e) => /\ LinesIn(<<e>>) = {1} /\ MarkersIn(<<e>>) = {}
                           /\ OfLines(<<e>>) = Tally(<<e>>, {1}) /\ OfMarkers(<<e>>) = NoTally
           /\ ~IsLine(e) => /\ LinesIn(<<e>>) = {} /\ MarkersIn(<<e>>) = {1}
                            /\ OfLines(<<e>>) = NoTally /\ OfMarkers(<<e>>) = Tally(<<e>>, {1})
<1> DEFINE q == <<e>>
<1>1. q \in Seq(Event) /\ Len(q) = 1 /\ q[1] = e /\ 1 \in 1..1 /\ 1..1 = {1}
  OBVIOUS
<1> HIDE DEF q
<1>2. IsLine(e) => LinesIn(q) = {1} /\ MarkersIn(q) = {}
  BY <1>1, PartsAre
<1>3. ~IsLine(e) => LinesIn(q) = {} /\ MarkersIn(q) = {1}
  BY <1>1, PartsAre
<1>4. Tally(q, {1}) = [lines |-> e.lines, characters |-> e.characters]
  BY <1>1, TallyOne
<1>5. IsLine(e) => OfLines(q) = Tally(q, {1}) /\ OfMarkers(q) = NoTally
  BY <1>2, TallyNone DEF OfLines, OfMarkers
<1>6. ~IsLine(e) => OfLines(q) = NoTally /\ OfMarkers(q) = Tally(q, {1})
  BY <1>3, TallyNone DEF OfLines, OfMarkers
<1>7. OfAll(q) = Tally(q, {1})
  BY <1>1 DEF OfAll
<1>8. QED
  BY <1>1, <1>2, <1>3, <1>4, <1>5, <1>6, <1>7 DEF q

-----------------------------------------------------------------------------
(* A queue and what was shown before it, once n lines have been parsed: the *)
(* two make up the log, a marker waits only at the front, and the counters  *)
(* are what the events count for.                                          *)
Buffers(s, q, h, l, n) ==
    /\ s \in Seq(Event) /\ AllFit(s) /\ q \in Seq(Event) /\ AllFit(q)
    /\ MarkersIn(q) \subseteq {1}
    /\ MarkedFrom(s, 0) /\ MarkedFrom(q, OfAll(s).lines)
    /\ OfAll(s).lines + OfAll(q).lines = n
    /\ h = OfLines(q) /\ Fits(h)
    /\ l = Plus(OfMarkers(s), OfMarkers(q))

(* What a page does to it, and what of that a consumer can tell.           *)
LEMMA PushIs ==
    ASSUME NEW s, NEW q, NEW h, NEW l, NEW from \in Nat, NEW items \in Nat,
           from + items <= MaxLog, Buffers(s, q, h, l, Cardinality(Parsed(from))),
           NEW page, page = Page(from, items),
           NEW r, r = Trim(q \o page, Plus(h, Tally(page, DOMAIN page)))
    PROVE  /\ Buffers(s, r.queue, r.held, Plus(l, r.gone), Cardinality(Parsed(from + items)))
           /\ r.gone.lines \in Nat /\ OfAll(page).lines \in 0..items
           /\ h.lines + OfAll(page).lines = r.gone.lines + r.held.lines
           /\ OfMarkers(r.queue).lines = OfMarkers(q).lines + r.gone.lines
           /\ Cardinality(Parsed(from + items)) = Cardinality(Parsed(from)) + OfAll(page).lines
<1> DEFINE c == q \o page
           n == Cardinality(Parsed(from))
<1>1. /\ page \in Seq(Event) /\ AllFit(page) /\ MarkersIn(page) = {}
      /\ MarkedFrom(page, n) /\ n \in Nat
      /\ OfAll(page).lines \in 0..items
      /\ Cardinality(Parsed(from + items)) = n + OfAll(page).lines
  <2>1. PageFrom(page, from, from + items)
    BY PageIs
  <2>2. (from + items) - from = items
    OBVIOUS
  <2>3. QED
    BY <2>1, <2>2 DEF PageFrom
<1> HIDE DEF n
<1>2. /\ s \in Seq(Event) /\ AllFit(s) /\ q \in Seq(Event) /\ AllFit(q)
      /\ MarkersIn(q) \subseteq {1}
      /\ MarkedFrom(s, 0) /\ MarkedFrom(q, OfAll(s).lines)
      /\ OfAll(s).lines + OfAll(q).lines = n
      /\ h = OfLines(q) /\ l = Plus(OfMarkers(s), OfMarkers(q))
  BY DEF Buffers, n
<1>3. /\ OfLines(q) \in Counts /\ OfMarkers(q) \in Counts /\ OfAll(q) \in Counts
      /\ OfMarkers(s) \in Counts /\ OfAll(s) \in Counts
      /\ OfLines(page) \in Counts /\ OfMarkers(page) \in Counts /\ OfAll(page) \in Counts
      /\ OfAll(page) = Plus(OfLines(page), OfMarkers(page))
  BY <1>1, <1>2, PartsAre
<1>4. OfMarkers(page) = NoTally /\ OfLines(page) = OfAll(page)
      /\ Tally(page, DOMAIN page) = OfLines(page)
  <2>1. OfMarkers(page) = NoTally
    BY <1>1, TallyNone DEF OfMarkers
  <2>2. DOMAIN page = 1..Len(page)
    BY <1>1
  <2>3. Tally(page, DOMAIN page) = OfAll(page)
    BY <2>2 DEF OfAll
  <2>4. QED
    BY <1>3, <2>1, <2>3, PlusOf
<1>5. c \in Seq(Event) /\ AllFit(c)
  BY <1>1, <1>2, JoinedIs, FitJoined
<1>6. MarkersIn(c) \subseteq {1}
  <2>1. MarkersIn(c) = MarkersIn(q) \cup Shifted(MarkersIn(page), Len(q))
    BY <1>1, <1>2, PlacesJoined
  <2>2. Shifted({}, Len(q)) = {}
    BY DEF Shifted
  <2>3. QED
    BY <1>1, <1>2, <2>1, <2>2
<1>7. /\ OfLines(c) = Plus(OfLines(q), OfLines(page))
      /\ OfMarkers(c) = Plus(OfMarkers(q), OfMarkers(page))
      /\ OfAll(c) = Plus(OfAll(q), OfAll(page))
  BY <1>1, <1>2, PartsJoined
<1>8. MarkedFrom(c, OfAll(s).lines)
  <2>1. OfAll(s).lines \in Nat
    BY <1>3, PlusOf
  <2>2. QED
    BY <1>1, <1>2, <2>1, MarkedJoined
<1> HIDE DEF c
<1>9. r = Trim(c, OfLines(c))
  BY <1>2, <1>4, <1>7 DEF c
<1>10. Trims(c, r)
  BY <1>5, <1>6, <1>9, TrimIs
<1>11. /\ r.queue \in Seq(Event) /\ AllFit(r.queue) /\ MarkersIn(r.queue) \subseteq {1}
       /\ MarkedFrom(r.queue, OfAll(s).lines)
       /\ r.held = OfLines(r.queue) /\ Fits(r.held)
       /\ r.gone \in Counts /\ OfLines(c) = Plus(r.gone, r.held)
       /\ OfMarkers(r.queue) = Plus(OfMarkers(c), r.gone)
       /\ OfAll(r.queue) = OfAll(c)
  <2>1. OfAll(s).lines \in Nat
    BY <1>3, PlusOf
  <2>2. QED
    BY <1>8, <1>10, <2>1 DEF Trims
<1>12. OfMarkers(c) = OfMarkers(q)
  BY <1>3, <1>4, <1>7, PlusOf
<1>13. Plus(l, r.gone) = Plus(OfMarkers(s), OfMarkers(r.queue))
  <2>1. \A x, y, z \in Counts : Plus(Plus(x, y), z) = Plus(x, Plus(y, z))
    BY DEF Plus, Counts
  <2>2. QED
    BY <1>2, <1>3, <1>11, <1>12, <2>1
<1>14. OfAll(s).lines + OfAll(r.queue).lines = n + OfAll(page).lines
  <2>1. /\ OfAll(r.queue).lines = OfAll(q).lines + OfAll(page).lines
        /\ OfAll(q).lines \in Nat /\ OfAll(page).lines \in Nat /\ OfAll(s).lines \in Nat
    BY <1>3, <1>7, <1>11, PlusLines
  <2>2. OfAll(s).lines + OfAll(q).lines = n
    BY <1>2
  <2>3. QED
    BY <2>1, <2>2
<1>15. Buffers(s, r.queue, r.held, Plus(l, r.gone), Cardinality(Parsed(from + items)))
  BY <1>1, <1>2, <1>11, <1>13, <1>14 DEF Buffers
<1>16. h.lines + OfAll(page).lines = r.gone.lines + r.held.lines
  <2>1. OfLines(c).lines = h.lines + OfAll(page).lines
    BY <1>2, <1>4, <1>7, PlusLines
  <2>2. OfLines(c).lines = r.gone.lines + r.held.lines
    BY <1>11, PlusLines
  <2>3. QED
    BY <2>1, <2>2
<1>17. OfMarkers(r.queue).lines = OfMarkers(q).lines + r.gone.lines /\ r.gone.lines \in Nat
  BY <1>3, <1>11, <1>12, PlusOf
<1>18. QED
  BY <1>1, <1>15, <1>16, <1>17 DEF n

(* What the next event handed out does to it.                              *)
HandsOut(s, q, e, t, o, after) ==
    o = <<e>> /\ q = o \o t /\ after = s \o o

LEMMA TakeIs ==
    ASSUME NEW s, NEW q, NEW h, NEW l, NEW n, Buffers(s, q, h, l, n),
           NEW e \in Event, NEW t \in Seq(Event), NEW o, NEW after,
           HandsOut(s, q, e, t, o, after),
           NEW left, left = IF IsLine(e) THEN Minus(h, Tally(q, {1})) ELSE h
    PROVE  /\ Buffers(after, t, left, l, n)
           /\ OfMarkers(t).lines = 0
           /\ IsLine(e) =>
                /\ OfMarkers(q).lines = 0 /\ h.lines = left.lines + 1
                /\ OfLines(after).lines = OfLines(s).lines + 1
                /\ OfMarkers(after).lines = OfMarkers(s).lines
           /\ ~IsLine(e) =>
                /\ OfMarkers(q).lines >= 1 /\ h.lines = left.lines
                /\ OfLines(after).lines = OfLines(s).lines
                /\ OfMarkers(after).lines = OfMarkers(s).lines + OfMarkers(q).lines
<1>1. /\ s \in Seq(Event) /\ AllFit(s) /\ q \in Seq(Event) /\ AllFit(q)
      /\ MarkersIn(q) \subseteq {1}
      /\ MarkedFrom(s, 0) /\ MarkedFrom(q, OfAll(s).lines)
      /\ OfAll(s).lines + OfAll(q).lines = n
      /\ h = OfLines(q) /\ Fits(h) /\ l = Plus(OfMarkers(s), OfMarkers(q))
  BY DEF Buffers
<1>2. o = <<e>> /\ q = o \o t /\ after = s \o o /\ e = q[1] /\ 1 \in 1..Len(q)
  BY <1>1 DEF HandsOut
<1>3. /\ o \in Seq(Event) /\ Len(o) = 1 /\ o[1] = e
      /\ Tally(o, {1}) = [lines |-> e.lines, characters |-> e.characters]
      /\ OfAll(o) = Tally(o, {1})
      /\ IsLine(e) => /\ LinesIn(o) = {1} /\ MarkersIn(o) = {}
                      /\ OfLines(o) = Tally(o, {1}) /\ OfMarkers(o) = NoTally
      /\ ~IsLine(e) => /\ LinesIn(o) = {} /\ MarkersIn(o) = {1}
                       /\ OfLines(o) = NoTally /\ OfMarkers(o) = Tally(o, {1})
  BY <1>2, OneIs
<1>4. Tally(q, {1}) = Tally(o, {1})
  BY <1>1, <1>2, <1>3, TallyOne
<1>5. e.lines \in Nat /\ (IsLine(e) => e.lines = 1) /\ (~IsLine(e) => e.lines >= 1)
  BY <1>1, <1>2 DEF AllFit, EventFits, Event
<1>6. AllFit(o) /\ AllFit(t) /\ after \in Seq(Event) /\ AllFit(after)
  <2>1. AllFit(o) /\ AllFit(t)
    BY <1>1, <1>2, <1>3, FitJoined
  <2>2. QED
    BY <1>1, <1>2, <1>3, <2>1, JoinedIs, FitJoined
<1>7. MarkersIn(t) = {}
  <2>1. MarkersIn(q) = MarkersIn(o) \cup Shifted(MarkersIn(t), 1)
    BY <1>2, <1>3, PlacesJoined
  <2>2. MarkersIn(t) \in SUBSET (1..Len(t))
    BY <1>2, PartsAre
  <2>3. ASSUME NEW i \in MarkersIn(t) PROVE FALSE
    <3>1. i + 1 \in MarkersIn(q) /\ i \in Nat /\ i >= 1
      BY <2>1, <2>2 DEF Shifted
    <3>2. QED
      BY <1>1, <3>1
  <2>4. QED
    BY <2>3
<1>8. OfMarkers(t) = NoTally
  BY <1>7, TallyNone DEF OfMarkers
<1>9. /\ OfLines(q) = Plus(OfLines(o), OfLines(t))
      /\ OfMarkers(q) = Plus(OfMarkers(o), OfMarkers(t))
      /\ OfAll(q) = Plus(OfAll(o), OfAll(t))
  BY <1>2, <1>3, PartsJoined
<1>10. /\ OfLines(after) = Plus(OfLines(s), OfLines(o))
       /\ OfMarkers(after) = Plus(OfMarkers(s), OfMarkers(o))
       /\ OfAll(after) = Plus(OfAll(s), OfAll(o))
  BY <1>1, <1>2, <1>3, PartsJoined
<1>11. /\ OfLines(o) \in Counts /\ OfMarkers(o) \in Counts /\ OfAll(o) \in Counts
       /\ OfLines(s) \in Counts /\ OfMarkers(s) \in Counts /\ OfAll(s) \in Counts
       /\ OfLines(t) \in Counts /\ OfMarkers(t) \in Counts /\ OfAll(t) \in Counts
  BY <1>1, <1>2, <1>3, PartsAre
<1>12. MarkedFrom(after, 0) /\ MarkedFrom(t, OfAll(after).lines)
  <2>1. OfAll(s).lines \in Nat /\ 0 + OfAll(s).lines = OfAll(s).lines
        /\ OfAll(after).lines = OfAll(s).lines + OfAll(o).lines
    BY <1>10, <1>11, PlusLines
  <2>2. MarkedFrom(o, OfAll(s).lines) /\ MarkedFrom(t, OfAll(s).lines + OfAll(o).lines)
    BY <1>1, <1>2, <1>3, <2>1, MarkedJoined
  <2>3. MarkedFrom(after, 0)
    <3>1. \A b \in Seq(Event) :
             MarkedFrom(s \o b, 0) <=> MarkedFrom(s, 0) /\ MarkedFrom(b, 0 + OfAll(s).lines)
      BY <1>1, MarkedJoined
    <3>2. QED
      BY <1>1, <1>2, <1>3, <2>1, <2>2, <3>1
  <2>4. QED
    BY <2>1, <2>2, <2>3
<1>13. OfAll(after).lines + OfAll(t).lines = n
  <2>1. /\ OfAll(after).lines = OfAll(s).lines + OfAll(o).lines
        /\ OfAll(q).lines = OfAll(o).lines + OfAll(t).lines
        /\ OfAll(s).lines \in Nat /\ OfAll(o).lines \in Nat /\ OfAll(t).lines \in Nat
    BY <1>9, <1>10, <1>11, PlusLines
  <2>2. QED
    BY <1>1, <2>1
<1>14. left = OfLines(t)
  <2>1. CASE IsLine(e)
    <3>1. left = Minus(Plus(OfLines(o), OfLines(t)), OfLines(o))
      BY <1>1, <1>3, <1>4, <1>9, <2>1
    <3>2. QED
      BY <1>11, <3>1, PlusOf
  <2>2. CASE ~IsLine(e)
    <3>1. left = Plus(NoTally, OfLines(t))
      BY <1>1, <1>3, <1>9, <2>2
    <3>2. QED
      BY <1>11, <3>1, PlusOf
  <2>3. QED
    BY <2>1, <2>2
<1>15. Fits(left)
  <2>1. /\ h.lines = OfLines(o).lines + left.lines
        /\ h.characters = OfLines(o).characters + left.characters
    BY <1>1, <1>9, <1>14 DEF Plus
  <2>2. /\ OfLines(o).lines \in Nat /\ OfLines(o).characters \in Nat
        /\ left.lines \in Nat /\ left.characters \in Nat
    BY <1>11, <1>14 DEF Counts
  <2>3. MaxLines \in Nat /\ MaxCharacters \in Nat
    BY LogAssumption
  <2>4. h.lines <= MaxLines /\ h.characters <= MaxCharacters
    BY <1>1, Zenon DEF Fits
  <2>5. left.lines <= MaxLines /\ left.characters <= MaxCharacters
    BY <2>1, <2>2, <2>3, <2>4
  <2>6. QED
    BY <2>5 DEF Fits
<1>16. l = Plus(OfMarkers(after), OfMarkers(t))
  <2>1. \A x, y, z \in Counts : Plus(x, Plus(y, z)) = Plus(Plus(x, y), z)
    BY PlusAgain
  <2>2. l = Plus(OfMarkers(s), Plus(OfMarkers(o), OfMarkers(t)))
    BY <1>1, <1>9
  <2>3. Plus(OfMarkers(s), Plus(OfMarkers(o), OfMarkers(t)))
          = Plus(Plus(OfMarkers(s), OfMarkers(o)), OfMarkers(t))
    BY <1>11, <2>1
  <2>4. QED
    BY <1>10, <2>2, <2>3, Zenon
<1>17. Buffers(after, t, left, l, n)
  <2>1. MarkersIn(t) \subseteq {1}
    BY <1>7
  <2>2. QED
    BY <1>2, <1>6, <1>12, <1>13, <1>14, <1>15, <1>16, <2>1 DEF Buffers
<1>18. /\ OfMarkers(t).lines = 0 /\ NoTally.lines = 0 /\ Tally(o, {1}).lines = e.lines
       /\ OfMarkers(q).lines = OfMarkers(o).lines + 0
       /\ h.lines = OfLines(o).lines + left.lines /\ left.lines \in Nat
       /\ OfLines(after).lines = OfLines(s).lines + OfLines(o).lines
       /\ OfMarkers(after).lines = OfMarkers(s).lines + OfMarkers(o).lines
       /\ OfLines(s).lines \in Nat /\ OfMarkers(s).lines \in Nat
  <2>1. NoTally.lines = 0 /\ Tally(o, {1}).lines = e.lines
    BY <1>3 DEF NoTally
  <2>2. QED
    BY <1>1, <1>8, <1>9, <1>10, <1>11, <1>14, <2>1, PlusLines
<1>19. CASE IsLine(e)
  <2>1. OfLines(o).lines = 1 /\ OfMarkers(o).lines = 0
    BY <1>3, <1>5, <1>18, <1>19
  <2>2. QED
    BY <1>17, <1>18, <1>19, <2>1
<1>20. CASE ~IsLine(e)
  <2>1. OfLines(o).lines = 0 /\ OfMarkers(o).lines = e.lines /\ e.lines >= 1 /\ e.lines \in Nat
    BY <1>3, <1>5, <1>18, <1>20
  <2>2. QED
    BY <1>17, <1>18, <1>20, <2>1
<1>21. QED
  BY <1>19, <1>20

-----------------------------------------------------------------------------
(* The ranges of the rest, and the drain's next link, which is the cursor: *)
(* what was read last is followed by what it is asked for next.            *)
Ranges ==
    /\ written \in 0..MaxLog /\ job \in {"running", "terminal"}
    /\ pages \in 0..MaxDrainPages /\ windows \in 0..(MaxWindows - 1)
    /\ cancelled \in BOOLEAN /\ finished \in BOOLEAN
    /\ outcome \in {None, "terminal", "cancelled", "failed"}
    /\ told \in {"no", "sent", "answered"}
    /\ pc = "follow" => next = start

LEMMA DrainRanges ==
    ASSUME Ranges, ~cancelled, NEW from \in 0..written, EndInv,
           start' = from + Available(from), \E link \in NextOf(from) : Drain(link),
           pages' \in 0..MaxDrainPages,
           UNCHANGED <<written, job, windows, cancelled, finished, told>>
    PROVE  Ranges'
<1>1. PICK link \in NextOf(from) : Drain(link)
  OBVIOUS
<1>2. link = start' \/ link = None
  BY <1>1, PageFits DEF EndInv
<1>3. CASE link = None
  BY <1>1, <1>3 DEF Ranges, Drain, End
<1>4. CASE link # None
  BY <1>1, <1>2, <1>4 DEF Ranges, Drain
<1>5. QED
  BY <1>3, <1>4

LEMMA RangesHold == Spec => []Ranges
<1>1. /\ MaxLog \in Nat /\ MaxDrainPages \in Nat \ {0} /\ MaxWindows \in Nat \ {0}
  BY LogAssumption
<1>2. Init => Ranges
  <2>1. 0 \in 0..MaxLog /\ 0 \in 0..MaxDrainPages /\ 0 \in 0..(MaxWindows - 1)
    BY <1>1
  <2>2. FALSE \in BOOLEAN
    OBVIOUS
  <2>3. QED
    BY <2>1, <2>2, Zenon DEF Init, Ranges
<1>3. EndInv /\ Ranges /\ [Next]_vars => Ranges'
  <2> SUFFICES ASSUME EndInv, Ranges, [Next]_vars PROVE Ranges'
    OBVIOUS
  <2>1. CASE RequestFails
    BY <2>1 DEF RequestFails, Ranges, End
  <2>2. CASE NoticesCancel
    BY <2>2 DEF NoticesCancel, Ranges, End
  <2>3. CASE PollPage
    <3>1. windows' \in 0..(MaxWindows - 1) /\ pc' # "follow"
      BY <1>1, <2>3 DEF PollPage, Ranges
    <3>2. UNCHANGED <<written, job, pages, cancelled, finished, outcome, told>>
      BY <2>3 DEF PollPage
    <3>3. QED
      BY <3>1, <3>2 DEF Ranges
  <2>4. CASE StateRead
    BY <2>4 DEF StateRead, Ranges
  <2>5. CASE DrainFirst
    <3>1. start \in 0..written /\ pages' \in 0..MaxDrainPages
      BY <2>5 DEF DrainFirst, EndInv, Ranges
    <3>2. QED
      BY <2>5, <3>1, DrainRanges DEF DrainFirst
  <2>6. CASE DrainNext
    <3>1. next \in 0..written /\ pages' \in 0..MaxDrainPages
      BY <1>1, <2>6 DEF DrainNext, EndInv, Ranges
    <3>2. QED
      BY <2>6, <3>1, DrainRanges DEF DrainNext
  <2>7. CASE PagingDidNotEnd
    BY <2>7 DEF PagingDidNotEnd, Ranges, End
  <2>8. CASE Take
    BY <2>8 DEF Take, Ranges
  <2>9. CASE JobWrites
    BY <1>1, <2>9 DEF JobWrites, Ranges
  <2>10. CASE JobEnds
    BY <2>10 DEF JobEnds, Ranges
  <2>11. CASE Cancel
    BY <2>11 DEF Cancel, Ranges
  <2>12. CASE CancelAnswered
    BY <2>12 DEF CancelAnswered, Ranges
  <2>13. CASE CallerAborts
    BY <2>13 DEF CallerAborts, Ranges
  <2>14. CASE UNCHANGED vars
    BY <2>14 DEF vars, Ranges
  <2>15. QED
    BY <2>1, <2>2, <2>3, <2>4, <2>5, <2>6, <2>7, <2>8, <2>9, <2>10, <2>11, <2>12, <2>13, <2>14
    DEF Next, Pump
<1>4. QED
  BY <1>2, <1>3, EndInvHolds, PTL DEF Spec

-----------------------------------------------------------------------------
(* Queue and consumer between them have the log up to the cursor.          *)
Buffered == Buffers(seen, queue, held, lost, Cardinality(Parsed(start)))

(* A page reaches the buffer: n lines of it, and k go to make room.        *)
PageCame(n, k) ==
    /\ n \in 0..Limit /\ k \in Nat /\ seen' = seen
    /\ Cardinality(Parsed(start')) = Cardinality(Parsed(start)) + n
    /\ held.lines + n = k + held'.lines
    /\ OfMarkers(queue').lines = OfMarkers(queue).lines + k

LEMMA PushBuffers ==
    ASSUME EndInv, Ranges, Buffered, Push(start, Available(start)),
           start' = start + Available(start), seen' = seen
    PROVE  Buffered' /\ \E n, k \in Nat : PageCame(n, k)
<1> DEFINE items == Available(start)
           page == Page(start, items)
           r == Trim(queue \o page, Plus(held, Tally(page, DOMAIN page)))
<1>1. start \in Nat /\ items \in 0..Limit /\ items \in Nat /\ start + items <= MaxLog
  <2>1. start \in 0..written /\ written \in 0..MaxLog /\ MaxLog \in Nat /\ Limit \in Nat
    BY LogAssumption DEF EndInv, Ranges
  <2>2. QED
    BY <2>1 DEF Available
<1>2. queue' = r.queue /\ held' = r.held /\ lost' = Plus(lost, r.gone)
  BY DEF Push
<1>3. Buffers(seen, queue, held, lost, Cardinality(Parsed(start)))
  BY DEF Buffered
<1>4. start' = start + items
  OBVIOUS
<1> HIDE DEF items
<1>5. /\ Buffers(seen, r.queue, r.held, Plus(lost, r.gone), Cardinality(Parsed(start + items)))
      /\ r.gone.lines \in Nat /\ OfAll(page).lines \in 0..items
      /\ held.lines + OfAll(page).lines = r.gone.lines + r.held.lines
      /\ OfMarkers(r.queue).lines = OfMarkers(queue).lines + r.gone.lines
      /\ Cardinality(Parsed(start + items)) = Cardinality(Parsed(start)) + OfAll(page).lines
  BY <1>1, <1>3, PushIs
<1> HIDE DEF r, page
<1>6. Buffers(seen', queue', held', lost', Cardinality(Parsed(start')))
  BY <1>2, <1>4, <1>5
<1>7. PageCame(OfAll(page).lines, r.gone.lines)
  <2>1. OfAll(page).lines \in 0..Limit
    <3>1. Limit \in Nat
      BY LogAssumption
    <3>2. QED
      BY <1>1, <1>5, <3>1
  <2>2. /\ Cardinality(Parsed(start')) = Cardinality(Parsed(start)) + OfAll(page).lines
        /\ held.lines + OfAll(page).lines = r.gone.lines + held'.lines
        /\ OfMarkers(queue').lines = OfMarkers(queue).lines + r.gone.lines
    BY <1>2, <1>4, <1>5
  <2>3. QED
    BY <1>5, <2>1, <2>2 DEF PageCame
<1>8. OfAll(page).lines \in Nat /\ r.gone.lines \in Nat
  BY <1>1, <1>5
<1>9. QED
  BY <1>6, <1>7, <1>8 DEF Buffered

(* The consumer is handed a line, or told of a loss.                       *)
LineShown ==
    /\ OfMarkers(queue).lines = 0 /\ OfMarkers(queue').lines = 0
    /\ held.lines = held'.lines + 1
    /\ OfLines(seen').lines = OfLines(seen).lines + 1
    /\ OfMarkers(seen').lines = OfMarkers(seen).lines
LossTold ==
    /\ OfMarkers(queue).lines >= 1 /\ OfMarkers(queue').lines = 0
    /\ held.lines = held'.lines
    /\ OfLines(seen').lines = OfLines(seen).lines
    /\ OfMarkers(seen').lines = OfMarkers(seen).lines + OfMarkers(queue).lines

LEMMA TakeBuffers ==
    ASSUME Buffered, Take
    PROVE  Buffered' /\ (LineShown \/ LossTold)
<1> DEFINE e == Head(queue)
           t == Tail(queue)
           o == <<e>>
<1>1. Buffers(seen, queue, held, lost, Cardinality(Parsed(start)))
  BY DEF Buffered
<1>2. seen \in Seq(Event) /\ queue \in Seq(Event) /\ queue # << >>
  BY <1>1 DEF Buffers, Take
<1>3. e \in Event /\ t \in Seq(Event)
  BY <1>2
<1>4. queue = o \o t /\ Append(seen, e) = seen \o o
  <2>1. queue = o \o t
    BY <1>2
  <2>2. Append(seen, e) = seen \o o
    BY <1>2, <1>3
  <2>3. QED
    BY <2>1, <2>2
<1>5. /\ seen' = Append(seen, e) /\ queue' = t /\ start' = start /\ lost' = lost
      /\ held' = IF IsLine(e) THEN Minus(held, Tally(queue, {1})) ELSE held
  BY DEF Take
<1>6. HandsOut(seen, queue, e, t, o, seen')
  BY <1>4, <1>5 DEF HandsOut
<1> HIDE DEF e, t, o
<1>7. /\ Buffers(seen', t, held', lost, Cardinality(Parsed(start)))
      /\ OfMarkers(t).lines = 0
      /\ IsLine(e) =>
           /\ OfMarkers(queue).lines = 0 /\ held.lines = held'.lines + 1
           /\ OfLines(seen').lines = OfLines(seen).lines + 1
           /\ OfMarkers(seen').lines = OfMarkers(seen).lines
      /\ ~IsLine(e) =>
           /\ OfMarkers(queue).lines >= 1 /\ held.lines = held'.lines
           /\ OfLines(seen').lines = OfLines(seen).lines
           /\ OfMarkers(seen').lines = OfMarkers(seen).lines + OfMarkers(queue).lines
  BY <1>1, <1>3, <1>5, <1>6, TakeIs
<1>8. Buffered'
  <2>1. Buffers(seen', queue', held', lost', Cardinality(Parsed(start')))
    BY <1>5, <1>7
  <2>2. QED
    BY <2>1 DEF Buffered
<1>9. LineShown \/ LossTold
  BY <1>5, <1>7 DEF LineShown, LossTold
<1>10. QED
  BY <1>8, <1>9

LEMMA StepBuffers ==
    ASSUME EndInv, Ranges, Buffered, [Next]_vars
    PROVE  /\ Buffered'
           /\ \/ \E n, k \in Nat : PageCame(n, k)
              \/ (LineShown \/ LossTold) /\ start' = start
              \/ UNCHANGED <<start, buffer, seen>>
<1>1. CASE PollPage
  BY <1>1, PushBuffers DEF PollPage
<1>2. CASE DrainFirst
  BY <1>2, PushBuffers DEF DrainFirst
<1>3. CASE DrainNext
  <2>1. next = start
    BY <1>3 DEF DrainNext, Ranges
  <2>2. QED
    BY <1>3, <2>1, PushBuffers DEF DrainNext
<1>4. CASE Take
  BY <1>4, TakeBuffers DEF Take
<1>5. CASE \/ RequestFails \/ NoticesCancel \/ StateRead \/ PagingDidNotEnd
           \/ JobWrites \/ JobEnds \/ Cancel \/ CancelAnswered \/ CallerAborts
           \/ UNCHANGED vars
  <2>1. UNCHANGED <<start, buffer, seen>>
    BY <1>5 DEF RequestFails, NoticesCancel, StateRead, PagingDidNotEnd, JobWrites, JobEnds,
       Cancel, CancelAnswered, CallerAborts, vars
  <2>2. UNCHANGED <<start, queue, held, lost, seen>>
    BY <2>1 DEF buffer
  <2>3. QED
    BY <2>1, <2>2 DEF Buffered
<1>6. QED
  BY <1>1, <1>2, <1>3, <1>4, <1>5 DEF Next, Pump

LEMMA BufferedHolds == Spec => []Buffered
<1>1. Init => Buffered
  <2> SUFFICES ASSUME Init PROVE Buffered
    OBVIOUS
  <2>1. << >> \in Seq(Event) /\ Len(<< >>) = 0 /\ 1..0 = {}
    OBVIOUS
  <2>2. LinesIn(<< >>) = {} /\ MarkersIn(<< >>) = {}
    <3>1. LinesIn(<< >>) \in SUBSET (1..Len(<< >>)) /\ MarkersIn(<< >>) \in SUBSET (1..Len(<< >>))
      BY <2>1, PartsAre
    <3>2. QED
      BY <2>1, <3>1
  <2>3. OfLines(<< >>) = NoTally /\ OfMarkers(<< >>) = NoTally /\ OfAll(<< >>) = NoTally
    BY <2>1, <2>2, TallyNone DEF OfLines, OfMarkers, OfAll
  <2>4. Plus(NoTally, NoTally) = NoTally /\ NoTally.lines = 0 /\ Fits(NoTally)
    BY LogAssumption DEF Plus, NoTally, Fits
  <2>5. Cardinality(Parsed(0)) = 0
    BY FS_EmptySet DEF Parsed
  <2>6. \A n : MarkedFrom(<< >>, n)
    BY <2>2 DEF MarkedFrom
  <2>7. AllFit(<< >>)
    BY <2>1 DEF AllFit
  <2>8. Buffers(<< >>, << >>, NoTally, NoTally, 0)
    BY <2>1, <2>2, <2>3, <2>4, <2>6, <2>7 DEF Buffers
  <2>9. QED
    BY <2>5, <2>8 DEF Init, Buffered
<1>2. EndInv /\ Ranges /\ Buffered /\ [Next]_vars => Buffered'
  BY StepBuffers
<1>3. QED
  BY <1>1, <1>2, EndInvHolds, RangesHold, PTL DEF Spec

-----------------------------------------------------------------------------
(* Every variable of the stream keeps to its range: cursor and link within *)
(* the log, pages and windows within their bounds, the queue and what was  *)
(* shown made of events, and the counters never below zero.                *)
THEOREM StreamTyped == Spec => []TypeOK
<1>1. EndInv /\ Ranges /\ Buffered => TypeOK
  <2> SUFFICES ASSUME EndInv, Ranges, Buffered PROVE TypeOK
    OBVIOUS
  <2>1. start \in 0..MaxLog /\ next \in 0..MaxLog \cup {None}
    BY LogAssumption DEF EndInv, Ranges
  <2>2. queue \in Seq(Event) /\ seen \in Seq(Event)
        /\ held = OfLines(queue) /\ lost = Plus(OfMarkers(seen), OfMarkers(queue))
    BY DEF Buffered, Buffers
  <2>3. OfLines(queue) \in Counts /\ OfMarkers(queue) \in Counts /\ OfMarkers(seen) \in Counts
    BY <2>2, PartsAre
  <2>4. held \in Counts /\ lost \in Counts
    BY <2>2, <2>3, PlusOf
  <2>5. QED
    BY <2>1, <2>2, <2>4 DEF TypeOK, EndInv, Ranges, Counts
<1>2. QED
  BY <1>1, EndInvHolds, RangesHold, BufferedHolds, PTL

(* Whatever the log, the pages, the bounds and the consumer's pace: before *)
(* each line handed out or waiting stand exactly the lines and the losses  *)
(* that come before it in the log, the totals are the sum of the markers,  *)
(* and the buffer holds what it says it holds, within its bounds.          *)
THEOREM LogIsKept == Spec => []LogIsAccounted
<1>1. Buffered => LogIsAccounted
  <2> SUFFICES ASSUME Buffered PROVE LogIsAccounted
    OBVIOUS
  <2>1. /\ seen \in Seq(Event) /\ queue \in Seq(Event)
        /\ MarkedFrom(seen, 0) /\ MarkedFrom(queue, OfAll(seen).lines)
        /\ held = OfLines(queue) /\ Fits(held)
        /\ lost = Plus(OfMarkers(seen), OfMarkers(queue))
    BY DEF Buffered, Buffers
  <2>2. Story \in Seq(Event)
    BY <2>1, JoinedIs DEF Story
  <2>3. MarkedFrom(Story, 0)
    <3>1. 0 + OfAll(seen).lines = OfAll(seen).lines
      BY <2>1, PartsAre, PlusLines
    <3>2. MarkedFrom(seen \o queue, 0)
            <=> MarkedFrom(seen, 0) /\ MarkedFrom(queue, 0 + OfAll(seen).lines)
      BY <2>1, MarkedJoined
    <3>3. QED
      BY <2>1, <3>1, <3>2 DEF Story
  <2>4. HolesAreMarked
    <3> SUFFICES ASSUME NEW i \in LinesIn(Story)
                 PROVE  Tally(Story, 1..i).lines = Cardinality(Parsed(Story[i].at))
      BY DEF HolesAreMarked
    <3>1. 1..i \in SUBSET (1..Len(Story))
      BY <2>2, PartsAre, EventsAre
    <3>2. Tally(Story, 1..i) \in Counts
      BY <2>2, <3>1, TallyNat
    <3>3. Tally(Story, 1..i).lines \in Nat
      BY <3>2, PlusLines
    <3>4. 0 + Tally(Story, 1..i).lines = Cardinality(Parsed(Story[i].at))
      BY <2>3 DEF MarkedFrom
    <3>5. QED
      BY <3>3, <3>4
  <2>5. TotalsMatchMarkers
    BY <2>1, PartsJoined DEF TotalsMatchMarkers, Story, OfMarkers
  <2>6. BufferIsBounded
    BY <2>1 DEF BufferIsBounded, OfLines
  <2>7. QED
    BY <2>4, <2>5, <2>6 DEF LogIsAccounted
<1>2. QED
  BY <1>1, BufferedHolds, PTL

(* What a consumer sees of a buffer.                                       *)
Sees(s, q, h) ==
    /\ Cardinality(LinesIn(s)) = OfLines(s).lines
    /\ OfLines(s).lines \in Nat /\ OfMarkers(s).lines \in Nat
    /\ OfMarkers(q).lines \in Nat /\ h.lines \in Nat /\ h.lines <= MaxLines

LEMMA SeenAs ==
    ASSUME NEW s, NEW q, NEW h, NEW l, NEW n, Buffers(s, q, h, l, n)
    PROVE  Sees(s, q, h)
<1>1. s \in Seq(Event) /\ AllFit(s) /\ q \in Seq(Event) /\ h = OfLines(q) /\ Fits(h)
  BY DEF Buffers
<1>2. /\ OfLines(s) \in Counts /\ OfMarkers(s) \in Counts
      /\ OfLines(q) \in Counts /\ OfMarkers(q) \in Counts
  BY <1>1, PartsAre
<1>3. OfLines(s).lines = Cardinality(LinesIn(s))
  BY <1>1, LinesCounted
<1>4. h.lines <= MaxLines
  BY <1>1 DEF Fits
<1>5. QED
  BY <1>1, <1>2, <1>3, <1>4, PlusLines DEF Sees

(* The stream implements LogWindow: each page is one read that makes room  *)
(* by losing the oldest, each event handed out shows the next line or      *)
(* tells of what was lost before it, and no other step can be seen.        *)
THEOREM StreamImplementsWindow == Spec => ImplementsWindow
<1> DEFINE read == Cardinality(Parsed(start))
           low == read - held.lines
<1>1. Init => Window!Init
  <2> SUFFICES ASSUME Init PROVE Window!Init
    OBVIOUS
  <2>1. LinesIn(<< >>) = {} /\ MarkersIn(<< >>) = {}
    <3>1. << >> \in Seq(Event) /\ 1..Len(<< >>) = {}
      OBVIOUS
    <3>2. LinesIn(<< >>) \in SUBSET (1..Len(<< >>)) /\ MarkersIn(<< >>) \in SUBSET (1..Len(<< >>))
      BY <3>1, PartsAre
    <3>3. QED
      BY <3>1, <3>2
  <2>2. Tally(<< >>, {}).lines = 0 /\ NoTally.lines = 0
    BY TallyNone DEF NoTally
  <2>3. Cardinality(Parsed(0)) = 0 /\ Cardinality({}) = 0
    BY FS_EmptySet DEF Parsed
  <2>4. start = 0 /\ queue = << >> /\ seen = << >> /\ held = NoTally
    BY DEF Init
  <2>5. Shown = 0 /\ Told = 0 /\ Gap = 0
    BY <2>1, <2>2, <2>3, <2>4 DEF Shown, Told, Gap
  <2>6. QED
    BY <2>2, <2>3, <2>4, <2>5 DEF Window!Init
<1>2. Buffered => /\ Shown = OfLines(seen).lines /\ Told = OfMarkers(seen).lines
                  /\ Gap = OfMarkers(queue).lines
                  /\ Shown \in Nat /\ Told \in Nat /\ Gap \in Nat /\ held.lines \in Nat
  BY SeenAs DEF Buffered, Sees, Shown, Told, Gap, OfMarkers
<1>3. EndInv /\ Ranges => read \in Nat
  <2> SUFFICES ASSUME EndInv, Ranges PROVE read \in Nat
    OBVIOUS
  <2>1. start \in Nat /\ 0 \in Nat /\ start + 0 <= MaxLog
    BY LogAssumption DEF EndInv, Ranges
  <2>2. PageFrom(Page(start, 0), start, start + 0)
    BY <2>1, PageIs
  <2>3. QED
    BY <2>2 DEF PageFrom
<1>4. EndInv /\ Ranges /\ Buffered /\ Buffered' /\ [Next]_vars => [Window!Next]_(Window!vars)
  <2> SUFFICES ASSUME EndInv, Ranges, Buffered, Buffered', [Next]_vars
               PROVE  [Window!Next]_(Window!vars)
    OBVIOUS
  <2>1. /\ Shown = OfLines(seen).lines /\ Told = OfMarkers(seen).lines
        /\ Gap = OfMarkers(queue).lines /\ read \in Nat
        /\ Shown \in Nat /\ Told \in Nat /\ Gap \in Nat /\ held.lines \in Nat
    BY <1>2, <1>3
  <2>2. /\ Shown' = OfLines(seen').lines /\ Told' = OfMarkers(seen').lines
        /\ Gap' = OfMarkers(queue').lines
        /\ held'.lines \in Nat /\ held'.lines <= MaxLines
    <3>1. Buffers(seen', queue', held', lost', Cardinality(Parsed(start')))
      BY DEF Buffered
    <3>2. Sees(seen', queue', held')
      BY <3>1, SeenAs
    <3>3. QED
      BY <3>2 DEF Sees, Shown, Told, Gap, OfMarkers
  <2>3. CASE \E n, k \in Nat : PageCame(n, k)
    <3>1. PICK n \in Nat, k \in Nat : PageCame(n, k)
      BY <2>3
    <3>2. /\ read' = read + n /\ Gap' = Gap + k /\ Shown' = Shown /\ Told' = Told
          /\ held.lines + n = k + held'.lines /\ n \in 0..Limit
      BY <2>1, <2>2, <3>1 DEF PageCame
    <3>3. low' = low + k /\ k \in 0..(read + n - low) /\ read + n - (low + k) <= MaxLines
      <4>1. MaxLines \in Nat
        BY LogAssumption
      <4>2. low' = read' - held'.lines
        OBVIOUS
      <4>3. \A a, x, y \in Nat :
               x + n = k + y /\ y <= MaxLines =>
                  /\ (a + n) - y = (a - x) + k /\ k \in 0..(a + n - (a - x))
                  /\ a + n - ((a - x) + k) <= MaxLines
        BY <4>1
      <4>4. QED
        BY <2>1, <2>2, <3>2, <4>2, <4>3
    <3>4. Window!Read(n, k)
      BY <3>2, <3>3 DEF Window!Read
    <3>5. QED
      BY <3>2, <3>3, <3>4 DEF Window!Next
  <2>4. CASE LineShown /\ start' = start
    <3>1. /\ Gap = 0 /\ low < read /\ low' = low + 1 /\ Shown' = Shown + 1
          /\ read' = read /\ Told' = Told /\ Gap' = Gap
      BY <2>1, <2>2, <2>4 DEF LineShown
    <3>2. Window!Show
      BY <3>1 DEF Window!Show
    <3>3. QED
      BY <3>2 DEF Window!Next
  <2>5. CASE LossTold /\ start' = start
    <3>1. /\ Gap > 0 /\ Told' = Told + Gap /\ Gap' = 0
          /\ read' = read /\ low' = low /\ Shown' = Shown
      BY <2>1, <2>2, <2>5 DEF LossTold
    <3>2. Window!Tell
      BY <3>1 DEF Window!Tell
    <3>3. QED
      BY <3>2 DEF Window!Next
  <2>6. CASE UNCHANGED <<start, buffer, seen>>
    <3>1. start' = start /\ queue' = queue /\ held' = held /\ seen' = seen
      BY <2>6 DEF buffer
    <3>2. UNCHANGED <<read, low, Shown, Told, Gap>>
      BY <2>1, <2>2, <3>1
    <3>3. QED
      BY <3>2 DEF Window!vars
  <2>7. QED
    BY <2>3, <2>4, <2>5, <2>6, StepBuffers
<1>5. QED
  BY <1>1, <1>4, EndInvHolds, RangesHold, BufferedHolds, PTL DEF Spec, ImplementsWindow
=============================================================================
