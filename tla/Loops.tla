------------------------------- MODULE Loops --------------------------------
(***************************************************************************)
(* Facts about loops: induction on the number of turns, and that a state   *)
(* defined from the one a turn earlier is defined for every turn.  They    *)
(* are said of sets and functions, so that no operator is a parameter.     *)
(***************************************************************************)
EXTENDS Integers, WellFoundedInduction, TLAPS

Below == {pair \in Nat \X Nat : pair[1] < pair[2]}

\* There is no endless way down the numbers.
LEMMA BelowIsWellFounded == IsWellFoundedOn(Below, Nat)
  BY NatLessThanWellFounded DEF OpToRel, Below

\* What holds before the first turn and is kept by each holds after any number.
LEMMA InductionOnTurns ==
  ASSUME NEW S, 0 \in S, \A n \in Nat : n \in S => n + 1 \in S
  PROVE  Nat \subseteq S
<1> SUFFICES ASSUME Nat \ S # {} PROVE FALSE
  OBVIOUS
<1>1. PICK m \in Nat \ S : \A k \in Nat \ S : <<k, m>> \notin Below
  BY BelowIsWellFounded, WFMin
<1>2. m # 0 /\ m - 1 \in Nat
  OBVIOUS
<1>3. <<m - 1, m>> \in Below
  BY <1>2 DEF Below
<1>4. m - 1 \in S
  BY <1>1, <1>2, <1>3
<1> QED BY <1>2, <1>4

\* Of some of the numbers up to a bound one is the largest.
LEMMA LargestExists ==
  ASSUME NEW n \in Nat, NEW S \in SUBSET (1 .. n), S # {}
  PROVE  \E i \in S : \A j \in S : j <= i
<1> DEFINE R == {m \in Nat : n - m \in S}
<1>1. R # {} /\ R \subseteq Nat
  <2>1. PICK i \in S : TRUE
    OBVIOUS
  <2>2. n - i \in Nat /\ n - (n - i) = i
    OBVIOUS
  <2> QED BY <2>1, <2>2
<1>2. PICK m \in R : \A k \in R : <<k, m>> \notin Below
  BY <1>1, BelowIsWellFounded, WFMin
<1>3. ASSUME NEW j \in S
      PROVE  j <= n - m
  <2>1. n - j \in Nat /\ n - (n - j) = j
    OBVIOUS
  <2>2. ~ (n - j < m)
    BY <1>2, <2>1 DEF Below
  <2> QED BY <2>1, <2>2
<1> QED BY <1>2, <1>3

\* The states of a loop from start that has made n turns.
History(S, start, turn, n) ==
  {h \in [0 .. n -> S] : h[0] = start /\ \A m \in 1 .. n : h[m] = turn[m][h[m - 1]]}

\* A loop whose turns keep its state in S can make any number of turns.
LEMMA HistoryExists ==
  ASSUME NEW S, NEW start \in S, NEW turn,
         \A n \in Nat, s \in S : turn[n][s] \in S
  PROVE  \A n \in Nat : History(S, start, turn, n) # {}
<1> DEFINE D == {n \in Nat : History(S, start, turn, n) # {}}
<1>1. 0 \in D
  <2>1. [m \in 0 .. 0 |-> start] \in History(S, start, turn, 0)
    BY DEF History
  <2> QED BY <2>1
<1>2. ASSUME NEW n \in Nat, n \in D
      PROVE  n + 1 \in D
  <2>1. PICK h : h \in History(S, start, turn, n)
    BY <1>2
  <2> DEFINE next == [m \in 0 .. n + 1 |-> IF m = n + 1 THEN turn[m][h[n]] ELSE h[m]]
  <2>2. h \in [0 .. n -> S] /\ h[0] = start
    BY <2>1 DEF History
  <2>3. next \in [0 .. n + 1 -> S]
    BY <2>2
  <2>4. next[0] = start
    BY <2>2
  <2>5. ASSUME NEW m \in 1 .. n + 1
        PROVE  next[m] = turn[m][next[m - 1]]
    <3>1. CASE m = n + 1
      BY <3>1
    <3>2. CASE m # n + 1
      <4>1. m \in 1 .. n /\ next[m] = h[m] /\ next[m - 1] = h[m - 1]
        BY <3>2
      <4>2. h[m] = turn[m][h[m - 1]]
        BY <2>1, <4>1 DEF History
      <4> QED BY <4>1, <4>2
    <3> QED BY <3>1, <3>2
  <2> HIDE DEF next
  <2>6. next \in History(S, start, turn, n + 1)
    BY <2>3, <2>4, <2>5 DEF History
  <2> QED BY <2>6
<1> HIDE DEF D
<1>3. Nat \subseteq D
  BY <1>1, <1>2, InductionOnTurns
<1> QED BY <1>3 DEF D

\* Two histories agree as far as both go.
LEMMA HistoryIsUnique ==
  ASSUME NEW S, NEW start, NEW turn, NEW m \in Nat, NEW n \in Nat,
         NEW g \in History(S, start, turn, m), NEW h \in History(S, start, turn, n)
  PROVE  \A k \in Nat : k <= m /\ k <= n => g[k] = h[k]
<1> DEFINE D == {k \in Nat : k <= m /\ k <= n => g[k] = h[k]}
<1>1. 0 \in D
  BY DEF History
<1>2. ASSUME NEW k \in Nat, k \in D
      PROVE  k + 1 \in D
  <2> SUFFICES ASSUME k + 1 <= m, k + 1 <= n
               PROVE  g[k + 1] = h[k + 1]
    OBVIOUS
  <2>1. g[k] = h[k]
    BY <1>2
  <2>2. k + 1 \in 1 .. m /\ k + 1 \in 1 .. n /\ (k + 1) - 1 = k
    OBVIOUS
  <2>3. g[k + 1] = turn[k + 1][g[k]] /\ h[k + 1] = turn[k + 1][h[k]]
    BY <2>2 DEF History
  <2> QED BY <2>1, <2>3
<1> HIDE DEF D
<1>3. Nat \subseteq D
  BY <1>1, <1>2, InductionOnTurns
<1> QED BY <1>3 DEF D

\* A loop without end, each state defined by the one a turn earlier.
Course(S, start, turn) ==
  {f \in [Nat -> S] : f[0] = start /\ \A n \in Nat : f[n + 1] = turn[n + 1][f[n]]}

\* There is such a function.
LEMMA CourseExists ==
  ASSUME NEW S, NEW start \in S, NEW turn,
         \A n \in Nat, s \in S : turn[n][s] \in S
  PROVE  Course(S, start, turn) # {}
<1> DEFINE H(n) == CHOOSE h : h \in History(S, start, turn, n)
           f == [n \in Nat |-> H(n)[n]]
<1>1. ASSUME NEW n \in Nat  PROVE H(n) \in History(S, start, turn, n)
  BY HistoryExists
<1> HIDE DEF H
<1>2. f \in [Nat -> S]
  BY <1>1 DEF History
<1>3. f[0] = start
  BY <1>1 DEF History
<1>4. ASSUME NEW n \in Nat
      PROVE  f[n + 1] = turn[n + 1][f[n]]
  <2>1. n + 1 \in 1 .. n + 1 /\ (n + 1) - 1 = n
    OBVIOUS
  <2>2. H(n + 1)[n + 1] = turn[n + 1][H(n + 1)[n]]
    BY <1>1, <2>1 DEF History
  <2>3. H(n + 1)[n] = H(n)[n]
    BY <1>1, HistoryIsUnique
  <2> QED BY <2>2, <2>3
<1> HIDE DEF f
<1>5. f \in Course(S, start, turn)
  BY <1>2, <1>3, <1>4 DEF Course
<1> QED BY <1>5
=============================================================================
