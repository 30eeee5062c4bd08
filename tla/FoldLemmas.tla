------------------------------ MODULE FoldLemmas ------------------------------
(***************************************************************************)
(* What FoldLeft computes, one element at a time.  The operator that is    *)
(* folded is a constant of this module: the lemmas are used through an     *)
(* INSTANCE for each operator.                                             *)
(***************************************************************************)
EXTENDS Integers, Sequences, SequencesExt, WellFoundedInduction, TLAPS

CONSTANT op(_, _)

Fold(base, seq) == FoldLeft(op, base, seq)

\* A non-empty set of naturals has a least element.
LEMMA LeastElement ==
    ASSUME NEW T \in SUBSET Nat, T # {}
    PROVE  \E x \in T : \A y \in T : x <= y
<1> DEFINE R == {ss \in Nat \X Nat : ss[1] < ss[2]}
<1>1. IsWellFoundedOn(R, Nat)
  BY NatLessThanWellFounded, Zenon DEF OpToRel
<1> HIDE DEF R
<1>2. PICK x \in T : \A y \in T : ~(<<y, x>> \in R)
  BY <1>1, WFMin, Zenon
<1>3. \A y \in T : ~(y < x)
  BY <1>2 DEF R
<1>4. QED
  BY <1>3

\* The greatest of the first n+1 numbers in a set is n+1, or the set is one of the
\* first n: without its greatest element it is one of these in any case.
LEMMA MaxOfInterval ==
    ASSUME NEW n \in Nat, NEW s \in SUBSET (1..(n + 1)), s # {}
    PROVE  /\ Max(s) \in s /\ \A y \in s : y <= Max(s)
           /\ s \ {Max(s)} \in SUBSET (1..n)
<1> DEFINE T == {n + 1 - x : x \in s}
<1>0. \A y \in s : y \in 1..(n + 1)
  OBVIOUS
<1>1. T \in SUBSET Nat /\ T # {}
  <2>1. \A y \in s : n + 1 - y \in Nat
    BY <1>0
  <2>2. PICK y \in s : TRUE
    OBVIOUS
  <2>3. n + 1 - y \in T
    BY <2>2
  <2>4. QED
    BY <2>1, <2>3
<1> HIDE DEF T
<1>2. PICK t \in T : \A u \in T : t <= u
  BY <1>1, LeastElement
<1>3. PICK x \in s : t = n + 1 - x
  BY <1>2 DEF T
<1>4. \A y \in s : x >= y
  <2>1. \A y \in s : n + 1 - y \in T
    BY DEF T
  <2>2. QED
    BY <1>0, <1>2, <1>3, <2>1
<1>5. Max(s) \in s /\ \A y \in s : y <= Max(s)
  <2>1. \A y \in s : y \in Int
    BY <1>0
  <2>2. QED
    BY <1>4, <2>1 DEF Max
<1>6. ASSUME NEW y \in s, y # Max(s) PROVE y \in 1..n
  <2>1. y \in 1..(n + 1) /\ Max(s) \in 1..(n + 1) /\ y <= Max(s)
    BY <1>0, <1>5
  <2>2. QED
    BY <1>6, <2>1
<1>7. QED
  BY <1>5, <1>6

\* One step of the recursion by which FoldLeft is defined.
Step(base, seq, f, s) == IF s = {} THEN base ELSE op(f[s \ {Max(s)}], seq[Max(s)])

IsFold(base, seq, n, f) == f = [s \in SUBSET (1..n) |-> Step(base, seq, f, s)]

\* The recursion has a solution.
LEMMA FoldExists ==
    ASSUME NEW base, NEW seq, NEW n \in Nat
    PROVE  \E f : IsFold(base, seq, n, f)
<1> DEFINE Bad == {i \in Nat : ~\E f : IsFold(base, seq, i, f)}
<1> SUFFICES ASSUME Bad # {} PROVE FALSE
  OBVIOUS
<1>1. PICK i \in Bad : \A j \in Bad : i <= j
  BY LeastElement
<1>2. i # 0
  <2> DEFINE g == [s \in SUBSET (1..0) |-> base]
  <2>1. \A s \in SUBSET (1..0) : s = {}
    OBVIOUS
  <2>2. IsFold(base, seq, 0, g)
    BY <2>1 DEF IsFold, Step
  <2>3. QED
    BY <2>2
<1>3. i - 1 \in Nat /\ i - 1 \notin Bad
  BY <1>1, <1>2
<1>4. PICK f : IsFold(base, seq, i - 1, f)
  BY <1>3
<1> DEFINE g == [s \in SUBSET (1..i) |-> Step(base, seq, f, s)]
<1>5. \A s \in SUBSET (1..(i - 1)) : g[s] = f[s]
  BY <1>3, <1>4 DEF IsFold
<1>6. ASSUME NEW s \in SUBSET (1..i)
      PROVE  Step(base, seq, g, s) = Step(base, seq, f, s)
  <2>1. CASE s = {}
    BY <2>1 DEF Step
  <2>2. CASE s # {}
    <3>1. s \ {Max(s)} \in SUBSET (1..(i - 1))
      BY <1>3, <2>2, MaxOfInterval
    <3> HIDE DEF g
    <3>2. QED
      BY <1>5, <2>2, <3>1 DEF Step
  <2>3. QED
    BY <2>1, <2>2
<1>7. IsFold(base, seq, i, g)
  BY <1>6 DEF IsFold
<1>8. QED
  BY <1>7

\* FoldLeft is the solution at the whole domain.
LEMMA FoldIs ==
    ASSUME NEW base, NEW n \in Nat, NEW seq, DOMAIN seq = 1..n
    PROVE  \E f : IsFold(base, seq, n, f) /\ Fold(base, seq) = f[1..n]
<1> DEFINE f == CHOOSE g : IsFold(base, seq, n, g)
<1>1. IsFold(base, seq, n, f)
  BY FoldExists
<1>2. Fold(base, seq) = f[1..n]
  BY DEF Fold, FoldLeft, MapThenFoldSet, IsFold, Step
<1>3. QED
  BY <1>1, <1>2

Agree(n, r, t) == \A i \in 1..n : r[i] = t[i]

SameFolds(n, f, g) == \A s \in SUBSET (1..n) : f[s] = g[s]

\* Solutions for a sequence and for a longer one agree on what they share.
LEMMA FoldsAgree ==
    ASSUME NEW base, NEW n \in Nat, NEW m \in Nat, n <= m, NEW r, NEW t, Agree(n, r, t),
           NEW f, IsFold(base, r, n, f), NEW g, IsFold(base, t, m, g)
    PROVE  SameFolds(n, f, g)
<1> DEFINE Bad == {i \in 0..n : \E s \in SUBSET (1..i) : f[s] # g[s]}
<1>0. Bad \in SUBSET Nat
  OBVIOUS
<1> SUFFICES ASSUME Bad # {} PROVE FALSE
  <2>1. n \in 0..n
    OBVIOUS
  <2>2. QED
    BY <2>1 DEF SameFolds
<1>1. PICK i \in Bad : \A j \in Bad : i <= j
  BY <1>0, LeastElement
<1>2. i \in 0..n
  OBVIOUS
<1>3. PICK s \in SUBSET (1..i) : f[s] # g[s]
  OBVIOUS
<1>4. s \in SUBSET (1..n) /\ s \in SUBSET (1..m)
  BY <1>2
<1>5. f[s] = Step(base, r, f, s) /\ g[s] = Step(base, t, g, s)
  BY <1>4 DEF IsFold
<1>6. s # {}
  BY <1>3, <1>5 DEF Step
<1>7. i # 0
  <2>1. 1..0 = {}
    OBVIOUS
  <2>2. i = 0 => s = {}
    BY <2>1
  <2>3. QED
    BY <1>6, <2>2
<1>8. i - 1 \in 0..n /\ i - 1 \in Nat /\ i - 1 \notin Bad
  <2> HIDE DEF Bad
  <2>1. i - 1 \in 0..n /\ i - 1 \in Nat /\ ~(i <= i - 1)
    BY <1>2, <1>7
  <2>2. QED
    BY <1>1, <2>1
<1>9. Max(s) \in s /\ s \ {Max(s)} \in SUBSET (1..(i - 1))
  BY <1>6, <1>8, MaxOfInterval
<1>10. f[s \ {Max(s)}] = g[s \ {Max(s)}]
  BY <1>8, <1>9
<1>11. r[Max(s)] = t[Max(s)]
  BY <1>4, <1>9 DEF Agree
<1>12. QED
  BY <1>3, <1>5, <1>6, <1>10, <1>11 DEF Step

\* Folding the empty sequence.
LEMMA FoldEmpty == ASSUME NEW base PROVE Fold(base, <<>>) = base
<1>1. DOMAIN <<>> = 1..0
  OBVIOUS
<1>2. PICK f : IsFold(base, <<>>, 0, f) /\ Fold(base, <<>>) = f[1..0]
  BY <1>1, FoldIs
<1>3. 1..0 = {}
  OBVIOUS
<1>4. QED
  BY <1>2, <1>3 DEF IsFold, Step

\* Folding a sequence with one more element at its end.
LEMMA FoldAppend ==
    ASSUME NEW S, NEW base, NEW r \in Seq(S), NEW x \in S
    PROVE  Fold(base, Append(r, x)) = op(Fold(base, r), x)
<1> DEFINE n == Len(r)
           t == Append(r, x)
<1>1. /\ n \in Nat /\ DOMAIN r = 1..n /\ DOMAIN t = 1..(n + 1)
      /\ t[n + 1] = x /\ \A i \in 1..n : r[i] = t[i]
  OBVIOUS
<1> HIDE DEF n, t
<1>2. PICK f : IsFold(base, r, n, f) /\ Fold(base, r) = f[1..n]
  BY <1>1, FoldIs
<1>3. PICK g : IsFold(base, t, n + 1, g) /\ Fold(base, t) = g[1..(n + 1)]
  BY <1>1, FoldIs
<1>4. f[1..n] = g[1..n]
  <2>1. n \in Nat /\ n + 1 \in Nat /\ n <= n + 1 /\ 1..n \in SUBSET (1..n) /\ Agree(n, r, t)
    BY <1>1 DEF Agree
  <2>2. IsFold(base, r, n, f) /\ IsFold(base, t, n + 1, g)
    BY <1>2, <1>3
  <2> DEFINE m == n + 1
  <2> HIDE DEF m
  <2>4. m \in Nat /\ n <= m /\ IsFold(base, t, m, g)
    BY <2>1, <2>2 DEF m
  <2>5. SameFolds(n, f, g)
    BY <2>1, <2>2, <2>4, FoldsAgree, Zenon
  <2>6. QED
    BY <2>1, <2>5 DEF SameFolds
<1> DEFINE s == 1..(n + 1)
<1>5. s \in SUBSET (1..(n + 1)) /\ s # {} /\ n + 1 \in s
  BY <1>1
<1>6. Max(s) = n + 1
  <2>1. Max(s) \in s /\ n + 1 <= Max(s)
    BY <1>1, <1>5, MaxOfInterval
  <2>2. QED
    BY <1>1, <2>1
<1>7. s \ {n + 1} = 1..n
  BY <1>1
<1>8. g[s] = Step(base, t, g, s)
  BY <1>3, <1>5 DEF IsFold
<1> HIDE DEF s
<1>9. g[s] = op(g[1..n], x)
  BY <1>1, <1>5, <1>6, <1>7, <1>8 DEF Step
<1>10. QED
  BY <1>2, <1>3, <1>4, <1>9 DEF s, t
===============================================================================
