------------------------------ MODULE FoldLaws ------------------------------
(***************************************************************************)
(* FoldLeft for an operator with a parameter: its value on the empty       *)
(* sequence and on a sequence with one element more, and induction over    *)
(* the naturals and over sequences, in a form in which the sets a claim    *)
(* holds of take the place of predicates.                                  *)
(***************************************************************************)
EXTENDS SequencesExt, SequenceTheorems, WellFoundedInduction, TLAPS

CONSTANT op(_,_,_)  \* op(c, x, y): x folded with y, in the context c

fold(c, base, seq) == FoldLeft(LAMBDA x, y : op(c, x, y), base, seq)

(* A set of numbers that holds zero, and of every number the next, holds all. *)
LEMMA InductiveSet ==
    ASSUME NEW S, 0 \in S, \A n \in Nat : n \in S => n + 1 \in S
    PROVE  \A n \in Nat : n \in S
  <1> DEFINE T == Nat \ S
             R == OpToRel(<, Nat)
  <1> SUFFICES ASSUME T # {} PROVE FALSE
      OBVIOUS
  <1>1. IsWellFoundedOn(R, Nat)
      BY NatLessThanWellFounded
  <1>2. \A a, b \in Nat : <<a, b>> \in R <=> a < b
      BY DEF OpToRel
  <1> HIDE DEF R
  <1>3. PICK n \in T : \A m \in T : <<m, n>> \notin R
    <2>1. T \subseteq Nat
        OBVIOUS
    <2> QED BY <1>1, <2>1, WFMin
  <1>4. n \in Nat /\ n # 0
      OBVIOUS
  <1>5. n - 1 \in Nat /\ <<n - 1, n>> \in R /\ n = (n - 1) + 1
      BY <1>2, <1>4
  <1>6. n - 1 \in S
      BY <1>3, <1>5
  <1> QED BY <1>5, <1>6

(***************************************************************************)
(* A set of sequences that holds the empty one, and with one all that are  *)
(* longer by an element, holds all.                                        *)
(***************************************************************************)
LEMMA InductiveSeqs ==
    ASSUME NEW K, NEW S, <<>> \in S,
           \A s \in Seq(K), e \in K : s \in S => Append(s, e) \in S
    PROVE  \A s \in Seq(K) : s \in S
  <1> DEFINE T == {n \in Nat : \A s \in Seq(K) : Len(s) = n => s \in S}
  <1>1. 0 \in T
    <2>1. \A s \in Seq(K) : Len(s) = 0 => s = <<>>
        BY EmptySeq
    <2> QED BY <2>1
  <1>2. ASSUME NEW n \in Nat, n \in T PROVE n + 1 \in T
    <2> SUFFICES ASSUME NEW s \in Seq(K), Len(s) = n + 1 PROVE s \in S
        OBVIOUS
    <2>1. s # <<>>
        BY EmptySeq
    <2>2. PICK r \in Seq(K), e \in K : s = Append(r, e)
        BY <2>1, SequenceEmptyOrAppend
    <2>3. Len(r) = n
        BY <2>2, AppendProperties, LenProperties
    <2> QED BY <1>2, <2>2, <2>3
  <1> HIDE DEF T
  <1>3. \A n \in Nat : n \in T
      BY <1>1, <1>2, InductiveSet
  <1> QED BY <1>3, LenProperties DEF T

(* Max of a set of numbers up to n. *)
LEMMA MaxOfInitial ==
    ASSUME NEW n \in Nat, NEW s \in SUBSET (1..n), s # {}
    PROVE  Max(s) \in s /\ \A y \in s : y <= Max(s)
  <1> DEFINE HasMax(t) == \E x \in t : \A y \in t : x >= y
             T == {k \in Nat : \A t \in SUBSET (1..k) : t # {} => HasMax(t)}
  <1>1. 0 \in T
    <2>1. \A t \in SUBSET (1..0) : t = {}
        OBVIOUS
    <2> QED BY <2>1
  <1>2. ASSUME NEW k \in Nat, k \in T PROVE k + 1 \in T
    <2> SUFFICES ASSUME NEW t \in SUBSET (1..(k + 1)), t # {} PROVE HasMax(t)
        OBVIOUS
    <2>1. CASE k + 1 \in t
        BY <2>1
    <2>2. CASE k + 1 \notin t
      <3>1. t \in SUBSET (1..k)
          BY <2>2
      <3> QED BY <1>2, <3>1
    <2> QED BY <2>1, <2>2
  <1> HIDE DEF T
  <1>3. n \in T
      BY <1>1, <1>2, InductiveSet
  <1>4. HasMax(s)
      BY <1>3 DEF T
  <1>5. Max(s) \in s /\ \A y \in s : Max(s) >= y
      BY <1>4 DEF Max
  <1>6. \A y \in s : y \in Nat
      OBVIOUS
  <1> QED BY <1>5, <1>6

(* n + 1 is the greatest of the numbers up to n + 1, where it is among them. *)
LEMMA MaxIsLast ==
    ASSUME NEW n \in Nat, NEW s \in SUBSET (1..(n + 1)), n + 1 \in s
    PROVE  Max(s) = n + 1
  <1>1. n + 1 \in Nat /\ s # {}
      OBVIOUS
  <1>2. Max(s) \in s /\ n + 1 <= Max(s)
      BY <1>1, MaxOfInitial
  <1> DEFINE m == Max(s)
  <1>3. m \in 1..(n + 1)
      BY <1>2
  <1> HIDE DEF m
  <1>4. m \in Nat /\ m <= n + 1
      BY <1>3
  <1> QED BY <1>2, <1>4 DEF m

(* The function by which FoldLeft is defined. *)
IsFold(g, c, base, seq, n) ==
    g = [s \in SUBSET (1..n) |-> IF s = {} THEN base ELSE op(c, g[s \ {Max(s)}], seq[Max(s)])]

(* There is such a function, for sequences of every length. *)
LEMMA FoldExists ==
    ASSUME NEW c, NEW base, NEW seq
    PROVE  \A n \in Nat : \E g : IsFold(g, c, base, seq, n)
  <1> DEFINE T == {n \in Nat : \E g : IsFold(g, c, base, seq, n)}
  <1>1. 0 \in T
    <2> DEFINE g == [s \in SUBSET (1..0) |-> base]
    <2>1. \A s \in SUBSET (1..0) : s = {}
        OBVIOUS
    <2>2. IsFold(g, c, base, seq, 0)
        BY <2>1 DEF IsFold
    <2> QED BY <2>2
  <1>2. ASSUME NEW n \in Nat, n \in T PROVE n + 1 \in T
    <2>1. PICK f : IsFold(f, c, base, seq, n)
        BY <1>2
    <2> DEFINE D == SUBSET (1..(n + 1))
               g == [s \in D |-> IF n + 1 \in s THEN op(c, f[s \ {n + 1}], seq[n + 1]) ELSE f[s]]
               h == [s \in D |-> IF s = {} THEN base ELSE op(c, g[s \ {Max(s)}], seq[Max(s)])]
    <2>2. ASSUME NEW s \in D PROVE g[s] = h[s]
      <3>1. CASE n + 1 \in s
        <4>1. Max(s) = n + 1
            BY <3>1, MaxIsLast
        <4>2. s \ {n + 1} \in D /\ n + 1 \notin s \ {n + 1}
            OBVIOUS
        <4> QED BY <3>1, <4>1, <4>2
      <3>2. CASE n + 1 \notin s /\ s # {}
        <4>1. s \in SUBSET (1..n)
            BY <3>2
        <4>2. f[s] = op(c, f[s \ {Max(s)}], seq[Max(s)])
            BY <2>1, <3>2, <4>1 DEF IsFold
        <4>3. s \ {Max(s)} \in D /\ n + 1 \notin s \ {Max(s)}
            BY <3>2
        <4> QED BY <3>2, <4>2, <4>3
      <3>3. CASE s = {}
        <4>1. f[s] = base
            BY <2>1, <3>3 DEF IsFold
        <4> QED BY <3>3, <4>1
      <3> QED BY <3>1, <3>2, <3>3
    <2>3. g = h
        BY <2>2
    <2>4. IsFold(g, c, base, seq, n + 1)
        BY <2>3 DEF IsFold
    <2> QED BY <2>4
  <1> HIDE DEF T
  <1>3. \A n \in Nat : n \in T
      BY <1>1, <1>2, InductiveSet
  <1> QED BY <1>3 DEF T

(* The first n elements are the same. *)
Agree(s1, s2, n) == \A i \in 1..n : s1[i] = s2[i]

(* Two such functions agree on what the first n elements come to. *)
LEMMA FoldUnique ==
    ASSUME NEW c, NEW base, NEW s1, NEW s2, NEW g1, NEW g2, NEW n \in Nat, NEW m \in Nat, n <= m,
           Agree(s1, s2, n), IsFold(g1, c, base, s1, n), IsFold(g2, c, base, s2, m)
    PROVE  g1[1..n] = g2[1..n]
  <1> DEFINE T == {j \in Nat : j <= n => \A s \in SUBSET (1..j) : g1[s] = g2[s]}
  <1>1. 0 \in T
    <2>1. \A s \in SUBSET (1..0) : s = {}
        OBVIOUS
    <2>2. g1[{}] = base /\ g2[{}] = base
        BY DEF IsFold
    <2> QED BY <2>1, <2>2
  <1>2. ASSUME NEW j \in Nat, j \in T PROVE j + 1 \in T
    <2> SUFFICES ASSUME j + 1 <= n, NEW s \in SUBSET (1..(j + 1)) PROVE g1[s] = g2[s]
        OBVIOUS
    <2>1. CASE j + 1 \notin s
      <3>1. s \in SUBSET (1..j)
          BY <2>1
      <3> QED BY <1>2, <3>1
    <2>2. CASE j + 1 \in s
      <3>1. Max(s) = j + 1
          BY <2>2, MaxIsLast
      <3>2. s \in SUBSET (1..n) /\ s \in SUBSET (1..m)
          OBVIOUS
      <3>3. g1[s] = op(c, g1[s \ {j + 1}], s1[j + 1]) /\ g2[s] = op(c, g2[s \ {j + 1}], s2[j + 1])
          BY <2>2, <3>1, <3>2 DEF IsFold
      <3>4. s \ {j + 1} \in SUBSET (1..j)
          OBVIOUS
      <3>5. g1[s \ {j + 1}] = g2[s \ {j + 1}]
          BY <1>2, <3>4
      <3>6. s1[j + 1] = s2[j + 1]
          BY DEF Agree
      <3> QED BY <3>3, <3>5, <3>6
    <2> QED BY <2>1, <2>2
  <1> HIDE DEF T
  <1>3. n \in T
      BY <1>1, <1>2, InductiveSet
  <1> QED BY <1>3 DEF T

(* FoldLeft is the value of such a function for all the elements. *)
LEMMA FoldIs ==
    ASSUME NEW c, NEW base, NEW K, NEW seq \in Seq(K)
    PROVE  \E g : IsFold(g, c, base, seq, Len(seq)) /\ fold(c, base, seq) = g[1..Len(seq)]
  <1> DEFINE n == Len(seq)
             g == CHOOSE g : g = [s \in SUBSET (1..n) |->
                                IF s = {} THEN base ELSE op(c, g[s \ {Max(s)}], seq[Max(s)])]
  <1>1. n \in Nat /\ DOMAIN seq = 1..n
      BY LenProperties
  <1>2. fold(c, base, seq) = g[1..n]
      BY <1>1 DEF fold, FoldLeft, MapThenFoldSet
  <1>3. \E f : f = [s \in SUBSET (1..n) |->
                                IF s = {} THEN base ELSE op(c, f[s \ {Max(s)}], seq[Max(s)])]
    <2>1. \E f : IsFold(f, c, base, seq, n)
        BY <1>1, FoldExists
    <2> QED BY <2>1 DEF IsFold
  <1>4. g = [s \in SUBSET (1..n) |-> IF s = {} THEN base ELSE op(c, g[s \ {Max(s)}], seq[Max(s)])]
      BY <1>3
  <1> HIDE DEF g
  <1> QED BY <1>2, <1>4 DEF IsFold

(* Nothing to fold. *)
LEMMA FoldEmpty == \A c, base : fold(c, base, <<>>) = base
  <1> SUFFICES ASSUME NEW c, NEW base PROVE fold(c, base, <<>>) = base
      OBVIOUS
  <1>1. <<>> \in Seq({}) /\ Len(<<>>) = 0
      BY EmptySeq
  <1>2. PICK g : IsFold(g, c, base, <<>>, 0) /\ fold(c, base, <<>>) = g[1..0]
      BY <1>1, FoldIs
  <1> QED BY <1>2 DEF IsFold

(* A loop over a sequence (of a path's parts, of mappings) does its last element last. *)
THEOREM FoldAppend ==
    ASSUME NEW c, NEW base, NEW K, NEW seq \in Seq(K), NEW e \in K
    PROVE  fold(c, base, Append(seq, e)) = op(c, fold(c, base, seq), e)
  <1> DEFINE n == Len(seq)
             longer == Append(seq, e)
  <1>1. /\ n \in Nat /\ longer \in Seq(K) /\ Len(longer) = n + 1 /\ longer[n + 1] = e
        /\ \A i \in 1..n : longer[i] = seq[i]
      BY AppendProperties, LenProperties
  <1>2. PICK f : IsFold(f, c, base, seq, n) /\ fold(c, base, seq) = f[1..n]
      BY FoldIs
  <1> HIDE DEF longer
  <1>3. PICK g : IsFold(g, c, base, longer, n + 1) /\ fold(c, base, longer) = g[1..(n + 1)]
      BY <1>1, FoldIs
  <1>4. f[1..n] = g[1..n]
    <2> DEFINE m == n + 1
    <2>1. n \in Nat /\ m \in Nat /\ n <= m /\ Agree(seq, longer, n)
        BY <1>1 DEF Agree
    <2>2. IsFold(f, c, base, seq, n) /\ IsFold(g, c, base, longer, m)
        BY <1>2, <1>3
    <2> HIDE DEF n, m
    <2> QED BY <2>1, <2>2, FoldUnique
  <1>5. Max(1..(n + 1)) = n + 1
    <2>1. n + 1 \in 1..(n + 1)
        BY <1>1
    <2> QED BY <1>1, <2>1, MaxIsLast
  <1>6. (1..(n + 1)) \ {n + 1} = 1..n
      BY <1>1
  <1>7. g[1..(n + 1)] = op(c, g[1..n], longer[n + 1])
    <2>1. 1..(n + 1) \in SUBSET (1..(n + 1)) /\ 1..(n + 1) # {}
        BY <1>1
    <2>2. g[1..(n + 1)] = op(c, g[(1..(n + 1)) \ {Max(1..(n + 1))}], longer[Max(1..(n + 1))])
        BY <1>3, <2>1 DEF IsFold
    <2> QED BY <1>5, <1>6, <2>2
  <1> QED BY <1>1, <1>2, <1>3, <1>4, <1>7 DEF longer
=============================================================================
