------------------------------- MODULE PathProofs -------------------------------
(***************************************************************************)
(* Lemmas about the operators Authorization is built from: the places of a *)
(* sequence in order, the function Clean computes step by step, and the    *)
(* segments it leaves, for paths of every length.                          *)
(***************************************************************************)
EXTENDS Authorization, FiniteSetTheorems, SequenceTheorems, WellFoundedInduction, TLAPS

-----------------------------------------------------------------------------
(* Induction, stated of a set instead of a predicate. *)

Less == {p \in Nat \X Nat : p[1] < p[2]}

LEMMA LessMeans == \A x, y \in Nat : <<x, y>> \in Less <=> x < y
  BY DEF Less

LEMMA LessWellFounded == IsWellFoundedOn(Less, Nat)
<1>1. Less = OpToRel(<, Nat)
  BY DEF Less, OpToRel
<1> QED
  BY <1>1, NatLessThanWellFounded

LEMMA SetInduction ==
  ASSUME NEW S, 0 \in S, \A n \in Nat : n \in S => n + 1 \in S
  PROVE  Nat \subseteq S
<1> DEFINE T == Nat \ S
<1> SUFFICES ASSUME T # {} PROVE FALSE
  OBVIOUS
<1>1. PICK x \in T : \A y \in T : ~ (<<y, x>> \in Less)
  <2> HIDE DEF T
  <2>1. T \subseteq Nat
    BY DEF T
  <2> QED
    BY <2>1, LessWellFounded, WFMin
<1>2. x # 0 /\ x \in Nat
  OBVIOUS
<1>3. x - 1 \in Nat /\ <<x - 1, x>> \in Less
  BY <1>2 DEF Less
<1>4. x - 1 \in S
  BY <1>1, <1>3
<1> QED
  BY <1>2, <1>3, <1>4

LEMMA SmallestExists ==
  ASSUME NEW S, S \subseteq Nat, S # {}
  PROVE  \E x \in S : \A y \in S : x <= y
<1>1. PICK x \in S : \A y \in S : ~ (<<y, x>> \in Less)
  BY LessWellFounded, WFMin
<1>2. ASSUME NEW y \in S PROVE x <= y
  <2>1. x \in Nat /\ y \in Nat
    BY <1>1
  <2>2. ~ (y < x)
    BY <1>1, <2>1, LessMeans
  <2> QED
    BY <2>1, <2>2
<1> QED
  BY <1>2

LEMMA MinSmallest ==
  ASSUME NEW S, S \subseteq Nat, S # {}
  PROVE  Min(S) \in S /\ \A y \in S : Min(S) <= y
  BY SmallestExists DEF Min

LEMMA LargestExists ==
  ASSUME NEW n \in Nat, NEW S, S \subseteq 1 .. n, S # {}
  PROVE  \E z \in S : \A y \in S : y <= z
<1> DEFINE T == {n - i : i \in S}
<1>1. T \subseteq Nat /\ T # {}
  <2>1. \A i \in S : n - i \in Nat
    OBVIOUS
  <2> QED
    BY <2>1
<1>2. PICK x \in T : \A y \in T : x <= y
  <2> HIDE DEF T
  <2> QED
    BY <1>1, SmallestExists
<1>3. PICK z \in S : x = n - z
  OBVIOUS
<1>4. ASSUME NEW i \in S PROVE i \in Nat /\ x <= n - i
  <2>1. n - i \in T /\ i \in Nat
    OBVIOUS
  <2> HIDE DEF T
  <2> QED
    BY <1>2, <2>1
<1> QED
  BY <1>3, <1>4

-----------------------------------------------------------------------------
(* Counting places. *)

LEMMA CountType ==
  ASSUME NEW S, NEW a \in Nat, NEW b \in Nat
  PROVE  IsFiniteSet(S \cap a .. b) /\ Cardinality(S \cap a .. b) \in Nat
<1>1. IsFiniteSet(a .. b)
  BY FS_Interval
<1>2. IsFiniteSet(S \cap a .. b)
  BY <1>1, FS_Intersection
<1> QED
  BY <1>2, FS_CardinalityType

\* One more place counts if it is in S.
LEMMA CountStep ==
  ASSUME NEW S, NEW a \in Nat, NEW b \in Nat, NEW c \in Nat, c = b + 1, a <= c
  PROVE  Cardinality(S \cap a .. c)
           = IF c \in S THEN Cardinality(S \cap a .. b) + 1 ELSE Cardinality(S \cap a .. b)
<1> DEFINE C == S \cap a .. b
<1>1. IsFiniteSet(C)
  BY CountType
<1>2. CASE c \in S
  <2>1. S \cap a .. c = C \cup {c} /\ c \notin C
    BY <1>2
  <2> HIDE DEF C
  <2> QED
    BY <1>1, <1>2, <2>1, FS_AddElement DEF C
<1>3. CASE c \notin S
  <2>1. S \cap a .. c = C
    BY <1>3
  <2> QED
    BY <1>3, <2>1
<1> QED
  BY <1>2, <1>3

\* How many of S lie after place i, up to j.
After(S, i, j) == Cardinality(S \cap i + 1 .. j)

LEMMA AfterType ==
  ASSUME NEW S, NEW i \in Nat, NEW j \in Nat
  PROVE  After(S, i, j) \in Nat /\ (After(S, i, j) = 0 <=> S \cap i + 1 .. j = {})
<1> DEFINE C == S \cap i + 1 .. j
<1>1. i + 1 \in Nat
  OBVIOUS
<1>2. IsFiniteSet(C) /\ Cardinality(C) \in Nat
  BY <1>1, CountType
<1> HIDE DEF C
<1> QED
  BY <1>2, FS_EmptySet DEF After, C

LEMMA AfterNone ==
  ASSUME NEW S, NEW i \in Nat
  PROVE  After(S, i, i) = 0
<1>1. S \cap i + 1 .. i = {}
  OBVIOUS
<1> QED
  BY <1>1, AfterType

LEMMA AfterStep ==
  ASSUME NEW S, NEW i \in Nat, NEW n \in Nat, NEW m \in Nat, m = n + 1, i <= n
  PROVE  After(S, i, m) = IF m \in S THEN After(S, i, n) + 1 ELSE After(S, i, n)
<1> DEFINE a == i + 1
<1>1. a \in Nat /\ a <= m
  OBVIOUS
<1> HIDE DEF a
<1>2. Cardinality(S \cap a .. m)
        = IF m \in S THEN Cardinality(S \cap a .. n) + 1 ELSE Cardinality(S \cap a .. n)
  BY <1>1, CountStep
<1> QED
  BY <1>2 DEF After, a

\* The places of a sequence, or some of them.
Places(S) == IsFiniteSet(S) /\ S \subseteq Nat \ {0}

LEMMA PlacesOfPrefix ==
  ASSUME NEW n \in Nat, NEW S, S \subseteq 1 .. n
  PROVE  Places(S)
<1>1. IsFiniteSet(1 .. n)
  BY FS_Interval
<1>2. IsFiniteSet(S)
  BY <1>1, FS_Subset
<1> QED
  BY <1>2 DEF Places

LEMMA RankBounds ==
  ASSUME NEW S, Places(S), NEW i \in S
  PROVE  Rank(S, i) \in 1 .. Cardinality(S)
<1>1. i \in 1 .. i /\ i \in Nat /\ IsFiniteSet(S)
  BY DEF Places
<1>2. Cardinality(S) \in Nat
  BY <1>1, FS_CardinalityType
<1>3. IsFiniteSet(S \cap 1 .. i) /\ Rank(S, i) \in Nat
  BY <1>1, CountType DEF Rank
<1>4. Rank(S, i) <= Cardinality(S)
  BY <1>1, <1>2, FS_Intersection DEF Rank
<1>5. S \cap 1 .. i # {}
  BY <1>1
<1>6. Rank(S, i) # 0
  BY <1>3, <1>5, FS_EmptySet DEF Rank
<1> QED
  BY <1>2, <1>3, <1>4, <1>6

LEMMA RankIncreases ==
  ASSUME NEW S, Places(S), NEW i \in S, NEW j \in S, i < j
  PROVE  Rank(S, i) < Rank(S, j)
<1> DEFINE A == S \cap 1 .. i
           B == S \cap 1 .. j
<1>1. i \in Nat \ {0} /\ j \in Nat \ {0}
  BY DEF Places
<1>2. IsFiniteSet(B) /\ Cardinality(A) \in Nat /\ Cardinality(B) \in Nat
  BY <1>1, CountType
<1>3. A \in SUBSET B /\ j \in B /\ j \notin A
  BY <1>1
<1>4. Cardinality(A) <= Cardinality(B) /\ Cardinality(A) # Cardinality(B)
  <2> HIDE DEF A, B
  <2> QED
    BY <1>2, <1>3, FS_Subset
<1> QED
  BY <1>2, <1>4 DEF Rank

LEMMA RankInjective ==
  ASSUME NEW S, Places(S), NEW i \in S, NEW j \in S, Rank(S, i) = Rank(S, j)
  PROVE  i = j
<1>1. Rank(S, i) \in Nat /\ Rank(S, j) \in Nat
  BY RankBounds
<1>2. ~ (i < j)
  BY <1>1, RankIncreases
<1>3. ~ (j < i)
  BY <1>1, RankIncreases
<1>4. i \in Nat /\ j \in Nat
  BY DEF Places
<1> QED
  BY <1>2, <1>3, <1>4

LEMMA RankSurjective ==
  ASSUME NEW S, Places(S), NEW k \in 1 .. Cardinality(S)
  PROVE  \E i \in S : Rank(S, i) = k
<1> DEFINE f == [i \in S |-> Rank(S, i)]
           T == 1 .. Cardinality(S)
<1>1. IsFiniteSet(T) /\ Cardinality(T) = Cardinality(S)
  <2>1. Cardinality(S) \in Nat
    BY FS_CardinalityType DEF Places
  <2> QED
    BY <2>1, FS_Interval
<1>2. f \in Injection(S, T)
  BY RankBounds, RankInjective DEF Injection, IsInjective
<1>3. f \in Surjection(S, T)
  <2> HIDE DEF f, T
  <2> QED
    BY <1>1, <1>2, FS_Injection
<1> QED
  BY <1>3 DEF Surjection

\* InOrder(S) lists the members of S, each once, the k-th being of rank k.
LEMMA InOrderLists ==
  ASSUME NEW S, Places(S)
  PROVE  /\ InOrder(S) \in Bijection(1 .. Cardinality(S), S)
         /\ \A k \in 1 .. Cardinality(S) : Rank(S, InOrder(S)[k]) = k
         /\ \A i \in S : InOrder(S)[Rank(S, i)] = i
<1> DEFINE T == 1 .. Cardinality(S)
           f == InOrder(S)
<1>1. \A k \in T : f[k] \in S /\ Rank(S, f[k]) = k
  BY RankSurjective DEF InOrder
<1>2. DOMAIN f = T
  BY DEF InOrder
<1>3. \A i \in S : Rank(S, i) \in T /\ f[Rank(S, i)] = i
  BY <1>1, RankBounds, RankInjective
<1>4. f \in [T -> S]
  BY <1>1, <1>2 DEF InOrder
<1>5. IsInjective(f)
  BY <1>1, <1>2 DEF IsInjective
<1> QED
  BY <1>1, <1>3, <1>4, <1>5 DEF Bijection, Injection, Surjection

-----------------------------------------------------------------------------
(* The function that Clean computes. *)

\* left is the function of Left(path), as far as m.
IsLeft(left, path, m) ==
  left = [n \in 0 .. m |-> IF n = 0 THEN <<>> ELSE Step(left[n - 1], path[n])]

LEMMA LeftExists ==
  ASSUME NEW path, NEW m \in Nat
  PROVE  \E left : IsLeft(left, path, m)
<1> DEFINE S == {i \in Nat : \E left : IsLeft(left, path, i)}
<1>1. 0 \in S
  <2>1. IsLeft([n \in 0 .. 0 |-> <<>>], path, 0)
    BY DEF IsLeft
  <2> QED
    BY <2>1
<1>2. ASSUME NEW i \in Nat, i \in S PROVE i + 1 \in S
  <2>1. PICK g : IsLeft(g, path, i)
    BY <1>2
  <2> DEFINE h == [n \in 0 .. i + 1 |-> IF n = i + 1 THEN Step(g[i], path[i + 1]) ELSE g[n]]
  <2>2. ASSUME NEW n \in 0 .. i + 1
        PROVE  h[n] = IF n = 0 THEN <<>> ELSE Step(h[n - 1], path[n])
    <3>1. CASE n = 0
      BY <2>1, <3>1 DEF IsLeft
    <3>2. CASE n = i + 1
      BY <3>2
    <3>3. CASE n \in 1 .. i
      <4>1. g[n] = Step(g[n - 1], path[n])
        BY <2>1, <3>3 DEF IsLeft
      <4> QED
        BY <3>3, <4>1
    <3> QED
      BY <3>1, <3>2, <3>3
  <2>3. IsLeft(h, path, i + 1)
    BY <2>2 DEF IsLeft
  <2> HIDE DEF h
  <2> QED
    BY <2>3
<1>3. Nat \subseteq S
  <2> HIDE DEF S
  <2> QED
    BY <1>1, <1>2, SetInduction
<1> QED
  BY <1>3

LEMMA LeftEquation ==
  ASSUME NEW path \in Seq(Segments)
  PROVE  /\ DOMAIN Left(path) = 0 .. Len(path)
         /\ Left(path)[0] = <<>>
         /\ \A n \in 1 .. Len(path) : Left(path)[n] = Step(Left(path)[n - 1], path[n])
<1> DEFINE left == CHOOSE left : IsLeft(left, path, Len(path))
<1>1. Left(path) = left
  BY DEF Left, IsLeft
<1>2. Len(path) \in Nat
  OBVIOUS
<1>3. IsLeft(left, path, Len(path))
  BY <1>2, LeftExists
<1> HIDE DEF left
<1> QED
  BY <1>1, <1>2, <1>3 DEF IsLeft

-----------------------------------------------------------------------------
(* Texts. *)

LEMMA EmptyDiffers == Empty \notin {".", "..", "*"}
  BY DEF Empty

-----------------------------------------------------------------------------
(* The segments that are kept, of the first n. *)

Downs(path, i, j) == After(Parents(path), i, j)
Ups(path, i, j) == After(Named(path), i, j)

KeptTo(path, n) ==
  {i \in Named(path) \cap 1 .. n : \A j \in i + 1 .. n : Downs(path, i, j) <= Ups(path, i, j)}

LEMMA KeptIsKeptTo ==
  ASSUME NEW path \in Seq(Segments)
  PROVE  Kept(path) = KeptTo(path, Len(path))
<1>1. Named(path) \subseteq 1 .. Len(path)
  <2>1. DOMAIN path = 1 .. Len(path)
    BY LenProperties
  <2> QED
    BY <2>1 DEF Named
<1> QED
  BY <1>1 DEF Kept, KeptTo, Downs, Ups, After

LEMMA KeptToPlaces ==
  ASSUME NEW path, NEW n \in Nat
  PROVE  Places(KeptTo(path, n)) /\ KeptTo(path, n) \subseteq 1 .. n
<1>1. KeptTo(path, n) \subseteq 1 .. n
  BY DEF KeptTo
<1> QED
  BY <1>1, PlacesOfPrefix

LEMMA UpsDownsType ==
  ASSUME NEW path, NEW i \in Nat, NEW j \in Nat
  PROVE  Downs(path, i, j) \in Nat /\ Ups(path, i, j) \in Nat
  BY AfterType DEF Downs, Ups

\* One more segment moves the counts by what it is.
LEMMA UpsDownsStep ==
  ASSUME NEW path \in Seq(Segments), NEW n \in Nat, NEW m \in Nat, m = n + 1, m \in DOMAIN path,
         NEW i \in Nat, i <= n
  PROVE  /\ Downs(path, i, m)
              = IF path[m] = ".." THEN Downs(path, i, n) + 1 ELSE Downs(path, i, n)
         /\ Ups(path, i, m)
              = IF path[m] \in {Empty, ".", ".."} THEN Ups(path, i, n) ELSE Ups(path, i, n) + 1
<1>1. m \in Parents(path) <=> path[m] = ".."
  BY DEF Parents
<1>2. m \in Named(path) <=> path[m] \notin {Empty, ".", ".."}
  BY DEF Named
<1> QED
  BY <1>1, <1>2, AfterStep DEF Downs, Ups

LEMMA KeptBelow ==
  ASSUME NEW path, NEW n \in Nat, NEW i \in KeptTo(path, n)
  PROVE  Downs(path, i, n) <= Ups(path, i, n)
<1>1. i \in 1 .. n
  BY DEF KeptTo
<1>2. CASE i = n
  <2>1. n \in Nat /\ i + 1 .. n = {}
    BY <1>2
  <2> QED
    BY <1>1, <1>2, <2>1, AfterType DEF Downs, Ups
<1>3. CASE i < n
  BY <1>1, <1>3 DEF KeptTo
<1> QED
  BY <1>1, <1>2, <1>3

\* Which of the first n are kept after n + 1.
LEMMA KeptToStep ==
  ASSUME NEW path \in Seq(Segments), NEW n \in Nat, NEW m \in Nat, m = n + 1, m \in DOMAIN path, NEW i \in 1 .. m
  PROVE  i \in KeptTo(path, m) <=>
           IF i = m THEN path[i] \notin {Empty, ".", ".."}
           ELSE i \in KeptTo(path, n) /\ Downs(path, i, m) <= Ups(path, i, m)
<1>1. CASE i = m
  <2>1. m \in Named(path) <=> path[m] \notin {Empty, ".", ".."}
    BY DEF Named
  <2>2. i + 1 .. m = {}
    BY <1>1
  <2> QED
    BY <1>1, <2>1, <2>2 DEF KeptTo
<1>2. CASE i # m
  <2>1. i \in 1 .. n /\ i + 1 .. m = (i + 1 .. n) \cup {m}
    BY <1>2
  <2>2. i \in KeptTo(path, m) <=>
          i \in Named(path) /\ \A j \in i + 1 .. m : Downs(path, i, j) <= Ups(path, i, j)
    BY DEF KeptTo
  <2>3. i \in KeptTo(path, n) <=>
          i \in Named(path) /\ \A j \in i + 1 .. n : Downs(path, i, j) <= Ups(path, i, j)
    BY <2>1 DEF KeptTo
  <2> QED
    BY <1>2, <2>1, <2>2, <2>3
<1> QED
  BY <1>1, <1>2

LEMMA KeptPlain ==
  ASSUME NEW path \in Seq(Segments), NEW n \in Nat, NEW m \in Nat, m = n + 1, m \in DOMAIN path,
         path[m] \in {Empty, "."}
  PROVE  KeptTo(path, m) = KeptTo(path, n)
<1>1. ASSUME NEW i \in 1 .. n PROVE i \in KeptTo(path, m) <=> i \in KeptTo(path, n)
  <2>1. i \in Nat /\ i <= n /\ i \in 1 .. m /\ i # m
    OBVIOUS
  <2> QED
    BY <2>1, EmptyDiffers, KeptToStep, UpsDownsStep, KeptBelow
<1>2. m \notin KeptTo(path, m)
  <2>1. m \in 1 .. m /\ path[m] \in {Empty, ".", ".."}
    OBVIOUS
  <2> QED
    BY <2>1, KeptToStep
<1>3. KeptTo(path, m) \subseteq 1 .. m /\ KeptTo(path, n) \subseteq 1 .. n
  BY KeptToPlaces
<1>4. \A i : i \in KeptTo(path, m) <=> i \in KeptTo(path, n)
  <2> SUFFICES ASSUME NEW i PROVE i \in KeptTo(path, m) <=> i \in KeptTo(path, n)
    OBVIOUS
  <2>1. i \in 1 .. m => i \in 1 .. n \/ i = m
    OBVIOUS
  <2> QED
    BY <1>1, <1>2, <1>3, <2>1
<1> QED
  BY <1>4 DEF KeptTo

LEMMA KeptNamed ==
  ASSUME NEW path \in Seq(Segments), NEW n \in Nat, NEW m \in Nat, m = n + 1, m \in DOMAIN path,
         path[m] \notin {Empty, ".", ".."}
  PROVE  KeptTo(path, m) = KeptTo(path, n) \cup {m}
<1>1. ASSUME NEW i \in 1 .. n PROVE i \in KeptTo(path, m) <=> i \in KeptTo(path, n)
  <2>1. i \in Nat /\ i <= n /\ i \in 1 .. m /\ i # m
    OBVIOUS
  <2>2. Downs(path, i, n) \in Nat /\ Ups(path, i, n) \in Nat
    BY <2>1, UpsDownsType
  <2> QED
    BY <2>1, <2>2, KeptToStep, UpsDownsStep, KeptBelow
<1>2. m \in KeptTo(path, m)
  BY KeptToStep
<1> QED
  BY <1>1, <1>2, KeptToPlaces

\* As many are kept after a kept one as names outnumber parents.
Balanced(path, n) ==
  \A i \in KeptTo(path, n) :
    After(KeptTo(path, n), i, n) + Downs(path, i, n) = Ups(path, i, n)

LEMMA KeptParent ==
  ASSUME NEW path \in Seq(Segments), NEW n \in Nat, NEW m \in Nat, m = n + 1, m \in DOMAIN path,
         path[m] = "..",
         Balanced(path, n)
  PROVE  KeptTo(path, m) = {i \in KeptTo(path, n) : \E j \in KeptTo(path, n) : i < j}
<1>1. ASSUME NEW i \in 1 .. n
      PROVE  i \in KeptTo(path, m) <=>
               i \in KeptTo(path, n) /\ \E j \in KeptTo(path, n) : i < j
  <2>1. i \in Nat /\ i <= n /\ i \in 1 .. m /\ i # m
    OBVIOUS
  <2>2. Downs(path, i, n) \in Nat /\ Ups(path, i, n) \in Nat
    BY <2>1, UpsDownsType
  <2>3. /\ After(KeptTo(path, n), i, n) \in Nat
        /\ After(KeptTo(path, n), i, n) # 0 <=> \E j \in KeptTo(path, n) : i < j
    BY <2>1, AfterType, KeptToPlaces
  <2>4. i \in KeptTo(path, m) <=>
          i \in KeptTo(path, n) /\ Downs(path, i, n) + 1 <= Ups(path, i, n)
    BY <2>1, KeptToStep, UpsDownsStep
  <2>5. i \in KeptTo(path, n) =>
          After(KeptTo(path, n), i, n) + Downs(path, i, n) = Ups(path, i, n)
    BY DEF Balanced
  <2> QED
    BY <2>2, <2>3, <2>4, <2>5
<1>2. m \notin KeptTo(path, m)
  BY KeptToStep
<1> QED
  BY <1>1, <1>2, KeptToPlaces

\* Balanced is kept up from one segment to the next.
LEMMA BalanceStep ==
  ASSUME NEW path \in Seq(Segments), NEW n \in Nat, NEW m \in Nat, m = n + 1, m \in DOMAIN path,
         Balanced(path, n)
  PROVE  Balanced(path, m)
<1> DEFINE K == KeptTo(path, n)
           L == KeptTo(path, m)
<1> SUFFICES ASSUME NEW i \in L PROVE After(L, i, m) + Downs(path, i, m) = Ups(path, i, m)
  BY DEF Balanced
<1>1. i \in 1 .. m /\ K \subseteq 1 .. n
  BY KeptToPlaces
<1>2. CASE i = m
  BY <1>2, AfterNone DEF Downs, Ups
<1>3. CASE i # m
  <2>1. i \in Nat /\ i <= n /\ i \in 1 .. n
    BY <1>1, <1>3
  <2>2. Downs(path, i, n) \in Nat /\ Ups(path, i, n) \in Nat /\ After(K, i, n) \in Nat /\ After(L, i, n) \in Nat
    BY <2>1, UpsDownsType, AfterType
  <2>3. i \in K
    BY <1>1, <1>3, KeptToStep
  <2>4. After(K, i, n) + Downs(path, i, n) = Ups(path, i, n)
    BY <2>3 DEF Balanced
  <2>5. After(L, i, m) = IF m \in L THEN After(L, i, n) + 1 ELSE After(L, i, n)
    BY <2>1, AfterStep
  <2>6. CASE path[m] \in {Empty, "."}
    <3>1. L = K /\ m \notin L
      BY <1>1, <2>6, KeptPlain
    <3> QED
      BY <2>1, <2>4, <2>5, <2>6, <3>1, UpsDownsStep, EmptyDiffers
  <2>7. CASE path[m] \notin {Empty, ".", ".."}
    <3>1. L = K \cup {m}
      BY <2>7, KeptNamed
    <3>2. After(L, i, n) = After(K, i, n)
      <4>1. L \cap i + 1 .. n = K \cap i + 1 .. n
        BY <3>1
      <4> QED
        BY <4>1 DEF After
    <3> QED
      BY <2>1, <2>2, <2>4, <2>5, <2>7, <3>1, <3>2, UpsDownsStep
  <2>8. CASE path[m] = ".."
    <3>1. L = {k \in K : \E j \in K : k < j}
      BY <2>8, KeptParent
    <3>2. m \notin L
      BY <1>1, <3>1
    <3>3. After(L, i, n) + 1 = After(K, i, n)
      <4> DEFINE C == K \cap i + 1 .. n
      <4>1. IsFiniteSet(C)
        <5>1. IsFiniteSet(K)
          BY KeptToPlaces DEF Places
        <5> QED
          BY <5>1, FS_Intersection
      <4>2. PICK z \in C : \A y \in C : y <= z
        <5>1. C # {} /\ C \subseteq 1 .. n
          BY <1>1, <2>1, <3>1
        <5> HIDE DEF C
        <5> QED
          BY <5>1, LargestExists
      <4>3. L \cap i + 1 .. n = C \ {z}
        BY <1>1, <2>1, <3>1, <4>2
      <4>4. Cardinality(C \ {z}) = Cardinality(C) - 1
        <5> HIDE DEF C
        <5> QED
          BY <4>1, <4>2, FS_RemoveElement
      <4>5. After(K, i, n) = Cardinality(C) /\ After(L, i, n) = Cardinality(C \ {z})
        BY <4>3 DEF After
      <4> HIDE DEF C, K, L
      <4> QED
        BY <2>2, <4>4, <4>5
    <3> QED
      BY <2>1, <2>2, <2>4, <2>5, <2>8, <3>2, <3>3, UpsDownsStep
  <2> QED
    BY <2>6, <2>7, <2>8
<1> QED
  BY <1>2, <1>3

-----------------------------------------------------------------------------
(* Clean keeps Kept, in order. *)

\* What the first n segments leave is what is kept of them.
Stacked(path, n) ==
  LET K == KeptTo(path, n)
  IN /\ Left(path)[n] \in Seq(Segments)
     /\ Len(Left(path)[n]) = Cardinality(K)
     /\ \A i \in K : Left(path)[n][Rank(K, i)] = path[i]

LEMMA StackStart ==
  ASSUME NEW path \in Seq(Segments)
  PROVE  Balanced(path, 0) /\ Stacked(path, 0)
<1>1. KeptTo(path, 0) = {}
  BY DEF KeptTo
<1>2. Left(path)[0] = <<>>
  BY LeftEquation
<1>3. Cardinality({}) = 0
  BY FS_EmptySet
<1>4. <<>> \in Seq(Segments) /\ Len(<<>>) = 0
  OBVIOUS
<1>5. Balanced(path, 0)
  BY <1>1 DEF Balanced
<1>6. Stacked(path, 0)
  BY <1>1, <1>2, <1>3, <1>4 DEF Stacked
<1> QED
  BY <1>5, <1>6

LEMMA StackPlain ==
  ASSUME NEW path \in Seq(Segments), NEW n \in Nat, NEW m \in Nat, m = n + 1, m \in DOMAIN path,
         path[m] \in {Empty, "."}, Stacked(path, n)
  PROVE  Stacked(path, m)
<1>1. m \in 1 .. Len(path) /\ n = m - 1
  OBVIOUS
<1>2. Left(path)[m] = Step(Left(path)[n], path[m])
  BY <1>1, LeftEquation
<1>3. Left(path)[m] = Left(path)[n]
  BY <1>2, EmptyDiffers DEF Step
<1> QED
  BY <1>3, KeptPlain DEF Stacked

LEMMA StackNamed ==
  ASSUME NEW path \in Seq(Segments), NEW n \in Nat, NEW m \in Nat, m = n + 1, m \in DOMAIN path,
         path[m] \notin {Empty, ".", ".."}, Stacked(path, n)
  PROVE  Stacked(path, m)
<1> DEFINE K == KeptTo(path, n)
           L == KeptTo(path, m)
           s == Left(path)[n]
<1>1. m \in 1 .. Len(path) /\ n = m - 1
  OBVIOUS
<1>2. Left(path)[m] = Step(s, path[m])
  BY <1>1, LeftEquation
<1>3. Left(path)[m] = Append(s, path[m])
  BY <1>2 DEF Step
<1>4. s \in Seq(Segments) /\ Len(s) = Cardinality(K) /\ \A i \in K : s[Rank(K, i)] = path[i]
  BY DEF Stacked
<1>5. path[m] \in Segments
  OBVIOUS
<1>6. Places(K) /\ K \subseteq 1 .. n
  BY KeptToPlaces
<1>7. L = K \cup {m}
  BY KeptNamed
<1>8. Cardinality(L) = Cardinality(K) + 1
  <2>1. m \notin K /\ IsFiniteSet(K)
    BY <1>6 DEF Places
  <2> HIDE DEF K, L
  <2> QED
    BY <1>7, <2>1, FS_AddElement
<1>9. ASSUME NEW i \in L PROVE Append(s, path[m])[Rank(L, i)] = path[i]
  <2>1. CASE i = m
    <3>1. L \cap 1 .. m = L
      BY <1>6, <1>7
    <3>2. Rank(L, m) = Len(s) + 1
      BY <1>4, <1>8, <3>1 DEF Rank
    <3> HIDE DEF s
    <3> QED
      BY <1>4, <1>5, <2>1, <3>2
  <2>2. CASE i # m
    <3>1. i \in K
      BY <1>7, <2>2
    <3>2. L \cap 1 .. i = K \cap 1 .. i
      BY <1>6, <1>7, <3>1
    <3>3. Rank(L, i) = Rank(K, i)
      BY <3>2 DEF Rank
    <3>4. Rank(K, i) \in 1 .. Len(s)
      BY <1>4, <1>6, <3>1, RankBounds
    <3> HIDE DEF s, K, L
    <3> QED
      BY <1>4, <1>5, <3>1, <3>3, <3>4
  <2> QED
    BY <2>1, <2>2
<1>10. Append(s, path[m]) \in Seq(Segments) /\ Len(Append(s, path[m])) = Len(s) + 1
  <2> HIDE DEF s
  <2> QED
    BY <1>4, <1>5
<1> QED
  BY <1>3, <1>4, <1>8, <1>9, <1>10 DEF Stacked

LEMMA StackParent ==
  ASSUME NEW path \in Seq(Segments), NEW n \in Nat, NEW m \in Nat, m = n + 1, m \in DOMAIN path,
         path[m] = "..", Balanced(path, n), Stacked(path, n)
  PROVE  Stacked(path, m)
<1> DEFINE K == KeptTo(path, n)
           L == KeptTo(path, m)
           s == Left(path)[n]
<1>1. m \in 1 .. Len(path) /\ n = m - 1
  OBVIOUS
<1>2. Left(path)[m] = Step(s, path[m])
  BY <1>1, LeftEquation
<1>3. Left(path)[m] = IF s = <<>> THEN s ELSE Front(s)
  BY <1>2, EmptyDiffers DEF Step
<1>4. s \in Seq(Segments) /\ Len(s) = Cardinality(K) /\ \A i \in K : s[Rank(K, i)] = path[i]
  BY DEF Stacked
<1>5. Places(K) /\ K \subseteq 1 .. n /\ IsFiniteSet(K)
  BY KeptToPlaces DEF Places
<1>6. L = {i \in K : \E j \in K : i < j}
  BY KeptParent
<1>7. CASE K = {}
  <2>1. L = {} /\ s = <<>>
    <3> HIDE DEF s
    <3> QED
      BY <1>4, <1>6, <1>7, FS_EmptySet
  <2>2. Left(path)[m] = <<>>
    BY <1>3, <2>1
  <2> HIDE DEF L
  <2>3. Cardinality(L) = 0
    BY <2>1, FS_EmptySet
  <2> QED
    BY <2>1, <2>2, <2>3 DEF Stacked, L
<1>8. CASE K # {}
  <2>1. PICK z \in K : \A y \in K : y <= z
    <3> HIDE DEF K
    <3> QED
      BY <1>5, <1>8, LargestExists
  <2>2. L = K \ {z}
    BY <1>5, <1>6, <2>1
  <2> HIDE DEF K, L, s
  <2>3. Cardinality(K) \in Nat \ {0} /\ Cardinality(L) = Cardinality(K) - 1
    BY <1>5, <2>1, <2>2, FS_RemoveElement, FS_CardinalityType, FS_EmptySet
  <2>4. s # <<>>
    BY <1>4, <2>3
  <2>5. /\ Front(s) \in Seq(Segments) /\ Len(Front(s)) = Cardinality(L)
        /\ \A k \in 1 .. Cardinality(L) : Front(s)[k] = s[k]
    BY <1>4, <2>3 DEF Front
  <2>6. ASSUME NEW i \in L PROVE Front(s)[Rank(L, i)] = path[i]
    <3>1. i \in K /\ i < z
      BY <1>5, <2>1, <2>2
    <3>2. L \cap 1 .. i = K \cap 1 .. i
      BY <1>5, <2>1, <2>2, <3>1
    <3>3. Rank(L, i) = Rank(K, i)
      BY <3>2 DEF Rank
    <3>4. Places(L)
      BY <1>5, <2>2, FS_Subset DEF Places
    <3>5. Rank(L, i) \in 1 .. Cardinality(L)
      BY <3>4, RankBounds
    <3> QED
      BY <1>4, <2>5, <3>1, <3>3, <3>5
  <2> QED
    BY <1>3, <2>4, <2>5, <2>6 DEF Stacked, K, L, s
<1> QED
  BY <1>7, <1>8

\* What Clean computes from left to right is what Kept says of each segment:
\* the kept ones, in order, or one empty segment when none is.
LEMMA CleanIsKept ==
  ASSUME NEW path \in Seq(Segments)
  PROVE  /\ Kept(path) = {} => Clean(path) = <<Empty>>
         /\ Kept(path) # {} =>
              /\ Clean(path) \in Seq(Segments)
              /\ Len(Clean(path)) = Cardinality(Kept(path))
              /\ \A i \in Kept(path) : Clean(path)[Rank(Kept(path), i)] = path[i]
<1> DEFINE S == {n \in Nat : n <= Len(path) => Balanced(path, n) /\ Stacked(path, n)}
<1>1. 0 \in S
  BY StackStart
<1>2. ASSUME NEW n \in Nat, n \in S PROVE n + 1 \in S
  <2> DEFINE m == n + 1
  <2> SUFFICES ASSUME m <= Len(path) PROVE Balanced(path, m) /\ Stacked(path, m)
    OBVIOUS
  <2>1. m \in Nat /\ m = n + 1 /\ m \in DOMAIN path
    OBVIOUS
  <2>2. Balanced(path, n) /\ Stacked(path, n)
    BY <1>2, <2>1
  <2> HIDE DEF m
  <2> QED
    BY <2>1, <2>2, BalanceStep, StackPlain, StackNamed, StackParent
<1>3. Nat \subseteq S
  <2> HIDE DEF S
  <2> QED
    BY <1>1, <1>2, SetInduction
<1>4. Len(path) \in Nat
  OBVIOUS
<1>5. Stacked(path, Len(path)) /\ Kept(path) = KeptTo(path, Len(path))
  BY <1>3, <1>4, KeptIsKeptTo
<1> DEFINE parts == Left(path)[Len(path)]
           K == Kept(path)
<1>6. /\ parts \in Seq(Segments) /\ Len(parts) = Cardinality(K)
      /\ \A i \in K : parts[Rank(K, i)] = path[i]
  BY <1>5 DEF Stacked
<1>7. IsFiniteSet(K)
  BY <1>4, <1>5, KeptToPlaces DEF Places
<1>8. Clean(path) = IF parts = <<>> THEN <<Empty>> ELSE parts
  BY DEF Clean
<1>9. parts = <<>> <=> K = {}
  <2> HIDE DEF parts, K
  <2> QED
    BY <1>6, <1>7, FS_EmptySet
<1> QED
  BY <1>6, <1>8, <1>9

\* The cleaned path has every kept segment and nothing else.
LEMMA KeptPlaces ==
  ASSUME NEW path \in Seq(Segments)
  PROVE  /\ Places(Kept(path)) /\ Kept(path) \subseteq Named(path)
         /\ Kept(path) \subseteq DOMAIN path
<1>1. Len(path) \in Nat
  OBVIOUS
<1>2. Places(Kept(path))
  BY <1>1, KeptIsKeptTo, KeptToPlaces
<1>3. Kept(path) \subseteq Named(path)
  BY DEF Kept
<1>4. Named(path) \subseteq DOMAIN path
  BY DEF Named
<1> QED
  BY <1>2, <1>3, <1>4

\* A segment of the cleaned path is a kept one, of that rank.
LEMMA CleanSegment ==
  ASSUME NEW path \in Seq(Segments), Kept(path) # {}, NEW k \in 1 .. Len(Clean(path))
  PROVE  \E i \in Kept(path) : Rank(Kept(path), i) = k /\ Clean(path)[k] = path[i]
<1> DEFINE K == Kept(path)
<1>1. k \in 1 .. Cardinality(K) /\ \A i \in K : Clean(path)[Rank(K, i)] = path[i]
  BY CleanIsKept
<1>2. Places(K)
  BY KeptPlaces
<1>3. PICK i \in K : Rank(K, i) = k
  <2> HIDE DEF K
  <2> QED
    BY <1>1, <1>2, RankSurjective
<1> QED
  BY <1>1, <1>3

-----------------------------------------------------------------------------
(* Matching. *)

LEMMA Constants ==
  /\ Captures \subseteq Enclosed /\ Enclosed \subseteq Braced
  /\ Empty \in Segments \ Braced /\ "*" \in Segments \ Braced
  BY AuthorizationAssumption

LEMMA KeptSegment ==
  ASSUME NEW path \in Seq(Segments), NEW i \in Kept(path)
  PROVE  i \in DOMAIN path /\ path[i] \in Segments \ {Empty, ".", ".."}
<1>1. i \in DOMAIN path /\ i \in Named(path)
  BY KeptPlaces
<1> QED
  BY <1>1 DEF Named

\* Two kept segments of a valid pattern are never the same capture.
LEMMA CapturesDiffer ==
  ASSUME NEW pattern \in Seq(Segments), ValidCaptures(pattern),
         NEW i \in Kept(pattern), NEW j \in Kept(pattern), i # j, pattern[i] \in Enclosed
  PROVE  pattern[i] \in Captures /\ pattern[i] # pattern[j]
<1>1. i \in DOMAIN pattern /\ j \in DOMAIN pattern
  BY KeptSegment
<1>2. pattern[i] \in ToSet(pattern) \cap Braced
  BY <1>1, Constants DEF ToSet
<1> QED
  BY <1>1, <1>2 DEF ValidCaptures

LEMMA EnclosedIsCapture ==
  ASSUME NEW pattern \in Seq(Segments), ValidCaptures(pattern),
         NEW i \in Kept(pattern), pattern[i] \in Enclosed
  PROVE  pattern[i] \in Captures
<1>1. i \in DOMAIN pattern
  BY KeptSegment
<1>2. pattern[i] \in ToSet(pattern) \cap Braced
  BY <1>1, Constants DEF ToSet
<1> QED
  BY <1>2 DEF ValidCaptures

\* Neither is the root.
LEMMA MatchedInside ==
  ASSUME NEW pattern \in Seq(Segments), NEW path \in Seq(Segments), ValidCaptures(pattern),
         Kept(pattern) # {}, Kept(path) # {}
  PROVE  Matched(pattern, path) <=> PathFits(pattern, path)
<1> DEFINE P == Kept(pattern)
           S == Kept(path)
           p == Clean(pattern)
           s == Clean(path)
<1>1. /\ p \in Seq(Segments) /\ Len(p) = Cardinality(P)
      /\ \A i \in P : p[Rank(P, i)] = pattern[i]
  BY CleanIsKept
<1>2. /\ s \in Seq(Segments) /\ Len(s) = Cardinality(S)
      /\ \A j \in S : s[Rank(S, j)] = path[j]
  BY CleanIsKept
<1>3. DOMAIN p = 1 .. Len(p) /\ Len(p) \in Nat
  <2> HIDE DEF p
  <2> QED
    BY <1>1
<1>4. ASSUME Matched(pattern, path) PROVE PathFits(pattern, path)
  <2>1. Len(p) = Len(s)
    BY <1>4 DEF Matched
  <2>2. ASSUME NEW i \in P, NEW j \in S, Rank(P, i) = Rank(S, j) PROVE Fits(pattern[i], path[j])
    <3> DEFINE k == Rank(P, i)
    <3>1. k \in DOMAIN p
      BY <1>1, <1>3, KeptPlaces, RankBounds
    <3>2. p[k] = pattern[i] /\ s[k] = path[j]
      BY <1>1, <1>2, <2>2
    <3>3. IF p[k] \in Enclosed THEN p[k] \in Captures ELSE p[k] \in {"*", s[k]}
      BY <1>4, <3>1 DEF Matched
    <3> HIDE DEF k, p, s
    <3> QED
      BY <3>2, <3>3 DEF Fits
  <2> QED
    BY <1>1, <1>2, <2>1, <2>2 DEF PathFits
<1>5. ASSUME PathFits(pattern, path) PROVE Matched(pattern, path)
  <2>1. /\ Cardinality(P) = Cardinality(S)
        /\ \A i \in P, j \in S : Rank(P, i) = Rank(S, j) => Fits(pattern[i], path[j])
    BY <1>5 DEF PathFits
  <2>2. ASSUME NEW k \in DOMAIN p
        PROVE  IF p[k] \in Enclosed
               THEN p[k] \in Captures /\ \A l \in 1 .. k - 1 : p[l] # p[k]
               ELSE p[k] \in {"*", s[k]}
    <3>1. k \in 1 .. Len(p) /\ k \in 1 .. Len(s)
      BY <1>1, <1>2, <1>3, <2>1
    <3>2. PICK i \in P : Rank(P, i) = k /\ p[k] = pattern[i]
      BY <3>1, CleanSegment
    <3>3. PICK j \in S : Rank(S, j) = k /\ s[k] = path[j]
      BY <3>1, CleanSegment
    <3>4. Fits(pattern[i], path[j])
      BY <2>1, <3>2, <3>3
    <3>5. CASE p[k] \in Enclosed
      <4>1. p[k] \in Captures
        BY <3>2, <3>5, EnclosedIsCapture
      <4>2. ASSUME NEW l \in 1 .. k - 1 PROVE p[l] # p[k]
        <5>1. l \in 1 .. Len(p) /\ l # k
          BY <1>3, <3>1
        <5>2. PICK h \in P : Rank(P, h) = l /\ p[l] = pattern[h]
          BY <5>1, CleanSegment
        <5>3. h # i
          BY <3>2, <5>1, <5>2
        <5> QED
          BY <3>2, <3>5, <5>2, <5>3, CapturesDiffer
      <4> QED
        BY <3>5, <4>1, <4>2
    <3>6. CASE p[k] \notin Enclosed
      <4>1. pattern[i] \notin Captures
        BY <3>2, <3>6, Constants
      <4> QED
        BY <3>2, <3>3, <3>4, <3>6, <4>1 DEF Fits
    <3> QED
      BY <3>5, <3>6
  <2> QED
    BY <1>1, <1>2, <2>1, <2>2 DEF Matched
<1> QED
  BY <1>4, <1>5

\* The path is the root.
LEMMA MatchedAtRoot ==
  ASSUME NEW pattern \in Seq(Segments), NEW path \in Seq(Segments), ValidCaptures(pattern),
         Kept(path) = {}
  PROVE  Matched(pattern, path) <=> PathFits(pattern, path)
<1> DEFINE P == Kept(pattern)
           p == Clean(pattern)
<1>1. Clean(path) = <<Empty>> /\ Cardinality(Kept(path)) = 0
  BY CleanIsKept, FS_EmptySet
<1>2. Matched(pattern, path) <=>
        /\ Len(p) = 1
        /\ \A i \in DOMAIN p :
             IF p[i] \in Enclosed
             THEN p[i] \in Captures /\ \A j \in 1 .. i - 1 : p[j] # p[i]
             ELSE p[i] \in {"*", <<Empty>>[i]}
  BY <1>1 DEF Matched
<1>3. CASE P = {}
  <2>1. p = <<Empty>>
    BY <1>3, CleanIsKept
  <2>2. Matched(pattern, path)
    BY <1>2, <2>1, Constants
  <2>3. PathFits(pattern, path)
    BY <1>1, <1>3, FS_EmptySet DEF PathFits
  <2> QED
    BY <2>2, <2>3
<1>4. CASE P # {}
  <2>1. p \in Seq(Segments) /\ Len(p) = Cardinality(P)
    BY <1>4, CleanIsKept
  <2>2. IsFiniteSet(P) /\ Cardinality(P) # 0
    <3>1. IsFiniteSet(P)
      BY KeptPlaces DEF Places
    <3> HIDE DEF P
    <3> QED
      BY <1>4, <3>1, FS_EmptySet
  <2>3. PathFits(pattern, path) <=>
          \E c \in Captures \cup {"*"} : {pattern[i] : i \in P} = {c} /\ Cardinality(P) = 1
    BY <1>1, <2>2 DEF PathFits
  <2>4. CASE Cardinality(P) # 1
    BY <1>2, <2>1, <2>3, <2>4
  <2>5. CASE Cardinality(P) = 1
    <3>1. PICK i : P = {i}
      <4> HIDE DEF P
      <4> QED
        BY <2>2, <2>5, FS_Singleton
    <3>2. DOMAIN p = {1} /\ 1 \in 1 .. Len(p)
      <4> HIDE DEF p
      <4> QED
        BY <2>1, <2>5
    <3>3. p[1] = pattern[i]
      <4>1. Kept(pattern) # {} /\ 1 \in 1 .. Len(Clean(pattern))
        BY <1>4, <3>2
      <4>2. \E j \in Kept(pattern) :
              Rank(Kept(pattern), j) = 1 /\ Clean(pattern)[1] = pattern[j]
        BY <4>1, CleanSegment
      <4> HIDE DEF p
      <4>3. \E j \in P : Clean(pattern)[1] = pattern[j]
        BY <4>2
      <4> QED
        BY <3>1, <4>3 DEF p
    <3>4. pattern[i] # Empty
      <4>1. i \in Kept(pattern)
        BY <3>1
      <4>2. pattern[i] \in Segments \ {Empty, ".", ".."}
        BY <4>1, KeptSegment
      <4> QED
        BY <4>2
    <3>5. pattern[i] \in Enclosed <=> pattern[i] \in Captures
      BY <3>1, Constants, EnclosedIsCapture
    <3>6. Matched(pattern, path) <=> pattern[i] \in Captures \cup {"*"}
      <4> HIDE DEF p
      <4> QED
        BY <1>2, <2>1, <2>5, <3>2, <3>3, <3>4, <3>5, Constants
    <3>7. PathFits(pattern, path) <=> pattern[i] \in Captures \cup {"*"}
      BY <2>3, <2>5, <3>1
    <3> QED
      BY <3>6, <3>7
  <2> QED
    BY <2>4, <2>5
<1> QED
  BY <1>3, <1>4

\* Only the pattern is the root.
LEMMA MatchedByRoot ==
  ASSUME NEW pattern \in Seq(Segments), NEW path \in Seq(Segments),
         Kept(pattern) = {}, Kept(path) # {}
  PROVE  ~ Matched(pattern, path) /\ ~ PathFits(pattern, path)
<1> DEFINE S == Kept(path)
           s == Clean(path)
<1>1. Clean(pattern) = <<Empty>> /\ Cardinality(Kept(pattern)) = 0
  BY CleanIsKept, FS_EmptySet
<1>2. Cardinality(S) # 0
  <2>1. IsFiniteSet(S) /\ S # {}
    BY KeptPlaces DEF Places
  <2> HIDE DEF S
  <2> QED
    BY <2>1, FS_EmptySet
<1>3. ASSUME Matched(pattern, path) PROVE FALSE
  <2>1. Len(s) = 1
    BY <1>1, <1>3 DEF Matched
  <2>2. PICK j \in S : s[1] = path[j]
    <3>1. 1 \in 1 .. Len(s)
      BY <2>1
    <3> QED
      BY <3>1, CleanSegment
  <2>3. s[1] # Empty
    BY <2>2, KeptSegment
  <2>4. 1 \in DOMAIN Clean(pattern) /\ Clean(pattern)[1] = Empty
    BY <1>1
  <2>5. IF Clean(pattern)[1] \in Enclosed THEN Clean(pattern)[1] \in Captures
        ELSE Clean(pattern)[1] \in {"*", s[1]}
    BY <1>3, <2>4 DEF Matched
  <2> HIDE DEF s
  <2> QED
    BY <2>3, <2>4, <2>5, Constants, EmptyDiffers
<1> QED
  BY <1>1, <1>2, <1>3 DEF PathFits

\* What endpoint_match computes from left to right, popping and comparing, is for
\* every valid pattern and every path what PathFits says of each segment.
THEOREM MatchedIsPathFits ==
  ASSUME NEW pattern \in Seq(Segments), NEW path \in Seq(Segments), ValidCaptures(pattern)
  PROVE  Matched(pattern, path) <=> PathFits(pattern, path)
  BY MatchedInside, MatchedAtRoot, MatchedByRoot
=============================================================================
