----------------------------- MODULE NamesProofs -----------------------------
(***************************************************************************)
(* Proofs about names.  A listing, page by page and whatever others put    *)
(* and delete meanwhile, has every object that stays, no object that was   *)
(* never there, and each once and in its place.  A backup ID is one PBS    *)
(* accepts, and two names have the same only if one of them is its own,    *)
(* but for an extension.                                                   *)
(*                                                                         *)
(* What a loop over a sequence yields is shown by the least round at which *)
(* it would not: LeastOf and UpTo.                                         *)
(***************************************************************************)
EXTENDS Listing, Idmap, SequenceTheorems, FiniteSetTheorems, WellFoundedInduction, TLAPS

(* Min of FiniteSetsExt, of a set of naturals that need not be finite. *)
LEMMA LeastOf ==
  ASSUME NEW S \in SUBSET Nat, S # {}
  PROVE  Min(S) \in S /\ \A y \in S : Min(S) <= y
PROOF
<1> DEFINE R == {ss \in Nat \X Nat : ss[1] < ss[2]}
<1>1. OpToRel(<, Nat) = R
  BY Zenon DEF OpToRel
<1>2. PICK m \in S : \A y \in S : ~ <<y, m>> \in R
  <2> HIDE DEF R
  <2> QED BY <1>1, NatLessThanWellFounded, WFMin
<1>3. ASSUME NEW y \in S PROVE m <= y
  <2>1. y \in Nat /\ m \in Nat /\ <<y, m>> \notin R
    BY <1>2
  <2>2. y < m => <<y, m>> \in R
    BY <2>1
  <2> QED BY <2>1, <2>2
<1> QED BY <1>3 DEF Min

(* Two strings begin with the same n bytes. *)
LEMMA SameBeginning ==
  ASSUME NEW s \in Seq(Int), NEW t \in Seq(Int), NEW n \in Nat, n <= Len(s), n <= Len(t)
  PROVE  SubSeq(s, 1, n) = SubSeq(t, 1, n) <=> \A j \in 1..n : s[j] = t[j]
PROOF
<1> DEFINE a == SubSeq(s, 1, n)
           b == SubSeq(t, 1, n)
<1>1. /\ a \in Seq(Int) /\ Len(a) = n /\ \A j \in 1..n : a[j] = s[j]
      /\ b \in Seq(Int) /\ Len(b) = n /\ \A j \in 1..n : b[j] = t[j]
  BY SubSeqProperties
<1> HIDE DEF a, b
<1>2. a = b <=> \A j \in 1..n : a[j] = b[j]
  BY <1>1, SeqEqual
<1> QED BY <1>1, <1>2 DEF a, b

(* A prefix, byte by byte. *)
LEMMA PrefixBytes ==
  ASSUME NEW s \in Seq(Int), NEW t \in Seq(Int)
  PROVE  IsPrefix(s, t) <=> Len(s) <= Len(t) /\ \A j \in 1..Len(s) : s[j] = t[j]
BY SameBeginning DEF IsPrefix

(* s comes before t because of the byte at i. *)
Splits(s, t, i) ==
  /\ i \in 1..Len(t) /\ i <= Len(s) + 1
  /\ \A j \in 1..(i - 1) : s[j] = t[j]
  /\ i <= Len(s) => s[i] < t[i]

(* The order of bytes, by the byte that decides. *)
LEMMA LessSplits ==
  ASSUME NEW s \in Seq(Int), NEW t \in Seq(Int)
  PROVE  Less(s, t) <=> \E i \in Nat : Splits(s, t, i)
PROOF
<1>1. ASSUME IsStrictPrefix(s, t) PROVE Splits(s, t, Len(s) + 1)
  <2>1. Len(s) <= Len(t) /\ \A j \in 1..Len(s) : s[j] = t[j]
    BY <1>1, PrefixBytes DEF IsStrictPrefix
  <2>2. Len(s) # Len(t)
    BY <1>1, <2>1, SeqEqual DEF IsStrictPrefix
  <2> QED BY <2>1, <2>2 DEF Splits
<1>2. ASSUME NEW i \in DOMAIN s \cap DOMAIN t,
             s[i] < t[i], SubSeq(s, 1, i - 1) = SubSeq(t, 1, i - 1)
      PROVE  Splits(s, t, i) /\ i \in Nat
  <2>1. i \in Nat /\ i - 1 \in Nat /\ i <= Len(s) /\ i <= Len(t) /\ i >= 1
    OBVIOUS
  <2>2. \A j \in 1..(i - 1) : s[j] = t[j]
    BY <1>2, <2>1, SameBeginning
  <2> QED BY <1>2, <2>1, <2>2 DEF Splits
<1>3. ASSUME NEW i \in Nat, Splits(s, t, i) PROVE Less(s, t)
  <2>1. CASE i <= Len(s)
    <3>1. i - 1 \in Nat /\ i - 1 <= Len(s) /\ i - 1 <= Len(t) /\ i \in DOMAIN s \cap DOMAIN t
      BY <1>3, <2>1 DEF Splits
    <3>2. SubSeq(s, 1, i - 1) = SubSeq(t, 1, i - 1)
      BY <1>3, <3>1, SameBeginning DEF Splits
    <3> QED BY <1>3, <2>1, <3>1, <3>2 DEF Less, Splits
  <2>2. CASE i = Len(s) + 1
    <3>1. IsPrefix(s, t) /\ s # t
      BY <1>3, <2>2, PrefixBytes DEF Splits
    <3> QED BY <3>1 DEF Less, IsStrictPrefix
  <2> QED BY <1>3, <2>1, <2>2 DEF Splits
<1> QED BY <1>1, <1>2, <1>3 DEF Less

(* bytes.Compare is a total order: it puts no string before itself, ... *)
LEMMA Irreflexive == ASSUME NEW s \in Seq(Int) PROVE ~ Less(s, s)
BY LessSplits DEF Splits

(* ... follows from one to the next, ... *)
LEMMA Transitive ==
  ASSUME NEW s \in Seq(Int), NEW t \in Seq(Int), NEW u \in Seq(Int), Less(s, t), Less(t, u)
  PROVE  Less(s, u)
PROOF
<1>1. PICK i \in Nat : Splits(s, t, i)
  BY LessSplits
<1>2. PICK j \in Nat : Splits(t, u, j)
  BY LessSplits
<1>3. CASE i < j
  <2>1. Splits(s, u, i)
    BY <1>1, <1>2, <1>3 DEF Splits
  <2> QED BY <2>1, LessSplits
<1>4. CASE j < i
  <2>1. Splits(s, u, j)
    BY <1>1, <1>2, <1>4 DEF Splits
  <2> QED BY <2>1, LessSplits
<1>5. CASE i = j
  <2>1. i <= Len(s) => s[i] \in Int /\ t[i] \in Int /\ u[i] \in Int
    BY <1>1, <1>2, <1>5 DEF Splits
  <2>2. Splits(s, u, i)
    BY <1>1, <1>2, <1>5, <2>1 DEF Splits
  <2> QED BY <2>2, LessSplits
<1> QED BY <1>3, <1>4, <1>5

(* ... and leaves no two strings apart. *)
LEMMA Total ==
  ASSUME NEW s \in Seq(Int), NEW t \in Seq(Int)
  PROVE  s = t \/ Less(s, t) \/ Less(t, s)
PROOF
<1> DEFINE D == {i \in Nat \ {0} : ~ (i <= Len(s) /\ i <= Len(t) /\ s[i] = t[i])}
           m == Min(D)
<1>1. Len(s) + 1 \in D
  OBVIOUS
<1>2. m \in D /\ \A y \in D : m <= y
  BY <1>1, LeastOf
<1> HIDE DEF m
<1>3. m \in Nat /\ m >= 1 /\ \A j \in 1..(m - 1) : j <= Len(s) /\ j <= Len(t) /\ s[j] = t[j]
  BY <1>2
<1>4. m - 1 <= Len(s) /\ m - 1 <= Len(t)
  <2>1. CASE m = 1
    BY <2>1
  <2>2. CASE m > 1
    <3>1. m - 1 \in 1..(m - 1)
      BY <1>3, <2>2
    <3> QED BY <1>3, <3>1
  <2> QED BY <1>3, <2>1, <2>2
<1>5. CASE m <= Len(s) /\ m <= Len(t)
  <2>1. s[m] \in Int /\ t[m] \in Int /\ s[m] # t[m]
    BY <1>2, <1>3, <1>5
  <2>2. Splits(s, t, m) \/ Splits(t, s, m)
    BY <1>3, <1>5, <2>1 DEF Splits
  <2> QED BY <1>3, <2>2, LessSplits
<1>6. CASE m > Len(s) /\ m <= Len(t)
  <2>1. Splits(s, t, m)
    BY <1>3, <1>4, <1>6 DEF Splits
  <2> QED BY <1>3, <2>1, LessSplits
<1>7. CASE m <= Len(s) /\ m > Len(t)
  <2>1. Splits(t, s, m)
    BY <1>3, <1>4, <1>7 DEF Splits
  <2> QED BY <1>3, <2>1, LessSplits
<1>8. CASE m > Len(s) /\ m > Len(t)
  <2>1. Len(s) = Len(t) /\ Len(s) = m - 1
    BY <1>3, <1>4, <1>8
  <2> QED BY <1>3, <2>1, SeqEqual
<1> QED BY <1>3, <1>5, <1>6, <1>7, <1>8

(* A prefix of a string is no greater than it. *)
LEMMA PrefixNotGreater ==
  ASSUME NEW s \in Seq(Int), NEW t \in Seq(Int), IsPrefix(s, t)
  PROVE  s = t \/ Less(s, t)
BY DEF Less, IsStrictPrefix

(* What two strings have both in front does not matter. *)
LEMMA LessBehind ==
  ASSUME NEW b \in Seq(Int), NEW s \in Seq(Int), NEW t \in Seq(Int)
  PROVE  Less(b \o s, b \o t) <=> Less(s, t)
PROOF
<1> DEFINE x == b \o s
           y == b \o t
           n == Len(b)
<1>1. /\ x \in Seq(Int) /\ Len(x) = n + Len(s)
      /\ \A i \in 1..n : x[i] = b[i]
      /\ \A i \in 1..Len(s) : x[n + i] = s[i]
  BY ConcatProperties
<1>2. /\ y \in Seq(Int) /\ Len(y) = n + Len(t)
      /\ \A i \in 1..n : y[i] = b[i]
      /\ \A i \in 1..Len(t) : y[n + i] = t[i]
  BY ConcatProperties
<1>3. n \in Nat
  OBVIOUS
<1> HIDE DEF x, y, n
<1>4. ASSUME NEW i \in Nat, Splits(s, t, i) PROVE Splits(x, y, n + i)
  <2>1. n + i \in 1..Len(y) /\ n + i <= Len(x) + 1
    BY <1>1, <1>2, <1>3, <1>4 DEF Splits
  <2>2. ASSUME NEW j \in Nat, j >= 1, j < n + i PROVE x[j] = y[j]
    <3>1. CASE j <= n
      <4>1. j \in 1..n
        BY <1>3, <2>2, <3>1
      <4> QED BY <1>1, <1>2, <4>1
    <3>2. CASE j > n
      <4>1. j - n \in 1..(i - 1) /\ j - n <= Len(s) /\ j - n <= Len(t) /\ j = n + (j - n)
        BY <1>3, <1>4, <2>2, <3>2 DEF Splits
      <4>2. s[j - n] = t[j - n]
        BY <1>4, <4>1 DEF Splits
      <4>3. x[n + (j - n)] = s[j - n] /\ y[n + (j - n)] = t[j - n]
        <5>1. j - n \in 1..Len(s) /\ j - n \in 1..Len(t)
          BY <4>1
        <5> QED BY <1>1, <1>2, <5>1
      <4> QED BY <4>1, <4>2, <4>3
    <3> QED BY <1>3, <3>1, <3>2
  <2>3. n + i <= Len(x) => x[n + i] < y[n + i]
    BY <1>1, <1>2, <1>3, <1>4 DEF Splits
  <2>4. PICK h \in Nat : h = n + i
    BY <1>3
  <2>5. /\ h \in 1..Len(y) /\ h <= Len(x) + 1
        /\ h <= Len(x) => x[h] < y[h]
    BY <2>1, <2>3, <2>4
  <2>6. \A j \in 1..(h - 1) : x[j] = y[j]
    BY <1>3, <2>2, <2>4
  <2>7. Splits(x, y, h)
    BY <2>5, <2>6 DEF Splits
  <2> QED BY <2>4, <2>7
<1>5. ASSUME NEW i \in Nat, Splits(x, y, i) PROVE i - n \in Nat /\ Splits(s, t, i - n)
  <2>1. i > n
    <3>1. CASE i <= n
      <4>1. i \in 1..n /\ i <= Len(x) /\ x[i] = b[i] /\ y[i] = b[i]
        BY <1>1, <1>2, <1>3, <1>5, <3>1 DEF Splits
      <4>2. x[i] < y[i] /\ x[i] \in Int /\ y[i] \in Int
        BY <1>1, <1>2, <1>5, <4>1 DEF Splits
      <4> QED BY <4>1, <4>2
    <3> QED BY <1>3, <3>1
  <2>2. i - n \in 1..Len(t) /\ i - n <= Len(s) + 1
    BY <1>1, <1>2, <1>3, <1>5, <2>1 DEF Splits
  <2>3. ASSUME NEW j \in 1..(i - n - 1) PROVE s[j] = t[j]
    <3>1. n + j \in 1..(i - 1) /\ j <= Len(s) /\ j <= Len(t)
      BY <1>3, <2>2
    <3>2. x[n + j] = y[n + j]
      BY <1>5, <3>1 DEF Splits
    <3> QED BY <1>1, <1>2, <3>1, <3>2
  <2>4. i - n <= Len(s) => s[i - n] < t[i - n]
    <3>1. i = n + (i - n)
      BY <1>3
    <3>2. ASSUME i - n <= Len(s) PROVE s[i - n] = x[i] /\ t[i - n] = y[i] /\ x[i] < y[i]
      <4>1. i - n \in 1..Len(s) /\ i - n \in 1..Len(t) /\ i <= Len(x)
        BY <1>1, <1>3, <2>2, <3>2
      <4>2. x[n + (i - n)] = s[i - n] /\ y[n + (i - n)] = t[i - n]
        BY <1>1, <1>2, <4>1
      <4> QED BY <1>5, <3>1, <4>1, <4>2 DEF Splits
    <3> QED BY <3>2
  <2> QED BY <1>3, <2>1, <2>2, <2>3, <2>4 DEF Splits
<1>6. Less(x, y) <=> Less(s, t)
  <2>1. Less(s, t) => Less(x, y)
    <3>1. ASSUME NEW i \in Nat, Splits(s, t, i) PROVE Less(x, y)
      <4>1. n + i \in Nat /\ Splits(x, y, n + i)
        BY <1>3, <1>4, <3>1
      <4> QED BY <1>1, <1>2, <4>1, LessSplits
    <3> QED BY <3>1, LessSplits
  <2>2. Less(x, y) => Less(s, t)
    <3>1. ASSUME NEW i \in Nat, Splits(x, y, i) PROVE Less(s, t)
      BY <1>5, <3>1, LessSplits
    <3> QED BY <1>1, <1>2, <3>1, LessSplits
  <2> QED BY <2>1, <2>2
<1> QED BY <1>6 DEF x, y

------------------------------------------------------------------------------
(* Induction over the numbers up to n, for the members of a set. *)
LEMMA UpTo ==
  ASSUME NEW S, NEW n \in Nat, 0 \in S, \A m \in 0..(n - 1) : m \in S => m + 1 \in S
  PROVE  \A m \in 0..n : m \in S
PROOF
<1> DEFINE B == {m \in 0..n : m \notin S}
           m == Min(B)
<1>1. SUFFICES ASSUME B # {} PROVE FALSE
  OBVIOUS
<1>2. m \in B /\ \A y \in B : m <= y
  <2>1. B \in SUBSET Nat
    OBVIOUS
  <2> HIDE DEF B
  <2> QED BY <1>1, <2>1, LeastOf
<1> HIDE DEF m
<1>3. m \in Nat /\ m # 0 /\ m <= n /\ m \notin S
  BY <1>2
<1>4. m - 1 \in 0..(n - 1) /\ m - 1 \notin B /\ m - 1 \in 0..n
  BY <1>2, <1>3
<1>5. m - 1 \in S
  BY <1>4
<1>6. (m - 1) + 1 \in S
  BY <1>4, <1>5
<1> QED BY <1>3, <1>6

(* What the loop of Filter has appended after i rounds, from what it had before. *)
Round(s, T, F, i) == IF i = 0 THEN <<>>
                     ELSE IF s[i] \in T THEN Append(F[i - 1], s[i])
                     ELSE F[i - 1]

(* There is such a loop, ... *)
LEMMA LoopExists ==
  ASSUME NEW s, NEW T, NEW n \in Nat
  PROVE  \E F : F = [i \in 0..n |-> Round(s, T, F, i)]
PROOF
<1> DEFINE S == {m \in Nat : \E F : F = [i \in 0..m |-> Round(s, T, F, i)]}
<1>1. 0 \in S
  <2> DEFINE F == [i \in 0..0 |-> <<>>]
  <2>1. F = [i \in 0..0 |-> Round(s, T, F, i)]
    BY DEF Round
  <2> QED BY <2>1
<1>2. ASSUME NEW m \in 0..(n - 1), m \in S PROVE m + 1 \in S
  <2>1. PICK F : F = [i \in 0..m |-> Round(s, T, F, i)]
    BY <1>2
  <2> DEFINE G == [i \in 0..(m + 1) |-> IF i = m + 1 THEN Round(s, T, F, m + 1) ELSE F[i]]
  <2>2. ASSUME NEW i \in 0..(m + 1) PROVE G[i] = Round(s, T, G, i)
    <3>1. CASE i = 0
      <4>1. F[0] = Round(s, T, F, 0) /\ G[0] = F[0]
        <5>1. 0 \in 0..m /\ 0 \in 0..(m + 1) /\ 0 # m + 1
          BY <1>2
        <5>2. F[0] = Round(s, T, F, 0)
          BY <2>1, <5>1, Zenon
        <5> QED BY <5>1, <5>2
      <4> QED BY <3>1, <4>1 DEF Round
    <3>2. CASE i # 0
      <4>1. i - 1 \in 0..m
        BY <1>2, <3>2
      <4>2. G[i - 1] = F[i - 1]
        BY <4>1
      <4>3. Round(s, T, G, i) = Round(s, T, F, i)
        BY <3>2, <4>2 DEF Round
      <4>4. G[i] = Round(s, T, F, i)
        <5>1. CASE i = m + 1
          BY <5>1
        <5>2. CASE i # m + 1
          <6>1. i \in 0..m
            BY <1>2, <5>2
          <6>2. F[i] = Round(s, T, F, i)
            BY <2>1, <6>1, Zenon
          <6>3. G[i] = F[i]
            BY <5>2
          <6> QED BY <6>2, <6>3
        <5> QED BY <5>1, <5>2
      <4> QED BY <4>3, <4>4
    <3> QED BY <3>1, <3>2
  <2>3. G = [i \in 0..(m + 1) |-> Round(s, T, G, i)]
    <3>1. DOMAIN G = 0..(m + 1) /\ G = [i \in 0..(m + 1) |-> G[i]]
      OBVIOUS
    <3> HIDE DEF G
    <3> QED BY <2>2, <3>1
  <2> HIDE DEF G
  <2> QED BY <1>2, <2>3
<1> HIDE DEF S
<1>3. n \in S
  BY <1>1, <1>2, UpTo
<1> QED BY <1>3 DEF S

(* ... and it is the one of Filter. *)
LEMMA FilterLoop ==
  ASSUME NEW X, NEW s \in Seq(X), NEW T
  PROVE  \E F : /\ F = [i \in 0..Len(s) |-> Round(s, T, F, i)]
                /\ Filter(s, T) = F[Len(s)]
PROOF
<1> DEFINE F == CHOOSE F : F = [i \in 0..Len(s) |-> IF i = 0 THEN <<>>
                               ELSE IF s[i] \in T THEN Append(F[i - 1], s[i])
                               ELSE F[i - 1]]
<1>1. Len(s) \in Nat
  OBVIOUS
<1>2. \E G : G = [i \in 0..Len(s) |-> Round(s, T, G, i)]
  BY <1>1, LoopExists
<1>3. \E G : G = [i \in 0..Len(s) |-> IF i = 0 THEN <<>>
                               ELSE IF s[i] \in T THEN Append(G[i - 1], s[i])
                               ELSE G[i - 1]]
  BY <1>2, Zenon DEF Round
<1>4. F = [i \in 0..Len(s) |-> IF i = 0 THEN <<>>
                               ELSE IF s[i] \in T THEN Append(F[i - 1], s[i])
                               ELSE F[i - 1]]
  BY <1>3, Zenon
<1>5. Filter(s, T) = F[Len(s)]
  BY Zenon DEF Filter
<1> HIDE DEF F
<1>6. F = [i \in 0..Len(s) |-> Round(s, T, F, i)]
  BY <1>4, Zenon DEF Round
<1> QED BY <1>5, <1>6

(* In the order of their bytes, without repetition. *)
Ascending(s) == \A i, j \in DOMAIN s : i < j => Less(s[i], s[j])

(* Filter keeps the elements of T, and their order. *)
LEMMA Filtered ==
  ASSUME NEW s \in Seq(Seq(Int)), NEW T
  PROVE  /\ Filter(s, T) \in Seq(Seq(Int))
         /\ ToSet(Filter(s, T)) = ToSet(s) \cap T
         /\ Ascending(s) => Ascending(Filter(s, T))
PROOF
<1>1. PICK F : /\ F = [i \in 0..Len(s) |-> Round(s, T, F, i)]
               /\ Filter(s, T) = F[Len(s)]
  BY FilterLoop
<1>2. \A i \in 0..Len(s) : F[i] = Round(s, T, F, i)
  BY <1>1, Zenon
<1> DEFINE S == {m \in 0..Len(s) :
                   /\ F[m] \in Seq(Seq(Int))
                   /\ \A x : (\E j \in DOMAIN F[m] : F[m][j] = x)
                               <=> x \in T /\ \E i \in 1..m : s[i] = x
                   /\ Ascending(s) => Ascending(F[m])}
<1>3. 0 \in S
  <2>1. 0 \in 0..Len(s)
    OBVIOUS
  <2>2. F[0] = <<>>
    BY <1>2, <2>1 DEF Round
  <2>3. F[0] \in Seq(Seq(Int)) /\ DOMAIN F[0] = {}
    BY <2>2
  <2> QED BY <2>1, <2>3 DEF Ascending
<1>4. ASSUME NEW m \in 0..(Len(s) - 1), m \in S PROVE m + 1 \in S
  <2> DEFINE a == F[m]
             b == F[m + 1]
  <2>1. /\ a \in Seq(Seq(Int)) /\ m + 1 \in 1..Len(s) /\ s[m + 1] \in Seq(Int)
        /\ \A x : (\E j \in DOMAIN a : a[j] = x) <=> x \in T /\ \E i \in 1..m : s[i] = x
        /\ Ascending(s) => Ascending(a)
    BY <1>4
  <2>2. b = IF s[m + 1] \in T THEN Append(a, s[m + 1]) ELSE a
    <3>1. m + 1 \in 0..Len(s) /\ m + 1 # 0 /\ (m + 1) - 1 = m
      BY <1>4
    <3> QED BY <1>2, <3>1 DEF Round
  <2>3. SUFFICES /\ b \in Seq(Seq(Int))
                 /\ \A x : (\E j \in DOMAIN b : b[j] = x)
                             <=> x \in T /\ \E i \in 1..(m + 1) : s[i] = x
                 /\ Ascending(s) => Ascending(b)
    BY <2>1
  <2> HIDE DEF a, b
  <2>4. \A x : (\E i \in 1..(m + 1) : s[i] = x) <=> (\E i \in 1..m : s[i] = x) \/ x = s[m + 1]
    BY <1>4
  <2>5. CASE s[m + 1] \in T
    <3>1. /\ b \in Seq(Seq(Int)) /\ Len(b) = Len(a) + 1
          /\ \A j \in 1..Len(a) : b[j] = a[j]
          /\ b[Len(a) + 1] = s[m + 1]
      BY <2>1, <2>2, <2>5
    <3> DEFINE n == Len(a)
    <3>5. n \in Nat /\ DOMAIN a = 1..n /\ DOMAIN b = 1..(n + 1)
      BY <2>1, <3>1
    <3>6. (\A j \in 1..n : b[j] = a[j]) /\ b[n + 1] = s[m + 1]
      BY <3>1
    <3> HIDE DEF n
    <3>2. \A x : (\E j \in DOMAIN b : b[j] = x) <=> (\E j \in DOMAIN a : a[j] = x) \/ x = s[m + 1]
      <4>1. \A j \in DOMAIN b : j \in DOMAIN a \/ j = n + 1
        BY <3>5
      <4>2. n + 1 \in DOMAIN b /\ \A j \in DOMAIN a : j \in DOMAIN b
        BY <3>5
      <4>3. \A j \in DOMAIN a : b[j] = a[j]
        BY <3>5, <3>6
      <4> QED BY <3>6, <4>1, <4>2, <4>3, Zenon
    <3>3. ASSUME Ascending(s), NEW i \in DOMAIN b, NEW j \in DOMAIN b, i < j
          PROVE  Less(b[i], b[j])
      <4>1. CASE j \in DOMAIN a
        <5>1. i \in DOMAIN a /\ b[i] = a[i] /\ b[j] = a[j]
          BY <3>3, <3>5, <3>6, <4>1
        <5> QED BY <2>1, <3>3, <4>1, <5>1 DEF Ascending
      <4>2. CASE j = n + 1
        <5>1. i \in DOMAIN a /\ b[i] = a[i] /\ b[j] = s[m + 1]
          BY <3>3, <3>5, <3>6, <4>2
        <5>2. PICK h \in 1..m : s[h] = a[i]
          BY <2>1, <5>1
        <5>3. h \in DOMAIN s /\ m + 1 \in DOMAIN s /\ h < m + 1
          BY <1>4
        <5> QED BY <3>3, <5>1, <5>2, <5>3 DEF Ascending
      <4> QED BY <3>3, <3>5, <4>1, <4>2
    <3>4. Ascending(s) => Ascending(b)
      BY <3>3 DEF Ascending
    <3> QED BY <2>1, <2>4, <2>5, <3>1, <3>2, <3>4
  <2>6. CASE s[m + 1] \notin T
    BY <2>1, <2>2, <2>4, <2>6
  <2> QED BY <2>5, <2>6
<1>5. Len(s) \in S
  <2>1. Len(s) \in Nat
    OBVIOUS
  <2> HIDE DEF S
  <2>2. \A m \in 0..Len(s) : m \in S
    BY <1>3, <1>4, <2>1, UpTo
  <2> QED BY <2>1, <2>2
<1> DEFINE f == Filter(s, T)
<1>6. /\ f \in Seq(Seq(Int))
      /\ \A x : (\E j \in DOMAIN f : f[j] = x) <=> x \in T /\ \E i \in 1..Len(s) : s[i] = x
      /\ Ascending(s) => Ascending(f)
  BY <1>1, <1>5, Zenon
<1> HIDE DEF f
<1>7. ToSet(f) = ToSet(s) \cap T
  <2>1. DOMAIN s = 1..Len(s)
    OBVIOUS
  <2> QED BY <1>6, <2>1 DEF ToSet
<1> QED BY <1>6, <1>7 DEF f

------------------------------------------------------------------------------
(* The keys of the bbolt bucket. *)
Rows == Own \cup Foreign

(* They are finitely many strings. *)
LEMMA RowsAreStrings ==
  /\ Rows \subseteq Seq(Int) /\ IsFiniteSet(Rows)
  /\ \A k \in Keys : k \in Seq(Int) /\ objectMapKey(Bucket, k) \in Own
PROOF
<1>1. ASSUME NEW b \in Seq(Int), NEW k \in Seq(Int) PROVE objectMapKey(b, k) \in Seq(Int)
  BY BytesAssumption DEF objectMapKey
<1>2. Own \subseteq Seq(Int) /\ Foreign \subseteq Seq(Int)
  BY <1>1, BytesAssumption DEF Own, Foreign
<1>3. IsFiniteSet(Own)
  <2> DEFINE f == [k \in Keys |-> objectMapKey(Bucket, k)]
  <2>1. f \in Surjection(Keys, Own)
    BY DEF Surjection, Own
  <2> HIDE DEF f
  <2> QED BY <2>1, FS_Surjection, BytesAssumption
<1>4. IsFiniteSet(Foreign)
  <2> DEFINE f == [o \in Others |-> objectMapKey(o[1], o[2])]
  <2>1. f \in Surjection(Others, Foreign)
    BY DEF Surjection, Foreign
  <2> HIDE DEF f
  <2> QED BY <2>1, FS_Surjection, BytesAssumption
<1> QED BY <1>2, <1>3, <1>4, FS_Union, BytesAssumption DEF Rows, Own

(* Order has all rows, each in its place. *)
LEMMA OrderIsOrder ==
  Order \in Seq(Seq(Int)) /\ ToSet(Order) = Rows /\ Ascending(Order)
PROOF
<1> DEFINE below(r) == {q \in Rows : Less(q, r)}
           N == Cardinality(Rows)
           f == [r \in Rows |-> Cardinality(below(r)) + 1]
<1>1. N \in Nat /\ Rows \subseteq Seq(Int) /\ IsFiniteSet(Rows)
  BY RowsAreStrings, FS_CardinalityType
<1>2. ASSUME NEW r \in Rows PROVE Cardinality(below(r)) \in Nat /\ Cardinality(below(r)) < N
  <2>1. below(r) \in SUBSET Rows /\ below(r) # Rows
    BY <1>1, Irreflexive
  <2> HIDE DEF below
  <2> QED BY <1>1, <2>1, FS_Subset, FS_CardinalityType
<1>3. ASSUME NEW q \in Rows, NEW r \in Rows, Less(q, r)
      PROVE  Cardinality(below(q)) < Cardinality(below(r))
  <2>1. /\ below(q) \in SUBSET below(r) /\ below(r) \in SUBSET Rows
        /\ q \in below(r) /\ q \notin below(q)
    BY <1>1, <1>3, Irreflexive, Transitive
  <2>2. Cardinality(below(q)) \in Nat /\ Cardinality(below(r)) \in Nat
    BY <1>2
  <2> HIDE DEF below
  <2>3. IsFiniteSet(below(r))
    BY <1>1, <2>1, FS_Subset
  <2>4. /\ Cardinality(below(q)) <= Cardinality(below(r))
        /\ Cardinality(below(q)) # Cardinality(below(r))
    BY <2>1, <2>3, FS_Subset
  <2> QED BY <2>2, <2>4
<1>4. f \in [Rows -> 1..N]
  BY <1>1, <1>2
<1>5. \A q, r \in Rows : Less(q, r) <=> f[q] < f[r]
  <2>1. \A q, r \in Rows : Less(q, r) => f[q] < f[r]
    BY <1>2, <1>3
  <2>2. \A r \in Rows : f[r] \in Int
    BY <1>1, <1>4
  <2> HIDE DEF f
  <2> QED BY <1>1, <2>1, <2>2, Total
<1>6. \A r \in Rows : f[r] = Cardinality(below(r)) + 1 /\ Cardinality(below(r)) \in Nat
  BY <1>2
<1> HIDE DEF f
<1>7. f \in Injection(Rows, 1..N)
  <2>1. \A q, r \in Rows : f[q] = f[r] => q = r
    <3>1. \A r \in Rows : f[r] \in Int
      BY <1>1, <1>4
    <3> QED BY <1>1, <1>5, <3>1, Total
  <2> QED BY <1>4, <2>1 DEF Injection, IsInjective
<1>8. f \in Surjection(Rows, 1..N)
  <2>1. IsFiniteSet(1..N) /\ Cardinality(1..N) = N
    BY <1>1, FS_Interval
  <2> QED BY <1>1, <1>7, <2>1, FS_Injection
<1>9. ASSUME NEW i \in 1..N PROVE Order[i] \in Rows /\ f[Order[i]] = i
  <2>1. PICK r \in Rows : f[r] = i
    BY <1>8 DEF Surjection
  <2>2. Cardinality(below(r)) = i - 1
    BY <1>6, <2>1
  <2>3. Order[i] = CHOOSE q \in Rows : Cardinality(below(q)) = i - 1
    BY DEF Order, Rows
  <2> HIDE DEF below
  <2>4. Order[i] \in Rows /\ Cardinality(below(Order[i])) = i - 1
    BY <2>2, <2>3
  <2> QED BY <1>6, <2>4
<1>10. DOMAIN Order = 1..N
  BY DEF Order, Rows
<1>11. Order \in Seq(Seq(Int)) /\ Len(Order) = N
  <2>1. Order = [i \in 1..N |-> Order[i]]
    BY DEF Order, Rows
  <2>2. \A i \in 1..N : Order[i] \in Seq(Int)
    BY <1>1, <1>9
  <2>3. Order \in [1..N -> Seq(Int)]
    BY <2>1, <2>2
  <2> QED BY <1>1, <2>3
<1>12. ToSet(Order) = Rows
  <2>1. ToSet(Order) \subseteq Rows
    BY <1>9, <1>10 DEF ToSet
  <2>2. ASSUME NEW r \in Rows PROVE r \in ToSet(Order)
    <3>1. f[r] \in 1..N
      BY <1>4
    <3>2. Order[f[r]] = r
      BY <1>7, <1>9, <3>1 DEF Injection, IsInjective
    <3> QED BY <1>10, <3>1, <3>2 DEF ToSet
  <2> QED BY <2>1, <2>2
<1>13. Ascending(Order)
  <2> SUFFICES ASSUME NEW i \in 1..N, NEW j \in 1..N, i < j PROVE Less(Order[i], Order[j])
    BY <1>10 DEF Ascending
  <2> QED BY <1>5, <1>9
<1> QED BY <1>11, <1>12, <1>13

------------------------------------------------------------------------------
(* So are the parameters of a client. *)
LEMMA Strings ==
  /\ Bucket \in Seq(Int) /\ Nul \in Int
  /\ \A q \in Parameters :
       q.prefix \in Seq(Int) /\ q.delimiter \in Seq(Int) /\ q.start \in Seq(Int) /\ q.max \in Int
BY BytesAssumption

(* The bytes of two strings, one behind the other. *)
LEMMA Joined ==
  ASSUME NEW s \in Seq(Int), NEW t \in Seq(Int)
  PROVE  /\ s \o t \in Seq(Int) /\ Len(s \o t) = Len(s) + Len(t)
         /\ \A j \in 1..Len(s) : (s \o t)[j] = s[j]
         /\ \A j \in 1..Len(t) : (s \o t)[Len(s) + j] = t[j]
BY ConcatProperties

(* A key and its row. *)
LEMMA KeyAndRow ==
  ASSUME NEW b \in Seq(Int), NEW k \in Seq(Int)
  PROVE  /\ objectMapKey(b, k) = (b \o <<Nul>>) \o k
         /\ objectMapKey(b, k) \in Seq(Int)
         /\ Len(objectMapKey(b, k)) = Len(b) + 1 + Len(k)
         /\ \A j \in 1..Len(b) : objectMapKey(b, k)[j] = b[j]
         /\ objectMapKey(b, k)[Len(b) + 1] = Nul
         /\ \A j \in 1..Len(k) : objectMapKey(b, k)[Len(b) + 1 + j] = k[j]
PROOF
<1>1. PICK z : z = <<Nul>>
  OBVIOUS
<1>2. z \in Seq(Int) /\ Len(z) = 1 /\ z[1] = Nul
  BY <1>1, Strings
<1>3. PICK x : x = b \o z
  OBVIOUS
<1>4. /\ x \in Seq(Int) /\ Len(x) = Len(b) + 1 /\ Len(b) \in Nat /\ Len(k) \in Nat
      /\ \A j \in 1..Len(b) : x[j] = b[j]
      /\ x[Len(b) + 1] = Nul
  <2>1. /\ x \in Seq(Int) /\ Len(x) = Len(b) + Len(z)
        /\ \A j \in 1..Len(b) : x[j] = b[j]
        /\ \A j \in 1..Len(z) : x[Len(b) + j] = z[j]
    BY <1>2, <1>3, Joined, Zenon
  <2>2. Len(b) \in Nat /\ Len(k) \in Nat
    OBVIOUS
  <2> QED BY <1>2, <2>1, <2>2
<1>5. PICK y : y = x \o k
  OBVIOUS
<1>6. /\ y \in Seq(Int) /\ Len(y) = Len(x) + Len(k)
      /\ \A j \in 1..Len(x) : y[j] = x[j]
      /\ \A j \in 1..Len(k) : y[Len(x) + j] = k[j]
  BY <1>4, <1>5, Joined, Zenon
<1>7. Len(b) + 1 \in 1..Len(x) /\ \A j \in 1..Len(b) : j \in 1..Len(x)
  BY <1>4
<1>8. objectMapKey(b, k) = y /\ y = (b \o <<Nul>>) \o k
  BY <1>1, <1>3, <1>5 DEF objectMapKey
<1> QED BY <1>4, <1>6, <1>7, <1>8

(* A row gives back its key. *)
LEMMA KeyOfItsRow ==
  ASSUME NEW k \in Seq(Int)
  PROVE  KeyOfRow(objectMapKey(Bucket, k)) = k
PROOF
<1>1. PICK r : r = objectMapKey(Bucket, k)
  OBVIOUS
<1>2. PICK n \in Nat : n = Len(Bucket) + 1
  BY Strings
<1>3. /\ r \in Seq(Int) /\ Len(r) = n + Len(k)
      /\ \A j \in 1..Len(k) : r[n + j] = k[j]
  BY <1>1, <1>2, KeyAndRow, Strings, Zenon
<1>4. KeyOfRow(r) = SubSeq(r, n + 1, Len(r))
  BY <1>2, Strings DEF KeyOfRow
<1>5. PICK s : s = SubSeq(r, n + 1, Len(r))
  OBVIOUS
<1>6. s \in Seq(Int) /\ Len(s) = Len(k) /\ \A j \in 1..Len(k) : s[j] = r[n + j]
  BY <1>3, <1>5
<1>7. s = k
  BY <1>3, <1>6, SeqEqual
<1> QED BY <1>1, <1>4, <1>5, <1>7

(* Rows of one bucket are in the order of their keys. *)
LEMMA RowOrder ==
  ASSUME NEW k \in Seq(Int), NEW l \in Seq(Int)
  PROVE  Less(objectMapKey(Bucket, k), objectMapKey(Bucket, l)) <=> Less(k, l)
PROOF
<1> DEFINE b == Bucket \o <<Nul>>
<1>1. b \in Seq(Int)
  BY Strings
<1>2. objectMapKey(Bucket, k) = b \o k /\ objectMapKey(Bucket, l) = b \o l
  BY KeyAndRow, Strings
<1> HIDE DEF b
<1> QED BY <1>1, <1>2, LessBehind

(* What two strings begin with is no matter for one being a prefix. *)
LEMMA PrefixBehind ==
  ASSUME NEW b \in Seq(Int), NEW s \in Seq(Int), NEW t \in Seq(Int)
  PROVE  IsPrefix(b \o s, b \o t) <=> IsPrefix(s, t)
PROOF
<1>1. PICK x, y : x = b \o s /\ y = b \o t
  OBVIOUS
<1>2. PICK n \in Nat : n = Len(b)
  OBVIOUS
<1>3. /\ x \in Seq(Int) /\ Len(x) = n + Len(s)
      /\ \A j \in 1..n : x[j] = b[j]
      /\ \A j \in 1..Len(s) : x[n + j] = s[j]
  BY <1>1, <1>2, Joined
<1>4. /\ y \in Seq(Int) /\ Len(y) = n + Len(t)
      /\ \A j \in 1..n : y[j] = b[j]
      /\ \A j \in 1..Len(t) : y[n + j] = t[j]
  BY <1>1, <1>2, Joined
<1>5. Len(s) \in Nat /\ Len(t) \in Nat
  OBVIOUS
<1>6. ASSUME IsPrefix(x, y) PROVE IsPrefix(s, t)
  <2>1. Len(x) <= Len(y) /\ \A j \in 1..Len(x) : x[j] = y[j]
    BY <1>3, <1>4, <1>6, PrefixBytes
  <2>2. Len(s) <= Len(t)
    BY <1>3, <1>4, <1>5, <2>1
  <2>3. ASSUME NEW j \in 1..Len(s) PROVE s[j] = t[j]
    <3>1. n + j \in 1..Len(x) /\ j \in 1..Len(t)
      BY <1>3, <1>5, <2>2
    <3> QED BY <1>3, <1>4, <2>1, <3>1
  <2> QED BY <2>2, <2>3, PrefixBytes
<1>7. ASSUME IsPrefix(s, t) PROVE IsPrefix(x, y)
  <2>1. Len(s) <= Len(t) /\ \A j \in 1..Len(s) : s[j] = t[j]
    BY <1>7, PrefixBytes
  <2>2. Len(x) <= Len(y)
    BY <1>3, <1>4, <1>5, <2>1
  <2>3. ASSUME NEW j \in 1..Len(x) PROVE x[j] = y[j]
    <3>1. CASE j \in 1..n
      BY <1>3, <1>4, <3>1
    <3>2. CASE j > n
      <4>1. PICK i \in 1..Len(s) : j = n + i
        <5>1. j - n \in 1..Len(s) /\ j = n + (j - n)
          BY <1>3, <1>5, <3>2
        <5> QED BY <5>1
      <4>2. i \in 1..Len(t)
        BY <1>5, <2>1
      <4> QED BY <1>3, <1>4, <2>1, <4>1, <4>2
    <3>3. j \in 1..n \/ j > n
      BY <1>3
    <3> QED BY <3>1, <3>2, <3>3
  <2> QED BY <1>3, <1>4, <2>2, <2>3, PrefixBytes
<1> QED BY <1>1, <1>6, <1>7

(* Rows of two buckets do not begin alike: the byte between bucket and key *)
(* is in no bucket's name.                                                 *)
LEMMA BucketsApart ==
  ASSUME NEW b \in Seq(Int), NEW c \in Seq(Int), NEW k \in Seq(Int), NEW l \in Seq(Int),
         \A j \in DOMAIN b : b[j] # Nul, \A j \in DOMAIN c : c[j] # Nul,
         IsPrefix(objectMapKey(b, k), objectMapKey(c, l))
  PROVE  b = c
PROOF
<1>1. PICK x, y : x = objectMapKey(b, k) /\ y = objectMapKey(c, l)
  OBVIOUS
<1>2. PICK m \in Nat : m = Len(b)
  OBVIOUS
<1>3. PICK n \in Nat : n = Len(c)
  OBVIOUS
<1>4. /\ x \in Seq(Int) /\ Len(x) = m + 1 + Len(k) /\ x[m + 1] = Nul
      /\ \A j \in 1..m : x[j] = b[j]
  BY <1>1, <1>2, KeyAndRow
<1>5. /\ y \in Seq(Int) /\ y[n + 1] = Nul
      /\ \A j \in 1..n : y[j] = c[j]
  BY <1>1, <1>3, KeyAndRow
<1>6. \A j \in 1..(m + 1) : x[j] = y[j]
  <2>1. \A j \in 1..(m + 1) : j \in 1..Len(x)
    <3>1. Len(k) \in Nat
      OBVIOUS
    <3> QED BY <1>4, <3>1
  <2> QED BY <1>1, <1>4, <1>5, <2>1, PrefixBytes
<1>7. (\A j \in 1..m : b[j] # Nul) /\ (\A j \in 1..n : c[j] # Nul)
  <2>1. DOMAIN b = 1..m /\ DOMAIN c = 1..n
    BY <1>2, <1>3
  <2> QED BY <2>1
<1>8. ~ (m < n)
  <2>1. m < n => m + 1 \in 1..n /\ m + 1 \in 1..(m + 1)
    OBVIOUS
  <2> QED BY <1>4, <1>5, <1>6, <1>7, <2>1
<1>9. ~ (n < m)
  <2>1. n < m => n + 1 \in 1..m /\ n + 1 \in 1..(m + 1)
    OBVIOUS
  <2> QED BY <1>4, <1>5, <1>6, <1>7, <2>1
<1>10. m = n
  BY <1>8, <1>9
<1>11. \A j \in 1..m : b[j] = c[j]
  <2>1. \A j \in 1..m : j \in 1..(m + 1)
    OBVIOUS
  <2> QED BY <1>4, <1>5, <1>6, <1>10, <2>1
<1> QED BY <1>2, <1>3, <1>10, <1>11, SeqEqual

(* The prefix of the scan is the one of the rows that were asked for. *)
LEMMA ScannedRows ==
  ASSUME query \in Parameters, NEW r \in Rows
  PROVE  IsPrefix(ScanPrefix, r) <=>
           \E k \in Keys : r = objectMapKey(Bucket, k) /\ IsPrefix(query.prefix, k)
PROOF
<1>1. query.prefix \in Seq(Int) /\ Bucket \in Seq(Int) /\ Nul \in Int
  BY Strings
<1>2. ASSUME NEW k \in Keys, r = objectMapKey(Bucket, k)
      PROVE  IsPrefix(ScanPrefix, r) <=> IsPrefix(query.prefix, k)
  <2>1. PICK b : b = Bucket \o <<Nul>>
    OBVIOUS
  <2>2. b \in Seq(Int) /\ k \in Seq(Int)
    BY <1>1, <2>1, BytesAssumption
  <2>3. ScanPrefix = b \o query.prefix /\ r = b \o k
    BY <1>1, <1>2, <2>1, <2>2, KeyAndRow DEF ScanPrefix
  <2> QED BY <1>1, <2>2, <2>3, PrefixBehind
<1>3. ASSUME NEW o \in Others, r = objectMapKey(o[1], o[2]), IsPrefix(ScanPrefix, r) PROVE FALSE
  <2>1. o[1] \in Seq(Int) /\ o[2] \in Seq(Int) /\ o[1] # Bucket
    BY BytesAssumption
  <2>2. (\A j \in DOMAIN Bucket : Bucket[j] # Nul) /\ (\A j \in DOMAIN o[1] : o[1][j] # Nul)
    BY ListingAssumption
  <2> QED BY <1>1, <1>3, <2>1, <2>2, BucketsApart DEF ScanPrefix
<1> QED BY <1>2, <1>3 DEF Rows, Own, Foreign

(* The first bytes of a string. *)
LEMMA Beginning ==
  ASSUME NEW k \in Seq(Int), NEW m \in Nat, m <= Len(k)
  PROVE  SubSeq(k, 1, m) \in Seq(Int) /\ IsPrefix(SubSeq(k, 1, m), k)
PROOF
<1>1. PICK c : c = SubSeq(k, 1, m)
  OBVIOUS
<1>2. c \in Seq(Int) /\ Len(c) = m /\ \A j \in 1..m : c[j] = k[j]
  BY <1>1
<1> QED BY <1>1, <1>2, PrefixBytes

(* Where a delimiter is found it is there to its end. *)
LEMMA FoundInside ==
  ASSUME NEW s, NEW d, Len(s) \in Nat, Len(d) \in Nat, indexOf(s, d) # 0
  PROVE  indexOf(s, d) \in Nat /\ indexOf(s, d) >= 1 /\ indexOf(s, d) <= Len(s) - Len(d) + 1
PROOF
<1> DEFINE I == {i \in 1..(Len(s) - Len(d) + 1) : SubSeq(s, i, i + Len(d) - 1) = d}
<1>1. indexOf(s, d) = IF I = {} THEN 0 ELSE CHOOSE i \in I : \A j \in I : i <= j
  BY DEF indexOf
<1>2. /\ I \in SUBSET Nat
      /\ \A i \in I : i \in Nat /\ i >= 1 /\ i <= Len(s) - Len(d) + 1
  OBVIOUS
<1> HIDE DEF I
<1>3. indexOf(s, d) \in I
  BY <1>1, <1>2, LeastOf
<1> QED BY <1>2, <1>3

(* A common prefix is a prefix of its keys. *)
LEMMA PrefixOfKey ==
  ASSUME query \in Parameters, NEW k \in Seq(Int), IsPrefix(query.prefix, k), ~ Alone(k)
  PROVE  CommonPrefix(k) \in Seq(Int) /\ IsPrefix(CommonPrefix(k), k)
PROOF
<1>1. PICK p \in Seq(Int) : p = query.prefix
  BY Strings
<1>2. PICK d \in Seq(Int) : d = query.delimiter
  BY Strings
<1>3. PICK s : s = Rest(k)
  OBVIOUS
<1>4. Len(p) \in Nat /\ Len(d) \in Nat /\ Len(k) \in Nat /\ Len(p) <= Len(k)
  BY <1>1, <1>2 DEF IsPrefix
<1>5. Len(s) = Len(k) - Len(p)
  <2>1. PICK a \in Int : a = Len(p) + 1
    BY <1>4
  <2>2. s = SubSeq(k, a, Len(k)) /\ \A j \in a..Len(k) : k[j] \in Int
    <3>1. \A j \in a..Len(k) : j \in 1..Len(k)
      BY <1>4, <2>1
    <3>2. s = SubSeq(k, a, Len(k))
      BY <1>1, <1>3, <2>1 DEF Rest
    <3> QED BY <3>1, <3>2
  <2>3. Len(s) = IF a <= Len(k) THEN Len(k) - a + 1 ELSE 0
    BY <1>4, <2>2, SubSeqProperties
  <2> QED BY <1>4, <2>1, <2>3
<1>6. PICK i : i = indexOf(s, d)
  OBVIOUS
<1>7. i \in Nat /\ i >= 1 /\ i <= Len(s) - Len(d) + 1
  <2>1. Len(s) \in Int /\ indexOf(s, d) # 0
    BY <1>2, <1>3, <1>4, <1>5 DEF Alone
  <2>2. Len(s) \in Nat
    BY <1>4, <1>5
  <2> QED BY <1>4, <1>6, <2>1, <2>2, FoundInside
<1>8. PICK m : m = Len(p) + i + Len(d) - 1
  OBVIOUS
<1>9. m \in Nat /\ m <= Len(k)
  BY <1>4, <1>5, <1>7, <1>8
<1>10. CommonPrefix(k) = SubSeq(k, 1, m)
  BY <1>1, <1>2, <1>3, <1>6, <1>8 DEF CommonPrefix
<1> QED BY <1>9, <1>10, Beginning

------------------------------------------------------------------------------
(* The keys of the rows of S that a page beginning behind a is about. *)
Asked(S, a) == {k \in Keys : /\ objectMapKey(Bucket, k) \in S
                             /\ IsPrefix(query.prefix, k)
                             /\ a = <<>> \/ Less(a, k)}

(* The cursor finds them all, in their order, and nothing else. *)
LEMMA Scanned ==
  ASSUME query \in Parameters, rows \subseteq Rows, NEW a \in Seq(Int)
  PROVE  /\ Scan(a) \in Seq(Seq(Int)) /\ Ascending(Scan(a))
         /\ ToSet(Scan(a)) = {objectMapKey(Bucket, k) : k \in Asked(rows, a)}
PROOF
<1> DEFINE T == {r \in rows : IsPrefix(ScanPrefix, r) /\ Beyond(r, a)}
<1>1. Scan(a) = Filter(Order, T)
  BY DEF Scan
<1>2. ToSet(Order) \cap T = T
  BY OrderIsOrder
<1>3. \A r : r \in T <=> \E k \in Asked(rows, a) : r = objectMapKey(Bucket, k)
  <2>1. ASSUME NEW k \in Keys
        PROVE  Beyond(objectMapKey(Bucket, k), a) <=> a = <<>> \/ Less(a, k)
    BY RowOrder, BytesAssumption DEF Beyond
  <2> QED BY <2>1, ScannedRows DEF Asked
<1> HIDE DEF T
<1>4. /\ Filter(Order, T) \in Seq(Seq(Int)) /\ Ascending(Filter(Order, T))
      /\ ToSet(Filter(Order, T)) = T
  BY <1>2, OrderIsOrder, Filtered
<1> QED BY <1>1, <1>3, <1>4

(* The keys of what is found, and how far the page goes. *)
LEMMA PageEnds ==
  ASSUME query \in Parameters, rows \subseteq Rows, NEW a \in Seq(Int), NEW max \in Nat \ {0}
  PROVE  \E keys \in Seq(Keys), m \in Nat :
           /\ m <= Len(keys)
           /\ \A i, j \in 1..Len(keys) : i < j => Less(keys[i], keys[j])
           /\ {keys[i] : i \in 1..Len(keys)} = Asked(rows, a)
           /\ \A i \in 1..m :
                Alone(keys[i]) => ~ Cardinality({Entry(keys[j]) : j \in 1..(i - 1)}) >= max
           /\ LET page == SubSeq(keys, 1, m)
                  answer == ListObjects(a, max)
              IN  /\ answer.objects = Filter(page, {k \in ToSet(page) : Alone(k)})
                  /\ answer.prefixes =
                       {CommonPrefix(k) : k \in {k \in ToSet(page) : ~ Alone(k)}}
                  /\ m < Len(keys) => answer.truncated
                  /\ answer.truncated => m < Len(keys) /\ m >= 1
PROOF
<1>1. PICK found \in Seq(Seq(Int)) : found = Scan(a)
  BY Scanned
<1>2. PICK N \in Nat : N = Len(found) /\ DOMAIN found = 1..N
  OBVIOUS
<1> DEFINE n == Fetched(found, max)
           L == [i \in 1..n |-> KeyOfRow(found[i])]
           keys == [i \in 1..N |-> KeyOfRow(found[i])]
<1>3. /\ n \in Nat /\ n <= N /\ max * OverFetch >= 1
      /\ n = IF N > max * OverFetch THEN max * OverFetch ELSE N
  <2>1. max * OverFetch \in Nat /\ max * OverFetch >= 1
    BY ListingAssumption
  <2> QED BY <1>2, <2>1 DEF Fetched
<1>4. ASSUME NEW i \in 1..N
      PROVE  /\ KeyOfRow(found[i]) \in Asked(rows, a)
             /\ KeyOfRow(found[i]) \in Keys /\ KeyOfRow(found[i]) \in Seq(Int)
             /\ found[i] = objectMapKey(Bucket, KeyOfRow(found[i]))
  <2>1. found[i] \in ToSet(found)
    <3>1. i \in DOMAIN found
      BY <1>2
    <3> QED BY <3>1 DEF ToSet
  <2>2. PICK k \in Asked(rows, a) : found[i] = objectMapKey(Bucket, k)
    BY <1>1, <2>1, Scanned
  <2>3. k \in Keys /\ k \in Seq(Int)
    BY BytesAssumption DEF Asked
  <2> QED BY <2>2, <2>3, KeyOfItsRow
<1>5. keys \in Seq(Keys) /\ Len(keys) = N /\ \A i \in 1..N : keys[i] = KeyOfRow(found[i])
  <2>1. keys \in [1..N -> Keys]
    BY <1>4
  <2> HIDE DEF keys
  <2> QED BY <2>1, <1>4 DEF keys
<1>6. ASSUME NEW i \in 1..N, NEW j \in 1..N, i < j PROVE Less(keys[i], keys[j])
  <2>1. Less(found[i], found[j])
    <3>1. Ascending(found)
      BY <1>1, Scanned
    <3> QED BY <1>2, <1>6, <3>1 DEF Ascending
  <2> QED BY <1>4, <2>1, RowOrder
<1>7. {keys[i] : i \in 1..N} = Asked(rows, a)
  <2>1. ASSUME NEW k \in Asked(rows, a) PROVE \E i \in 1..N : keys[i] = k
    <3>1. objectMapKey(Bucket, k) \in ToSet(found)
      BY <1>1, Scanned
    <3>2. PICK i \in 1..N : found[i] = objectMapKey(Bucket, k)
      BY <1>2, <3>1 DEF ToSet
    <3>3. k \in Seq(Int)
      BY BytesAssumption DEF Asked
    <3> QED BY <3>2, <3>3, KeyOfItsRow
  <2> QED BY <1>4, <2>1
<1> DEFINE full == {i \in 1..n : Full(L, i, max)}
           m == IF full = {} THEN n ELSE CHOOSE i \in 0..n :
                                           i + 1 \in full /\ \A j \in full : i < j
           page == SubSeq(L, 1, m)
           answer == ListObjects(a, max)
<1>8. /\ answer.objects = Filter(page, {k \in ToSet(page) : Alone(k)})
      /\ answer.prefixes = {CommonPrefix(k) : k \in {k \in ToSet(page) : ~ Alone(k)}}
      /\ answer.truncated = (MoreThanFetched(found, max) \/ full # {})
  BY <1>1 DEF ListObjects
<1>9. MoreThanFetched(found, max) <=> N > max * OverFetch
  BY <1>2 DEF MoreThanFetched
<1>10. ASSUME full # {} PROVE m + 1 \in full /\ m \in 0..n /\ \A j \in full : m < j
  <2>1. full \in SUBSET Nat
    BY <1>3
  <2>2. PICK h \in full : \A j \in full : h <= j
    <3> HIDE DEF full
    <3> QED BY <1>10, <2>1, LeastOf
  <2>3. h - 1 \in 0..n /\ (h - 1) + 1 \in full /\ \A j \in full : h - 1 < j
    <3>1. h \in Nat /\ h >= 1 /\ h <= n /\ \A j \in full : j \in Nat
      BY <1>3
    <3> HIDE DEF full, n
    <3> QED BY <2>2, <3>1, <1>3
  <2> HIDE DEF full, n
  <2> QED BY <1>10, <2>3
<1>11. 1 \notin full
  <2>1. {Entry(L[j]) : j \in 1..(1 - 1)} = {}
    OBVIOUS
  <2>2. Cardinality({Entry(L[j]) : j \in 1..(1 - 1)}) = 0
    BY <2>1, FS_EmptySet
  <2> QED BY <2>2 DEF Full
<1>12. m \in Nat /\ m <= n
  <2> HIDE DEF full
  <2>1. CASE full = {}
    BY <1>3, <2>1
  <2>2. CASE full # {}
    <3>1. m \in 0..n
      BY <1>10, <2>2
    <3> HIDE DEF m, n
    <3> QED BY <1>3, <3>1
  <2> QED BY <2>1, <2>2
<1>13. page = SubSeq(keys, 1, m)
  <2> HIDE DEF m, n
  <2>1. \A i \in 1..n : L[i] = keys[i] /\ L[i] \in Keys
    BY <1>3, <1>4
  <2>2. \A i \in 1..m : i \in 1..n /\ i \in 1..N
    BY <1>3, <1>12
  <2> HIDE DEF L, keys
  <2>3. /\ SubSeq(L, 1, m) \in Seq(Keys) /\ Len(SubSeq(L, 1, m)) = m
        /\ \A i \in 1..m : SubSeq(L, 1, m)[i] = L[i]
    <3>1. \A i \in 1..m : L[i] \in Keys
      BY <2>1, <2>2
    <3>2. /\ SubSeq(L, 1, m) \in Seq(Keys)
          /\ Len(SubSeq(L, 1, m)) = IF 1 <= m THEN m - 1 + 1 ELSE 0
          /\ \A i \in 1..(m - 1 + 1) : SubSeq(L, 1, m)[i] = L[1 + i - 1]
      BY <1>12, <3>1, SubSeqProperties
    <3> QED BY <1>12, <3>2
  <2>4. /\ SubSeq(keys, 1, m) \in Seq(Keys) /\ Len(SubSeq(keys, 1, m)) = m
        /\ \A i \in 1..m : SubSeq(keys, 1, m)[i] = keys[i]
    BY <1>3, <1>5, <1>12
  <2> QED BY <2>1, <2>2, <2>3, <2>4, SeqEqual
<1>14. m < N => answer.truncated
  <2>1. CASE full # {}
    <3> HIDE DEF full, m, n, answer
    <3> QED BY <1>8, <2>1
  <2>2. CASE full = {}
    <3>1. m = n
      BY <2>2
    <3> HIDE DEF full, m, n
    <3>2. m < N => N > max * OverFetch
      BY <1>3, <3>1
    <3> HIDE DEF answer
    <3> QED BY <1>8, <1>9, <3>2
  <2> QED BY <2>1, <2>2
<1>15. answer.truncated => m < N /\ m >= 1
  <2>1. CASE full = {}
    <3>1. m = n
      BY <2>1
    <3> HIDE DEF full, m, n, answer
    <3> QED BY <1>3, <1>8, <1>9, <2>1, <3>1
  <2>2. CASE full # {}
    <3>1. m + 1 \in 1..n /\ m + 1 # 1
      <4>1. m + 1 \in full
        BY <1>10, <2>2
      <4> HIDE DEF m
      <4> QED BY <1>11, <4>1
    <3> HIDE DEF full, m, n, answer
    <3> QED BY <1>3, <1>12, <3>1
  <2> QED BY <2>1, <2>2
<1>16. ASSUME NEW i \in 1..m, Alone(keys[i])
       PROVE  ~ Cardinality({Entry(keys[j]) : j \in 1..(i - 1)}) >= max
  <2>1. i \notin full /\ i \in 1..n
    <3>1. CASE full = {}
      BY <1>12, <3>1
    <3>2. CASE full # {}
      <4>1. m \in 0..n /\ \A j \in full : m < j
        BY <1>10, <3>2
      <4> HIDE DEF full, m, n
      <4> QED BY <1>3, <1>12, <4>1
    <3> QED BY <3>1, <3>2
  <2>2. ~ Full(L, i, max)
    BY <2>1
  <2>3. \A j \in 1..i : L[j] = keys[j]
    <3>1. \A j \in 1..i : j \in 1..n /\ j \in 1..N
      <4> HIDE DEF m, n, full
      <4> QED BY <1>3, <2>1
    <3> HIDE DEF m, n
    <3> QED BY <3>1
  <2>4. i \in 1..i /\ \A j \in 1..(i - 1) : j \in 1..i
    <3> HIDE DEF m, n
    <3> QED BY <1>3, <2>1
  <2> HIDE DEF L, keys, m, n, full
  <2>5. {Entry(L[j]) : j \in 1..(i - 1)} = {Entry(keys[j]) : j \in 1..(i - 1)}
    BY <2>3, <2>4
  <2> QED BY <1>16, <2>2, <2>3, <2>4, <2>5 DEF Full
<1> HIDE DEF keys, m, page, answer
<1>17. PICK z \in Seq(Keys) : z = keys
  BY <1>5
<1>18. PICK h \in Nat : h = m
  BY <1>12
<1>19. Len(z) = N /\ h <= Len(z)
  BY <1>3, <1>5, <1>12, <1>17, <1>18
<1>20. \A i, j \in 1..Len(z) : i < j => Less(z[i], z[j])
  BY <1>6, <1>17, <1>19
<1>21. {z[i] : i \in 1..Len(z)} = Asked(rows, a)
  BY <1>7, <1>17, <1>19
<1>22. page = SubSeq(z, 1, h)
  BY <1>13, <1>17, <1>18
<1>23. (h < Len(z) => answer.truncated) /\ (answer.truncated => h < Len(z) /\ h >= 1)
  BY <1>14, <1>15, <1>18, <1>19
<1>24. /\ answer.objects = Filter(SubSeq(z, 1, h), {k \in ToSet(SubSeq(z, 1, h)) : Alone(k)})
       /\ answer.prefixes =
            {CommonPrefix(k) : k \in {k \in ToSet(SubSeq(z, 1, h)) : ~ Alone(k)}}
  BY <1>8, <1>22
<1>25. \A i \in 1..h :
         Alone(z[i]) => ~ Cardinality({Entry(z[j]) : j \in 1..(i - 1)}) >= max
  BY <1>17, <1>18, <1>16
<1> QED BY <1>19, <1>20, <1>21, <1>23, <1>24, <1>25, Zenon DEF answer

(* Where a page of the keys that are asked for ends, and what it holds. *)
LEMMA PageFacts ==
  ASSUME query \in Parameters, rows \subseteq Rows, NEW a \in Seq(Int), NEW max \in Nat \ {0}
  PROVE  LET page == ListObjects(a, max)
             ends == ToSet(page.objects) \cup page.prefixes
         IN  /\ page.objects \in Seq(Keys) /\ Ascending(page.objects)
             /\ \A k \in ToSet(page.objects) : k \in Asked(rows, a) /\ Alone(k)
             /\ \A p \in page.prefixes :
                  \E k \in Asked(rows, a) : ~ Alone(k) /\ p = CommonPrefix(k)
             /\ \A k \in Asked(rows, a) :
                  \/ k \in ToSet(page.objects)
                  \/ \E p \in page.prefixes : IsPrefix(p, k)
                  \/ page.truncated /\ \A e \in ends : Less(e, k)
             /\ page.truncated =>
                  /\ \E k \in Asked(rows, a) : \A e \in ends : Less(e, k)
                  /\ query.delimiter = <<>> => page.objects # <<>>
             /\ Len(page.objects) <= max
PROOF
<1> DEFINE answer == ListObjects(a, max)
<1>1. PICK keys \in Seq(Keys), m \in Nat :
        /\ m <= Len(keys)
        /\ \A i, j \in 1..Len(keys) : i < j => Less(keys[i], keys[j])
        /\ {keys[i] : i \in 1..Len(keys)} = Asked(rows, a)
        /\ \A i \in 1..m :
             Alone(keys[i]) => ~ Cardinality({Entry(keys[j]) : j \in 1..(i - 1)}) >= max
        /\ LET page == SubSeq(keys, 1, m)
           IN  /\ answer.objects = Filter(page, {k \in ToSet(page) : Alone(k)})
               /\ answer.prefixes = {CommonPrefix(k) : k \in {k \in ToSet(page) : ~ Alone(k)}}
               /\ m < Len(keys) => answer.truncated
               /\ answer.truncated => m < Len(keys) /\ m >= 1
  BY PageEnds
<1> HIDE DEF answer
<1>2. PICK n \in Nat : n = Len(keys)
  OBVIOUS
<1>3. PICK page : page = SubSeq(keys, 1, m)
  OBVIOUS
<1>4. page \in Seq(Keys) /\ DOMAIN page = 1..m /\ \A i \in 1..m : page[i] = keys[i]
  BY <1>1, <1>2, <1>3
<1>5. PICK T : T = {k \in ToSet(page) : Alone(k)}
  OBVIOUS
<1>6. ToSet(page) = {keys[i] : i \in 1..m} /\ ToSet(page) \subseteq Keys
  <2>1. ToSet(page) = {page[i] : i \in 1..m}
    BY <1>4, Zenon DEF ToSet
  <2>2. \A i \in 1..m : page[i] \in Keys
    BY <1>4
  <2> QED BY <1>4, <2>1, <2>2
<1>7. page \in Seq(Seq(Int)) /\ Ascending(page)
  <2>1. page \in Seq(Seq(Int))
    BY <1>4, BytesAssumption
  <2>2. \A i \in 1..m : i \in 1..Len(keys)
    BY <1>1, <1>2
  <2> QED BY <1>1, <1>4, <2>1, <2>2 DEF Ascending
<1>8. /\ answer.objects \in Seq(Seq(Int)) /\ Ascending(answer.objects)
      /\ ToSet(answer.objects) = T
  <2>1. answer.objects = Filter(page, T)
    BY <1>1, <1>3, <1>5
  <2>2. ToSet(page) \cap T = T
    BY <1>5
  <2> QED BY <1>7, <2>1, <2>2, Filtered
<1>9. answer.prefixes = {CommonPrefix(k) : k \in {k \in ToSet(page) : ~ Alone(k)}}
  BY <1>1, <1>3
<1>10. (m < n => answer.truncated) /\ (answer.truncated => m < n /\ m >= 1)
  BY <1>1, <1>2
<1>11. m <= n /\ Asked(rows, a) = {keys[i] : i \in 1..n}
  BY <1>1, <1>2
<1>12. \A i, j \in 1..n : i < j => Less(keys[i], keys[j])
  BY <1>1, <1>2
<1>13. ToSet(page) \subseteq Asked(rows, a)
  BY <1>6, <1>11
<1>14. \A k \in Asked(rows, a) : k \in Seq(Int) /\ IsPrefix(query.prefix, k) /\ k \in Keys
  BY BytesAssumption DEF Asked
<1>15. answer.objects \in Seq(Keys)
  <2>1. PICK o \in Seq(Seq(Int)) : o = answer.objects
    BY <1>8
  <2>2. \A i \in 1..Len(o) : o[i] \in Keys
    <3>1. ToSet(o) \subseteq Keys
      BY <1>5, <1>6, <1>8, <2>1
    <3>2. DOMAIN o = 1..Len(o)
      OBVIOUS
    <3>3. \A i \in DOMAIN o : o[i] \in ToSet(o)
      BY Zenon DEF ToSet
    <3> QED BY <3>1, <3>2, <3>3
  <2>3. Len(o) \in Nat /\ o = [i \in 1..Len(o) |-> o[i]]
    OBVIOUS
  <2>4. o \in [1..Len(o) -> Keys]
    BY <2>2, <2>3
  <2>5. Seq(Keys) = UNION {[1..h -> Keys] : h \in Nat}
    BY SeqDef
  <2>6. o \in Seq(Keys)
    BY <2>3, <2>4, <2>5, Zenon
  <2> QED BY <2>1, <2>6
<1>16. ASSUME NEW k \in ToSet(answer.objects) PROVE k \in Asked(rows, a) /\ Alone(k)
  BY <1>5, <1>8, <1>13
<1>17. ASSUME NEW p \in answer.prefixes
       PROVE  \E k \in Asked(rows, a) : k \in ToSet(page) /\ ~ Alone(k) /\ p = CommonPrefix(k)
  BY <1>9, <1>13
<1>18. ASSUME NEW i \in 1..n, i > m, NEW e \in ToSet(answer.objects) \cup answer.prefixes
       PROVE  Less(e, keys[i])
  <2>1. \A l \in ToSet(page) : Less(l, keys[i])
    <3>1. \A j \in 1..m : j \in 1..n /\ j < i
      BY <1>11, <1>18
    <3> QED BY <1>6, <1>12, <3>1
  <2>2. CASE e \in ToSet(answer.objects)
    BY <1>5, <1>8, <2>1, <2>2
  <2>3. CASE e \in answer.prefixes
    <3>1. PICK l \in Asked(rows, a) : l \in ToSet(page) /\ ~ Alone(l) /\ e = CommonPrefix(l)
      BY <1>17, <2>3
    <3>2. e \in Seq(Int) /\ l \in Seq(Int) /\ IsPrefix(e, l) /\ keys[i] \in Seq(Int)
      BY <1>11, <1>14, <3>1, PrefixOfKey
    <3> QED BY <2>1, <3>1, <3>2, PrefixNotGreater, Transitive
  <2> QED BY <2>2, <2>3
<1>19. ASSUME NEW k \in Asked(rows, a)
       PROVE  \/ k \in ToSet(answer.objects)
              \/ \E p \in answer.prefixes : IsPrefix(p, k)
              \/ /\ answer.truncated
                 /\ \A e \in ToSet(answer.objects) \cup answer.prefixes : Less(e, k)
  <2>1. PICK i \in 1..n : k = keys[i]
    BY <1>11
  <2>2. CASE i <= m /\ Alone(k)
    <3>1. k \in T
      BY <1>5, <1>6, <2>1, <2>2
    <3> QED BY <1>8, <3>1
  <2>3. CASE i <= m /\ ~ Alone(k)
    <3>1. k \in ToSet(page)
      BY <1>6, <2>1, <2>3
    <3>2. CommonPrefix(k) \in answer.prefixes
      BY <1>9, <2>3, <3>1
    <3> QED BY <1>14, <2>3, <3>2, PrefixOfKey
  <2>4. CASE i > m
    <3>1. answer.truncated
      BY <1>10, <2>1, <2>4
    <3> QED BY <1>18, <2>1, <2>4, <3>1
  <2> QED BY <2>1, <2>2, <2>3, <2>4
<1>20. ASSUME answer.truncated
       PROVE  \E k \in Asked(rows, a) :
                \A e \in ToSet(answer.objects) \cup answer.prefixes : Less(e, k)
  <2>1. m + 1 \in 1..n /\ m + 1 > m
    BY <1>10, <1>20
  <2> QED BY <1>11, <1>18, <2>1
<1>21. ASSUME answer.truncated, query.delimiter = <<>> PROVE answer.objects # <<>>
  <2>1. keys[1] \in ToSet(page)
    BY <1>6, <1>10, <1>21
  <2>2. keys[1] \in ToSet(answer.objects)
    BY <1>5, <1>8, <1>21, <2>1 DEF Alone
  <2>3. ToSet(<<>>) = {}
    BY DEF ToSet
  <2> QED BY <2>2, <2>3
<1>22. Len(answer.objects) <= max
  <2>1. PICK o \in Seq(Keys) : o = answer.objects
    BY <1>15
  <2>2. PICK c \in Nat : c = Len(o) /\ DOMAIN o = 1..c
    OBVIOUS
  <2>3. SUFFICES ASSUME c > 0 PROVE c <= max
    BY <2>1, <2>2
  <2>4. /\ \A g, h \in 1..c : g < h => Less(o[g], o[h])
        /\ \A g \in 1..c : o[g] \in T /\ o[g] \in Seq(Int)
    <3>1. \A g \in 1..c : o[g] \in ToSet(o)
      BY <2>2, Zenon DEF ToSet
    <3>2. \A k \in T : k \in Seq(Int)
      BY <1>5, <1>13, <1>14
    <3> QED BY <1>8, <2>1, <2>2, <3>1, <3>2 DEF Ascending
  <2>5. PICK i \in 1..m : o[c] = keys[i] /\ Alone(keys[i])
    <3>1. c \in 1..c
      BY <2>3
    <3> QED BY <1>5, <1>6, <2>4, <3>1
  <2> DEFINE E == {Entry(keys[j]) : j \in 1..(i - 1)}
  <2>6. IsFiniteSet(E) /\ Cardinality(E) \in Nat /\ Cardinality(E) < max
    <3>1. ~ Cardinality(E) >= max
      BY <1>1, <2>5
    <3> DEFINE f == [j \in 1..(i - 1) |-> Entry(keys[j])]
    <3>2. f \in Surjection(1..(i - 1), E)
      BY DEF Surjection
    <3>3. IsFiniteSet(1..(i - 1))
      BY FS_Interval
    <3> HIDE DEF f, E
    <3>4. IsFiniteSet(E)
      BY <3>2, <3>3, FS_Surjection
    <3> QED BY <3>1, <3>4, FS_CardinalityType
  <2>7. ASSUME NEW g \in 1..(c - 1) PROVE o[g] \in E
    <3>1. g \in 1..c /\ c \in 1..c /\ g < c
      BY <2>3
    <3>2. PICK j \in 1..m : o[g] = keys[j] /\ Alone(keys[j])
      BY <1>5, <1>6, <2>4, <3>1
    <3>3. Less(keys[j], keys[i]) /\ keys[j] \in Seq(Int) /\ keys[i] \in Seq(Int)
      BY <2>4, <2>5, <3>1, <3>2
    <3>4. ~ (i < j) /\ i # j
      <4>1. ~ Less(keys[i], keys[j]) /\ ~ Less(keys[i], keys[i])
        BY <3>3, Irreflexive, Transitive
      <4>2. i \in 1..n /\ j \in 1..n
        BY <1>11
      <4>3. i < j => Less(keys[i], keys[j])
        BY <1>12, <4>2
      <4>4. i = j => Less(keys[i], keys[i])
        BY <3>3
      <4> QED BY <4>1, <4>3, <4>4
    <3>5. j \in 1..(i - 1)
      BY <3>4
    <3> QED BY <3>2, <3>5 DEF Entry
  <2> DEFINE f == [g \in 1..(c - 1) |-> o[g]]
  <2>8. f \in Injection(1..(c - 1), E)
    <3>1. \A g, h \in 1..(c - 1) : o[g] = o[h] => g = h
      <4>1. SUFFICES ASSUME NEW g \in 1..(c - 1), NEW h \in 1..(c - 1), o[g] = o[h], g < h
                     PROVE  FALSE
        OBVIOUS
      <4>2. g \in 1..c /\ h \in 1..c
        BY <2>3
      <4> QED BY <2>4, <4>1, <4>2, Irreflexive
    <3> HIDE DEF E
    <3> QED BY <2>7, <3>1 DEF Injection, IsInjective
  <2> HIDE DEF f, E
  <2>9. IsFiniteSet(1..(c - 1)) /\ Cardinality(1..(c - 1)) = c - 1
    BY <2>3, FS_Interval
  <2>10. Cardinality(1..(c - 1)) <= Cardinality(E)
    BY <2>6, <2>8, <2>9, FS_Injection
  <2> QED BY <2>3, <2>6, <2>9, <2>10
<1> QED BY <1>8, <1>15, <1>16, <1>17, <1>19, <1>20, <1>21, <1>22 DEF answer

(* Finitely many strings have a greatest one. *)
LEMMA Greatest ==
  ASSUME NEW E \in SUBSET Seq(Int), IsFiniteSet(E), E # {}
  PROVE  \E g \in E : \A f \in E : ~ Less(g, f)
PROOF
<1> DEFINE above(e) == {f \in E : Less(e, f)}
           S == {Cardinality(above(e)) : e \in E}
<1>1. \A e \in E : IsFiniteSet(above(e)) /\ Cardinality(above(e)) \in Nat
  BY FS_Subset, FS_CardinalityType
<1>2. ASSUME NEW e \in E, NEW f \in E, Less(e, f)
      PROVE  Cardinality(above(f)) < Cardinality(above(e))
  <2>1. above(f) \subseteq above(e) /\ above(f) # above(e)
    BY <1>2, Irreflexive, Transitive
  <2>2. Cardinality(above(f)) <= Cardinality(above(e))
    BY <1>1, <2>1, FS_Subset
  <2>3. Cardinality(above(f)) # Cardinality(above(e))
    BY <1>1, <2>1, FS_Subset
  <2> HIDE DEF above
  <2> QED BY <1>1, <2>2, <2>3
<1> HIDE DEF above
<1>3. S # {} /\ S \in SUBSET Nat
  BY <1>1
<1>4. PICK m \in S : \A y \in S : m <= y
  <2> HIDE DEF S
  <2> QED BY <1>3, LeastOf
<1>5. PICK g \in E : m = Cardinality(above(g))
  OBVIOUS
<1>6. ASSUME NEW f \in E, Less(g, f) PROVE FALSE
  <2>1. Cardinality(above(g)) <= Cardinality(above(f))
    BY <1>4, <1>5
  <2>2. Cardinality(above(f)) < Cardinality(above(g))
    BY <1>2, <1>6
  <2> QED BY <1>1, <2>1, <2>2
<1> QED BY <1>6

(* The entry behind which the client goes on. *)
LEMMA Resumes ==
  ASSUME query \in Parameters, rows \subseteq Rows, NEW a \in Seq(Int), NEW max \in Nat \ {0}
  PROVE  LET page == ListObjects(a, max)
             ends == {a} \cup ToSet(page.objects) \cup page.prefixes
             last == LastEntry(page, a)
         IN  /\ last \in ends /\ ends \subseteq Seq(Int)
             /\ \A e \in ends : e = last \/ Less(e, last)
PROOF
<1> DEFINE page == ListObjects(a, max)
           ends == {a} \cup ToSet(page.objects) \cup page.prefixes
           last == LastEntry(page, a)
<1>1. \A k \in Asked(rows, a) : k \in Keys /\ k \in Seq(Int) /\ IsPrefix(query.prefix, k)
  BY BytesAssumption DEF Asked
<1>2. /\ \A k \in ToSet(page.objects) : k \in Asked(rows, a) /\ Alone(k)
      /\ \A p \in page.prefixes : \E k \in Asked(rows, a) : ~ Alone(k) /\ p = CommonPrefix(k)
  BY PageFacts
<1>3. last = CHOOSE e \in ends : \A f \in ends : ~ Less(e, f)
  BY Zenon DEF LastEntry
<1> HIDE DEF page
<1>4. ends \subseteq Seq(Int)
  BY <1>1, <1>2, PrefixOfKey
<1>5. IsFiniteSet(ends)
  <2> DEFINE f == [k \in Keys |-> CommonPrefix(k)]
             C == {CommonPrefix(k) : k \in Keys}
  <2>1. f \in Surjection(Keys, C)
    BY DEF Surjection
  <2>2. IsFiniteSet(C)
    <3> HIDE DEF f, C
    <3> QED BY <2>1, FS_Surjection, BytesAssumption
  <2>3. IsFiniteSet({a})
    BY FS_Singleton
  <2>4. IsFiniteSet(({a} \cup Keys) \cup C)
    <3> HIDE DEF C
    <3>1. IsFiniteSet({a} \cup Keys)
      BY <2>3, FS_Union, BytesAssumption
    <3> QED BY <2>2, <3>1, FS_Union
  <2>5. ends \subseteq ({a} \cup Keys) \cup C
    BY <1>1, <1>2
  <2> HIDE DEF C, ends
  <2> QED BY <2>4, <2>5, FS_Subset
<1>6. a \in ends
  OBVIOUS
<1> HIDE DEF ends, last
<1>7. last \in ends /\ \A f \in ends : ~ Less(last, f)
  <2>1. \E g \in ends : \A f \in ends : ~ Less(g, f)
    BY <1>4, <1>5, <1>6, Greatest
  <2> QED BY <1>3, <2>1, Zenon
<1>8. \A e \in ends : e = last \/ Less(e, last)
  BY <1>4, <1>7, Total
<1> QED BY <1>4, <1>7, <1>8, Zenon DEF ends, last, page

(* However the client goes on, the page begins behind what it got last. *)
LEMMA Continues ==
  ASSUME query \in Parameters, NEW page \in NextPages
  PROVE  /\ PageSize(query.max) \in Nat \ {0}
         /\ page = ListObjects(after, PageSize(query.max))
PROOF
<1>1. PageSize(query.max) \in Nat \ {0}
  BY Strings, ListingAssumption DEF PageSize
<1>2. StartAfter(after, <<>>) = after /\ StartAfter(<<>>, after) = after
  BY DEF StartAfter
<1> QED BY <1>1, <1>2 DEF NextPages, Response

------------------------------------------------------------------------------
(***************************************************************************)
(* The inductive invariant                                                 *)
(***************************************************************************)
(* The client has come to after, from where it began, and got nothing      *)
(* behind it; what was always there is there.                              *)
Passed ==
  /\ query \in Parameters /\ after \in Seq(Int)
  /\ after = query.start \/ Less(query.start, after)
  /\ always \subseteq rows
  /\ state = "idle" => always = {} /\ after = query.start
  /\ \A k \in ToSet(listed) : ~ Less(after, k)

Sound == TypeOK /\ Passed /\ NothingIsSkipped /\ NothingIsInvented /\ AscendingOnce

(* What is got page by page. *)
LEMMA Appended ==
  ASSUME NEW s \in Seq(Keys), NEW t \in Seq(Keys)
  PROVE  /\ s \o t \in Seq(Keys)
         /\ ToSet(s \o t) = ToSet(s) \cup ToSet(t)
         /\ Ascending(s) /\ Ascending(t) /\ (\A k \in ToSet(s), l \in ToSet(t) : Less(k, l))
              => Ascending(s \o t)
PROOF
<1>1. PICK u : u = s \o t
  OBVIOUS
<1>2. PICK m \in Nat : m = Len(s) /\ DOMAIN s = 1..m
  OBVIOUS
<1>3. PICK n \in Nat : n = Len(t) /\ DOMAIN t = 1..n
  OBVIOUS
<1>4. /\ u \in Seq(Keys) /\ DOMAIN u = 1..(m + n)
      /\ \A i \in 1..m : u[i] = s[i]
      /\ \A i \in 1..n : u[m + i] = t[i]
  <2>1. /\ u \in Seq(Keys) /\ Len(u) = m + n
        /\ \A i \in 1..m : u[i] = s[i]
        /\ \A i \in 1..n : u[m + i] = t[i]
    BY <1>1, <1>2, <1>3, ConcatProperties
  <2> QED BY <2>1
<1>5. \A i \in 1..(m + n) : \/ i \in 1..m /\ u[i] = s[i]
                            \/ i > m /\ i - m \in 1..n /\ u[i] = t[i - m]
  <2> TAKE i \in 1..(m + n)
  <2>1. CASE i <= m
    BY <1>4, <2>1
  <2>2. CASE i > m
    <3>1. i - m \in 1..n /\ m + (i - m) = i
      BY <2>2
    <3> QED BY <1>4, <2>2, <3>1
  <2> QED BY <2>1, <2>2
<1>6. /\ ToSet(u) = {u[i] : i \in 1..(m + n)}
      /\ ToSet(s) = {s[i] : i \in 1..m} /\ ToSet(t) = {t[i] : i \in 1..n}
  BY <1>2, <1>3, <1>4, Zenon DEF ToSet
<1>7. ToSet(u) = ToSet(s) \cup ToSet(t)
  <2>1. \A i \in 1..m : i \in 1..(m + n)
    OBVIOUS
  <2>2. \A i \in 1..n : m + i \in 1..(m + n)
    OBVIOUS
  <2> QED BY <1>4, <1>5, <1>6, <2>1, <2>2
<1>8. ASSUME Ascending(s), Ascending(t), \A k \in ToSet(s), l \in ToSet(t) : Less(k, l),
             NEW i \in 1..(m + n), NEW j \in 1..(m + n), i < j
      PROVE  Less(u[i], u[j])
  <2>1. CASE j <= m
    <3>1. i \in 1..m /\ j \in 1..m
      BY <1>8, <2>1
    <3> QED BY <1>2, <1>4, <1>8, <3>1 DEF Ascending
  <2>2. CASE i > m
    <3>1. i - m \in 1..n /\ j - m \in 1..n /\ i - m < j - m /\ u[i] = t[i - m] /\ u[j] = t[j - m]
      BY <1>5, <1>8, <2>2
    <3> QED BY <1>3, <1>8, <3>1 DEF Ascending
  <2>3. CASE i <= m /\ j > m
    <3>1. u[i] \in ToSet(s) /\ u[j] \in ToSet(t)
      BY <1>5, <1>6, <2>3
    <3> QED BY <1>8, <3>1
  <2> QED BY <2>1, <2>2, <2>3
<1> QED BY <1>1, <1>4, <1>7, <1>8 DEF Ascending

(* What was asked for, and what the client wants of it. *)
LEMMA AskedAreWanted ==
  ASSUME Passed, NEW k
  PROVE  k \in Asked(rows, after) => k \in Wanted(rows) /\ k \in Seq(Int) /\ Less(after, k)
PROOF
<1>1. SUFFICES ASSUME k \in Asked(rows, after)
               PROVE  k \in Wanted(rows) /\ k \in Seq(Int) /\ Less(after, k)
  OBVIOUS
<1>2. k \in Seq(Int) /\ k \in Keys /\ k # <<>>
  BY <1>1, BytesAssumption DEF Asked
<1>3. PICK a \in Seq(Int) : a = after
  BY DEF Passed
<1>4. PICK s \in Seq(Int) : s = query.start
  BY Strings DEF Passed
<1>5. PICK e \in Seq(Int) : e = <<>> /\ Len(e) = 0
  BY EmptySeq
<1>6. ASSUME NEW t \in Seq(Int), t # <<>> PROVE Less(<<>>, t)
  <2>1. PICK n : n = Len(e) /\ n = 0
    BY <1>5
  <2>2. 0 <= Len(t) /\ \A j \in 1..0 : e[j] = t[j]
    OBVIOUS
  <2>3. IsPrefix(e, t)
    BY <2>1, <2>2, PrefixBytes, Zenon
  <2> QED BY <1>5, <1>6, <2>3, PrefixNotGreater
<1>7. Less(a, k)
  BY <1>1, <1>2, <1>3, <1>6 DEF Asked
<1>8. s = <<>> \/ Less(s, k)
  BY <1>2, <1>3, <1>4, <1>7, Transitive DEF Passed
<1> QED BY <1>1, <1>2, <1>3, <1>4, <1>7, <1>8 DEF Asked, Wanted

(* Before its first page a client has got nothing. *)
LEMMA InitKeeps ==
  ASSUME Init
  PROVE  TypeOK /\ Passed /\ NothingIsSkipped /\ NothingIsInvented /\ AscendingOnce
PROOF
<1>1. ToSet(listed) = {} /\ listed \in Seq(Keys) /\ DOMAIN listed = {}
  BY DEF Init, ToSet
<1>2. TypeOK
  BY <1>1, ListingAssumption DEF Init, TypeOK
<1>3. Passed
  BY <1>1, Strings DEF Init, Passed
<1>4. NothingIsSkipped
  BY DEF Init, NothingIsSkipped, Wanted
<1>5. NothingIsInvented
  BY <1>1 DEF Init, NothingIsInvented
<1>6. AscendingOnce
  BY <1>1 DEF AscendingOnce
<1> QED BY <1>2, <1>3, <1>4, <1>5, <1>6

(* A page keeps the invariant. *)
LEMMA PageKeeps ==
  ASSUME TypeOK, Passed, NothingIsSkipped, NothingIsInvented, AscendingOnce, Page
  PROVE  TypeOK' /\ Passed' /\ NothingIsSkipped' /\ NothingIsInvented' /\ AscendingOnce'
PROOF
<1>1. PICK page \in NextPages :
        /\ listed' = listed \o page.objects
        /\ groups' = groups \cup page.prefixes
        /\ after' = LastEntry(page, after)
        /\ state' = IF page.truncated THEN "paging" ELSE "ended"
  BY DEF Page
<1>2. PICK max \in Nat \ {0} : page = ListObjects(after, max)
  BY Continues DEF Passed
<1>3. PICK ends : ends = ToSet(page.objects) \cup page.prefixes
  OBVIOUS
<1>4. /\ query \in Parameters /\ rows \subseteq Rows /\ after \in Seq(Int)
      /\ query' = query /\ rows' = rows /\ changes' = changes
      /\ always' = (IF state = "idle" THEN rows ELSE always) /\ ever' = ever \cup rows
      /\ state # "ended"
  BY DEF TypeOK, Passed, Page, Rows
<1>5. /\ page.objects \in Seq(Keys) /\ Ascending(page.objects)
      /\ \A k \in ToSet(page.objects) : k \in Asked(rows, after) /\ Alone(k)
      /\ \A p \in page.prefixes : \E k \in Asked(rows, after) : ~ Alone(k) /\ p = CommonPrefix(k)
  BY <1>2, <1>4, PageFacts
<1>6. \A k \in Asked(rows, after) :
        \/ k \in ToSet(page.objects)
        \/ \E p \in page.prefixes : IsPrefix(p, k)
        \/ page.truncated /\ \A e \in ends : Less(e, k)
  BY <1>2, <1>3, <1>4, PageFacts
<1>7. /\ after' \in {after} \cup ends /\ {after} \cup ends \subseteq Seq(Int)
      /\ \A e \in {after} \cup ends : e = after' \/ Less(e, after')
  BY <1>1, <1>2, <1>3, <1>4, Resumes
<1>8. \A k \in Asked(rows, after) : k \in Wanted(rows) /\ k \in Seq(Int) /\ Less(after, k)
  BY AskedAreWanted
<1>9. listed \in Seq(Keys) /\ \A k \in ToSet(listed) : k \in Keys /\ k \in Seq(Int)
  <2>1. listed \in Seq(Keys) /\ DOMAIN listed = 1..Len(listed)
    BY DEF TypeOK
  <2>2. \A i \in DOMAIN listed : listed[i] \in Keys
    BY <2>1
  <2> QED BY <2>1, <2>2, BytesAssumption DEF ToSet
<1>10. \A k \in ToSet(listed) : k = after \/ Less(k, after)
  BY <1>4, <1>9, Total DEF Passed
<1>11. /\ listed' \in Seq(Keys)
       /\ ToSet(listed') = ToSet(listed) \cup ToSet(page.objects)
       /\ Ascending(listed')
  <2>1. \A k \in ToSet(listed), l \in ToSet(page.objects) : Less(k, l)
    <3> TAKE k \in ToSet(listed), l \in ToSet(page.objects)
    <3>1. k \in Seq(Int) /\ l \in Seq(Int) /\ Less(after, l) /\ (k = after \/ Less(k, after))
      BY <1>5, <1>8, <1>9, <1>10
    <3> QED BY <1>4, <3>1, Transitive
  <2>2. Ascending(listed)
    BY DEF AscendingOnce, Ascending
  <2> QED BY <1>1, <1>5, <1>9, <2>1, <2>2, Appended
<1>12. TypeOK'
  <2>1. state' \in {"idle", "paging", "ended"}
    BY <1>1
  <2>2. always' \subseteq ever'
    BY <1>4 DEF TypeOK
  <2> QED BY <1>4, <1>11, <2>1, <2>2 DEF TypeOK
<1>13. after = after' \/ Less(after, after')
  BY <1>7
<1>14. Passed'
  <2>1. after' = query.start \/ Less(query.start, after')
    <3>1. query.start \in Seq(Int) /\ after' \in Seq(Int)
      BY <1>4, <1>7, Strings
    <3>2. after = query.start \/ Less(query.start, after)
      BY DEF Passed
    <3> QED BY <1>4, <1>13, <3>1, <3>2, Transitive
  <2>2. always' \subseteq rows'
    BY <1>4 DEF Passed
  <2>3. state' # "idle"
    BY <1>1
  <2>4. ASSUME NEW k \in ToSet(listed') PROVE ~ Less(after', k)
    <3>1. after' \in Seq(Int)
      BY <1>7
    <3>2. k \in Seq(Int) /\ (k = after' \/ Less(k, after'))
      <4>1. CASE k \in ToSet(listed)
        <5>1. k \in Seq(Int) /\ (k = after \/ Less(k, after))
          BY <1>9, <1>10, <4>1
        <5> QED BY <1>4, <1>13, <3>1, <5>1, Transitive
      <4>2. CASE k \in ToSet(page.objects)
        BY <1>3, <1>7, <4>2
      <4> QED BY <1>11, <4>1, <4>2
    <3> QED BY <3>1, <3>2, Irreflexive, Transitive
  <2> QED BY <1>4, <1>7, <2>1, <2>2, <2>3, <2>4 DEF Passed
<1>15. ASSUME NEW k PROVE (Alone(k))' = Alone(k) /\ (CommonPrefix(k))' = CommonPrefix(k)
  BY <1>4 DEF Alone, CommonPrefix, Rest
<1>16. ASSUME NEW S PROVE Wanted(S) = {k \in Keys : /\ objectMapKey(Bucket, k) \in S
                                                    /\ IsPrefix(query.prefix, k)
                                                    /\ query.start = <<>> \/ Less(query.start, k)}
  BY DEF Wanted
<1>17. /\ Wanted(always)' = Wanted(always') /\ Wanted(ever)' = Wanted(ever')
       /\ Wanted(rows) \subseteq Wanted(ever') /\ Wanted(ever) \subseteq Wanted(ever')
  BY <1>4 DEF Wanted
<1>18. AscendingOnce'
  BY <1>11 DEF AscendingOnce, Ascending
<1>19. NothingIsInvented'
  <2>1. ASSUME NEW k \in ToSet(listed') PROVE k \in Wanted(ever') /\ Alone(k)
    <3>1. CASE k \in ToSet(listed)
      BY <1>17, <3>1 DEF NothingIsInvented
    <3>2. CASE k \in ToSet(page.objects)
      BY <1>5, <1>8, <1>17, <3>2
    <3> QED BY <1>11, <3>1, <3>2
  <2>2. ASSUME NEW p \in groups'
        PROVE  \E k \in Wanted(ever') : ~ Alone(k) /\ p = CommonPrefix(k)
    <3>1. CASE p \in groups
      BY <1>17, <3>1 DEF NothingIsInvented
    <3>2. CASE p \in page.prefixes
      BY <1>5, <1>8, <1>17, <3>2
    <3> QED BY <1>1, <3>1, <3>2
  <2>3. \A k : (Alone(k))' = Alone(k) /\ (CommonPrefix(k))' = CommonPrefix(k)
    BY <1>15
  <2>4. \A k \in ToSet(listed') : k \in Wanted(ever)' /\ Alone(k)'
    BY <1>17, <2>1, <2>3
  <2>5. \A p \in groups' : \E k \in Wanted(ever)' : ~ Alone(k)' /\ p = CommonPrefix(k)'
    BY <1>17, <2>2, <2>3
  <2> QED BY <2>4, <2>5, Zenon DEF NothingIsInvented
<1>20. ASSUME NEW k \in Wanted(always'), state' = "ended" \/ ~ Less(after', k)
       PROVE  k \in ToSet(listed') \/ \E p \in groups' : IsPrefix(p, k)
  <2>1. /\ k \in Keys /\ k \in Seq(Int) /\ objectMapKey(Bucket, k) \in rows
        /\ IsPrefix(query.prefix, k) /\ (query.start = <<>> \/ Less(query.start, k))
    BY <1>4, BytesAssumption DEF Wanted, Passed
  <2>2. CASE Less(after, k)
    <3>1. k \in Asked(rows, after)
      BY <2>1, <2>2 DEF Asked
    <3>2. ~ (page.truncated /\ \A e \in ends : Less(e, k))
      <4>1. ASSUME page.truncated, \A e \in ends : Less(e, k) PROVE FALSE
        <5>1. Less(after', k)
          BY <1>7, <2>2, <4>1
        <5>2. state' = "paging"
          BY <1>1, <4>1
        <5> QED BY <1>20, <5>1, <5>2
      <4> QED BY <4>1
    <3> QED BY <1>1, <1>6, <1>11, <3>1, <3>2
  <2>3. CASE ~ Less(after, k)
    <3>1. state # "idle"
      <4>1. SUFFICES ASSUME state = "idle" PROVE FALSE
        OBVIOUS
      <4>2. after = query.start
        BY <4>1 DEF Passed
      <4>3. after = <<>>
        BY <2>1, <2>3, <4>2
      <4>4. k \in Asked(rows, after)
        BY <2>1, <4>3 DEF Asked
      <4> QED BY <1>8, <2>3, <4>4
    <3>2. k \in Wanted(always)
      BY <1>4, <3>1
    <3>3. k \in ToSet(listed) \/ \E p \in groups : IsPrefix(p, k)
      BY <2>3, <3>2 DEF NothingIsSkipped
    <3> QED BY <1>1, <1>11, <3>3
  <2> QED BY <2>2, <2>3
<1>21. NothingIsSkipped'
  BY <1>17, <1>20 DEF NothingIsSkipped
<1> QED BY <1>12, <1>14, <1>18, <1>19, <1>21

(* Others put objects and delete them. *)
LEMMA ChangeKeeps ==
  ASSUME TypeOK, Passed, NothingIsSkipped, NothingIsInvented, AscendingOnce, Put \/ Delete
  PROVE  TypeOK' /\ Passed' /\ NothingIsSkipped' /\ NothingIsInvented' /\ AscendingOnce'
PROOF
<1>1. /\ query' = query /\ after' = after /\ state' = state /\ listed' = listed
      /\ groups' = groups /\ ever' = ever /\ always' \subseteq always
  BY DEF Put, Delete, client
<1>2. rows' \subseteq Rows /\ always' \subseteq rows' /\ changes' \in 0..MaxChanges
  <2>1. rows \subseteq Rows /\ always \subseteq rows /\ changes \in 0..MaxChanges
    BY DEF TypeOK, Passed, Rows
  <2>2. changes' \in 0..MaxChanges
    BY <2>1, ListingAssumption DEF Put, Delete, Change
  <2>3. rows' \subseteq Rows /\ always' \subseteq rows'
    BY <2>1 DEF Put, Delete, Rows
  <2> QED BY <2>2, <2>3
<1>3. TypeOK'
  BY <1>1, <1>2 DEF TypeOK, Rows
<1>4. Passed'
  BY <1>1, <1>2 DEF Passed
<1>5. \A k : (Alone(k))' = Alone(k) /\ (CommonPrefix(k))' = CommonPrefix(k)
  BY <1>1 DEF Alone, CommonPrefix, Rest
<1>6. Wanted(always)' \subseteq Wanted(always) /\ Wanted(ever)' = Wanted(ever)
  BY <1>1 DEF Wanted
<1>7. NothingIsSkipped'
  BY <1>1, <1>6 DEF NothingIsSkipped
<1>8. NothingIsInvented'
  <2>1. \A k \in ToSet(listed') : k \in Wanted(ever)' /\ Alone(k)'
    BY <1>1, <1>5, <1>6 DEF NothingIsInvented
  <2>2. \A p \in groups' : \E k \in Wanted(ever)' : ~ Alone(k)' /\ p = CommonPrefix(k)'
    BY <1>1, <1>5, <1>6 DEF NothingIsInvented
  <2> QED BY <2>1, <2>2, Zenon DEF NothingIsInvented
<1>9. AscendingOnce'
  BY <1>1 DEF AscendingOnce
<1> QED BY <1>3, <1>4, <1>7, <1>8, <1>9

(***************************************************************************)
(* A listing is sound in every state, for every set of keys, every prefix, *)
(* delimiter and page size, and whatever others put and delete.            *)
(***************************************************************************)
THEOREM Invariance == Spec => []Sound
PROOF
<1>1. Init => Sound
  BY InitKeeps DEF Sound
<1>2. Sound /\ [Next]_vars => Sound'
  <2>1. SUFFICES ASSUME Sound, [Next]_vars PROVE Sound'
    OBVIOUS
  <2>2. CASE Page
    BY <2>1, <2>2, PageKeeps DEF Sound
  <2>3. CASE Put \/ Delete
    BY <2>1, <2>3, ChangeKeeps DEF Sound
  <2>4. CASE UNCHANGED vars
    <3>1. /\ query' = query /\ after' = after /\ state' = state /\ listed' = listed
          /\ groups' = groups /\ ever' = ever /\ always' = always /\ rows' = rows
          /\ changes' = changes
      BY <2>4 DEF vars, client
    <3>2. \A k : (Alone(k))' = Alone(k) /\ (CommonPrefix(k))' = CommonPrefix(k)
      BY <3>1 DEF Alone, CommonPrefix, Rest
    <3>3. Wanted(always)' = Wanted(always) /\ Wanted(ever)' = Wanted(ever)
      BY <3>1 DEF Wanted
    <3>4. TypeOK' /\ Passed' /\ AscendingOnce'
      BY <2>1, <3>1 DEF Sound, TypeOK, Passed, AscendingOnce
    <3>5. NothingIsSkipped'
      BY <2>1, <3>1, <3>3 DEF Sound, NothingIsSkipped
    <3>6. NothingIsInvented'
      <4>1. \A k \in ToSet(listed') : k \in Wanted(ever)' /\ Alone(k)'
        BY <2>1, <3>1, <3>2, <3>3 DEF Sound, NothingIsInvented
      <4>2. \A p \in groups' : \E k \in Wanted(ever)' : ~ Alone(k)' /\ p = CommonPrefix(k)'
        BY <2>1, <3>1, <3>2, <3>3 DEF Sound, NothingIsInvented
      <4> QED BY <4>1, <4>2, Zenon DEF NothingIsInvented
    <3> QED BY <3>4, <3>5, <3>6 DEF Sound
  <2> QED BY <2>1, <2>2, <2>3, <2>4 DEF Next
<1> QED BY <1>1, <1>2, PTL DEF Spec

(***************************************************************************)
(* What a page leaves out it says to be missing (objects.go:79,            *)
(* backend.go:325), so an object that stays is listed.                     *)
(***************************************************************************)
THEOREM NothingSkipped == Spec => []NothingIsSkipped
BY Invariance, PTL DEF Sound

(* What is listed was there, in this bucket and under this prefix          *)
(* (objects.go:67): no bucket's rows begin like another's.                 *)
THEOREM NothingInvented == Spec => []NothingIsInvented
BY Invariance, PTL DEF Sound

(* A page begins behind the one before it (objects.go:76, list_objects.go:9). *)
THEOREM EachOnce == Spec => []AscendingOnce
BY Invariance, PTL DEF Sound

(***************************************************************************)
(* A truncated page without a delimiter has an object, which is behind all *)
(* that came before (backend.go:304, list_objects.go:13).                  *)
(***************************************************************************)
THEOREM PagesGoOn == Spec => []PagesAdvance
PROOF
<1>1. Sound => PagesAdvance
  <2>1. SUFFICES ASSUME Sound, query.delimiter = <<>>, NEW page \in NextPages, page.truncated
                 PROVE  Less(after, LastEntry(page, after))
    BY DEF PagesAdvance
  <2>2. /\ query \in Parameters /\ rows \subseteq Rows /\ after \in Seq(Int) /\ Passed
    BY <2>1 DEF Sound, TypeOK, Passed, Rows
  <2>3. PICK max \in Nat \ {0} : page = ListObjects(after, max)
    BY <2>1, <2>2, Continues
  <2>4. /\ page.objects \in Seq(Keys) /\ page.objects # <<>>
        /\ \A k \in ToSet(page.objects) : k \in Asked(rows, after)
    BY <2>1, <2>2, <2>3, PageFacts
  <2>5. PICK k : k \in ToSet(page.objects)
    <3>1. page.objects[1] \in ToSet(page.objects)
      <4>1. 1 \in DOMAIN page.objects
        BY <2>4
      <4> QED BY <4>1, Zenon DEF ToSet
    <3> QED BY <3>1
  <2>6. Less(after, k) /\ k \in Seq(Int)
    BY <2>2, <2>4, <2>5, AskedAreWanted
  <2>7. /\ LastEntry(page, after) \in Seq(Int)
        /\ k = LastEntry(page, after) \/ Less(k, LastEntry(page, after))
    BY <2>2, <2>3, <2>5, Resumes
  <2> QED BY <2>2, <2>6, <2>7, Transitive
<1> QED BY <1>1, Invariance, PTL

(***************************************************************************)
(* No page has more objects than max-keys, or than the page limit, and     *)
(* when it says that more follow there is one (backend.go:325).            *)
(***************************************************************************)
THEOREM PagesBounded == Spec => PagesAreBounded
PROOF
<1>1. ASSUME Sound, [Next]_vars, rows' = rows
      PROVE  \/ UNCHANGED vars
             \/ /\ Len(listed') - Len(listed) <= PageLimit
                /\ query.max \in 1..PageLimit => Len(listed') - Len(listed) <= query.max
                /\ state' = "paging" => \E k \in Wanted(rows) : Less(after', k)
  <2>1. SUFFICES ASSUME ~ UNCHANGED vars
                 PROVE  /\ Len(listed') - Len(listed) <= PageLimit
                        /\ query.max \in 1..PageLimit => Len(listed') - Len(listed) <= query.max
                        /\ state' = "paging" => \E k \in Wanted(rows) : Less(after', k)
    OBVIOUS
  <2>2. Page
    BY <1>1, <2>1 DEF Next, Put, Delete
  <2>3. /\ query \in Parameters /\ rows \subseteq Rows /\ after \in Seq(Int) /\ Passed
        /\ listed \in Seq(Keys)
    BY <1>1 DEF Sound, TypeOK, Passed, Rows
  <2>4. PICK page \in NextPages :
          /\ listed' = listed \o page.objects
          /\ after' = LastEntry(page, after)
          /\ state' = IF page.truncated THEN "paging" ELSE "ended"
    BY <2>2 DEF Page
  <2>5. PICK max \in Nat \ {0} : max = PageSize(query.max) /\ page = ListObjects(after, max)
    BY <2>3, <2>4, Continues
  <2>6. /\ page.objects \in Seq(Keys) /\ Len(page.objects) <= max
        /\ page.truncated => \E k \in Asked(rows, after) :
                               \A e \in ToSet(page.objects) \cup page.prefixes : Less(e, k)
    BY <2>3, <2>5, PageFacts
  <2>7. Len(listed') = Len(listed) + Len(page.objects)
    BY <2>3, <2>4, <2>6, ConcatProperties
  <2>8. max <= PageLimit /\ (query.max \in 1..PageLimit => max = query.max)
    BY <2>3, <2>5, Strings, ListingAssumption DEF PageSize
  <2>9. ASSUME state' = "paging" PROVE \E k \in Wanted(rows) : Less(after', k)
    <3>1. page.truncated
      BY <2>4, <2>9
    <3>2. PICK k \in Asked(rows, after) :
            \A e \in ToSet(page.objects) \cup page.prefixes : Less(e, k)
      BY <2>6, <3>1
    <3>3. k \in Wanted(rows) /\ Less(after, k)
      BY <2>3, AskedAreWanted
    <3>4. after' \in {after} \cup ToSet(page.objects) \cup page.prefixes
      BY <2>3, <2>4, <2>5, Resumes
    <3> QED BY <3>2, <3>3, <3>4
  <2>10. /\ Len(page.objects) \in Nat /\ Len(listed) \in Nat
         /\ PageLimit \in Nat /\ query.max \in Int
    BY <2>3, <2>6, Strings, ListingAssumption
  <2>11. Len(listed') - Len(listed) <= max
    BY <2>6, <2>7, <2>10
  <2>12. Len(listed') - Len(listed) \in Int
    BY <2>7, <2>10
  <2> QED BY <2>8, <2>9, <2>10, <2>11, <2>12
<1>2. Sound /\ [Next]_vars =>
        [rows' = rows =>
           /\ Len(listed') - Len(listed) <= PageLimit
           /\ query.max \in 1..PageLimit => Len(listed') - Len(listed) <= query.max
           /\ state' = "paging" => \E k \in Wanted(rows) : Less(after', k)]_vars
  BY <1>1
<1> QED BY <1>2, Invariance, PTL DEF Spec, PagesAreBounded

------------------------------------------------------------------------------
(***************************************************************************)
(* Backup IDs.                                                             *)
(***************************************************************************)
(* Without its extension a name is still a sequence of characters. *)
LEMMA StripIsSeq ==
  ASSUME NEW S, NEW s \in Seq(S)
  PROVE  stripKnownExtensions(s) \in Seq(S)
PROOF
<1>1. ASSUME NEW j \in Nat PROVE SubSeq(s, 1, Len(s) - j) \in Seq(S)
  OBVIOUS
<1>2. ASSUME NEW i \in DOMAIN Extensions PROVE Len(Extensions[i]) \in Nat
  BY IDAssumption
<1>3. FirstFit(s) # {} => (CHOOSE i \in FirstFit(s) : TRUE) \in DOMAIN Extensions
  BY DEF FirstFit
<1> QED BY <1>1, <1>2, <1>3 DEF stripKnownExtensions

(* Sanitizing leaves valid characters, and at least one. *)
LEMMA SanitizedIsValid ==
  ASSUME NEW n \in Segments
  PROVE  Sanitized(n) \in Seq(Valid) /\ Sanitized(n) # <<>>
PROOF
<1>1. stripKnownExtensions(n) \in Seq(Chars)
  BY StripIsSeq, IDAssumption
<1> DEFINE t == stripKnownExtensions(n)
<1> HIDE DEF t
<1>2. t \in Seq(Chars)
  BY <1>1 DEF t
<1>3. Len(t) \in Nat /\ sanitizeChars(t) \in [1..Len(t) -> Valid]
  BY <1>2, IDAssumption DEF sanitizeChars
<1>4. sanitizeChars(t) \in Seq(Valid)
  BY <1>3
<1> QED BY <1>4, IDAssumption DEF Sanitized, t

(* A hashed ID is a beginning of the name, a dash and eight digits. *)
LEMMA HashedParts ==
  ASSUME NEW n \in Segments
  PROVE  \E p \in Seq(Valid) : /\ Hashed(n) = Append(p, Dash) \o Hash[n]
                               /\ Len(p) <= MaxIDLen - HashLen - 1
PROOF
<1> DEFINE room == MaxIDLen - HashLen - 1
           s == Sanitized(n)
           p == IF Len(s) > room THEN SubSeq(s, 1, room) ELSE s
<1>1. s \in Seq(Valid) /\ room \in Nat /\ room > 0
  BY SanitizedIsValid, IDAssumption
<1>2. p \in Seq(Valid) /\ Len(p) <= room
  BY <1>1
<1>3. Hashed(n) = Append(p, Dash) \o Hash[n]
  BY DEF Hashed
<1> QED BY <1>2, <1>3

(***************************************************************************)
(* SanitizeBackupID makes an ID PBS takes, of any name: valid characters,  *)
(* one at least and MaxIDLen at most.                                      *)
(***************************************************************************)
THEOREM IDIsValid ==
  ASSUME NEW n \in Segments
  PROVE  /\ SanitizeBackupID(n) \in Seq(Valid)
         /\ Len(SanitizeBackupID(n)) \in 1..MaxIDLen
PROOF
<1>1. CASE Readable(n)
  <2>1. Sanitized(n) \in Seq(Valid) /\ Sanitized(n) # <<>> /\ Len(Sanitized(n)) <= MaxIDLen
    BY <1>1, SanitizedIsValid DEF Readable
  <2>2. Len(Sanitized(n)) \in 1..MaxIDLen
    BY <2>1
  <2> QED BY <1>1, <2>1, <2>2 DEF SanitizeBackupID
<1>2. CASE ~ Readable(n)
  <2>1. PICK p \in Seq(Valid) : /\ Hashed(n) = Append(p, Dash) \o Hash[n]
                                /\ Len(p) <= MaxIDLen - HashLen - 1
    BY HashedParts
  <2>2. Hash[n] \in Seq(Valid) /\ Len(Hash[n]) = HashLen
    BY HashAssumption
  <2>3. Append(p, Dash) \in Seq(Valid) /\ Len(Append(p, Dash)) = Len(p) + 1
    BY IDAssumption
  <2>4. Hashed(n) \in Seq(Valid) /\ Len(Hashed(n)) = Len(p) + 1 + HashLen
    <3> DEFINE a == Append(p, Dash)
               h == Hash[n]
    <3>1. a \in Seq(Valid) /\ h \in Seq(Valid)
      BY <2>2, <2>3
    <3>2. a \o h \in Seq(Valid) /\ Len(a \o h) = Len(a) + Len(h)
      <4> HIDE DEF a, h
      <4> QED BY <3>1, ConcatProperties
    <3> QED BY <2>1, <2>2, <2>3, <3>2
  <2>5. Len(Hashed(n)) \in 1..MaxIDLen
    BY <2>1, <2>4, IDAssumption
  <2> QED BY <1>2, <2>4, <2>5 DEF SanitizeBackupID
<1> QED BY <1>1, <1>2

(* Two sequences that are equal end in the same way. *)
LEMMA SameEnd ==
  ASSUME NEW S, NEW a \in Seq(S), NEW b \in Seq(S), NEW g \in Seq(S), NEW h \in Seq(S),
         Len(g) = Len(h), a \o g = b \o h
  PROVE  g = h
PROOF
<1>1. Len(a \o g) = Len(a) + Len(g) /\ Len(b \o h) = Len(b) + Len(h)
  BY ConcatProperties
<1>2. Len(a) = Len(b)
  BY <1>1
<1>3. \A i \in 1..Len(g) : g[i] = (a \o g)[Len(a) + i] /\ h[i] = (b \o h)[Len(b) + i]
  OBVIOUS
<1>4. \A i \in 1..Len(g) : g[i] = h[i]
  BY <1>2, <1>3
<1> QED BY <1>4

(***************************************************************************)
(* Two names with one ID: if both IDs are readable, the names differ in a  *)
(* known extension only; if both are hashed, not at all.  So servers whose *)
(* names are valid, short and without such an extension, as UUIDs are, are *)
(* groups of their own.                                                    *)
(***************************************************************************)
THEOREM SharedID ==
  ASSUME NEW m \in Segments, NEW n \in Segments,
         SanitizeBackupID(m) = SanitizeBackupID(n)
  PROVE  /\ Readable(m) /\ Readable(n) => stripKnownExtensions(m) = stripKnownExtensions(n)
         /\ ~ Readable(m) /\ ~ Readable(n) => m = n
PROOF
<1>1. ASSUME Readable(m), Readable(n)
      PROVE  stripKnownExtensions(m) = stripKnownExtensions(n)
  BY <1>1 DEF Readable, isCleanLossless, SanitizeBackupID
<1>2. ASSUME ~ Readable(m), ~ Readable(n)
      PROVE  m = n
  <2>1. PICK p \in Seq(Valid) : Hashed(m) = Append(p, Dash) \o Hash[m]
    BY HashedParts
  <2>2. PICK q \in Seq(Valid) : Hashed(n) = Append(q, Dash) \o Hash[n]
    BY HashedParts
  <2>3. Append(p, Dash) \o Hash[m] = Append(q, Dash) \o Hash[n]
    BY <1>2, <2>1, <2>2 DEF SanitizeBackupID
  <2>4. Append(p, Dash) \in Seq(Valid) /\ Append(q, Dash) \in Seq(Valid)
    BY IDAssumption
  <2>5. /\ Hash[m] \in Seq(Valid) /\ Hash[n] \in Seq(Valid)
        /\ Len(Hash[m]) = Len(Hash[n])
    BY HashAssumption
  <2>6. Hash[m] = Hash[n]
    BY <2>3, <2>4, <2>5, SameEnd
  <2> QED BY <2>6, HashAssumption
<1> QED BY <1>1, <1>2
==============================================================================
