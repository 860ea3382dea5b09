---------------------------- MODULE SeqOpsProofs ----------------------------
(***************************************************************************)
(* What SumSeq and Without compute, for every sequence.  Induction is      *)
(* done on sets: a nonempty set of naturals has a least element (from      *)
(* WFMin), hence a set that contains 0 and is closed under successor below *)
(* n contains 0..n.                                                        *)
(***************************************************************************)
EXTENDS SeqOps, Naturals, Sequences, WellFoundedInduction, TLAPS

\* Every nonempty set of naturals has a least element.
LEMMA NatMinimum ==
    ASSUME NEW T, T \subseteq Nat, T # {}
    PROVE  \E n \in T : \A m \in T : n <= m
<1> DEFINE R == {ss \in Nat \X Nat : ss[1] < ss[2]}
<1>1. IsWellFoundedOn(R, Nat)
  <2>1. OpToRel(<, Nat) = R BY Zenon DEF OpToRel
  <2>2. QED BY <2>1, NatLessThanWellFounded, Zenon
<1>2. PICK n \in T : \A m \in T : ~ (<<m, n>> \in R)
  <2> HIDE DEF R
  <2> QED BY <1>1, WFMin
<1>3. ASSUME NEW m \in T PROVE n <= m
  <2>1. ~(<<m, n>> \in R) BY <1>2
  <2>2. m \in Nat /\ n \in Nat OBVIOUS
  <2>3. ~(m < n) BY <2>1, <2>2
  <2>4. QED BY <2>2, <2>3
<1>4. QED BY <1>3

\* Induction up to n, with the property given as the set S of its numbers.
LEMMA InductionTo ==
    ASSUME NEW n \in Nat, NEW S, 0 \in S,
           \A k \in 0..n : k # n /\ k \in S => k + 1 \in S
    PROVE  \A k \in 0..n : k \in S
<1> DEFINE T == {k \in 0..n : k \notin S}
<1>1. SUFFICES ASSUME T # {} PROVE FALSE OBVIOUS
<1>2. PICK m \in T : \A k \in T : m <= k
  <2>1. T \subseteq Nat OBVIOUS
  <2>2. QED
    <3> HIDE DEF T
    <3> QED BY <1>1, <2>1, NatMinimum
<1>3. m \in 0..n /\ m \notin S /\ m # 0 OBVIOUS
<1>4. m - 1 \in 0..n /\ m - 1 # n /\ m - 1 \notin T BY <1>2, <1>3
<1>5. (m - 1) + 1 \in S BY <1>4
<1>6. QED BY <1>3, <1>5

\* f is the function on 0..n with values in V that step defines from base.
DefinedTo(f, n, V, base, step) ==
    /\ f \in [0..n -> V]
    /\ f[0] = base
    /\ \A i \in 1..n : f[i] = step[<<i, f[i - 1]>>]

\* A function defined by recursion on 0..n exists.
LEMMA RecursionTo ==
    ASSUME NEW n \in Nat, NEW V, NEW base \in V, NEW step \in [(1..n) \X V -> V]
    PROVE  \E f : DefinedTo(f, n, V, base, step)
<1> DEFINE S == {k \in 0..n : \E f : DefinedTo(f, k, V, base, step)}
<1>1. 0 \in S
  <2>1. DefinedTo([i \in 0..0 |-> base], 0, V, base, step) BY DEF DefinedTo
  <2>2. QED BY <2>1
<1>2. ASSUME NEW k \in 0..n, k # n, k \in S PROVE k + 1 \in S
  <2>1. PICK f : DefinedTo(f, k, V, base, step) BY <1>2
  <2>2. k \in Nat /\ k + 1 \in 1..n /\ k + 1 \in 0..n BY <1>2
  <2>3. PICK v \in V : v = step[<<k + 1, f[k]>>] BY <2>1, <2>2 DEF DefinedTo
  <2> DEFINE g == [i \in 0..(k+1) |-> IF i = k + 1 THEN v ELSE f[i]]
  <2>4. g \in [0..(k+1) -> V] /\ g[0] = base BY <2>1, <2>2 DEF DefinedTo
  <2>5. ASSUME NEW i \in 1..(k+1) PROVE g[i] = step[<<i, g[i-1]>>]
    <3>1. CASE i = k + 1
      <4>1. g[k+1] = v /\ g[k] = f[k] /\ i - 1 = k BY <2>2, <3>1
      <4>2. QED BY <2>3, <3>1, <4>1
    <3>2. CASE i # k + 1
      <4>1. i \in 1..k /\ i - 1 \in 0..k /\ i \in 0..k BY <3>2, <2>2
      <4>2. g[i] = f[i] /\ g[i-1] = f[i-1] BY <4>1, <2>2
      <4>3. QED BY <4>1, <4>2, <2>1 DEF DefinedTo
    <3>3. QED BY <3>1, <3>2
  <2>6. DefinedTo(g, k + 1, V, base, step) BY <2>4, <2>5 DEF DefinedTo
  <2>7. QED BY <2>2, <2>6
<1>3. \A k \in 0..n : k \in S
  <2> HIDE DEF S
  <2> QED BY <1>1, <1>2, InductionTo
<1>4. QED BY <1>3

-----------------------------------------------------------------------------
\* f is the function of the prefix sums of s up to n.
PrefixSums(f, s, n) ==
    /\ f \in [0..n -> Nat]
    /\ f[0] = 0
    /\ \A i \in 1..n : f[i] = f[i - 1] + s[i]

\* A function of prefix sums exists for every sequence of naturals.
LEMMA PrefixSumsExist ==
    ASSUME NEW s \in Seq(Nat)
    PROVE  \E f : PrefixSums(f, s, Len(s))
<1> DEFINE n == Len(s)
           step == [x \in (1..n) \X Nat |-> x[2] + s[x[1]]]
<1>1. n \in Nat /\ \A i \in 1..n : s[i] \in Nat OBVIOUS
<1>2. step \in [(1..n) \X Nat -> Nat] BY <1>1
<1>3. PICK f : DefinedTo(f, n, Nat, 0, step)
  <2> HIDE DEF step, n
  <2> QED BY <1>1, <1>2, RecursionTo
<1>4. ASSUME NEW i \in 1..n PROVE f[i] = f[i - 1] + s[i]
  <2>1. i - 1 \in 0..n BY <1>1
  <2>2. <<i, f[i - 1]>> \in (1..n) \X Nat BY <1>3, <2>1 DEF DefinedTo
  <2>3. QED BY <1>3, <2>2 DEF DefinedTo
<1>5. QED BY <1>3, <1>4 DEF PrefixSums, DefinedTo

\* Two prefix-sum functions of pointwise ordered sequences are ordered.
LEMMA PrefixSumsMonotone ==
    ASSUME NEW n \in Nat, NEW f, NEW g, NEW s, NEW t,
           PrefixSums(f, s, n), PrefixSums(g, t, n),
           \A i \in 1..n : s[i] \in Nat /\ t[i] \in Nat /\ s[i] <= t[i]
    PROVE  \A k \in 0..n : f[k] <= g[k]
<1> DEFINE S == {k \in 0..n : f[k] <= g[k]}
<1>1. 0 \in S BY DEF PrefixSums
<1>2. ASSUME NEW k \in 0..n, k # n, k \in S PROVE k + 1 \in S
  <2>1. k + 1 \in 1..n /\ (k + 1) - 1 = k /\ k + 1 \in 0..n BY <1>2
  <2>2. f[k+1] = f[k] + s[k+1] /\ g[k+1] = g[k] + t[k+1]
    BY <2>1 DEF PrefixSums
  <2>3. f[k] \in Nat /\ g[k] \in Nat /\ f[k] <= g[k] BY <1>2 DEF PrefixSums
  <2>4. s[k+1] \in Nat /\ t[k+1] \in Nat /\ s[k+1] <= t[k+1] BY <2>1
  <2>5. f[k+1] <= g[k+1] BY <2>2, <2>3, <2>4
  <2>6. QED BY <2>1, <2>5
<1>3. \A k \in 0..n : k \in S
  <2> HIDE DEF S
  <2> QED BY <1>1, <1>2, InductionTo
<1>4. QED BY <1>3

\* SumSeq(s) is the last prefix sum, whichever function of them is taken.
LEMMA SumSeqIsPrefixSum ==
    ASSUME NEW s \in Seq(Nat), NEW f, PrefixSums(f, s, Len(s))
    PROVE  SumSeq(s) = f[Len(s)]
<1> DEFINE Body(h) == [n \in 0..Len(s) |-> IF n = 0 THEN 0 ELSE h[n - 1] + s[n]]
           c == CHOOSE h : h = Body(h)
           S == {k \in 0..Len(s) : c[k] = f[k]}
<1>1. Len(s) \in Nat OBVIOUS
<1>2. f = Body(f) BY <1>1 DEF PrefixSums
<1>3. c = Body(c) BY <1>2
<1>4. SumSeq(s) = c[Len(s)] BY DEF SumSeq
<1> HIDE DEF c
<1>5. 0 \in S BY <1>1, <1>2, <1>3
<1>6. ASSUME NEW k \in 0..Len(s), k # Len(s), k \in S PROVE k + 1 \in S
  <2>1. k + 1 \in 0..Len(s) /\ k + 1 # 0 /\ (k + 1) - 1 = k BY <1>1, <1>6
  <2>2. c[k+1] = c[k] + s[k+1] BY <1>3, <2>1
  <2>3. f[k+1] = f[k] + s[k+1] BY <1>2, <2>1
  <2>4. QED BY <1>6, <2>1, <2>2, <2>3
<1>7. \A k \in 0..Len(s) : k \in S
  <2> HIDE DEF S
  <2> QED BY <1>1, <1>5, <1>6, InductionTo
<1>8. QED BY <1>1, <1>4, <1>7
-----------------------------------------------------------------------------
\* A sum of naturals is a natural.
LEMMA SumSeqType ==
    ASSUME NEW s \in Seq(Nat) PROVE SumSeq(s) \in Nat
<1>1. PICK f : PrefixSums(f, s, Len(s)) BY PrefixSumsExist
<1>2. SumSeq(s) = f[Len(s)] BY <1>1, SumSeqIsPrefixSum
<1>3. Len(s) \in 0..Len(s) OBVIOUS
<1>4. QED BY <1>1, <1>2, <1>3 DEF PrefixSums

\* The empty sum is 0.
LEMMA SumSeqEmpty == SumSeq(<<>>) = 0
<1>1. <<>> \in Seq(Nat) /\ Len(<<>>) = 0 OBVIOUS
<1>2. PICK f : PrefixSums(f, <<>>, Len(<<>>)) BY <1>1, PrefixSumsExist
<1>3. SumSeq(<<>>) = f[Len(<<>>)] BY <1>1, <1>2, SumSeqIsPrefixSum
<1>4. QED BY <1>1, <1>2, <1>3 DEF PrefixSums

\* Appending an element adds it to the sum.
LEMMA SumSeqAppend ==
    ASSUME NEW s \in Seq(Nat), NEW x \in Nat
    PROVE  SumSeq(Append(s, x)) = SumSeq(s) + x
<1> DEFINE t == Append(s, x)
           n == Len(s)
<1>1. /\ t \in Seq(Nat) /\ n \in Nat /\ Len(t) = n + 1 /\ t[n + 1] = x
      /\ \A i \in 1..n : t[i] = s[i]
  OBVIOUS
<1> HIDE DEF t
<1>2. PICK f : PrefixSums(f, s, n) BY PrefixSumsExist
<1>3. SumSeq(s) = f[n] BY <1>2, SumSeqIsPrefixSum
<1> HIDE DEF n
<1> DEFINE g == [i \in 0..(n+1) |-> IF i = n + 1 THEN f[n] + x ELSE f[i]]
<1>4. g \in [0..(n+1) -> Nat] /\ g[0] = 0 BY <1>1, <1>2 DEF PrefixSums
<1>5. ASSUME NEW i \in 1..(n+1) PROVE g[i] = g[i-1] + t[i]
  <2>1. CASE i = n + 1
    <3>1. g[n+1] = f[n] + x /\ g[n] = f[n] /\ (n + 1) - 1 = n BY <1>1
    <3>2. QED BY <1>1, <2>1, <3>1
  <2>2. CASE i # n + 1
    <3>1. i \in 1..n /\ i - 1 \in 0..n /\ i \in 0..n BY <1>1, <2>2
    <3>2. g[i] = f[i] /\ g[i-1] = f[i-1] BY <1>1, <3>1
    <3>3. QED BY <1>1, <1>2, <3>1, <3>2 DEF PrefixSums
  <2>3. QED BY <2>1, <2>2
<1>6. PrefixSums(g, t, Len(t)) BY <1>1, <1>4, <1>5 DEF PrefixSums
<1>7. SumSeq(t) = g[Len(t)] BY <1>1, <1>6, SumSeqIsPrefixSum
<1>8. SumSeq(t) = f[n] + x BY <1>1, <1>7
<1>9. QED BY <1>3, <1>8 DEF t

\* Prepending an element adds it to the sum.
LEMMA SumSeqCons ==
    ASSUME NEW s \in Seq(Nat), NEW x \in Nat
    PROVE  SumSeq(<<x>> \o s) = x + SumSeq(s)
<1> DEFINE t == <<x>> \o s
           n == Len(s)
<1>1. /\ t \in Seq(Nat) /\ n \in Nat /\ Len(t) = n + 1 /\ t[1] = x
      /\ \A i \in 1..n : t[i+1] = s[i]
  OBVIOUS
<1> HIDE DEF t
<1>2. PICK f : PrefixSums(f, s, n) BY PrefixSumsExist
<1>3. SumSeq(s) = f[n] BY <1>2, SumSeqIsPrefixSum
<1> HIDE DEF n
<1> DEFINE g == [i \in 0..(n+1) |-> IF i = 0 THEN 0 ELSE x + f[i-1]]
<1>4. g \in [0..(n+1) -> Nat] /\ g[0] = 0 BY <1>1, <1>2 DEF PrefixSums
<1>5. ASSUME NEW i \in 1..(n+1) PROVE g[i] = g[i-1] + t[i]
  <2>1. CASE i = 1
    <3>1. g[1] = x + f[0] /\ f[0] = 0 /\ g[0] = 0 BY <1>1, <1>2 DEF PrefixSums
    <3>2. QED BY <1>1, <2>1, <3>1
  <2>2. CASE i # 1
    <3>1. i - 1 \in 1..n /\ i - 1 # 0 /\ (i - 1) + 1 = i /\ (i - 1) - 1 \in 0..n
      BY <1>1, <2>2
    <3>2. g[i] = x + f[i-1] /\ g[i-1] = x + f[(i-1)-1] BY <1>1, <3>1
    <3>3. f[i-1] = f[(i-1)-1] + s[i-1] /\ t[i] = s[i-1] BY <1>1, <1>2, <3>1 DEF PrefixSums
    <3>4. f[(i-1)-1] \in Nat /\ s[i-1] \in Nat
      <4>1. s[i-1] \in Nat BY <3>1 DEF n
      <4>2. QED BY <4>1, <1>2, <3>1 DEF PrefixSums
    <3>5. QED BY <3>2, <3>3, <3>4
  <2>3. QED BY <2>1, <2>2
<1>6. PrefixSums(g, t, Len(t)) BY <1>1, <1>4, <1>5 DEF PrefixSums
<1>7. SumSeq(t) = g[Len(t)] BY <1>1, <1>6, SumSeqIsPrefixSum
<1>8. SumSeq(t) = x + f[n] BY <1>1, <1>7
<1>9. QED BY <1>3, <1>8 DEF t

\* Removing the first element subtracts it from the sum.
LEMMA SumSeqTail ==
    ASSUME NEW s \in Seq(Nat), s # <<>>
    PROVE  SumSeq(s) = Head(s) + SumSeq(Tail(s))
<1>1. Tail(s) \in Seq(Nat) /\ Head(s) \in Nat /\ s = <<Head(s)>> \o Tail(s)
  OBVIOUS
<1>2. SumSeq(<<Head(s)>> \o Tail(s)) = Head(s) + SumSeq(Tail(s))
  BY <1>1, SumSeqCons
<1>3. QED BY <1>1, <1>2

\* A pointwise smaller sequence has a smaller sum.
LEMMA SumSeqMonotone ==
    ASSUME NEW s \in Seq(Nat), NEW t \in Seq(Nat), Len(s) = Len(t),
           \A i \in 1..Len(s) : s[i] <= t[i]
    PROVE  SumSeq(s) <= SumSeq(t)
<1>1. PICK f : PrefixSums(f, s, Len(s)) BY PrefixSumsExist
<1>2. PICK g : PrefixSums(g, t, Len(t)) BY PrefixSumsExist
<1>3. SumSeq(s) = f[Len(s)] BY <1>1, SumSeqIsPrefixSum
<1>4. SumSeq(t) = g[Len(t)] BY <1>2, SumSeqIsPrefixSum
<1>5. Len(s) \in Nat /\ \A i \in 1..Len(s) : s[i] \in Nat /\ t[i] \in Nat /\ s[i] <= t[i]
  OBVIOUS
<1>6. \A k \in 0..Len(s) : f[k] <= g[k]
  BY <1>1, <1>2, <1>5, PrefixSumsMonotone
<1>7. QED BY <1>3, <1>4, <1>5, <1>6

\* A sum of numbers up to m is at most m times their number.
LEMMA SumSeqBounded ==
    ASSUME NEW s \in Seq(Nat), NEW m \in Nat, \A i \in 1..Len(s) : s[i] <= m
    PROVE  SumSeq(s) <= Len(s) * m
<1>1. PICK f : PrefixSums(f, s, Len(s)) BY PrefixSumsExist
<1> DEFINE S == {k \in 0..Len(s) : f[k] <= k * m}
<1>2. Len(s) \in Nat OBVIOUS
<1>3. 0 \in S BY <1>1, <1>2 DEF PrefixSums
<1>4. ASSUME NEW k \in 0..Len(s), k # Len(s), k \in S PROVE k + 1 \in S
  <2>1. k + 1 \in 1..Len(s) /\ (k + 1) - 1 = k BY <1>2, <1>4
  <2>2. f[k + 1] = f[k] + s[k + 1] BY <1>1, <2>1 DEF PrefixSums
  <2>3. f[k] \in Nat /\ f[k] <= k * m BY <1>1, <1>4 DEF PrefixSums
  <2>4. s[k + 1] \in Nat /\ s[k + 1] <= m BY <2>1
  <2>5. k * m \in Nat /\ (k + 1) * m = k * m + m BY <1>2
  <2>6. f[k + 1] <= (k + 1) * m BY <2>2, <2>3, <2>4, <2>5
  <2>7. QED BY <2>1, <2>6
<1>5. \A k \in 0..Len(s) : k \in S
  <2> HIDE DEF S
  <2> QED BY <1>2, <1>3, <1>4, InductionTo
<1>6. f[Len(s)] <= Len(s) * m BY <1>2, <1>5
<1>7. QED BY <1>1, <1>6, SumSeqIsPrefixSum

\* t holds the elements a + 1 to b of s.
PartOf(t, s, a, b) == Len(t) = b - a /\ \A i \in 1..(b - a) : t[i] = s[a + i]

\* The sum of a part of a sequence is a difference of prefix sums.
LEMMA SumSeqRange ==
    ASSUME NEW s \in Seq(Nat), NEW f, PrefixSums(f, s, Len(s)),
           NEW a \in 0..Len(s), NEW b \in a..Len(s),
           NEW t \in Seq(Nat), PartOf(t, s, a, b)
    PROVE  SumSeq(t) + f[a] = f[b]
<1> USE DEF PartOf
<1>1. PICK g : PrefixSums(g, t, Len(t)) BY PrefixSumsExist
<1>2. PICK n \in Nat : n = Len(t) /\ b = a + n
  <2>1. b - a \in Nat /\ b = a + (b - a) OBVIOUS
  <2>2. QED BY <2>1
<1> DEFINE S == {k \in 0..n : g[k] + f[a] = f[a + k]}
<1>3. f \in [0..Len(s) -> Nat] /\ g \in [0..n -> Nat] /\ g[0] = 0 BY <1>1, <1>2 DEF PrefixSums
<1>4. 0 \in S BY <1>2, <1>3
<1>5. ASSUME NEW k \in 0..n, k # n, k \in S PROVE k + 1 \in S
  <2>0. a \in Nat /\ b \in Nat /\ k \in Nat /\ n \in Nat /\ Len(s) \in Nat /\ b <= Len(s) OBVIOUS
  <2>1. k + 1 \in 1..n /\ (k + 1) - 1 = k /\ k + 1 \in 1..(b - a) BY <1>2, <1>5
  <2>2. g[k + 1] = g[k] + t[k + 1] BY <1>1, <1>2, <2>1 DEF PrefixSums
  <2>9. a + (k + 1) \in 1..Len(s) /\ (a + (k + 1)) - 1 = a + k BY <1>2, <2>0, <2>1
  <2>3. PICK j \in 1..Len(s) : j = a + (k + 1) /\ j - 1 = a + k BY <2>9
  <2>4. f[j] = f[j - 1] + s[j] BY DEF PrefixSums
  <2>5. t[k + 1] = s[j] BY <2>1, <2>3
  <2>6. g[k] \in Nat /\ f[a] \in Nat /\ f[a + k] \in Nat /\ s[j] \in Nat
    <3>1. a + k \in 0..Len(s) BY <2>0, <2>9
    <3>2. g[k] \in Nat /\ f[a] \in Nat /\ f[a + k] \in Nat BY <1>3, <3>1
    <3>3. s[j] \in Nat OBVIOUS
    <3>4. QED BY <3>2, <3>3
  <2>7. g[k + 1] + f[a] = f[a + (k + 1)]
    <3>1. g[k] + f[a] = f[a + k] BY <1>5
    <3>2. f[j] = f[a + k] + s[j] BY <2>3, <2>4
    <3>3. g[k + 1] = g[k] + s[j] BY <2>2, <2>5
    <3>4. (g[k] + s[j]) + f[a] = (g[k] + f[a]) + s[j] BY <2>6
    <3>5. f[a + (k + 1)] = f[j] BY <2>3
    <3>6. QED BY <3>1, <3>2, <3>3, <3>4, <3>5
  <2>8. QED BY <2>1, <2>7
<1>6. \A k \in 0..n : k \in S
  <2> HIDE DEF S
  <2> QED BY <1>4, <1>5, InductionTo
<1>7. g[n] + f[a] = f[a + n] BY <1>6
<1>8. SumSeq(t) = g[n] BY <1>1, <1>2, SumSeqIsPrefixSum
<1>9. QED BY <1>2, <1>7, <1>8

\* The sum of a sequence is the sum of its two parts.
LEMMA SumSeqSplit ==
    ASSUME NEW s \in Seq(Nat), NEW j \in 0..Len(s),
           NEW t \in Seq(Nat), Len(t) = j, \A i \in 1..j : t[i] = s[i],
           NEW u \in Seq(Nat), Len(u) = Len(s) - j, \A i \in 1..(Len(s) - j) : u[i] = s[j + i]
    PROVE  SumSeq(s) = SumSeq(t) + SumSeq(u)
<1>1. PICK f : PrefixSums(f, s, Len(s)) BY PrefixSumsExist
<1>2. SumSeq(s) = f[Len(s)] BY <1>1, SumSeqIsPrefixSum
<1>3. PICK n \in Nat : n = Len(s) OBVIOUS
<1>4. f \in [0..n -> Nat] /\ f[0] = 0 BY <1>1, <1>3 DEF PrefixSums
<1>5. SumSeq(t) + f[0] = f[j]
  <2>1. PICK a \in 0..Len(s) : a = 0 BY <1>3
  <2>2. j \in a..Len(s) /\ Len(t) = j - a BY <2>1
  <2>3. \A i \in 1..(j - a) : t[i] = s[a + i]
    <3>1. ASSUME NEW i \in 1..(j - a) PROVE i \in 1..j /\ a + i = i BY <2>1
    <3>2. QED BY <3>1
  <2>4. PartOf(t, s, a, j) BY <2>2, <2>3 DEF PartOf
  <2>5. SumSeq(t) + f[a] = f[j] BY <1>1, <2>2, <2>4, SumSeqRange
  <2>6. QED BY <2>1, <2>5
<1>6. SumSeq(u) + f[j] = f[Len(s)]
  <2>1. PICK b \in j..Len(s) : b = Len(s) BY <1>3
  <2>2. Len(u) = b - j /\ \A i \in 1..(b - j) : u[i] = s[j + i] BY <2>1
  <2>3. PartOf(u, s, j, b) BY <2>2 DEF PartOf
  <2>4. SumSeq(u) + f[j] = f[b] BY <1>1, <2>3, SumSeqRange
  <2>5. QED BY <2>1, <2>4
<1>7. SumSeq(t) \in Nat /\ SumSeq(u) \in Nat BY SumSeqType
<1>8. f[j] \in Nat /\ f[Len(s)] \in Nat
  <2>1. j \in 0..n /\ n \in 0..n BY <1>3
  <2>2. QED BY <1>3, <1>4, <2>1
<1>9. QED BY <1>2, <1>4, <1>5, <1>6, <1>7, <1>8

\* Changing one element changes the sum by the difference.
LEMMA SumSeqUpdate ==
    ASSUME NEW s \in Seq(Nat), NEW t \in Seq(Nat), Len(s) = Len(t),
           NEW j \in 1..Len(s), \A i \in 1..Len(s) : i # j => s[i] = t[i]
    PROVE  SumSeq(t) + s[j] = SumSeq(s) + t[j]
<1> DEFINE n == Len(s)
           a(k) == IF k < j THEN 0 ELSE s[j]
           b(k) == IF k < j THEN 0 ELSE t[j]
<1>1. PICK f : PrefixSums(f, s, n) BY PrefixSumsExist
<1>2. PICK g : PrefixSums(g, t, n) BY PrefixSumsExist
<1>3. SumSeq(s) = f[n] /\ SumSeq(t) = g[n] BY <1>1, <1>2, SumSeqIsPrefixSum
<1>4. /\ n \in Nat /\ j \in 1..n
      /\ \A i \in 1..n : s[i] \in Nat /\ t[i] \in Nat
      /\ \A i \in 1..n : i # j => s[i] = t[i]
  OBVIOUS
<1> HIDE DEF n
<1> DEFINE S == {k \in 0..n : g[k] + a(k) = f[k] + b(k)}
<1>5. 0 \in S BY <1>1, <1>2, <1>4 DEF PrefixSums
<1>6. ASSUME NEW k \in 0..n, k # n, k \in S PROVE k + 1 \in S
  <2>1. k + 1 \in 1..n /\ (k + 1) - 1 = k /\ k + 1 \in 0..n /\ k \in Nat BY <1>4, <1>6
  <2>2. f[k+1] = f[k] + s[k+1] /\ g[k+1] = g[k] + t[k+1]
    BY <1>1, <1>2, <2>1 DEF PrefixSums
  <2>3. f[k] \in Nat /\ g[k] \in Nat BY <1>1, <1>2 DEF PrefixSums
  <2>4. s[k+1] \in Nat /\ t[k+1] \in Nat /\ s[j] \in Nat /\ t[j] \in Nat
    BY <1>4, <2>1
  <2>5. g[k] + a(k) = f[k] + b(k) BY <1>6
  <2>6. g[k+1] + a(k+1) = f[k+1] + b(k+1)
    <3>1. CASE k + 1 < j
      <4>1. s[k+1] = t[k+1] BY <1>4, <2>1, <3>1
      <4>2. k < j BY <1>4, <2>1, <3>1
      <4>3. QED BY <2>2, <2>3, <2>4, <2>5, <3>1, <4>1, <4>2
    <3>2. CASE k + 1 = j
      <4>1. k < j BY <2>1, <3>2
      <4>2. f[k] = g[k] BY <2>3, <2>5, <4>1
      <4>3. ~(k + 1 < j) BY <2>1, <3>2
      <4>4. QED BY <2>2, <2>3, <2>4, <3>2, <4>2, <4>3
    <3>3. CASE k + 1 > j
      <4>1. s[k+1] = t[k+1] BY <1>4, <2>1, <3>3
      <4>2. ~(k < j) /\ ~(k + 1 < j) BY <1>4, <2>1, <3>3
      <4>3. a(k) = s[j] /\ b(k) = t[j] /\ a(k+1) = s[j] /\ b(k+1) = t[j] BY <4>2
      <4>4. g[k] + s[j] = f[k] + t[j] BY <2>5, <4>3
      <4>5. (g[k] + t[k+1]) + s[j] = (f[k] + s[k+1]) + t[j]
        <5>1. PICK p \in Nat : p = g[k] BY <2>3
        <5>2. PICK q \in Nat : q = f[k] BY <2>3
        <5>3. PICK u \in Nat : u = s[j] BY <2>4
        <5>4. PICK v \in Nat : v = t[j] BY <2>4
        <5>5. PICK c \in Nat : c = s[k+1] BY <2>4
        <5>6. p + u = q + v BY <4>4, <5>1, <5>2, <5>3, <5>4
        <5>7. (p + c) + u = (q + c) + v BY <5>6
        <5>8. QED BY <4>1, <5>1, <5>2, <5>3, <5>4, <5>5, <5>7
      <4>6. QED BY <2>2, <4>3, <4>5
    <3>4. QED BY <1>4, <2>1, <3>1, <3>2, <3>3
  <2>7. QED BY <2>1, <2>6
<1>7. \A k \in 0..n : k \in S
  <2> HIDE DEF S
  <2> QED BY <1>4, <1>5, <1>6, InductionTo
<1>8. n \in S /\ ~(n < j) BY <1>4, <1>7
<1>9. QED BY <1>3, <1>8
-----------------------------------------------------------------------------
\* The elements of a sequence.
Elements(s) == {s[i] : i \in DOMAIN s}

\* WithoutAll(s, S) has the elements of s outside S, and no duplicates if s
\* has none.
LEMMA WithoutAllProperties ==
    ASSUME NEW E, NEW s \in Seq(E), NEW R
    PROVE  /\ WithoutAll(s, R) \in Seq(E)
           /\ Elements(WithoutAll(s, R)) = Elements(s) \ R
           /\ IsDistinct(s) => IsDistinct(WithoutAll(s, R))
<1> DEFINE n == Len(s)
           step == [x \in (1..n) \X Seq(E) |->
                      IF s[x[1]] \in R THEN x[2] ELSE Append(x[2], s[x[1]])]
           Body(h) == [k \in 0..n |->
                         IF k = 0 THEN <<>>
                         ELSE IF s[k] \in R THEN h[k-1] ELSE Append(h[k-1], s[k])]
           c == CHOOSE h : h = Body(h)
<1>1. n \in Nat /\ \A i \in 1..n : s[i] \in E OBVIOUS
<1>2. step \in [(1..n) \X Seq(E) -> Seq(E)] BY <1>1
<1>3. PICK f : DefinedTo(f, n, Seq(E), <<>>, step)
  <2>1. <<>> \in Seq(E) OBVIOUS
  <2> HIDE DEF step, n
  <2> QED BY <1>1, <1>2, <2>1, RecursionTo
<1>4. ASSUME NEW i \in 1..n
      PROVE  f[i] = IF s[i] \in R THEN f[i-1] ELSE Append(f[i-1], s[i])
  <2>1. i - 1 \in 0..n BY <1>1
  <2>2. <<i, f[i - 1]>> \in (1..n) \X Seq(E) BY <1>3, <2>1 DEF DefinedTo
  <2>3. QED BY <1>3, <2>2 DEF DefinedTo
<1>5. f = Body(f)
  <2>1. \A k \in 0..n : k = 0 \/ k \in 1..n BY <1>1
  <2>2. f \in [0..n -> Seq(E)] /\ f[0] = <<>> BY <1>3 DEF DefinedTo
  <2>3. ASSUME NEW k \in 0..n PROVE f[k] = Body(f)[k] BY <1>4, <2>1, <2>2
  <2>4. DOMAIN f = 0..n /\ DOMAIN Body(f) = 0..n BY <2>2
  <2>5. QED BY <2>2, <2>3
<1>6. c = Body(c) BY <1>5
<1>7. WithoutAll(s, R) = c[n] BY DEF WithoutAll
<1> HIDE DEF c
<1> DEFINE S == {k \in 0..n : /\ c[k] \in Seq(E)
                              /\ Elements(c[k]) = {s[i] : i \in 1..k} \ R
                              /\ IsDistinct(s) => IsDistinct(c[k])}
<1>8. 0 \in S
  <2>1. c[0] = <<>> BY <1>1, <1>6
  <2>2. Elements(<<>>) = {} /\ IsDistinct(<<>>) BY DEF Elements, IsDistinct
  <2>3. {s[i] : i \in 1..0} = {} OBVIOUS
  <2>4. <<>> \in Seq(E) /\ 0 \in 0..n BY <1>1
  <2>5. QED BY <2>1, <2>2, <2>3, <2>4
<1>9. ASSUME NEW k \in 0..n, k # n, k \in S PROVE k + 1 \in S
  <2>1. k \in Nat /\ k + 1 \in 1..n /\ k + 1 \in 0..n /\ k + 1 # 0 /\ (k + 1) - 1 = k
    BY <1>1, <1>9
  <2>2. c[k+1] = IF s[k+1] \in R THEN c[k] ELSE Append(c[k], s[k+1]) BY <1>6, <2>1
  <2>3. 1..(k+1) = (1..k) \cup {k+1} BY <2>1
  <2>4. {s[i] : i \in 1..(k+1)} = {s[i] : i \in 1..k} \cup {s[k+1]} BY <2>3
  <2>5. /\ c[k] \in Seq(E) /\ Elements(c[k]) = {s[i] : i \in 1..k} \ R
        /\ IsDistinct(s) => IsDistinct(c[k])
    BY <1>9
  <2>6. CASE s[k+1] \in R
    BY <2>1, <2>2, <2>4, <2>5, <2>6
  <2>7. CASE s[k+1] \notin R
    <3> DEFINE q == c[k]
               x == s[k+1]
    <3>1. c[k+1] = Append(q, x) BY <2>2, <2>7
    <3>2. x \in E /\ q \in Seq(E) BY <1>1, <2>1, <2>5
    <3>3. x \in E BY <3>2
    <3>4. Elements(q) = {s[i] : i \in 1..k} \ R BY <2>5
    <3>5. IsDistinct(s) => IsDistinct(q) BY <2>5
    <3>6. IsDistinct(s) => x \notin Elements(q)
      <4>1. ASSUME IsDistinct(s), NEW i \in 1..k PROVE s[i] # s[k+1]
        <5>1. i \in DOMAIN s /\ k + 1 \in DOMAIN s /\ i # k + 1 BY <2>1, <1>1
        <5>2. QED BY <4>1, <5>1 DEF IsDistinct
      <4>2. QED BY <3>4, <4>1
    <3> HIDE DEF q, x
    <3>7. Append(q, x) \in Seq(E) BY <3>2
    <3>8. DOMAIN Append(q, x) = DOMAIN q \cup {Len(q) + 1} /\ Append(q, x)[Len(q) + 1] = x
      BY <3>2
    <3>9. \A i \in DOMAIN q : Append(q, x)[i] = q[i] /\ i # Len(q) + 1 BY <3>2
    <3>10. Elements(Append(q, x)) = Elements(q) \cup {x}
      BY <3>8, <3>9 DEF Elements
    <3>11. IsDistinct(s) => IsDistinct(Append(q, x))
      <4> SUFFICES ASSUME IsDistinct(s), NEW i \in DOMAIN Append(q, x),
                          NEW j \in DOMAIN Append(q, x), Append(q, x)[i] = Append(q, x)[j]
                   PROVE  i = j
        BY DEF IsDistinct
      <4>1. \A a \in DOMAIN q : q[a] # x BY <3>6 DEF Elements
      <4>2. CASE i \in DOMAIN q /\ j \in DOMAIN q
        BY <4>2, <3>5, <3>9 DEF IsDistinct
      <4>3. QED BY <3>8, <3>9, <4>1, <4>2
    <3>12. Elements(c[k+1]) = {s[i] : i \in 1..(k+1)} \ R
      <4>1. ({s[i] : i \in 1..k} \cup {x}) \ R = ({s[i] : i \in 1..k} \ R) \cup {x}
        BY <2>7 DEF x
      <4>2. QED BY <2>4, <3>1, <3>4, <3>10, <4>1 DEF x
    <3>13. QED BY <2>1, <3>1, <3>7, <3>11, <3>12
  <2>8. QED BY <2>6, <2>7
<1>10. \A k \in 0..n : k \in S
  <2> HIDE DEF S
  <2> QED BY <1>1, <1>8, <1>9, InductionTo
<1>11. n \in S
  <2>1. n \in 0..n BY <1>1
  <2> HIDE DEF S
  <2> QED BY <1>10, <2>1
<1>12. Elements(s) = {s[i] : i \in 1..n} BY DEF Elements
<1>13. /\ c[n] \in Seq(E) /\ Elements(c[n]) = {s[i] : i \in 1..n} \ R
       /\ IsDistinct(s) => IsDistinct(c[n])
  BY <1>11
<1>14. QED BY <1>7, <1>12, <1>13

\* Without(s, e) has the elements of s other than e, and no duplicates if s
\* has none.
LEMMA WithoutProperties ==
    ASSUME NEW E, NEW s \in Seq(E), NEW e
    PROVE  /\ Without(s, e) \in Seq(E)
           /\ Elements(Without(s, e)) = Elements(s) \ {e}
           /\ IsDistinct(s) => IsDistinct(Without(s, e))
BY WithoutAllProperties DEF Without
=============================================================================
