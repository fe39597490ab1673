----------------------------- MODULE DataLemmas -----------------------------
(***************************************************************************)
(* Facts about numbers and sequences that the proofs of several protocols  *)
(* use.                                                                    *)
(***************************************************************************)
EXTENDS SequencesExt, SequenceTheorems, FiniteSetTheorems, TLAPS

\* Induction over the natural numbers, with a set in the place of a predicate.
\* If n were missing, the numbers up to n that are missing would be mapped
\* into themselves by k |-> k - 1, one to one, and n would have no origin.
LEMMA NatSetInduction ==
  ASSUME NEW A, 0 \in A, \A n \in Nat : n \in A => n + 1 \in A
  PROVE  \A n \in Nat : n \in A
<1> SUFFICES ASSUME NEW n \in Nat, n \notin A
             PROVE  FALSE
  OBVIOUS
<1> DEFINE B == {k \in 0 .. n : k \notin A}
           f == [k \in B |-> k - 1]
<1>1. IsFiniteSet(B)
  BY FS_Interval, FS_Subset, B \subseteq 0 .. n, 0 \in Int, n \in Int
<1>2. \A k \in B : k - 1 \in B
  <2> TAKE k \in B
  <2>1. k # 0
    OBVIOUS
  <2>2. k - 1 \in Nat
    BY <2>1
  <2> QED
    BY <2>2
<1>3. f \in Injection(B, B)
  BY <1>2 DEF Injection, IsInjective
<1>4. f \in Surjection(B, B)
  BY <1>1, <1>3, FS_Injection
<1>5. PICK k \in B : f[k] = n
  BY <1>4, n \in B DEF Surjection
<1> QED
  BY <1>5

\* The i-th step of a loop takes S[i - 1] into S[i]; f is a run of it from b.
IsLoop(g, n, S) == \A i \in 1 .. n : \A x \in S[i - 1] : g[i][x] \in S[i]
IsRun(f, g, n, b) ==
  f = [i \in 0 .. n |-> IF i = 0 THEN b ELSE g[i][f[i - 1]]]

\* A loop has a run, which stays in these sets.
LEMMA LoopRuns ==
  ASSUME NEW n \in Nat, NEW S, NEW b \in S[0], NEW g, IsLoop(g, n, S)
  PROVE  \E f : IsRun(f, g, n, b) /\ \A i \in 0 .. n : f[i] \in S[i]
<1> USE DEF IsLoop, IsRun
<1> DEFINE Run(k, f) ==
             /\ f = [i \in 0 .. k |-> IF i = 0 THEN b ELSE g[i][f[i - 1]]]
             /\ \A i \in 0 .. k : f[i] \in S[i]
           A == {k \in Nat : k <= n => \E f : Run(k, f)}
<1>1. 0 \in A
  <2> DEFINE f == [i \in 0 .. 0 |-> b]
  <2>1. Run(0, f)
    OBVIOUS
  <2> QED
    BY <2>1
<1>2. ASSUME NEW k \in Nat, k \in A
      PROVE  k + 1 \in A
  <2> SUFFICES ASSUME k + 1 <= n
               PROVE  \E f : Run(k + 1, f)
    OBVIOUS
  <2>1. PICK f : Run(k, f)
    BY <1>2
  <2> DEFINE h == [i \in 0 .. k + 1 |-> IF i = k + 1 THEN g[k + 1][f[k]] ELSE f[i]]
  <2>2. \A i \in 0 .. k : f[i] \in S[i] /\ f[i] = IF i = 0 THEN b ELSE g[i][f[i - 1]]
    BY <2>1
  <2>3. g[k + 1][f[k]] \in S[k + 1]
    <3>1. f[k] \in S[k] /\ k + 1 \in 1 .. n /\ (k + 1) - 1 = k
      BY <2>2
    <3> QED
      BY <3>1
  <2>4. ASSUME NEW i \in 0 .. k + 1
        PROVE  /\ h[i] \in S[i]
               /\ h[i] = IF i = 0 THEN b ELSE g[i][h[i - 1]]
    <3>1. CASE i = k + 1
      <4>1. i # 0 /\ i - 1 = k /\ h[i - 1] = f[k] /\ h[i] = g[k + 1][f[k]]
        BY <3>1
      <4> QED
        BY <2>3, <3>1, <4>1
    <3>2. CASE i # k + 1
      <4>1. i \in 0 .. k /\ h[i] = f[i] /\ (i # 0 => h[i - 1] = f[i - 1])
        BY <3>2
      <4> QED
        BY <2>2, <4>1
    <3> QED
      BY <3>1, <3>2
  <2>5. h = [i \in 0 .. k + 1 |-> IF i = 0 THEN b ELSE g[i][h[i - 1]]]
    BY <2>4
  <2>6. Run(k + 1, h)
    BY <2>4, <2>5
  <2> QED
    BY <2>6
<1>3. n \in A
  <2> HIDE DEF A
  <2> QED
    BY <1>1, <1>2, NatSetInduction
<1> QED
  BY <1>3

\* A sequence of steps from S[i - 1] to S[i] ends in S[n].
LEMMA LoopStays ==
  ASSUME NEW n \in Nat, NEW S, NEW f, f[0] \in S[0],
         \A i \in 1 .. n : f[i - 1] \in S[i - 1] => f[i] \in S[i]
  PROVE  f[n] \in S[n]
<1> DEFINE A == {k \in Nat : k <= n => f[k] \in S[k]}
<1>1. 0 \in A
  OBVIOUS
<1>2. \A k \in Nat : k \in A => k + 1 \in A
  <2> SUFFICES ASSUME NEW k \in Nat, k \in A, k + 1 <= n
               PROVE  f[k + 1] \in S[k + 1]
    OBVIOUS
  <2>1. f[k] \in S[k] /\ k + 1 \in 1 .. n /\ (k + 1) - 1 = k
    OBVIOUS
  <2> QED
    BY <2>1
<1>3. n \in A
  <2> HIDE DEF A
  <2> QED
    BY <1>1, <1>2, NatSetInduction
<1> QED
  BY <1>3

\* At most is transitive.
LEMMA AtMostTransitive ==
  ASSUME NEW x \in Int, NEW y \in Int, NEW z \in Int, x <= y, y <= z
  PROVE  x <= z
OBVIOUS

\* Max of a bounded set of numbers is its largest element.
LEMMA MaxIsLargest ==
  ASSUME NEW S \in SUBSET Nat, S # {}, NEW n \in Nat, \A x \in S : x <= n
  PROVE  Max(S) \in S /\ \A y \in S : y <= Max(S)
<1> DEFINE A == {k \in Nat : (\E x \in S : x >= n - k)
                              => \E x \in S : \A y \in S : x >= y}
<1>1. 0 \in A
  OBVIOUS
<1>2. \A k \in Nat : k \in A => k + 1 \in A
  <2> SUFFICES ASSUME NEW k \in Nat, k \in A, NEW x \in S, x >= n - (k + 1)
               PROVE  \E z \in S : \A y \in S : z >= y
    OBVIOUS
  <2>1. CASE \E y \in S : y >= n - k
    BY <2>1
  <2>2. CASE \A y \in S : ~(y >= n - k)
    <3>1. \A y \in S : y <= x
      BY <2>2
    <3> QED
      BY <3>1
  <2> QED
    BY <2>1, <2>2
<1>3. n \in A
  <2> HIDE DEF A
  <2> QED
    BY <1>1, <1>2, NatSetInduction
<1>4. \E x \in S : \A y \in S : x >= y
  <2>1. PICK x \in S : x \in Nat
    OBVIOUS
  <2>2. x >= n - n
    BY <2>1
  <2> QED
    BY <1>3, <2>2
<1> QED
  BY <1>4 DEF Max

\* Sequences that agree up to n have the same prefix of length n.
LEMMA SamePrefix ==
  ASSUME NEW S, NEW a \in Seq(S), NEW b \in Seq(S), NEW n \in Nat,
         n <= Len(a), n <= Len(b), \A i \in 1 .. n : a[i] = b[i]
  PROVE  /\ SubSeq(a, 1, n) = SubSeq(b, 1, n) /\ SubSeq(a, 1, n) \in Seq(S)
         /\ Len(SubSeq(a, 1, n)) = n
         /\ \A i \in 1 .. n : SubSeq(a, 1, n)[i] = a[i]
<1>1. (\A i \in 1 .. n : a[i] \in S) /\ (\A i \in 1 .. n : b[i] \in S)
  OBVIOUS
<1>2. /\ SubSeq(a, 1, n) \in Seq(S) /\ Len(SubSeq(a, 1, n)) = n
      /\ \A i \in 1 .. n : SubSeq(a, 1, n)[i] = a[i]
  BY <1>1, SubSeqProperties
<1>3. /\ SubSeq(b, 1, n) \in Seq(S) /\ Len(SubSeq(b, 1, n)) = n
      /\ \A i \in 1 .. n : SubSeq(b, 1, n)[i] = b[i]
  BY <1>1, SubSeqProperties
<1>4. SubSeq(a, 1, n) = SubSeq(b, 1, n)
  BY <1>2, <1>3, SeqEqual
<1> QED
  BY <1>2, <1>4

\* The suffix of a sequence from one of its places on.
LEMMA SuffixElements ==
  ASSUME NEW S, NEW a \in Seq(S), NEW m \in 1 .. Len(a)
  PROVE  /\ SubSeq(a, m, Len(a)) \in Seq(S)
         /\ Len(SubSeq(a, m, Len(a))) = Len(a) - m + 1
         /\ \A i \in 1 .. (Len(a) - m + 1) : SubSeq(a, m, Len(a))[i] = a[m + i - 1]
<1> DEFINE n == Len(a)
<1>1. m \in Int /\ n \in Int /\ m <= n /\ \A i \in m .. n : a[i] \in S
  OBVIOUS
<1> HIDE DEF n
<1>2. /\ SubSeq(a, m, n) \in Seq(S)
      /\ Len(SubSeq(a, m, n)) = IF m <= n THEN n - m + 1 ELSE 0
      /\ \A i \in 1 .. n - m + 1 : SubSeq(a, m, n)[i] = a[m + i - 1]
  BY <1>1, SubSeqProperties
<1> QED
  BY <1>1, <1>2 DEF n

\* IsPrefix, element by element.
LEMMA PrefixByElements ==
  ASSUME NEW S, NEW a \in Seq(S), NEW b \in Seq(S)
  PROVE  IsPrefix(a, b) <=> Len(a) <= Len(b) /\ \A i \in 1 .. Len(a) : a[i] = b[i]
<1>1. Len(a) \in Nat /\ Len(b) \in Nat
  OBVIOUS
<1>2. ASSUME Len(a) <= Len(b), \A i \in 1 .. Len(a) : a[i] = b[i]
      PROVE  IsPrefix(a, b)
  BY <1>1, <1>2, SamePrefix DEF IsPrefix
<1>3. ASSUME IsPrefix(a, b), NEW i \in 1 .. Len(a)
      PROVE  a[i] = b[i]
  <2>1. Len(a) <= Len(b) /\ SubSeq(a, 1, Len(a)) = SubSeq(b, 1, Len(a))
    BY <1>3 DEF IsPrefix
  <2>2. SubSeq(a, 1, Len(a))[i] = a[i]
    BY <1>1, SamePrefix
  <2>3. SubSeq(b, 1, Len(a))[i] = b[i]
    BY <1>1, <2>1, SamePrefix
  <2> QED
    BY <2>1, <2>2, <2>3
<1> QED
  BY <1>2, <1>3 DEF IsPrefix
=============================================================================
