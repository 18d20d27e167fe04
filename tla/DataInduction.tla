---------------------------- MODULE DataInduction ----------------------------
(***************************************************************************)
(* Induction over numbers and over sequences of sequences, for the proofs  *)
(* about what the loops of the buffers compute.  The principles are stated *)
(* for sets, which a proof can name: a set that contains zero and is       *)
(* closed under successor, and the least element of a set of numbers.      *)
(***************************************************************************)
EXTENDS SequencesExt, FiniteSetTheorems, TLAPS

\* A set of natural numbers with an element has a least one: its initial
\* segments are finite sets, and inclusion is well founded on these.
LEMMA LeastNat ==
    ASSUME NEW T, T \subseteq Nat, T # {}
    PROVE  \E n \in T : \A k \in T : n <= k
<1> DEFINE below(n) == {k \in T : k <= n}
           F == {below(n) : n \in T}
<1>1. F \subseteq FiniteSubsetsOf(Nat) /\ F # {}
  <2>1. ASSUME NEW n \in T PROVE below(n) \in FiniteSubsetsOf(Nat)
    <3>1. below(n) \in SUBSET Nat /\ n \in Nat /\ \A s \in below(n) : s <= n
      OBVIOUS
    <3>2. IsFiniteSet(below(n))
      <4> HIDE DEF below
      <4> QED
        BY <3>1, FS_BoundedSetOfNaturals
    <3> QED
      BY <3>1, <3>2 DEF FiniteSubsetsOf
  <2> QED
    BY <2>1
<1>2. PICK X \in F : \A Y \in F : <<Y, X>> \notin StrictSubsetOrdering(Nat)
  <2>1. IsWellFoundedOn(StrictSubsetOrdering(Nat), FiniteSubsetsOf(Nat))
    BY FS_StrictSubsetOrderingWellFounded
  <2> HIDE DEF F
  <2> QED
    BY <1>1, <2>1, WFMin
<1>3. PICK n \in T : X = below(n)
  OBVIOUS
<1>4. ASSUME NEW k \in T, k < n PROVE FALSE
  <2>1. below(k) \in F
    OBVIOUS
  <2>0. k \in Nat /\ n \in Nat /\ \A m \in T : m \in Nat
    OBVIOUS
  <2>2. below(k) \subseteq below(n) /\ n \in below(n) /\ n \notin below(k)
    <3>1. ~(n <= k) /\ n <= n
      BY <1>4, <2>0
    <3>2. \A m \in T : m <= k => m <= n
      BY <1>4, <2>0
    <3> QED
      BY <3>1, <3>2
  <2>3. below(k) \in SUBSET Nat /\ below(n) \in SUBSET Nat /\ below(k) # below(n)
    BY <2>2
  <2>4. <<below(k), below(n)>> \in StrictSubsetOrdering(Nat)
    <3> HIDE DEF below
    <3> QED
      BY <2>2, <2>3 DEF StrictSubsetOrdering
  <2> QED
    BY <1>2, <1>3, <2>1, <2>4
<1>5. \A k \in T : n <= k
  BY <1>4
<1> QED
  BY <1>5

\* A set of natural numbers that is not empty and bounded has a greatest one.
LEMMA GreatestNat ==
    ASSUME NEW T, T \subseteq Nat, T # {}, NEW b \in Nat, \A k \in T : k <= b
    PROVE  \E n \in T : \A k \in T : k <= n
<1> DEFINE D == {b - k : k \in T}
<1>1. D \subseteq Nat /\ D # {}
  <2>1. \A k \in T : k \in Nat /\ b - k \in Nat
    OBVIOUS
  <2> QED
    BY <2>1
<1>2. PICK d \in D : \A k \in D : d <= k
  <2> HIDE DEF D
  <2> QED
    BY <1>1, LeastNat
<1>3. PICK n \in T : d = b - n
  OBVIOUS
<1>4. ASSUME NEW k \in T PROVE k <= n
  <2>1. d <= b - k
    BY <1>2
  <2> QED
    BY <1>3, <2>1
<1> QED
  BY <1>4

\* A set that contains zero, and with a number the next one, contains all.
LEMMA NatSetInduction ==
    ASSUME NEW S, 0 \in S, \A n \in Nat : n \in S => n + 1 \in S
    PROVE  \A n \in Nat : n \in S
<1> DEFINE T == {n \in Nat : n \notin S}
<1> SUFFICES ASSUME T # {} PROVE FALSE
  OBVIOUS
<1>1. PICK n \in T : \A k \in T : n <= k
  BY LeastNat
<1>2. n # 0 /\ n \in Nat
  OBVIOUS
<1>3. n - 1 \in Nat /\ n - 1 \notin T
  BY <1>1, <1>2
<1>4. n - 1 \in S
  BY <1>3
<1>5. (n - 1) + 1 \in S
  BY <1>3, <1>4
<1> QED
  BY <1>2, <1>5

(***************************************************************************)
(* Repetition: the values after each of n steps.                           *)
(***************************************************************************)
Repeated(s, x, g) == [n \in Nat |-> IF n = 0 THEN x ELSE s[<<n, g[n - 1]>>]]

\* The recursive function that repeats a step exists.
LEMMA RepeatedExists ==
    ASSUME NEW D, NEW s \in [Nat \X D -> D], NEW x \in D
    PROVE  \E g \in [Nat -> D] : g = Repeated(s, x, g)
<1> DEFINE Right(f, k) == /\ f \in [0 .. k -> D] /\ f[0] = x
                          /\ \A n \in 1 .. k : f[n] = s[<<n, f[n - 1]>>]
           S == {k \in Nat : \E f : Right(f, k)}
           upTo(k) == CHOOSE f : Right(f, k)
<1>1. 0 \in S
  <2>1. Right([n \in 0 .. 0 |-> x], 0)
    OBVIOUS
  <2> HIDE DEF Right
  <2> QED
    BY <2>1
<1>2. ASSUME NEW k \in Nat, k \in S PROVE k + 1 \in S
  <2>1. PICK f : Right(f, k)
    BY <1>2
  <2> DEFINE h == [n \in 0 .. k + 1 |-> IF n = k + 1 THEN s[<<k + 1, f[k]>>] ELSE f[n]]
  <2>2. f[k] \in D /\ s[<<k + 1, f[k]>>] \in D
    BY <2>1
  <2>3. h \in [0 .. k + 1 -> D] /\ h[0] = x
    BY <2>1, <2>2
  <2>4. ASSUME NEW n \in 1 .. k + 1 PROVE h[n] = s[<<n, h[n - 1]>>]
    <3>1. n - 1 \in 0 .. k /\ h[n - 1] = f[n - 1]
      OBVIOUS
    <3>2. CASE n = k + 1
      <4>1. n - 1 = k /\ h[n] = s[<<k + 1, f[k]>>]
        BY <3>2
      <4> QED
        BY <3>1, <3>2, <4>1
    <3>3. CASE n # k + 1
      <4>1. n \in 1 .. k /\ h[n] = f[n]
        BY <3>3
      <4> QED
        BY <2>1, <3>1, <4>1
    <3> QED
      BY <3>2, <3>3
  <2>5. Right(h, k + 1)
    BY <2>3, <2>4
  <2> HIDE DEF Right, h
  <2> QED
    BY <2>5
<1>3. \A k \in Nat : k \in S
  <2> HIDE DEF S
  <2> QED
    BY <1>1, <1>2, NatSetInduction
<1>4. \A k \in Nat : Right(upTo(k), k)
  <2> HIDE DEF Right
  <2> QED
    BY <1>3
<1> HIDE DEF upTo
\* Two such functions agree as far as both go.
<1>5. ASSUME NEW f, NEW h, NEW k \in Nat, Right(f, k), Right(h, k + 1)
      PROVE  f[k] = h[k]
  <2> DEFINE A == {n \in Nat : n <= k => f[n] = h[n]}
  <2>1. 0 \in A
    BY <1>5
  <2>2. ASSUME NEW n \in Nat, n \in A PROVE n + 1 \in A
    <3> SUFFICES ASSUME n + 1 <= k PROVE f[n + 1] = h[n + 1]
      OBVIOUS
    <3>1. n + 1 \in 1 .. k /\ n + 1 \in 1 .. k + 1 /\ (n + 1) - 1 = n
      OBVIOUS
    <3>2. f[n + 1] = s[<<n + 1, f[(n + 1) - 1]>>] /\ h[n + 1] = s[<<n + 1, h[(n + 1) - 1]>>]
      BY <1>5, <3>1
    <3>3. f[n] = h[n]
      BY <2>2
    <3> QED
      BY <3>1, <3>2, <3>3
  <2>3. k \in A
    <3> HIDE DEF A
    <3> QED
      BY <2>1, <2>2, NatSetInduction
  <2> QED
    BY <2>3
<1> DEFINE g == [n \in Nat |-> upTo(n)[n]]
<1>6. g \in [Nat -> D] /\ g[0] = x
  BY <1>4
<1>7. ASSUME NEW n \in Nat, n # 0 PROVE g[n] = s[<<n, g[n - 1]>>]
  <2>1. PICK k \in Nat : n = k + 1
    <3>1. n - 1 \in Nat /\ n = (n - 1) + 1
      BY <1>7
    <3> QED
      BY <3>1
  <2>2. PICK f : f = upTo(k)
    OBVIOUS
  <2>3. PICK h : h = upTo(n)
    OBVIOUS
  <2>4. Right(f, k) /\ Right(h, k + 1)
    BY <1>4, <2>1, <2>2, <2>3
  <2>5. f[k] = h[k]
    BY <1>5, <2>4
  <2>6. h[n] = s[<<n, h[k]>>]
    <3>1. n \in 1 .. k + 1 /\ n - 1 = k
      BY <2>1
    <3>2. h[n] = s[<<n, h[n - 1]>>]
      BY <2>4, <3>1
    <3> QED
      BY <3>1, <3>2
  <2>7. g[n] = h[n] /\ g[n - 1] = f[k]
    BY <2>1, <2>2, <2>3
  <2> QED
    BY <2>5, <2>6, <2>7
<1>8. g = Repeated(s, x, g)
  <2>1. g = [n \in Nat |-> g[n]]
    OBVIOUS
  <2> HIDE DEF g
  <2> QED
    BY <1>6, <1>7, <2>1 DEF Repeated
<1> HIDE DEF g
<1> QED
  BY <1>6, <1>8

(***************************************************************************)
(* A capacity that grows, step by step, until it is enough.                *)
(***************************************************************************)
Climbed(s, m, g) == [c \in Nat \ {0} |-> IF c >= m THEN c ELSE g[s[c]]]

\* The recursive function of such a loop exists when each step adds something.
LEMMA ClimbExists ==
    ASSUME NEW s \in [Nat \ {0} -> Nat \ {0}], \A c \in Nat \ {0} : s[c] > c, NEW m \in Nat
    PROVE  \E g : g = Climbed(s, m, g)
<1> DEFINE Right(f, k) == \A c \in Nat \ {0} : c + k >= m =>
                              f[c] = IF c >= m THEN c ELSE f[s[c]]
           S == {k \in Nat : \E f : Right(f, k)}
<1>1. 0 \in S
  <2>1. Right([c \in Nat \ {0} |-> c], 0)
    OBVIOUS
  <2> QED
    BY <2>1
<1>2. ASSUME NEW k \in Nat, k \in S PROVE k + 1 \in S
  <2>1. PICK f : Right(f, k)
    BY <1>2
  <2> DEFINE g == [c \in Nat \ {0} |-> IF c + k + 1 = m THEN f[s[c]] ELSE f[c]]
  <2>2. ASSUME NEW c \in Nat \ {0}, c + (k + 1) >= m
        PROVE  g[c] = IF c >= m THEN c ELSE g[s[c]]
    <3>1. s[c] \in Nat \ {0} /\ s[c] > c
      OBVIOUS
    <3>2. s[c] + k + 1 # m /\ g[s[c]] = f[s[c]]
      BY <2>2, <3>1
    <3>3. CASE c + k + 1 = m
      BY <3>2, <3>3
    <3>4. CASE c + k + 1 # m
      <4>1. c + k >= m /\ g[c] = f[c]
        BY <2>2, <3>4
      <4>2. f[c] = IF c >= m THEN c ELSE f[s[c]]
        BY <2>1, <4>1
      <4> QED
        BY <3>2, <4>1, <4>2
    <3> QED
      BY <3>3, <3>4
  <2>3. Right(g, k + 1)
    BY <2>2
  <2> HIDE DEF Right, g
  <2> QED
    BY <2>3
<1>3. m \in S
  <2> HIDE DEF S
  <2> QED
    BY <1>1, <1>2, NatSetInduction
<1>4. PICK f : Right(f, m)
  BY <1>3
<1> DEFINE g == [c \in Nat \ {0} |-> f[c]]
<1>5. ASSUME NEW c \in Nat \ {0} PROVE g[c] = IF c >= m THEN c ELSE g[s[c]]
  <2>1. s[c] \in Nat \ {0} /\ c + m >= m
    OBVIOUS
  <2> QED
    BY <1>4, <2>1
<1>6. g = [c \in Nat \ {0} |-> g[c]]
  OBVIOUS
<1>7. g = Climbed(s, m, g)
  <2> HIDE DEF g
  <2> QED
    BY <1>5, <1>6 DEF Climbed
<1> QED
  BY <1>7

\* It ends at a number that is enough, and not before its start.
LEMMA ClimbReaches ==
    ASSUME NEW s \in [Nat \ {0} -> Nat \ {0}], \A c \in Nat \ {0} : s[c] > c, NEW m \in Nat,
           NEW g, g = Climbed(s, m, g)
    PROVE  \A c \in Nat \ {0} : g[c] \in Nat \ {0} /\ g[c] >= m /\ g[c] >= c
<1> DEFINE Good(c) == g[c] \in Nat \ {0} /\ g[c] >= m /\ g[c] >= c
           T == {c \in Nat \ {0} : ~Good(c)}
<1>1. \A c \in Nat \ {0} : g[c] = IF c >= m THEN c ELSE g[s[c]]
  BY DEF Climbed
<1>2. \A c \in T : c < m
  BY <1>1
<1> SUFFICES ASSUME T # {} PROVE FALSE
  OBVIOUS
<1>3. PICK c \in T : \A k \in T : k <= c
  <2>1. T \subseteq Nat /\ \A k \in T : k <= m
    BY <1>2
  <2> HIDE DEF T
  <2> QED
    BY <2>1, GreatestNat
<1>4. s[c] \in Nat \ {0} /\ s[c] > c /\ s[c] \notin T
  BY <1>3
<1>5. Good(s[c])
  BY <1>4
<1>6. g[c] = g[s[c]]
  BY <1>1, <1>2
<1> QED
  BY <1>3, <1>4, <1>5, <1>6

(***************************************************************************)
(* FlattenSeq, the concatenation of a sequence of sequences.               *)
(***************************************************************************)

\* The step of the recursion inside FlattenSeq.
JoinUpTo(s, f, m) == [i \in 1 .. m |-> IF i = 1 THEN s[i] ELSE f[i - 1] \o s[i]]

\* The recursive function inside FlattenSeq exists, for every length.
LEMMA JoinedExists ==
    ASSUME NEW s, NEW m \in Nat
    PROVE  \E f : f = JoinUpTo(s, f, m)
<1> DEFINE S == {k \in Nat : \E f : f = JoinUpTo(s, f, k)}
<1>1. 0 \in S
  <2>1. \A f : JoinUpTo(s, f, 0) = [i \in {} |-> 0]
    BY DEF JoinUpTo
  <2>2. [i \in {} |-> 0] = JoinUpTo(s, [i \in {} |-> 0], 0)
    BY <2>1
  <2> QED
    BY <2>2
<1>2. ASSUME NEW k \in Nat, k \in S PROVE k + 1 \in S
  <2>1. PICK f : f = JoinUpTo(s, f, k)
    BY <1>2
  <2> DEFINE last == IF k + 1 = 1 THEN s[k + 1] ELSE f[k] \o s[k + 1]
             g == [i \in 1 .. k + 1 |-> IF i = k + 1 THEN last ELSE f[i]]
  <2>2. ASSUME NEW i \in 1 .. k + 1
        PROVE  g[i] = IF i = 1 THEN s[i] ELSE g[i - 1] \o s[i]
    <3>1. CASE i = k + 1
      <4>1. CASE i = 1
        BY <3>1, <4>1
      <4>2. CASE i # 1
        <5>1. i - 1 \in 1 .. k + 1 /\ i - 1 # k + 1 /\ i - 1 = k
          BY <3>1, <4>2
        <5>2. g[i - 1] = f[k]
          BY <5>1
        <5> QED
          BY <3>1, <4>2, <5>2
      <4> QED
        BY <4>1, <4>2
    <3>2. CASE i # k + 1
      <4>1. i \in 1 .. k /\ g[i] = f[i]
        BY <3>2
      <4>2. f[i] = IF i = 1 THEN s[i] ELSE f[i - 1] \o s[i]
        BY <2>1, <4>1 DEF JoinUpTo
      <4>3. i # 1 => g[i - 1] = f[i - 1]
        BY <4>1
      <4> QED
        BY <4>1, <4>2, <4>3
    <3> QED
      BY <3>1, <3>2
  <2>3. g = [i \in 1 .. k + 1 |-> IF i = 1 THEN s[i] ELSE g[i - 1] \o s[i]]
    <3>1. g = [i \in 1 .. k + 1 |-> g[i]]
      OBVIOUS
    <3> HIDE DEF g
    <3> QED
      BY <2>2, <3>1
  <2>4. g = JoinUpTo(s, g, k + 1)
    BY <2>3 DEF JoinUpTo
  <2> QED
    BY <2>4
<1>3. m \in S
  <2> HIDE DEF S
  <2> QED
    BY <1>1, <1>2, NatSetInduction
<1> QED
  BY <1>3

\* FlattenSeq joins the elements from the first to the last.
LEMMA FlattenSteps ==
    ASSUME NEW T, NEW s \in Seq(Seq(T))
    PROVE  \E F \in [0 .. Len(s) -> Seq(T)] :
               /\ F[0] = <<>> /\ F[Len(s)] = FlattenSeq(s)
               /\ \A i \in 1 .. Len(s) : F[i] = F[i - 1] \o s[i]
<1> DEFINE m == Len(s)
           J == CHOOSE f : f = JoinUpTo(s, f, m)
           F == [i \in 0 .. m |-> IF i = 0 THEN <<>> ELSE J[i]]
<1>1. m \in Nat /\ \A i \in 1 .. m : s[i] \in Seq(T)
  OBVIOUS
<1>2. J = JoinUpTo(s, J, m)
  BY <1>1, JoinedExists
<1>3. ASSUME NEW i \in 1 .. m PROVE J[i] = IF i = 1 THEN s[i] ELSE J[i - 1] \o s[i]
  <2> HIDE DEF J
  <2> QED
    BY <1>2 DEF JoinUpTo
<1>4. FlattenSeq(s) = F[m]
  <2>1. CASE m = 0
    BY <2>1 DEF FlattenSeq
  <2>2. CASE m # 0
    BY <2>2, <1>1 DEF FlattenSeq, JoinUpTo
  <2> QED
    BY <2>1, <2>2
<1>5. ASSUME NEW i \in 1 .. m PROVE F[i] = F[i - 1] \o s[i]
  <2>1. CASE i = 1
    BY <1>1, <1>3, <2>1
  <2>2. CASE i # 1
    <3>1. i - 1 \in 1 .. m /\ F[i - 1] = J[i - 1] /\ F[i] = J[i]
      BY <1>1, <2>2
    <3> QED
      BY <1>3, <2>2, <3>1
  <2> QED
    BY <2>1, <2>2
<1>6. F[0] = <<>>
  BY <1>1
<1>7. ASSUME NEW i \in 0 .. m PROVE F[i] \in Seq(T)
  <2> DEFINE S == {k \in Nat : k <= m => F[k] \in Seq(T)}
  <2>1. 0 \in S
    BY <1>6
  <2>2. ASSUME NEW k \in Nat, k \in S PROVE k + 1 \in S
    <3>1. CASE k + 1 <= m
      <4>1. k + 1 \in 1 .. m /\ (k + 1) - 1 = k
        BY <1>1, <3>1
      <4>2. F[k + 1] = F[k] \o s[k + 1] /\ s[k + 1] \in Seq(T)
        <5> HIDE DEF F
        <5> QED
          BY <1>1, <1>5, <4>1
      <4>3. F[k] \in Seq(T)
        <5> HIDE DEF F
        <5> QED
          BY <1>1, <2>2, <3>1
      <4> HIDE DEF F
      <4>4. F[k + 1] \in Seq(T)
        BY <4>2, <4>3
      <4> QED
        BY <4>4
    <3>2. CASE ~(k + 1 <= m)
      BY <3>2
    <3> QED
      BY <3>1, <3>2
  <2>3. i \in S
    <3> HIDE DEF S, F
    <3>1. \A k \in Nat : k \in S
      BY <2>1, <2>2, NatSetInduction
    <3> QED
      BY <1>1, <3>1
  <2> HIDE DEF F
  <2> QED
    BY <1>1, <2>3
<1>8. F \in [0 .. m -> Seq(T)]
  <2>1. F = [i \in 0 .. m |-> F[i]]
    OBVIOUS
  <2> HIDE DEF F
  <2> QED
    BY <1>7, <2>1
<1> HIDE DEF F
<1> QED
  BY <1>4, <1>5, <1>6, <1>8

\* Partial results of joining n sequences over T: each is the one before and a piece.
JoinSteps(F, n, T) ==
    /\ n \in Nat /\ F \in [0 .. n -> Seq(T)] /\ F[0] = <<>>
    /\ \A i \in 1 .. n : \E e \in Seq(T) : F[i] = F[i - 1] \o e

\* The sequence x begins y.
Begins(x, y) == Len(x) <= Len(y) /\ \A k \in 1 .. Len(x) : y[k] = x[k]

\* What is joined stays at its place: each partial result begins the whole.
LEMMA FlattenGrows ==
    ASSUME NEW T, NEW n, NEW F, NEW a, JoinSteps(F, n, T), a \in 0 .. n
    PROVE  Begins(F[a], F[n])
<1> DEFINE S == {j \in Nat : a + j <= n => Begins(F[a], F[a + j])}
<1>0. /\ n \in Nat /\ F \in [0 .. n -> Seq(T)] /\ a \in 0 .. n
      /\ \A i \in 1 .. n : \E e \in Seq(T) : F[i] = F[i - 1] \o e
  BY DEF JoinSteps
<1>1. 0 \in S
  <2>1. a + 0 = a /\ F[a] \in Seq(T)
    BY <1>0
  <2>2. Begins(F[a], F[a])
    BY <2>1 DEF Begins
  <2> QED
    BY <2>1, <2>2
<1>2. ASSUME NEW j \in Nat, j \in S PROVE j + 1 \in S
  <2> SUFFICES ASSUME a + (j + 1) <= n PROVE Begins(F[a], F[a + (j + 1)])
    OBVIOUS
  <2>1. a + j \in 0 .. n /\ a + (j + 1) \in 1 .. n /\ (a + (j + 1)) - 1 = a + j
    BY <1>0
  <2>2. Begins(F[a], F[a + j])
    BY <1>2, <2>1
  <2>3. PICK e \in Seq(T) : F[a + (j + 1)] = F[a + j] \o e
    BY <1>0, <2>1
  <2>4. PICK x \in Seq(T) : x = F[a + j]
    BY <1>0, <2>1
  <2>5. PICK y \in Seq(T) : y = F[a]
    BY <1>0
  <2>6. Begins(y, x)
    BY <2>2, <2>4, <2>5
  <2>7. Begins(y, x \o e)
    BY <2>3, <2>4, <2>5, <2>6 DEF Begins
  <2> QED
    BY <2>3, <2>4, <2>5, <2>7
<1>3. n - a \in S
  <2> HIDE DEF S
  <2>1. \A j \in Nat : j \in S
    BY <1>1, <1>2, NatSetInduction
  <2> QED
    BY <1>0, <2>1
<1>4. a + (n - a) = n /\ n - a \in Nat
  BY <1>0
<1> QED
  BY <1>3, <1>4

\* Two pieces that follow one another in g.
LEMMA JoinBlock ==
    ASSUME NEW T, NEW x \in Seq(T), NEW e \in Seq(T), NEW g,
           \A k \in 1 .. Len(x) : x[k] = g[k],
           \A k \in 1 .. Len(e) : e[k] = g[Len(x) + k]
    PROVE  \A k \in 1 .. Len(x) + Len(e) : (x \o e)[k] = g[k]
<1> SUFFICES ASSUME NEW k \in 1 .. Len(x) + Len(e) PROVE (x \o e)[k] = g[k]
  OBVIOUS
<1>1. CASE k <= Len(x)
  BY <1>1
<1>2. CASE ~(k <= Len(x))
  <2>1. k - Len(x) \in 1 .. Len(e) /\ Len(x) + (k - Len(x)) = k
    BY <1>2
  <2>2. (x \o e)[k] = e[k - Len(x)]
    BY <1>2
  <2>3. e[k - Len(x)] = g[Len(x) + (k - Len(x))]
    BY <2>1
  <2> QED
    BY <2>1, <2>2, <2>3
<1> QED
  BY <1>1, <1>2

\* F[i] is F[i - 1] with the i-th piece of g, of m elements.
Blocks(F, p, m, g, T) ==
    \A i \in 1 .. p : \E e \in Seq(T) :
        /\ F[i] = F[i - 1] \o e /\ Len(e) = m
        /\ \A k \in 1 .. m : e[k] = g[((i - 1) * m) + k]

\* x is the first c values of g.
IsBlock(x, c, g) == Len(x) = c /\ \A k \in 1 .. c : x[k] = g[k]

\* Pieces of m elements each, which follow one another in g, join to g.
LEMMA FlattenBlocks ==
    ASSUME NEW T, NEW n, NEW F, NEW m, NEW g, NEW p,
           JoinSteps(F, n, T), Blocks(F, p, m, g, T), m \in Nat, p \in 0 .. n
    PROVE  IsBlock(F[p], p * m, g)
<1>0. n \in Nat /\ F \in [0 .. n -> Seq(T)] /\ F[0] = <<>> /\ m \in Nat /\ p \in 0 .. n
  BY DEF JoinSteps
<1> DEFINE Block(j) == /\ Len(F[j]) = j * m
                       /\ \A k \in 1 .. j * m : F[j][k] = g[k]
           S == {j \in Nat : j <= p => Block(j)}
<1>1. 0 \in S
  <2>1. 0 * m = 0
    BY <1>0
  <2> QED
    BY <1>0, <2>1
<1>2. ASSUME NEW j \in Nat, j \in S PROVE j + 1 \in S
  <2> SUFFICES ASSUME j + 1 <= p PROVE Block(j + 1)
    OBVIOUS
  <2>1. j \in 0 .. n /\ j + 1 \in 1 .. p /\ (j + 1) - 1 = j /\ Block(j) /\ F[j] \in Seq(T)
    <3>1. j \in 0 .. n /\ j + 1 \in 1 .. p /\ (j + 1) - 1 = j /\ j <= p
      BY <1>0
    <3>2. Block(j)
      BY <1>2, <3>1
    <3>3. F[j] \in Seq(T)
      BY <1>0, <3>1
    <3> QED
      BY <3>1, <3>2, <3>3
  <2>2. PICK e \in Seq(T) : /\ F[j + 1] = F[j] \o e /\ Len(e) = m
                            /\ \A k \in 1 .. m : e[k] = g[(j * m) + k]
    <3>1. \E e \in Seq(T) : /\ F[j + 1] = F[(j + 1) - 1] \o e /\ Len(e) = m
              /\ \A k \in 1 .. m : e[k] = g[(((j + 1) - 1) * m) + k]
      BY <2>1 DEF Blocks
    <3> QED
      BY <2>1, <3>1
  <2>3. j * m \in Nat /\ (j + 1) * m = (j * m) + m
    BY <1>0, SMTT(30)
  <2>4. PICK x \in Seq(T) : x = F[j]
    BY <2>1
  <2>5. x \in Seq(T) /\ e \in Seq(T)
    BY <2>2, <2>4
  <2>6. Len(x) = j * m /\ Len(e) = m
    BY <2>1, <2>2, <2>4
  <2>7. \A k \in 1 .. Len(x) : x[k] = g[k]
    BY <2>1, <2>4, <2>6
  <2>8. \A k \in 1 .. Len(e) : e[k] = g[Len(x) + k]
    BY <2>2, <2>6
  <2> HIDE DEF Block, S
  <2>9. \A k \in 1 .. Len(x) + Len(e) : (x \o e)[k] = g[k]
    BY <2>5, <2>7, <2>8, JoinBlock
  <2>10. Len(x \o e) = Len(x) + Len(e)
    BY <2>5
  <2> QED
    BY <2>2, <2>3, <2>4, <2>6, <2>9, <2>10 DEF Block
<1>3. p \in S
  <2> HIDE DEF S
  <2>1. \A j \in Nat : j \in S
    BY <1>1, <1>2, NatSetInduction
  <2> QED
    BY <1>0, <2>1
<1> QED
  BY <1>0, <1>3 DEF IsBlock
=============================================================================
