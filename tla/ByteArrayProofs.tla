-------------------------- MODULE ByteArrayProofs --------------------------
(***************************************************************************)
(* Proofs about ByteArray, for all node sizes, strings, files, integers,   *)
(* widths and bounds.                                                      *)
(*                                                                         *)
(* A ByteArray is Good when its members have their types and are in order. *)
(* Each method is given its effect on a Good record: Wrote, Moved, or the  *)
(* end of the process; every call of the model then has one of five        *)
(* effects, each of which keeps the invariant and is a step of a file of   *)
(* bytes.  What recursive definitions compute (the fold of readFromFile,   *)
(* the loops of writeToFile, writeUint and readUint) is proved from        *)
(* Recursion: a definition that asks for smaller values only has a         *)
(* solution.                                                               *)
(***************************************************************************)
EXTENDS ByteArray, TLAPS, FiniteSetTheorems, WellFoundedInduction

-----------------------------------------------------------------------------
(* Arithmetic *)

\* Quotient and remainder.
LEMMA DivMod ==
  ASSUME NEW x \in Nat, NEW d \in Nat \ {0}
  PROVE  /\ x \div d \in Nat /\ x % d \in Nat /\ x % d \in 0 .. d - 1
         /\ x = (x \div d) * d + (x % d)
OBVIOUS

\* A number is in one way a multiple of d and a remainder.
LEMMA DivUnique ==
  ASSUME NEW d \in Nat \ {0}, NEW q \in Nat, NEW r \in 0 .. d - 1
  PROVE  (q * d + r) \div d = q /\ (q * d + r) % d = r
OBVIOUS

\* x is below the k-th multiple of d if and only if its quotient is below k.
LEMMA DivBelow ==
  ASSUME NEW x \in Nat, NEW d \in Nat \ {0}, NEW k \in Nat
  PROVE  x < k * d <=> x \div d < k
OBVIOUS

\* Moving by n from x is moving by n from the remainder of x.
LEMMA DivShift ==
  ASSUME NEW x \in Nat, NEW n \in Nat, NEW d \in Nat \ {0}
  PROVE  /\ (x + n) \div d = (x \div d) + (((x % d) + n) \div d)
         /\ (x + n) % d = ((x % d) + n) % d
<1> DEFINE q == x \div d
           r == x % d
           p == (r + n) \div d
           m == (r + n) % d
<1>1. q \in Nat /\ r \in 0 .. d - 1 /\ x = q * d + r
  BY DivMod
<1>2. p \in Nat /\ m \in 0 .. d - 1 /\ r + n = p * d + m
  <2>1. r + n \in Nat
    BY <1>1
  <2> QED
    BY <2>1, DivMod
<1>3. x + n = (q + p) * d + m
  <2> HIDE DEF q, r, p, m
  <2>1. (q + p) * d = q * d + p * d
    BY <1>1, <1>2
  <2> QED
    BY <1>1, <1>2, <2>1
<1>4. q + p \in Nat
  BY <1>1, <1>2
<1>5. (x + n) \div d = q + p /\ (x + n) % d = m
  <2> HIDE DEF q, r, p, m
  <2> QED
    BY <1>2, <1>3, <1>4, DivUnique
<1> QED
  BY <1>5

\* A number below d is its own remainder.
LEMMA ModSmall ==
  ASSUME NEW d \in Nat \ {0}, NEW x \in 0 .. d - 1
  PROVE  x % d = x
<1>1. x = 0 * d + x
  OBVIOUS
<1> QED
  BY <1>1, DivUnique

\* The edge of the next node.
LEMMA NextEdge ==
  ASSUME NEW p \in Nat, NEW d \in Nat \ {0}
  PROVE  /\ d - (p % d) \in Nat \ {0} /\ p + (d - (p % d)) \in Nat
         /\ (p + (d - (p % d))) % d = 0 /\ (p + (d - (p % d))) \div d = (p \div d) + 1
<1> DEFINE q == p \div d
           r == p % d
           x == p + (d - r)
<1>1. q \in Nat /\ r \in 0 .. d - 1 /\ p = q * d + r
  BY DivMod
<1> HIDE DEF q, r
<1>2. x = (q + 1) * d + 0
  <2>1. (q + 1) * d = q * d + d /\ q * d \in Nat
    <3>1. \A i \in Nat : (i + 1) * d = i * d + d /\ i * d \in Nat
      OBVIOUS
    <3> QED
      BY <1>1, <3>1
  <2> DEFINE y == q * d
  <2>2. y \in Nat /\ p = y + r /\ (q + 1) * d = y + d
    BY <1>1, <2>1
  <2> HIDE DEF y
  <2> QED
    BY <1>1, <2>2
<1>3. q + 1 \in Nat /\ 0 \in 0 .. d - 1
  BY <1>1
<1>4. ((q + 1) * d + 0) \div d = q + 1 /\ ((q + 1) * d + 0) % d = 0
  BY <1>3, DivUnique
<1>5. d - r \in Nat \ {0} /\ x \in Nat
  BY <1>1
<1> HIDE DEF x
<1>6. x \div d = q + 1 /\ x % d = 0
  BY <1>2, <1>4
<1> QED
  BY <1>5, <1>6 DEF x, q, r

\* A position within the capacity of k nodes of d bytes is in one of them.
LEMMA NodeInList ==
  ASSUME NEW d \in Nat \ {0}, NEW k \in Nat, NEW p \in Nat, p < k * d
  PROVE  p \div d \in Nat /\ (p \div d) + 1 \in 1 .. k /\ p % d \in 0 .. d - 1
<1>1. p \div d \in Nat /\ p % d \in 0 .. d - 1
  BY DivMod
<1>2. p \div d < k
  BY DivBelow
<1> QED
  BY <1>1, <1>2

-----------------------------------------------------------------------------
(* Sequences *)

\* A function on 1 .. n is a sequence.
LEMMA FunctionSeq ==
  ASSUME NEW S, NEW n \in Nat, NEW f \in [1 .. n -> S]
  PROVE  f \in Seq(S) /\ Len(f) = n
OBVIOUS

\* The first k elements are the first m, and those from there on.
LEMMA SubSeqSplit ==
  ASSUME NEW S, NEW s \in Seq(S), NEW m \in Nat, NEW k \in Nat, m <= k, k <= Len(s)
  PROVE  /\ SubSeq(s, 1, m) \in Seq(S) /\ SubSeq(s, m + 1, k) \in Seq(S)
         /\ Len(SubSeq(s, 1, k)) = k
         /\ SubSeq(s, 1, m) \o SubSeq(s, m + 1, k) = SubSeq(s, 1, k)
<1>1. /\ SubSeq(s, 1, m) = [i \in 1 .. m |-> s[i]]
      /\ SubSeq(s, m + 1, k) = [i \in 1 .. k - m |-> s[m + i]]
      /\ SubSeq(s, 1, k) = [i \in 1 .. k |-> s[i]]
  OBVIOUS
<1>2. \A i \in 1 .. k : s[i] \in S
  OBVIOUS
<1>3. /\ [i \in 1 .. m |-> s[i]] \in [1 .. m -> S]
      /\ [i \in 1 .. k - m |-> s[m + i]] \in [1 .. k - m -> S]
      /\ [i \in 1 .. k |-> s[i]] \in [1 .. k -> S]
  BY <1>2
<1>4. /\ [i \in 1 .. m |-> s[i]] \in Seq(S) /\ Len([i \in 1 .. m |-> s[i]]) = m
      /\ [i \in 1 .. k - m |-> s[m + i]] \in Seq(S) /\ Len([i \in 1 .. k - m |-> s[m + i]]) = k - m
      /\ [i \in 1 .. k |-> s[i]] \in Seq(S) /\ Len([i \in 1 .. k |-> s[i]]) = k
  BY <1>3, FunctionSeq
<1>5. [i \in 1 .. m |-> s[i]] \o [i \in 1 .. k - m |-> s[m + i]] = [i \in 1 .. k |-> s[i]]
  BY <1>4
<1> QED
  BY <1>1, <1>4, <1>5

\* The n elements after p are the m after p, and those from there on.
LEMMA SubSeqJoin ==
  ASSUME NEW S, NEW h \in Seq(S), NEW p \in Nat, NEW m \in Nat, NEW n \in Nat,
         m <= n, p + n <= Len(h)
  PROVE  SubSeq(h, p + 1, p + m) \o SubSeq(h, p + m + 1, p + n) = SubSeq(h, p + 1, p + n)
<1>1. /\ SubSeq(h, p + 1, p + m) = [k \in 1 .. m |-> h[p + k]]
      /\ SubSeq(h, p + m + 1, p + n) = [k \in 1 .. n - m |-> h[p + m + k]]
      /\ SubSeq(h, p + 1, p + n) = [k \in 1 .. n |-> h[p + k]]
  OBVIOUS
<1>2. /\ [k \in 1 .. m |-> h[p + k]] \in [1 .. m -> S]
      /\ [k \in 1 .. n - m |-> h[p + m + k]] \in [1 .. n - m -> S]
  OBVIOUS
<1>3. /\ [k \in 1 .. m |-> h[p + k]] \in Seq(S) /\ Len([k \in 1 .. m |-> h[p + k]]) = m
      /\ [k \in 1 .. n - m |-> h[p + m + k]] \in Seq(S)
      /\ Len([k \in 1 .. n - m |-> h[p + m + k]]) = n - m
  BY <1>2, FunctionSeq
<1>4. [k \in 1 .. m |-> h[p + k]] \o [k \in 1 .. n - m |-> h[p + m + k]]
        = [k \in 1 .. n |-> h[p + k]]
  BY <1>3
<1> QED
  BY <1>1, <1>4

-----------------------------------------------------------------------------
(* Induction, and definitions by recursion.  A set of numbers takes the place
   of the predicate that the theorems of NaturalsInduction have as a parameter. *)

\* A set of numbers has a least one.
LEMMA Least ==
  ASSUME NEW T, T \subseteq Nat, T # {}
  PROVE  \E x \in T : \A y \in T : x <= y
<1> DEFINE R == OpToRel(<, Nat)
<1>1. IsWellFoundedOn(R, Nat)
  BY NatLessThanWellFounded
<1>2. PICK x \in T : \A y \in T : ~ (<<y, x>> \in R)
  <2> HIDE DEF R
  <2> QED
    BY <1>1, WFMin, Zenon
<1>3. \A y \in T : ~ (y < x)
  <2> TAKE y \in T
  <2>1. <<y, x>> \notin R /\ <<y, x>> \in Nat \X Nat
    BY <1>2
  <2> QED
    BY <2>1 DEF OpToRel
<1> QED
  BY <1>3

\* Induction: a set of numbers with 0 and every successor is all of them.
LEMMA Induction ==
  ASSUME NEW P, 0 \in P, \A n \in Nat : n \in P => n + 1 \in P
  PROVE  \A n \in Nat : n \in P
<1>1. SUFFICES ASSUME Nat \ P # {} PROVE FALSE
  OBVIOUS
<1>2. PICK x \in Nat \ P : \A y \in Nat \ P : x <= y
  BY <1>1, Least
<1>3. x # 0 /\ x - 1 \in Nat /\ x - 1 \notin Nat \ P
  BY <1>2
<1> QED
  BY <1>2, <1>3

\* The iterates of a function.
LEMMA Iterates ==
  ASSUME NEW V, NEW v \in V, NEW h \in [V -> V]
  PROVE  \E F \in [Nat -> V] : F[0] = v /\ \A n \in Nat : F[n + 1] = h[F[n]]
<1> DEFINE Upto(n, f) == f[0] = v /\ \A i \in 0 .. n - 1 : f[i + 1] = h[f[i]]
           P == {n \in Nat : \E f \in [0 .. n -> V] : Upto(n, f)}
<1>1. \A n \in Nat : n \in P
  <2>1. 0 \in P
    <3>1. [i \in 0 .. 0 |-> v] \in [0 .. 0 -> V] /\ Upto(0, [i \in 0 .. 0 |-> v])
      OBVIOUS
    <3> QED
      BY <3>1
  <2>2. ASSUME NEW n \in Nat, n \in P PROVE n + 1 \in P
    <3>1. PICK f \in [0 .. n -> V] : Upto(n, f)
      BY <2>2
    <3> DEFINE g == [i \in 0 .. n + 1 |-> IF i = n + 1 THEN h[f[n]] ELSE f[i]]
    <3>2. f[n] \in V /\ h[f[n]] \in V
      OBVIOUS
    <3>3. g \in [0 .. n + 1 -> V]
      BY <3>2
    <3>4. g[0] = v
      BY <3>1
    <3>5. \A i \in 0 .. n : g[i + 1] = h[g[i]]
      <4> TAKE i \in 0 .. n
      <4>1. CASE i = n
        BY <4>1
      <4>2. CASE i # n
        <5>1. i \in 0 .. n - 1 /\ i + 1 \in 0 .. n + 1 /\ i \in 0 .. n + 1
          BY <4>2
        <5>2. f[i + 1] = h[f[i]]
          BY <3>1, <5>1
        <5> QED
          BY <4>2, <5>1, <5>2
      <4> QED
        BY <4>1, <4>2
    <3>6. Upto(n + 1, g)
      <4> HIDE DEF g
      <4> QED
        BY <3>4, <3>5
    <3> HIDE DEF g, Upto
    <3> QED
      BY <3>3, <3>6
  <2> HIDE DEF P
  <2> QED
    BY <2>1, <2>2, Induction
<1> DEFINE Run(n) == CHOOSE f \in [0 .. n -> V] : Upto(n, f)
           F == [n \in Nat |-> Run(n)[n]]
<1>2. \A n \in Nat : Run(n) \in [0 .. n -> V] /\ Upto(n, Run(n))
  <2> HIDE DEF Upto
  <2> QED
    BY <1>1
<1>3. \A n \in Nat : Run(n)[0] = v /\ \A i \in 0 .. n - 1 : Run(n)[i + 1] = h[Run(n)[i]]
  <2> HIDE DEF Run
  <2> QED
    BY <1>2
<1>4. \A n \in Nat, k \in Nat, i \in Nat : i <= n /\ i <= k => Run(n)[i] = Run(k)[i]
  <2> HIDE DEF Run
  <2> DEFINE Q == {i \in Nat : \A n \in Nat, k \in Nat : i <= n /\ i <= k => Run(n)[i] = Run(k)[i]}
  <2>1. 0 \in Q
    BY <1>3
  <2>2. ASSUME NEW i \in Nat, i \in Q PROVE i + 1 \in Q
    <3>1. SUFFICES ASSUME NEW n \in Nat, NEW k \in Nat, i + 1 <= n, i + 1 <= k
                   PROVE  Run(n)[i + 1] = Run(k)[i + 1]
      OBVIOUS
    <3>2. Run(n)[i] = Run(k)[i] /\ i \in 0 .. n - 1 /\ i \in 0 .. k - 1
      BY <2>2, <3>1
    <3> QED
      BY <1>3, <3>2
  <2>3. \A i \in Nat : i \in Q
    <3> HIDE DEF Q
    <3> QED
      BY <2>1, <2>2, Induction
  <2> QED
    BY <2>3
<1>5. F \in [Nat -> V]
  <2> HIDE DEF Run
  <2>1. \A n \in Nat : Run(n)[n] \in V
    BY <1>2
  <2> QED
    BY <2>1
<1>6. F[0] = v
  <2> HIDE DEF Run
  <2> QED
    BY <1>3
<1>7. \A n \in Nat : F[n + 1] = h[F[n]]
  <2> HIDE DEF Run
  <2> TAKE n \in Nat
  <2>1. n + 1 \in Nat /\ n \in 0 .. (n + 1) - 1 /\ n <= n + 1
    OBVIOUS
  <2>2. Run(n + 1)[n + 1] = h[Run(n + 1)[n]]
    BY <1>3, <2>1
  <2>3. Run(n + 1)[n] = Run(n)[n]
    BY <1>4, <2>1
  <2> QED
    BY <2>1, <2>2, <2>3
<1> HIDE DEF F
<1> QED
  BY <1>5, <1>6, <1>7

\* The properties of h that the lemmas below ask for.  (As operators they are
\* named once, and the provers match them as a whole.)
Maps(h, V) == h \in [V -> V]

\* h can be applied to v again and again.
Iterable(h, V, v) ==
  \E F \in [Nat -> V] : F[0] = v /\ \A n \in Nat : F[n + 1] = h[F[n]]

\* Iterates, in these words.
LEMMA IteratesOf ==
  ASSUME NEW V, NEW v, v \in V, NEW h, Maps(h, V)
  PROVE  Iterable(h, V, v)
BY Iterates DEF Maps, Iterable

\* h says what the value at x is, given the values of smaller measure.
Recursive(h, m, D, V) ==
  /\ Maps(h, V) /\ m \in [D -> Nat]
  /\ \A F, G \in V : \A x \in D :
       (\A y \in D : m[y] < m[x] => F[y] = G[y]) => h[F][x] = h[G][x]

\* A definition by recursion has a solution when the value at x asks only for
\* values of a smaller measure.
LEMMA Recursion ==
  ASSUME NEW D, NEW W, NEW w \in W, NEW V, V = [D -> W], NEW h, NEW m, Recursive(h, m, D, V)
  PROVE  \E F \in V : F = h[F]
<1>0. /\ h \in [V -> V] /\ m \in [D -> Nat]
      /\ \A F, G \in V : \A x \in D :
           (\A y \in D : m[y] < m[x] => F[y] = G[y]) => h[F][x] = h[G][x]
  BY DEF Recursive, Maps
<1> USE <1>0
<1>1. [x \in D |-> w] \in V
  OBVIOUS
<1>2. PICK F \in [Nat -> V] : \A n \in Nat : F[n + 1] = h[F[n]]
  <2>1. PICK u : u \in V
    BY <1>1
  <2>2. Maps(h, V)
    BY DEF Recursive
  <2>3. Iterable(h, V, u)
    BY <2>1, <2>2, IteratesOf, Zenon
  <2> QED
    BY <2>3 DEF Iterable
<1>3. \A n \in Nat : F[n] \in V
  OBVIOUS
<1>4. \A n \in Nat : \A x \in D : m[x] < n => F[n + 1][x] = F[n][x]
  <2> DEFINE Q == {n \in Nat : \A x \in D : m[x] < n => F[n + 1][x] = F[n][x]}
  <2>1. 0 \in Q
    OBVIOUS
  <2>2. ASSUME NEW n \in Nat, n \in Q PROVE n + 1 \in Q
    <3>1. SUFFICES ASSUME NEW x \in D, m[x] < n + 1 PROVE F[(n + 1) + 1][x] = F[n + 1][x]
      OBVIOUS
    <3>2. \A y \in D : m[y] < m[x] => F[n + 1][y] = F[n][y]
      <4> TAKE y \in D
      <4>1. m[x] \in Nat /\ m[y] \in Nat
        OBVIOUS
      <4> QED
        BY <2>2, <3>1, <4>1
    <3>3. F[n + 1] \in V /\ F[n] \in V /\ n + 1 \in Nat
      BY <1>3
    <3>4. h[F[n + 1]][x] = h[F[n]][x]
      BY <3>2, <3>3
    <3> QED
      BY <1>2, <3>3, <3>4
  <2>3. \A n \in Nat : n \in Q
    <3> HIDE DEF Q
    <3> QED
      BY <2>1, <2>2, Induction
  <2> QED
    BY <2>3
<1>5. \A x \in D : \A k \in Nat : F[(m[x] + 1) + k][x] = F[m[x] + 1][x]
  <2> TAKE x \in D
  <2> DEFINE Q == {k \in Nat : F[(m[x] + 1) + k][x] = F[m[x] + 1][x]}
  <2>0. m[x] \in Nat
    OBVIOUS
  <2>1. 0 \in Q
    <3>1. (m[x] + 1) + 0 = m[x] + 1
      BY <2>0
    <3> QED
      BY <3>1
  <2>2. ASSUME NEW k \in Nat, k \in Q PROVE k + 1 \in Q
    <3>1. (m[x] + 1) + k \in Nat /\ m[x] < (m[x] + 1) + k
          /\ ((m[x] + 1) + k) + 1 = (m[x] + 1) + (k + 1)
      BY <2>0
    <3>2. F[((m[x] + 1) + k) + 1][x] = F[(m[x] + 1) + k][x]
      BY <1>4, <3>1
    <3> QED
      BY <2>2, <3>1, <3>2
  <2>3. \A k \in Nat : k \in Q
    <3> HIDE DEF Q
    <3> QED
      BY <2>1, <2>2, Induction
  <2> QED
    BY <2>3
<1> DEFINE G == [x \in D |-> F[m[x] + 1][x]]
<1>6. G \in V
  <2>1. \A x \in D : m[x] + 1 \in Nat
    OBVIOUS
  <2>2. \A x \in D : F[m[x] + 1][x] \in W
    BY <1>3, <2>1
  <2> QED
    BY <2>2
<1>7. ASSUME NEW x \in D PROVE G[x] = h[G][x]
  <2>1. \A y \in D : m[y] < m[x] => G[y] = F[m[x]][y]
    <3> SUFFICES ASSUME NEW y \in D, m[y] < m[x] PROVE G[y] = F[m[x]][y]
      OBVIOUS
    <3>1. m[x] \in Nat /\ m[y] \in Nat
      OBVIOUS
    <3>2. m[x] - (m[y] + 1) \in Nat /\ (m[y] + 1) + (m[x] - (m[y] + 1)) = m[x]
      BY <3>1
    <3>3. F[(m[y] + 1) + (m[x] - (m[y] + 1))][y] = F[m[y] + 1][y]
      BY <1>5, <3>2
    <3> QED
      BY <3>2, <3>3
  <2>2. m[x] \in Nat /\ F[m[x]] \in V
    BY <1>3
  <2> HIDE DEF G
  <2>3. h[G][x] = h[F[m[x]]][x]
    BY <1>6, <2>1, <2>2
  <2>4. F[m[x] + 1] = h[F[m[x]]]
    BY <1>2, <2>2
  <2> QED
    BY <2>3, <2>4 DEF G
<1> HIDE DEF G
<1>8. h[G] \in V
  BY <1>6
<1>9. G = h[G]
  BY <1>6, <1>7, <1>8
<1> QED
  BY <1>6, <1>9

\* Powers of two: the number of subsets.
LEMMA Power ==
  ASSUME NEW n \in Nat
  PROVE  /\ 2 ^ n \in Nat \ {0}
         /\ 2 ^ (n + 1) = 2 * 2 ^ n
<1> DEFINE S == 1 .. n
           T == 1 .. n + 1
           A == SUBSET S
           B == {s \in SUBSET T : n + 1 \in s}
           f == [s \in A |-> s \cup {n + 1}]
<1>1. /\ IsFiniteSet(S) /\ Cardinality(S) = n
      /\ IsFiniteSet(T) /\ Cardinality(T) = n + 1
  BY FS_Interval
<1>2. /\ IsFiniteSet(A) /\ Cardinality(A) = 2 ^ n
      /\ IsFiniteSet(SUBSET T) /\ Cardinality(SUBSET T) = 2 ^ (n + 1)
  BY <1>1, FS_SUBSET
<1>3. Cardinality(A) \in Nat
  BY <1>2, FS_CardinalityType
<1>4. Cardinality(A) # 0
  BY <1>2, FS_EmptySet
<1>5. ExistsBijection(A, B)
  <2>1. f \in [A -> B]
    <3>1. \A s \in A : s \cup {n + 1} \in B
      OBVIOUS
    <3> HIDE DEF A, B
    <3> QED
      BY <3>1
  <2>2. \A s, t \in A : f[s] = f[t] => s = t
    <3> TAKE s, t \in A
    <3>1. n + 1 \notin s /\ n + 1 \notin t
      OBVIOUS
    <3> QED
      BY <3>1
  <2>3. \A t \in B : \E s \in A : f[s] = t
    <3> TAKE t \in B
    <3>1. t \ {n + 1} \in A
      OBVIOUS
    <3>2. (t \ {n + 1}) \cup {n + 1} = t
      OBVIOUS
    <3> QED
      BY <3>1, <3>2
  <2> HIDE DEF A, B, f
  <2>4. f \in Bijection(A, B)
    BY <2>1, <2>2, <2>3 DEF Bijection, Injection, Surjection, IsInjective
  <2> QED
    BY <2>4 DEF ExistsBijection
<1>6. IsFiniteSet(B) /\ Cardinality(B) = Cardinality(A)
  BY <1>2, <1>5, FS_Bijection
<1>7. A \cup B = SUBSET T /\ A \cap B = {}
  <2>1. ASSUME NEW s \in SUBSET T, n + 1 \notin s PROVE s \in A
    BY <2>1
  <2>2. A \subseteq SUBSET T
    OBVIOUS
  <2>3. \A s \in A : n + 1 \notin s
    OBVIOUS
  <2> HIDE DEF A, S, T
  <2> QED
    BY <2>1, <2>2, <2>3
<1>8. Cardinality(SUBSET T) = Cardinality(A) + Cardinality(B) - Cardinality({})
  BY <1>2, <1>6, <1>7, FS_Union
<1>9. Cardinality({}) = 0
  BY FS_EmptySet
<1> QED
  BY <1>2, <1>3, <1>4, <1>6, <1>8, <1>9

\* Powers of a sum.
LEMMA PowerSum ==
  ASSUME NEW m \in Nat, NEW n \in Nat
  PROVE  2 ^ (m + n) = 2 ^ m * 2 ^ n
<1> DEFINE P == {k \in Nat : 2 ^ (m + k) = 2 ^ m * 2 ^ k}
<1>1. 0 \in P
  <2>1. 2 ^ 0 = 1
    OBVIOUS
  <2>2. 2 ^ m \in Nat /\ m + 0 = m
    BY Power
  <2> QED
    BY <2>1, <2>2
<1>2. ASSUME NEW k \in Nat, k \in P PROVE k + 1 \in P
  <2>1. m + k \in Nat /\ m + (k + 1) = (m + k) + 1
    OBVIOUS
  <2>2. 2 ^ ((m + k) + 1) = 2 * 2 ^ (m + k) /\ 2 ^ (k + 1) = 2 * 2 ^ k
    BY <2>1, Power
  <2>3. 2 ^ m \in Nat /\ 2 ^ k \in Nat
    BY Power
  <2>4. 2 * (2 ^ m * 2 ^ k) = 2 ^ m * (2 * 2 ^ k)
    BY <2>3
  <2> QED
    BY <1>2, <2>1, <2>2, <2>4
<1>3. \A k \in Nat : k \in P
  <2> HIDE DEF P
  <2> QED
    BY <1>1, <1>2, Induction
<1> QED
  BY <1>3

-----------------------------------------------------------------------------
(* The members *)

\* What a byte of a node holds.
Cells == Nat \cup {Junk}

\* The ByteArrays with nodes of base bytes.
ArrayOf(base) ==
  [m_baseSize : {base}, m_position : Nat, m_capacity : Nat, m_size : Nat,
   nodes : Seq([0 .. base - 1 -> Cells]), m_cur : Nat, fault : Faults]

\* a has the members of a ByteArray.
IsArray(a) == a.m_baseSize \in Nat \ {0} /\ a \in ArrayOf(a.m_baseSize)

\* CursorInOrder of any ByteArray a, and that there is a node.
InOrder(a) ==
  /\ a.m_position <= a.m_size /\ a.m_size <= a.m_capacity
  /\ a.m_capacity = Len(a.nodes) * a.m_baseSize /\ Len(a.nodes) > 0
  /\ a.m_cur = IF a.m_position = a.m_capacity THEN Null
                ELSE (a.m_position \div a.m_baseSize) + 1

\* The inductive part of the invariant: every method keeps it.
Good(a) == IsArray(a) /\ InOrder(a)

\* The types of the members.
LEMMA ArrayFields ==
  ASSUME NEW a, IsArray(a)
  PROVE  /\ a.m_baseSize \in Nat \ {0} /\ a.m_position \in Nat /\ a.m_capacity \in Nat
         /\ a.m_size \in Nat /\ a.nodes \in Seq([0 .. a.m_baseSize - 1 -> Cells])
         /\ Len(a.nodes) \in Nat /\ DOMAIN a.nodes = 1 .. Len(a.nodes)
         /\ a.m_cur \in Nat /\ a.fault \in Faults
BY DEF IsArray, ArrayOf

\* The types of the members, and their order.
LEMMA GoodFields ==
  ASSUME NEW a, Good(a)
  PROVE  /\ a.m_baseSize \in Nat \ {0} /\ a.m_position \in Nat /\ a.m_capacity \in Nat
         /\ a.m_size \in Nat /\ a.m_position <= a.m_size /\ a.m_size <= a.m_capacity
         /\ a.m_position <= a.m_capacity /\ a.fault \in Faults
<1>1. IsArray(a) /\ InOrder(a)
  BY DEF Good
<1>2. /\ a.m_baseSize \in Nat \ {0} /\ a.m_position \in Nat /\ a.m_capacity \in Nat
      /\ a.m_size \in Nat /\ a.fault \in Faults
  BY <1>1, ArrayFields
<1>3. a.m_position <= a.m_size /\ a.m_size <= a.m_capacity
  BY <1>1 DEF InOrder
<1> QED
  BY <1>2, <1>3

\* AtLeast is the greater of two numbers.
LEMMA AtLeastMax == ASSUME NEW m \in Nat, NEW n \in Nat
  PROVE AtLeast(m, n) \in Nat /\ m <= AtLeast(m, n) /\ n <= AtLeast(m, n)
        /\ AtLeast(m, n) \in {m, n}
BY DEF AtLeast

\* The byte at position p.
Byte(a, p) == a.nodes[(p \div a.m_baseSize) + 1][p % a.m_baseSize]

\* The k-th cell from the node and offset of position p on is that of
\* position p + k - 1, also when nodes end in between.
LEMMA PositionCell ==
  ASSUME NEW a, IsArray(a), NEW p \in Nat, NEW k \in Nat \ {0}
  PROVE  Cell(a, (p \div a.m_baseSize) + 1, p % a.m_baseSize, k)
           = <<((p + k - 1) \div a.m_baseSize) + 1, (p + k - 1) % a.m_baseSize>>
<1> DEFINE d == a.m_baseSize
<1>1. d \in Nat \ {0}
  BY ArrayFields
<1>2. k - 1 \in Nat /\ p + k - 1 = p + (k - 1) /\ (p % d) + k - 1 = (p % d) + (k - 1)
  BY <1>1
<1>3. /\ (p + (k - 1)) \div d = (p \div d) + (((p % d) + (k - 1)) \div d)
      /\ (p + (k - 1)) % d = ((p % d) + (k - 1)) % d
  BY <1>1, <1>2, DivShift
<1>4. p \div d \in Nat /\ ((p % d) + (k - 1)) \div d \in Nat
  <2>1. (p % d) + (k - 1) \in Nat
    BY <1>1, <1>2, DivMod
  <2> QED
    BY <1>1, <2>1, DivMod
<1> QED
  BY <1>2, <1>3, <1>4 DEF Cell

\* The loops find the n cells from the position on exactly if these are within
\* the capacity.
LEMMA ReachesIff ==
  ASSUME NEW a, Good(a), NEW n \in Nat \ {0}
  PROVE  Reaches(a, a.m_cur, Npos(a), n) <=> a.m_position + n <= a.m_capacity
<1> DEFINE d == a.m_baseSize
           p == a.m_position
<1>1. /\ d \in Nat \ {0} /\ p \in Nat /\ a.m_capacity \in Nat /\ Len(a.nodes) \in Nat
      /\ p <= a.m_capacity /\ a.m_capacity = Len(a.nodes) * d
      /\ a.m_cur = IF p = a.m_capacity THEN Null ELSE (p \div d) + 1
  <2>1. IsArray(a) /\ InOrder(a)
    BY DEF Good
  <2>2. /\ d \in Nat \ {0} /\ p \in Nat /\ a.m_capacity \in Nat /\ a.m_size \in Nat
        /\ Len(a.nodes) \in Nat
    BY <2>1, ArrayFields
  <2>3. p <= a.m_capacity
    BY <2>1, <2>2 DEF InOrder
  <2> QED
    BY <2>1, <2>2, <2>3 DEF InOrder
<1>2. CASE p = a.m_capacity
  BY <1>1, <1>2 DEF Reaches
<1>3. CASE p # a.m_capacity
  <2>1. p + n - 1 \in Nat
    BY <1>1
  <2>2. (p + n - 1) < Len(a.nodes) * d <=> (p + n - 1) \div d < Len(a.nodes)
    BY <1>1, <2>1, DivBelow
  <2>3. Cell(a, a.m_cur, Npos(a), n)[1] = ((p + n - 1) \div d) + 1
    <3>1. n - 1 \in Nat /\ Npos(a) = p % d /\ a.m_cur = (p \div d) + 1 /\ IsArray(a)
      BY <1>1, <1>3 DEF Good, Npos
    <3>2. Cell(a, (p \div d) + 1, p % d, n)
            = <<((p + n - 1) \div d) + 1, (p + n - 1) % d>>
      BY <1>1, <3>1, PositionCell
    <3> QED
      BY <3>1, <3>2
  <2>4. p \div d \in Nat /\ (p + n - 1) \div d \in Nat
    BY <1>1, <2>1, DivMod
  <2> QED
    BY <1>1, <1>3, <2>1, <2>2, <2>3, <2>4 DEF Reaches, Null
<1> QED
  BY <1>2, <1>3

-----------------------------------------------------------------------------
(* The methods *)

\* With nodes of one byte addCapacity adds as many as are missing.  (With
\* longer ones that is not so: CapacityPromise is violated.)
LEMMA MissingCount ==
  ASSUME NEW a, IsArray(a), NEW n \in Nat, NEW free \in Nat, free < n
  PROVE  /\ MissingNodes(a, n, free) \in Nat
         /\ a.m_baseSize = 1 => MissingNodes(a, n, free) = n - free
<1>0. a.m_baseSize \in Nat \ {0}
  BY ArrayFields
<1>1. a.m_baseSize \in Nat \ {0} /\ n - free \in Nat
  BY <1>0
<1>2. (n - free) \div a.m_baseSize \in Nat /\ (n - free) % a.m_baseSize \in Nat
  <2>1. \A x \in Nat, d \in Nat \ {0} : x \div d \in Nat /\ x % d \in Nat
    BY DivMod
  <2> QED
    BY <1>1, <2>1
<1>3. a.m_baseSize = 1 => (n - free) \div a.m_baseSize = n - free /\ (n - free) % a.m_baseSize = 0
  BY <1>1
<1> QED
  BY <1>1, <1>2, <1>3 DEF MissingNodes

\* Appending nodes keeps those that were there.
LEMMA NewNodes ==
  ASSUME NEW d \in Nat \ {0}, NEW c \in Nat, NEW s \in Seq([0 .. d - 1 -> Cells])
  PROVE  LET t == s \o [i \in 1 .. c |-> NewNode(d)] IN
         /\ t \in Seq([0 .. d - 1 -> Cells]) /\ Len(t) = Len(s) + c
         /\ \A i \in 1 .. Len(s) : t[i] = s[i]
<1>1. NewNode(d) \in [0 .. d - 1 -> Cells]
  BY DEF NewNode, Cells
<1> DEFINE u == [i \in 1 .. c |-> NewNode(d)]
           N == [0 .. d - 1 -> Cells]
<1>2. u \in Seq(N) /\ Len(u) = c
  <2> HIDE DEF N
  <2> QED
    BY <1>1
<1>3. s \in Seq(N)
  OBVIOUS
<1> HIDE DEF u, N
<1>4. s \o u \in Seq(N) /\ Len(s \o u) = Len(s) + c /\ \A i \in 1 .. Len(s) : (s \o u)[i] = s[i]
  BY <1>2, <1>3
<1> QED
  BY <1>4 DEF u, N

\* addCapacity keeps the bytes, the position and the order of the members, and
\* with nodes of one byte makes room for n more.
LEMMA AddCapacityEffect ==
  ASSUME NEW a, Good(a), NEW n \in Nat
  PROVE  LET g == AddCapacity(a, n) IN
         /\ Good(g) /\ g.m_baseSize = a.m_baseSize /\ g.m_position = a.m_position
         /\ g.m_size = a.m_size /\ g.fault = a.fault
         /\ a.m_capacity <= g.m_capacity
         /\ \A p \in 0 .. a.m_capacity - 1 : Byte(g, p) = Byte(a, p)
         /\ a.m_baseSize = 1 => a.m_position + n <= g.m_capacity
<1> DEFINE d == a.m_baseSize
           free == a.m_capacity - a.m_position
           c == IF free >= n THEN 0 ELSE MissingNodes(a, n, free)
           t == a.nodes \o [i \in 1 .. c |-> NewNode(d)]
           cur == IF c > 0 /\ free = 0 THEN Len(a.nodes) + 1 ELSE a.m_cur
           cap == a.m_capacity + c * d
           g == [a EXCEPT !.m_capacity = cap, !.nodes = t, !.m_cur = cur]
<1>1. IsArray(a) /\ InOrder(a)
  BY DEF Good
<1>2. /\ d \in Nat \ {0} /\ a.m_position \in Nat /\ a.m_capacity \in Nat /\ a.m_size \in Nat
      /\ a.nodes \in Seq([0 .. d - 1 -> Cells]) /\ Len(a.nodes) \in Nat
      /\ a.m_cur \in Nat /\ a.fault \in Faults
  BY <1>1, ArrayFields
<1>3. free \in Nat /\ a.m_position <= a.m_capacity
  BY <1>1, <1>2 DEF InOrder
<1>4. c \in Nat /\ (d = 1 => a.m_position + n <= a.m_capacity + c)
  <2>1. CASE free >= n
    BY <1>2, <2>1
  <2>2. CASE ~ free >= n
    BY <1>1, <1>2, <1>3, <2>2, MissingCount
  <2> QED
    BY <2>1, <2>2
<1>5. AddCapacity(a, n) = g
  BY DEF AddCapacity, getCapacity
<1>6. /\ t \in Seq([0 .. d - 1 -> Cells]) /\ Len(t) = Len(a.nodes) + c
      /\ \A i \in 1 .. Len(a.nodes) : t[i] = a.nodes[i]
  <2> HIDE DEF c, d
  <2> QED
    BY <1>2, <1>4, NewNodes
<1>7. c * d \in Nat
  BY <1>2, <1>4
<1>8. cap \in Nat /\ cap = Len(t) * d /\ a.m_capacity <= cap /\ (d = 1 => a.m_position + n <= cap)
  <2> DEFINE x == c * d
             y == Len(a.nodes) * d
  <2>1. Len(t) * d = y + x
    <3>1. (Len(a.nodes) + c) * d = Len(a.nodes) * d + c * d
      <4>1. Len(a.nodes) \in Nat /\ c \in Nat /\ d \in Nat
        BY <1>2, <1>4
      <4>2. \A k, l, m \in Nat : (k + l) * m = k * m + l * m
        OBVIOUS
      <4> HIDE DEF c, d
      <4> QED
        BY <4>1, <4>2
    <3> HIDE DEF c, t, d
    <3> QED
      BY <1>6, <3>1
  <2>2. a.m_capacity = y
    BY <1>1 DEF InOrder
  <2>3. x \in Nat
    BY <1>7
  <2>4. d = 1 => x = c
    <3> HIDE DEF c, d
    <3> QED
      BY <1>4
  <2>5. cap = a.m_capacity + x
    OBVIOUS
  <2> HIDE DEF c, t, d, x, y, cap
  <2> QED
    BY <1>2, <1>4, <2>1, <2>2, <2>3, <2>4, <2>5
<1>9. cur \in Nat /\ cur = IF a.m_position = cap THEN Null ELSE (a.m_position \div d) + 1
  <2> HIDE DEF c
  <2>1. a.m_cur = IF a.m_position = a.m_capacity THEN Null ELSE (a.m_position \div d) + 1
    BY <1>1 DEF InOrder
  <2>2. CASE c = 0
    BY <1>2, <2>1, <2>2
  <2>3. CASE c > 0 /\ free = 0
    <3>1. a.m_position = Len(a.nodes) * d + 0 /\ 0 \in 0 .. d - 1
      BY <1>1, <1>2, <2>3 DEF InOrder
    <3>2. a.m_position \div d = Len(a.nodes)
      BY <1>2, <3>1, DivUnique
    <3>3. c * d > 0
      BY <1>2, <1>4, <2>3
    <3> QED
      BY <1>2, <1>7, <2>3, <3>2, <3>3
  <2>4. CASE c > 0 /\ free # 0
    BY <1>2, <1>3, <1>7, <2>1, <2>4
  <2> QED
    BY <1>4, <2>2, <2>3, <2>4
<1>10. /\ g \in ArrayOf(d) /\ g.m_baseSize = d /\ g.m_position = a.m_position
       /\ g.m_size = a.m_size /\ g.fault = a.fault /\ g.m_capacity = cap
       /\ g.nodes = t /\ g.m_cur = cur
  <2>1. a \in ArrayOf(d)
    BY <1>1 DEF IsArray
  <2> HIDE DEF d, t, cur, cap
  <2> QED
    BY <1>6, <1>8, <1>9, <2>1 DEF ArrayOf
<1>11. Good(g)
  <2> HIDE DEF g, t, cur, cap, c
  <2>1. IsArray(g)
    BY <1>2, <1>10 DEF IsArray
  <2>2. a.m_position <= a.m_size /\ a.m_size <= a.m_capacity /\ Len(a.nodes) > 0
    BY <1>1 DEF InOrder
  <2>3. a.m_size <= cap /\ Len(t) > 0
    BY <1>2, <1>4, <1>6, <1>8, <2>2
  <2>4. g.m_cur = IF g.m_position = g.m_capacity THEN Null ELSE (g.m_position \div g.m_baseSize) + 1
    BY <1>9, <1>10
  <2>5. InOrder(g)
    BY <1>8, <1>10, <2>2, <2>3, <2>4 DEF InOrder
  <2> QED
    BY <2>1, <2>5 DEF Good
<1>12. \A p \in 0 .. a.m_capacity - 1 : Byte(g, p) = Byte(a, p)
  <2> TAKE p \in 0 .. a.m_capacity - 1
  <2>1. p \in Nat /\ p < Len(a.nodes) * d
    BY <1>1, <1>2 DEF InOrder
  <2>2. (p \div d) + 1 \in 1 .. Len(a.nodes)
    BY <1>2, <2>1, NodeInList
  <2> HIDE DEF g, t
  <2> QED
    BY <1>6, <1>10, <2>2 DEF Byte
<1> HIDE DEF g
<1> QED
  BY <1>5, <1>8, <1>10, <1>11, <1>12

\* setPosition changes the position, and the size if that is beyond it.
LEMMA SetPositionEffect ==
  ASSUME NEW a, Good(a), NEW v \in Nat, v <= a.m_capacity
  PROVE  LET g == setPosition(a, v) IN
         /\ Good(g) /\ g.m_baseSize = a.m_baseSize /\ g.m_position = v
         /\ g.m_size = AtLeast(a.m_size, v) /\ g.m_capacity = a.m_capacity
         /\ g.nodes = a.nodes /\ g.fault = a.fault
<1> DEFINE d == a.m_baseSize
           g == setPosition(a, v)
<1>1. IsArray(a) /\ InOrder(a)
  BY DEF Good
<1>2. /\ d \in Nat \ {0} /\ a.m_capacity \in Nat /\ a.m_size \in Nat
      /\ a.nodes \in Seq([0 .. d - 1 -> Cells]) /\ Len(a.nodes) \in Nat /\ a.fault \in Faults
  BY <1>1, ArrayFields
<1>3. AtLeast(a.m_size, v) \in Nat /\ AtLeast(a.m_size, v) <= a.m_capacity
      /\ v <= AtLeast(a.m_size, v)
  BY <1>1, <1>2 DEF AtLeast, InOrder
<1>4. v \div d \in Nat
  BY <1>2, DivMod
<1>5. NodeOf(a, v) \in Nat
      /\ NodeOf(a, v) = IF v = a.m_capacity THEN Null ELSE (v \div d) + 1
  BY <1>2, <1>4 DEF NodeOf, Null
<1>6. /\ g \in ArrayOf(d) /\ g.m_baseSize = d /\ g.m_position = v
      /\ g.m_size = AtLeast(a.m_size, v) /\ g.m_capacity = a.m_capacity
      /\ g.nodes = a.nodes /\ g.fault = a.fault /\ g.m_cur = NodeOf(a, v)
  <2>1. a \in ArrayOf(d)
    BY <1>1 DEF IsArray
  <2> HIDE DEF d
  <2> QED
    BY <1>3, <1>5, <2>1 DEF ArrayOf, setPosition
<1> HIDE DEF g
<1>7. IsArray(g)
  BY <1>2, <1>6 DEF IsArray
<1>8. InOrder(g)
  <2>1. a.m_capacity = Len(a.nodes) * d /\ Len(a.nodes) > 0
    BY <1>1 DEF InOrder
  <2> HIDE DEF d
  <2> QED
    BY <1>3, <1>5, <1>6, <2>1 DEF InOrder
<1> QED
  BY <1>6, <1>7, <1>8 DEF Good, g

\* A loop that has copied n bytes is where setPosition would go.
LEMMA AdvanceSets ==
  ASSUME NEW a, Good(a), NEW n \in Nat \ {0}, a.m_position + n <= a.m_capacity
  PROVE  Advance(a, n) = setPosition(a, a.m_position + n)
<1> DEFINE d == a.m_baseSize
           p == a.m_position
<1>1. IsArray(a) /\ InOrder(a)
  BY DEF Good
<1>2. d \in Nat \ {0} /\ a.m_capacity \in Nat /\ p \in Nat /\ Len(a.nodes) \in Nat
  BY <1>1, ArrayFields
<1>3. a.m_cur = (p \div d) + 1 /\ a.m_capacity = Len(a.nodes) * d
  BY <1>1, <1>2 DEF InOrder
<1>4. a.m_cur + ((Npos(a) + n) \div d) = ((p + n) \div d) + 1
  <2>1. (p + n) \div d = (p \div d) + (((p % d) + n) \div d)
    BY <1>2, DivShift
  <2>2. p \div d \in Nat /\ (p % d) + n \in Nat
    <3>1. p \div d \in Nat /\ p % d \in Nat
      BY <1>2, DivMod
    <3> QED
      BY <3>1
  <2>3. ((p % d) + n) \div d \in Nat
    BY <1>2, <2>2, DivMod
  <2> QED
    BY <1>3, <2>1, <2>2, <2>3 DEF Npos
<1>5. (p + n) \div d \in Nat /\ (p + n < Len(a.nodes) * d <=> (p + n) \div d < Len(a.nodes))
  <2>1. p + n \in Nat
    BY <1>2
  <2> QED
    BY <1>2, <2>1, DivMod, DivBelow
<1>6. ((p + n) \div d) + 1 <= Len(a.nodes) <=> p + n < a.m_capacity
  BY <1>2, <1>3, <1>5
<1>7. CurAfter(a, n) = NodeOf(a, p + n)
  BY <1>4, <1>6 DEF CurAfter, NodeOf
<1> QED
  BY <1>7 DEF Advance, setPosition

\* The copying loops change the cells of s, and no other.
LEMMA StoreEffect ==
  ASSUME NEW a, Good(a), NEW s \in Seq(Cells), s # <<>>,
         a.m_position + Len(s) <= a.m_capacity
  PROVE  LET g == Store(a, s) IN
         /\ Good(g) /\ g.m_baseSize = a.m_baseSize /\ g.m_position = a.m_position
         /\ g.m_size = a.m_size /\ g.m_capacity = a.m_capacity /\ g.fault = a.fault
         /\ \A p \in 0 .. a.m_capacity - 1 :
              Byte(g, p) = IF p - a.m_position + 1 \in 1 .. Len(s)
                             THEN s[p - a.m_position + 1] ELSE Byte(a, p)
<1> DEFINE d == a.m_baseSize
           k(i, o) == (i - a.m_cur) * d + o - Npos(a) + 1
           nodes == [i \in DOMAIN a.nodes |-> [o \in DOMAIN a.nodes[i] |->
                       IF k(i, o) \in DOMAIN s THEN s[k(i, o)] ELSE a.nodes[i][o]]]
           g == [a EXCEPT !.nodes = nodes]
<1>1. IsArray(a) /\ InOrder(a)
  BY DEF Good
<1>2. /\ d \in Nat \ {0} /\ a.m_capacity \in Nat /\ a.m_size \in Nat /\ a.m_position \in Nat
      /\ a.nodes \in Seq([0 .. d - 1 -> Cells]) /\ Len(a.nodes) \in Nat /\ a.fault \in Faults
      /\ DOMAIN a.nodes = 1 .. Len(a.nodes) /\ a.m_cur \in Nat
  BY <1>1, ArrayFields
<1>3. Len(s) \in Nat \ {0} /\ DOMAIN s = 1 .. Len(s) /\ \A j \in 1 .. Len(s) : s[j] \in Cells
  OBVIOUS
<1>4. a.m_cur = (a.m_position \div d) + 1 /\ a.m_capacity = Len(a.nodes) * d
  BY <1>1, <1>2, <1>3 DEF InOrder
<1>5. Store(a, s) = g
  BY DEF Store
<1>6. /\ nodes \in Seq([0 .. d - 1 -> Cells]) /\ Len(nodes) = Len(a.nodes)
      /\ \A i \in 1 .. Len(a.nodes), o \in 0 .. d - 1 :
           nodes[i][o] = IF k(i, o) \in 1 .. Len(s) THEN s[k(i, o)] ELSE a.nodes[i][o]
  <2> HIDE DEF k, d
  <2>1. \A i \in 1 .. Len(a.nodes) : a.nodes[i] \in [0 .. d - 1 -> Cells]
    BY <1>2
  <2>2. \A i \in 1 .. Len(a.nodes) : DOMAIN a.nodes[i] = 0 .. d - 1
    BY <2>1
  <2>3. nodes = [i \in 1 .. Len(a.nodes) |-> [o \in 0 .. d - 1 |->
                   IF k(i, o) \in 1 .. Len(s) THEN s[k(i, o)] ELSE a.nodes[i][o]]]
    BY <1>2, <1>3, <2>2
  <2>4. \A i \in 1 .. Len(a.nodes) : nodes[i] \in [0 .. d - 1 -> Cells]
    BY <1>3, <2>1, <2>3
  <2>5. nodes \in [1 .. Len(a.nodes) -> [0 .. d - 1 -> Cells]]
    BY <2>3, <2>4
  <2>6. nodes \in Seq([0 .. d - 1 -> Cells]) /\ Len(nodes) = Len(a.nodes)
    <3>1. Len(a.nodes) \in Nat
      BY <1>2
    <3> DEFINE N == [0 .. d - 1 -> Cells]
    <3>2. nodes \in [1 .. Len(a.nodes) -> N]
      BY <2>5
    <3> HIDE DEF nodes, N
    <3>3. nodes \in Seq(N) /\ Len(nodes) = Len(a.nodes)
      BY <3>1, <3>2, FunctionSeq
    <3> QED
      BY <3>3 DEF N
  <2> QED
    BY <2>3, <2>6
<1>7. /\ g \in ArrayOf(d) /\ g.m_baseSize = d /\ g.m_position = a.m_position
      /\ g.m_size = a.m_size /\ g.m_capacity = a.m_capacity /\ g.fault = a.fault
      /\ g.nodes = nodes /\ g.m_cur = a.m_cur
  <2>1. a \in ArrayOf(d)
    BY <1>1 DEF IsArray
  <2> HIDE DEF d, nodes
  <2> QED
    BY <1>6, <2>1 DEF ArrayOf
<1>8. Good(g)
  <2> HIDE DEF g, nodes
  <2> QED
    BY <1>1, <1>2, <1>6, <1>7 DEF Good, IsArray, InOrder
<1>9. ASSUME NEW p \in 0 .. a.m_capacity - 1
      PROVE  Byte(g, p) = IF p - a.m_position + 1 \in 1 .. Len(s)
                            THEN s[p - a.m_position + 1] ELSE Byte(a, p)
  <2>1. p \in Nat /\ p < Len(a.nodes) * d
    BY <1>2, <1>4
  <2>2. (p \div d) + 1 \in 1 .. Len(a.nodes) /\ p % d \in 0 .. d - 1
    BY <1>2, <2>1, NodeInList
  <2>3. k((p \div d) + 1, p % d) = p - a.m_position + 1
    <3> DEFINE P == p \div d
               R == p % d
               Q == a.m_position \div d
               S == a.m_position % d
    <3>1. /\ P \in Nat /\ R \in Nat /\ p = P * d + R
          /\ Q \in Nat /\ S \in Nat /\ a.m_position = Q * d + S
      <4>1. P \in Nat /\ R \in Nat /\ p = P * d + R
        BY <1>2, <2>1, DivMod
      <4>2. Q \in Nat /\ S \in Nat /\ a.m_position = Q * d + S
        BY <1>2, DivMod
      <4> QED
        BY <4>1, <4>2
    <3>2. k(P + 1, R) = (P - Q) * d + (R - S) + 1
      <4>1. a.m_cur = Q + 1 /\ Npos(a) = S
        BY <1>4 DEF Npos
      <4>2. k(P + 1, R) = ((P + 1) - a.m_cur) * d + (R - Npos(a)) + 1
        OBVIOUS
      <4>3. (P + 1) - (Q + 1) = P - Q
        BY <3>1
      <4> HIDE DEF k, P, Q
      <4> QED
        BY <4>1, <4>2, <4>3
    <3> HIDE DEF P, R, Q, S, k, d
    <3>3. (P - Q) * d = P * d - Q * d
      BY <1>2, <3>1
    <3>4. P * d \in Nat /\ Q * d \in Nat
      BY <1>2, <3>1
    <3>5. k(P + 1, R) = p - a.m_position + 1
      BY <1>2, <3>1, <3>2, <3>3, <3>4
    <3> QED
      BY <3>5 DEF P, R, d
  <2>4. Byte(g, p) = nodes[(p \div d) + 1][p % d]
    <3> HIDE DEF g, nodes
    <3> QED
      BY <1>7 DEF Byte
  <2> HIDE DEF g, nodes, k
  <2> QED
    BY <1>6, <2>2, <2>3, <2>4 DEF Byte
<1> HIDE DEF g
<1> QED
  BY <1>5, <1>7, <1>8, <1>9

\* w is a with the bytes s written at the position.
Wrote(a, w, s) ==
  /\ Good(w) /\ w.m_baseSize = a.m_baseSize /\ w.fault = a.fault
  /\ w.m_position = a.m_position + Len(s)
  /\ w.m_size = AtLeast(a.m_size, a.m_position + Len(s))
  /\ \A p \in 0 .. w.m_size - 1 :
       Byte(w, p) = IF p - a.m_position + 1 \in 1 .. Len(s)
                      THEN s[p - a.m_position + 1] ELSE Byte(a, p)

\* w is a with the position n bytes further, at most at the end.
Moved(a, w, n) ==
  /\ Good(w) /\ w.m_baseSize = a.m_baseSize /\ w.fault = a.fault
  /\ w.nodes = a.nodes /\ w.m_size = a.m_size /\ w.m_position = a.m_position + n

\* What is written through the cells of the grown array, wherever the position
\* is then set.
LEMMA StoredBytes ==
  ASSUME NEW a, Good(a), NEW g, Good(g), g.m_baseSize = a.m_baseSize,
         g.m_position = a.m_position, g.m_size = a.m_size, g.fault = a.fault,
         a.m_capacity <= g.m_capacity,
         \A p \in 0 .. a.m_capacity - 1 : Byte(g, p) = Byte(a, p),
         NEW s \in Seq(Cells), s # <<>>, a.m_position + Len(s) <= g.m_capacity
  PROVE  Wrote(a, setPosition(Store(g, s), a.m_position + Len(s)), s)
<1> DEFINE st == Store(g, s)
           v == a.m_position + Len(s)
           w == setPosition(st, v)
<1>1. /\ Good(st) /\ st.m_baseSize = a.m_baseSize /\ st.m_position = a.m_position
      /\ st.m_size = a.m_size /\ st.m_capacity = g.m_capacity /\ st.fault = a.fault
  BY StoreEffect
<1>2. \A p \in 0 .. g.m_capacity - 1 :
        Byte(st, p) = IF p - a.m_position + 1 \in 1 .. Len(s)
                        THEN s[p - a.m_position + 1] ELSE Byte(g, p)
  BY StoreEffect
<1>3. /\ a.m_position \in Nat /\ a.m_capacity \in Nat /\ a.m_size \in Nat /\ g.m_capacity \in Nat
      /\ a.m_position <= a.m_size /\ a.m_size <= a.m_capacity
  BY GoodFields
<1>4. Len(s) \in Nat \ {0} /\ v \in Nat /\ v <= g.m_capacity
  BY <1>3
<1> HIDE DEF st
<1>5. /\ Good(w) /\ w.m_baseSize = st.m_baseSize /\ w.m_position = v
      /\ w.m_size = AtLeast(st.m_size, v) /\ w.nodes = st.nodes /\ w.fault = st.fault
  <2> HIDE DEF v
  <2> QED
    BY <1>1, <1>4, SetPositionEffect
<1>6. \A p : Byte(w, p) = Byte(st, p)
  <2> HIDE DEF w
  <2> QED
    BY <1>5 DEF Byte
<1>7. ASSUME NEW p \in 0 .. w.m_size - 1
      PROVE  Byte(w, p) = IF p - a.m_position + 1 \in 1 .. Len(s)
                            THEN s[p - a.m_position + 1] ELSE Byte(a, p)
  <2>1. w.m_size = IF a.m_size < v THEN v ELSE a.m_size
    <3> HIDE DEF w, v
    <3> QED
      BY <1>1, <1>5 DEF AtLeast
  <2>2. p \in 0 .. g.m_capacity - 1
    <3> HIDE DEF w
    <3> QED
      BY <1>3, <1>4, <2>1
  <2>3. p - a.m_position + 1 \notin 1 .. Len(s) => p \in 0 .. a.m_capacity - 1
    <3> HIDE DEF w
    <3> QED
      BY <1>3, <1>4, <2>1
  <2> HIDE DEF w
  <2> QED
    BY <1>2, <1>6, <2>2, <2>3
<1> HIDE DEF w
<1>8. Wrote(a, w, s)
  BY <1>1, <1>5, <1>7 DEF Wrote
<1> QED
  BY <1>8 DEF w, v, st

\* write() writes, or finds too few nodes, which those of one byte exclude.
LEMMA WriteEffect ==
  ASSUME NEW a, Good(a), a.fault = "none", NEW s \in Seq(Cells)
  PROVE  \/ Wrote(a, write(a, s), s)
         \/ write(a, s) = Crash(a, "write") /\ a.m_baseSize # 1
<1>1. CASE s = <<>>
  <2>1. write(a, s) = a /\ Len(s) = 0
    BY <1>1 DEF write
  <2>2. a.m_position \in Nat /\ a.m_size \in Nat /\ a.m_position <= a.m_size
    BY GoodFields
  <2>3. a.m_size = AtLeast(a.m_size, a.m_position + 0) /\ a.m_position = a.m_position + 0
    BY <2>2 DEF AtLeast
  <2>4. Wrote(a, a, s)
    BY <2>1, <2>3 DEF Wrote
  <2> QED
    BY <2>1, <2>4
<1>2. CASE s # <<>>
  <2> DEFINE g == AddCapacity(a, Len(s))
  <2>0. Len(s) \in Nat \ {0}
    BY <1>2
  <2>1. /\ Good(g) /\ g.m_baseSize = a.m_baseSize /\ g.m_position = a.m_position
        /\ g.m_size = a.m_size /\ g.fault = a.fault /\ a.m_capacity <= g.m_capacity
        /\ a.m_baseSize = 1 => a.m_position + Len(s) <= g.m_capacity
    BY <2>0, AddCapacityEffect
  <2>2. \A p \in 0 .. a.m_capacity - 1 : Byte(g, p) = Byte(a, p)
    BY <2>0, AddCapacityEffect
  <2>3. write(a, s) = IF Reaches(g, g.m_cur, Npos(g), Len(s))
                        THEN Advance(Store(g, s), Len(s)) ELSE Crash(a, "write")
    BY <1>2 DEF write
  <2> HIDE DEF g
  <2>4. Reaches(g, g.m_cur, Npos(g), Len(s)) <=> a.m_position + Len(s) <= g.m_capacity
    BY <2>0, <2>1, ReachesIff
  <2>5. CASE a.m_position + Len(s) <= g.m_capacity
    <3> DEFINE st == Store(g, s)
    <3>1. Good(st) /\ st.m_position = a.m_position /\ st.m_capacity = g.m_capacity
      BY <1>2, <2>1, <2>5, StoreEffect
    <3>2. Advance(st, Len(s)) = setPosition(st, a.m_position + Len(s))
      <4> HIDE DEF st
      <4> QED
        BY <2>0, <2>5, <3>1, AdvanceSets
    <3>3. Wrote(a, setPosition(st, a.m_position + Len(s)), s)
      BY <1>2, <2>1, <2>2, <2>5, StoredBytes
    <3> QED
      BY <2>3, <2>4, <2>5, <3>2, <3>3
  <2>6. CASE ~ (a.m_position + Len(s) <= g.m_capacity)
    BY <2>1, <2>3, <2>4, <2>6
  <2> QED
    BY <2>5, <2>6
<1> QED
  BY <1>1, <1>2

\* read() of bytes that are there moves over them; of no bytes it may fail.
LEMMA ReadEffect ==
  ASSUME NEW a, Good(a), NEW n \in Nat, n <= getReadSize(a)
  PROVE  \/ Moved(a, read(a, n), n)
         \/ read(a, n) = Crash(a, "empty read") /\ n = 0
<1>0. /\ a.m_position \in Nat /\ a.m_capacity \in Nat /\ a.m_size \in Nat
      /\ a.m_position <= a.m_size /\ a.m_size <= a.m_capacity
  BY GoodFields
<1>1. CASE n = 0
  <2>1. a.m_position = a.m_position + n
    BY <1>0, <1>1
  <2>2. Moved(a, a, n)
    BY <2>1 DEF Moved
  <2> QED
    BY <1>1, <2>2 DEF read
<1>2. CASE n # 0
  <2> DEFINE v == a.m_position + n
             w == setPosition(a, v)
  <2>1. v \in Nat /\ v <= a.m_size /\ v <= a.m_capacity
    BY <1>0 DEF getReadSize
  <2>2. read(a, n) = w
    <3>1. Reaches(a, a.m_cur, Npos(a), n)
      BY <1>2, <2>1, ReachesIff
    <3>2. Advance(a, n) = w
      BY <1>2, <2>1, AdvanceSets
    <3> QED
      BY <1>2, <3>1, <3>2 DEF read
  <2>3. /\ Good(w) /\ w.m_baseSize = a.m_baseSize /\ w.m_position = v
        /\ w.m_size = AtLeast(a.m_size, v) /\ w.nodes = a.nodes /\ w.fault = a.fault
    <3> HIDE DEF v
    <3> QED
      BY <2>1, SetPositionEffect
  <2>4. AtLeast(a.m_size, v) = a.m_size
    BY <1>0, <2>1 DEF AtLeast
  <2>5. Moved(a, w, n)
    <3> HIDE DEF w
    <3> QED
      BY <2>3, <2>4 DEF Moved
  <2> QED
    BY <2>2, <2>5
<1> QED
  BY <1>1, <1>2

\* The process ends without a change of the bytes.
LEMMA CrashEffect ==
  ASSUME NEW a, Good(a), NEW f \in Faults
  PROVE  LET c == Crash(a, f) IN
         /\ Good(c) /\ c.m_baseSize = a.m_baseSize /\ c.m_position = a.m_position
         /\ c.m_size = a.m_size /\ c.nodes = a.nodes /\ c.m_capacity = a.m_capacity
         /\ c.m_cur = a.m_cur /\ c.fault = f
<1> DEFINE c == Crash(a, f)
           d == a.m_baseSize
<1>1. d \in Nat \ {0} /\ a \in ArrayOf(d) /\ InOrder(a)
  BY DEF Good, IsArray
<1>2. /\ c \in ArrayOf(d) /\ c.m_baseSize = d /\ c.m_position = a.m_position
      /\ c.m_size = a.m_size /\ c.nodes = a.nodes /\ c.m_capacity = a.m_capacity
      /\ c.m_cur = a.m_cur /\ c.fault = f
  <2> HIDE DEF d
  <2> QED
    BY <1>1 DEF Crash, ArrayOf
<1> HIDE DEF c
<1>3. Good(c)
  <2>1. IsArray(c)
    BY <1>1, <1>2 DEF IsArray
  <2>2. InOrder(c)
    BY <1>1, <1>2 DEF InOrder
  <2> QED
    BY <2>1, <2>2 DEF Good
<1> QED
  BY <1>2, <1>3 DEF c

\* What CrashEffect says of the fault.
LEMMA CrashFault ==
  ASSUME NEW a, Good(a), NEW f \in Faults
  PROVE  Crash(a, f).fault = f /\ Good(Crash(a, f)) /\ Crash(a, f).m_baseSize = a.m_baseSize
BY CrashEffect

\* clear() leaves an empty array of one node.
LEMMA ClearEffect ==
  ASSUME NEW a, Good(a)
  PROVE  LET c == clear(a) IN
         /\ Good(c) /\ c.m_baseSize = a.m_baseSize /\ c.m_position = 0
         /\ c.m_size = 0 /\ c.fault = a.fault
<1> DEFINE c == clear(a)
           d == a.m_baseSize
<1>1. /\ d \in Nat \ {0} /\ a \in ArrayOf(d) /\ InOrder(a) /\ IsArray(a)
  BY DEF Good, IsArray
<1>2. /\ a.nodes \in Seq([0 .. d - 1 -> Cells]) /\ Len(a.nodes) > 0 /\ a.fault \in Faults
      /\ Len(a.nodes) \in Nat
  BY <1>1, ArrayFields DEF InOrder
<1>3. <<a.nodes[1]>> \in Seq([0 .. d - 1 -> Cells]) /\ Len(<<a.nodes[1]>>) = 1
  <2>1. a.nodes[1] \in [0 .. d - 1 -> Cells]
    BY <1>2
  <2> QED
    BY <2>1
<1>4. /\ c \in ArrayOf(d) /\ c.m_baseSize = d /\ c.m_position = 0 /\ c.m_size = 0
      /\ c.nodes = <<a.nodes[1]>> /\ c.m_capacity = d /\ c.m_cur = 1 /\ c.fault = a.fault
  <2> HIDE DEF d
  <2>1. d \in Nat
    BY <1>1
  <2>2. c = [a EXCEPT !.m_position = 0, !.m_size = 0, !.m_capacity = d,
                      !.nodes = <<a.nodes[1]>>, !.m_cur = 1]
    BY DEF clear, d
  <2> HIDE DEF c
  <2> QED
    BY <1>1, <1>3, <2>1, <2>2 DEF ArrayOf
<1> HIDE DEF c
<1>5. Good(c)
  <2>1. IsArray(c)
    BY <1>1, <1>4 DEF IsArray
  <2>2. 0 \div d = 0
    BY <1>1
  <2>3. InOrder(c)
    BY <1>1, <1>3, <1>4, <2>2 DEF InOrder
  <2> QED
    BY <2>1, <2>3 DEF Good
<1> QED
  BY <1>4, <1>5 DEF c

\* What is beyond the second of two strings is within the bytes before it.
LEMMA Behind ==
  ASSUME NEW size \in Nat, NEW pos \in Nat, NEW m \in Nat, NEW n \in Nat, NEW j \in Nat,
         j < AtLeast(AtLeast(size, pos + m), pos + m + n),
         j - (pos + m) + 1 \notin 1 .. n
  PROVE  /\ j < AtLeast(size, pos + m)
         /\ j - pos + 1 \in 1 .. m + n <=> j - pos + 1 \in 1 .. m
<1>1. j < pos + m \/ j >= pos + m + n
  OBVIOUS
<1>2. j < AtLeast(size, pos + m)
  BY <1>1 DEF AtLeast
<1>3. CASE j < pos + m
  BY <1>2, <1>3
<1>4. CASE j >= pos + m + n
  BY <1>2, <1>4
<1> QED
  BY <1>1, <1>3, <1>4

\* Written one after the other is written at once.
LEMMA WroteTwice ==
  ASSUME NEW a, Good(a), NEW w, NEW x, NEW s \in Seq(Cells), NEW t \in Seq(Cells),
         Wrote(a, w, s), Wrote(w, x, t)
  PROVE  Wrote(a, x, s \o t)
<1> DEFINE p == a.m_position
           v == w.m_position
           y == x.m_position
<1>1. /\ p \in Nat /\ a.m_size \in Nat /\ Len(s) \in Nat /\ Len(t) \in Nat
      /\ Len(s \o t) = Len(s) + Len(t)
  BY GoodFields
<1>2. /\ Good(w) /\ w.m_baseSize = a.m_baseSize /\ w.fault = a.fault
      /\ v = p + Len(s) /\ w.m_size = AtLeast(a.m_size, p + Len(s))
      /\ \A j \in 0 .. w.m_size - 1 :
           Byte(w, j) = IF j - p + 1 \in 1 .. Len(s) THEN s[j - p + 1] ELSE Byte(a, j)
  BY DEF Wrote
<1>3. /\ Good(x) /\ x.m_baseSize = w.m_baseSize /\ x.fault = w.fault
      /\ y = v + Len(t) /\ x.m_size = AtLeast(w.m_size, v + Len(t))
      /\ \A j \in 0 .. x.m_size - 1 :
           Byte(x, j) = IF j - v + 1 \in 1 .. Len(t) THEN t[j - v + 1] ELSE Byte(w, j)
  BY DEF Wrote
<1>4. w.m_size \in Nat /\ x.m_size \in Nat /\ v \in Nat
  BY <1>2, <1>3, GoodFields
<1>5. y = p + Len(s \o t) /\ x.m_size = AtLeast(a.m_size, p + Len(s \o t))
  BY <1>1, <1>2, <1>3, <1>4 DEF AtLeast
<1>7. ASSUME NEW j \in Nat, j < x.m_size, j - v + 1 \notin 1 .. Len(t)
      PROVE  /\ j < w.m_size
             /\ j - p + 1 \in 1 .. Len(s) + Len(t) <=> j - p + 1 \in 1 .. Len(s)
  <2>1. /\ x.m_size = AtLeast(w.m_size, p + Len(s) + Len(t))
        /\ w.m_size = AtLeast(a.m_size, p + Len(s))
        /\ j - (p + Len(s)) + 1 \notin 1 .. Len(t)
    BY <1>2, <1>3, <1>7
  <2>2. j < AtLeast(AtLeast(a.m_size, p + Len(s)), p + Len(s) + Len(t))
    BY <1>7, <2>1
  <2> DEFINE z == a.m_size
             m == Len(s)
             n == Len(t)
  <2>3. /\ z \in Nat /\ p \in Nat /\ m \in Nat /\ n \in Nat /\ j \in Nat
        /\ j < AtLeast(AtLeast(z, p + m), p + m + n) /\ j - (p + m) + 1 \notin 1 .. n
    BY <1>1, <2>1, <2>2
  <2> HIDE DEF z, p, m, n
  <2>4. /\ j < AtLeast(z, p + m)
        /\ j - p + 1 \in 1 .. m + n <=> j - p + 1 \in 1 .. m
    BY <2>3, Behind
  <2> QED
    BY <2>1, <2>4 DEF z, p, m, n
<1>6. ASSUME NEW j \in 0 .. x.m_size - 1
      PROVE  Byte(x, j) = IF j - p + 1 \in 1 .. Len(s \o t) THEN (s \o t)[j - p + 1]
                                                            ELSE Byte(a, j)
  <2>0. j \in Nat /\ j < x.m_size
    BY <1>4
  <2>1. CASE j - v + 1 \in 1 .. Len(t)
    <3>1. j - p + 1 = Len(s) + (j - v + 1) /\ j - p + 1 \in 1 .. Len(s \o t)
      BY <1>1, <1>2, <2>0, <2>1
    <3>2. (s \o t)[Len(s) + (j - v + 1)] = t[j - v + 1]
      <4>1. \A k \in 1 .. Len(t) : (s \o t)[Len(s) + k] = t[k]
        OBVIOUS
      <4> QED
        BY <2>1, <4>1
    <3>3. Byte(x, j) = t[j - v + 1]
      BY <1>3, <2>1
    <3> QED
      BY <3>1, <3>2, <3>3
  <2>2. CASE j - v + 1 \notin 1 .. Len(t)
    <3>1. j < w.m_size
      BY <1>7, <2>0, <2>2
    <3>2. Byte(x, j) = Byte(w, j)
      BY <1>3, <2>2
    <3>3. Byte(w, j) = IF j - p + 1 \in 1 .. Len(s) THEN s[j - p + 1] ELSE Byte(a, j)
      BY <1>2, <1>4, <2>0, <3>1
    <3>4. j - p + 1 \in 1 .. Len(s \o t) <=> j - p + 1 \in 1 .. Len(s)
      BY <1>1, <1>7, <2>0, <2>2
    <3>5. \A k \in 1 .. Len(s) : (s \o t)[k] = s[k]
      OBVIOUS
    <3> QED
      BY <3>2, <3>3, <3>4, <3>5
  <2> QED
    BY <2>1, <2>2
<1> QED
  BY <1>2, <1>3, <1>5, <1>6 DEF Wrote

-----------------------------------------------------------------------------
(* readFromFile: a fold of write() over the pieces of the file *)

\* Max of a set of positions.
LEMMA MaxInSet ==
  ASSUME NEW n \in Nat, NEW s, s \subseteq 1 .. n, s # {}
  PROVE  Max(s) \in s /\ \A y \in s : y <= Max(s)
<1> DEFINE T == {k \in Nat : \A y \in s : y <= k}
<1>1. n \in T
  OBVIOUS
<1>2. PICK k \in T : \A j \in T : k <= j
  <2>1. T \subseteq Nat /\ T # {}
    BY <1>1
  <2> HIDE DEF T
  <2> QED
    BY <2>1, Least
<1>3. k \in s
  <2> SUFFICES ASSUME k \notin s PROVE FALSE
    OBVIOUS
  <2>1. PICK y \in s : TRUE
    OBVIOUS
  <2>2. k - 1 \in T
    BY <1>2, <2>1
  <2> QED
    BY <1>2, <2>2
<1>4. \E x \in s : \A y \in s : x >= y
  BY <1>2, <1>3
<1> QED
  BY <1>4 DEF Max

\* What a fold over n elements defines: a value for every set of positions.
Folded(n, W, F, a, g) ==
  /\ F \in [SUBSET (1 .. n) -> W]
  /\ \A s \in SUBSET (1 .. n) :
       F[s] = IF s = {} THEN a ELSE g[<<F[s \ {Max(s)}], Max(s)>>]

\* There is a function that a fold defines.
LEMMA FoldExists ==
  ASSUME NEW n \in Nat, NEW W, NEW a \in W, NEW g \in [W \X (1 .. n) -> W]
  PROVE  \E F : Folded(n, W, F, a, g)
<1> DEFINE D == SUBSET (1 .. n)
           V == [D -> W]
           Step(F, s) == IF s = {} THEN a ELSE g[<<F[s \ {Max(s)}], Max(s)>>]
           h == [F \in V |-> [s \in D |-> Step(F, s)]]
           m == [s \in D |-> IF s = {} THEN 0 ELSE Max(s)]
<1>1. \A s \in D : s # {} => Max(s) \in s /\ Max(s) \in 1 .. n /\ \A y \in s : y <= Max(s)
  BY MaxInSet
<1>2. \A F \in V, s \in D : Step(F, s) \in W
  <2> TAKE F \in V, s \in D
  <2>1. CASE s = {}
    BY <2>1
  <2>2. CASE s # {}
    <3>1. s \ {Max(s)} \in D /\ Max(s) \in 1 .. n
      BY <1>1, <2>2
    <3>2. F[s \ {Max(s)}] \in W
      <4> HIDE DEF D
      <4> QED
        BY <3>1
    <3>3. <<F[s \ {Max(s)}], Max(s)>> \in W \X (1 .. n)
      BY <3>1, <3>2
    <3> QED
      BY <2>2, <3>3
  <2> QED
    BY <2>1, <2>2
<1>3. h \in [V -> V]
  <2> HIDE DEF D, Step
  <2> QED
    BY <1>2
<1>4. m \in [D -> Nat]
  <2>1. \A s \in D : (IF s = {} THEN 0 ELSE Max(s)) \in Nat
    BY <1>1
  <2> HIDE DEF D
  <2> QED
    BY <2>1
<1>5. \A F, G \in V : \A s \in D :
        (\A y \in D : m[y] < m[s] => F[y] = G[y]) => h[F][s] = h[G][s]
  <2> SUFFICES ASSUME NEW F \in V, NEW G \in V, NEW s \in D,
                      \A y \in D : m[y] < m[s] => F[y] = G[y]
               PROVE  h[F][s] = h[G][s]
    OBVIOUS
  <2>1. Step(F, s) = Step(G, s)
    <3>1. CASE s = {}
      BY <3>1
    <3>2. CASE s # {}
      <4> DEFINE r == s \ {Max(s)}
      <4>1. r \in D /\ m[s] = Max(s) /\ Max(s) \in 1 .. n
        BY <1>1, <3>2
      <4>2. m[r] < m[s]
        <5>1. CASE r = {}
          BY <4>1, <5>1
        <5>2. CASE r # {}
          <6>1. Max(r) \in r /\ Max(r) \in 1 .. n
            BY <1>1, <4>1, <5>2
          <6>2. Max(r) <= Max(s) /\ Max(r) # Max(s)
            BY <1>1, <3>2, <6>1
          <6>3. m[r] = Max(r)
            BY <4>1, <5>2
          <6> QED
            BY <4>1, <6>1, <6>2, <6>3
        <5> QED
          BY <5>1, <5>2
      <4>3. F[r] = G[r]
        <5> HIDE DEF D, m, r, h
        <5> QED
          BY <4>1, <4>2
      <4> QED
        BY <3>2, <4>3
    <3> QED
      BY <3>1, <3>2
  <2>2. h[F][s] = Step(F, s) /\ h[G][s] = Step(G, s)
    <3> HIDE DEF V, D, Step
    <3> QED
      OBVIOUS
  <2> QED
    BY <2>1, <2>2
<1>6. PICK F \in V : F = h[F]
  <2>1. a \in W /\ V = [D -> W]
    OBVIOUS
  <2> HIDE DEF D, V, h, m
  <2>2. Recursive(h, m, D, V)
    BY <1>3, <1>4, <1>5 DEF Recursive, Maps
  <2> QED
    BY <2>1, <2>2, Recursion
<1>7. \A s \in D : F[s] = Step(F, s)
  <2> HIDE DEF V, D, Step
  <2> QED
    BY <1>6
<1>8. F \in V /\ \A s \in D : F[s] = IF s = {} THEN a ELSE g[<<F[s \ {Max(s)}], Max(s)>>]
  BY <1>7
<1> QED
  BY <1>8 DEF Folded

\* The set of the first i positions is that of the first i - 1, and i.
LEMMA FirstOnes ==
  ASSUME NEW n \in Nat, NEW i \in 1 .. n
  PROVE  /\ 1 .. i \in SUBSET (1 .. n) /\ 1 .. i # {} /\ Max(1 .. i) = i
         /\ (1 .. i) \ {i} = 1 .. i - 1
<1>1. i \in Nat /\ i <= n /\ i \in 1 .. i
  OBVIOUS
<1>2. 1 .. i \in SUBSET (1 .. n) /\ 1 .. i # {}
  <2>1. \A j \in 1 .. i : j \in 1 .. n
    BY <1>1
  <2>2. 1 .. i \in SUBSET (1 .. n)
    BY <2>1
  <2> QED
    BY <1>1, <2>2
<1>3. Max(1 .. i) = i
  <2>1. Max(1 .. i) \in 1 .. i /\ \A y \in 1 .. i : y <= Max(1 .. i)
    BY <1>2, MaxInSet
  <2> QED
    BY <1>1, <2>1
<1>4. (1 .. i) \ {i} = 1 .. i - 1
  OBVIOUS
<1> QED
  BY <1>2, <1>3, <1>4

\* The ByteArrays with nodes of d bytes whose members are in order.
Arrays(d) == {a \in ArrayOf(d) : Good(a)}

\* write() makes a ByteArray of a ByteArray, also when it runs off the list.
LEMMA WriteClosed ==
  ASSUME NEW d, NEW a \in Arrays(d), NEW s \in Seq(Cells)
  PROVE  write(a, s) \in Arrays(d)
<1>1. Good(a) /\ a \in ArrayOf(d) /\ a.m_baseSize = d
  BY DEF Arrays, ArrayOf
<1>2. CASE a.fault # "none"
  BY <1>2 DEF write
<1>3. CASE a.fault = "none"
  <2>1. CASE Wrote(a, write(a, s), s)
    BY <1>1, <2>1 DEF Wrote, Good, IsArray, Arrays
  <2>2. CASE write(a, s) = Crash(a, "write")
    <3>1. Good(Crash(a, "write")) /\ Crash(a, "write").m_baseSize = a.m_baseSize
      BY <1>1, CrashEffect DEF Faults
    <3> QED
      BY <1>1, <2>2, <3>1 DEF Good, IsArray, Arrays
  <2> QED
    BY <1>1, <1>3, <2>1, <2>2, WriteEffect
<1> QED
  BY <1>2, <1>3

\* r is what is left of a when the pieces q are written one after the other.
Folds(d, a, n, q, r) ==
  \E f \in [0 .. n -> Arrays(d)] :
    f[0] = a /\ (\A i \in 1 .. n : f[i] = write(f[i - 1], q[i])) /\ r = f[n]

\* What FoldLeft computes of write().
LEMMA FoldWrites ==
  ASSUME NEW d, NEW a \in Arrays(d), NEW n \in Nat, NEW q, DOMAIN q = 1 .. n,
         \A i \in 1 .. n : q[i] \in Seq(Cells)
  PROVE  Folds(d, a, n, q, FoldLeft(write, a, q))
<1> DEFINE D == SUBSET (1 .. n)
           W == Arrays(d)
           Step(F, s) == IF s = {} THEN a ELSE write(F[s \ {Max(s)}], q[Max(s)])
           Eq(it) == it = [s \in D |-> Step(it, s)]
           it == CHOOSE it : Eq(it)
<1>1. Eq(it)
  <2> DEFINE g == [y \in W \X (1 .. n) |-> write(y[1], q[y[2]])]
  <2>1. g \in [W \X (1 .. n) -> W]
    <3>1. \A y \in W \X (1 .. n) : write(y[1], q[y[2]]) \in W
      <4> TAKE y \in W \X (1 .. n)
      <4>1. y[1] \in W /\ q[y[2]] \in Seq(Cells)
        OBVIOUS
      <4> QED
        BY <4>1, WriteClosed
    <3> HIDE DEF W
    <3> QED
      BY <3>1
  <2>2. PICK F : Folded(n, W, F, a, g)
    <3>1. a \in W
      OBVIOUS
    <3> HIDE DEF g, W
    <3> QED
      BY <2>1, <3>1, FoldExists
  <2>3. F \in [D -> W] /\ \A s \in D : F[s] = IF s = {} THEN a ELSE g[<<F[s \ {Max(s)}], Max(s)>>]
    <3> HIDE DEF g, W
    <3> QED
      BY <2>2 DEF Folded
  <2>4. ASSUME NEW s \in D PROVE F[s] = Step(F, s)
    <3>1. CASE s = {}
      BY <2>3, <3>1
    <3>2. CASE s # {}
      <4>1. Max(s) \in 1 .. n /\ s \ {Max(s)} \in D
        BY <3>2, MaxInSet
      <4>2. F[s \ {Max(s)}] \in W
        <5> HIDE DEF D, W
        <5> QED
          BY <2>3, <4>1
      <4>3. <<F[s \ {Max(s)}], Max(s)>> \in W \X (1 .. n)
        BY <4>1, <4>2
      <4>4. g[<<F[s \ {Max(s)}], Max(s)>>] = write(F[s \ {Max(s)}], q[Max(s)])
        <5> HIDE DEF W
        <5> QED
          BY <4>3
      <4> HIDE DEF g
      <4> QED
        BY <2>3, <3>2, <4>4
    <3> QED
      BY <3>1, <3>2
  <2>5. Eq(F)
    <3> HIDE DEF D, Step, W
    <3> QED
      BY <2>3, <2>4
  <2> HIDE DEF Eq
  <2> QED
    BY <2>5
<1>2. FoldLeft(write, a, q) = it[1 .. n]
  <2>1. FoldLeft(write, a, q)
          = (CHOOSE x : x = [s \in SUBSET DOMAIN q |->
               IF s = {} THEN a ELSE write(x[s \ {Max(s)}], q[Max(s)])])[DOMAIN q]
    BY Zenon DEF FoldLeft, MapThenFoldSet
  <2> QED
    BY <2>1
<1> HIDE DEF it
<1> DEFINE f == [i \in 0 .. n |-> it[1 .. i]]
<1>3. f[0] = a
  <2>1. 1 .. 0 = {} /\ {} \in D
    OBVIOUS
  <2>2. it[{}] = Step(it, {})
    BY <1>1, <2>1
  <2> QED
    BY <2>1, <2>2
<1>4. ASSUME NEW i \in 1 .. n PROVE f[i] = write(f[i - 1], q[i])
  <2>1. /\ 1 .. i \in D /\ 1 .. i # {} /\ Max(1 .. i) = i
        /\ (1 .. i) \ {i} = 1 .. i - 1
    BY FirstOnes
  <2>2. it[1 .. i] = Step(it, 1 .. i)
    <3> HIDE DEF D, Step
    <3> QED
      BY <1>1, <2>1
  <2>3. it[1 .. i] = write(it[1 .. i - 1], q[i])
    BY <2>1, <2>2
  <2> QED
    BY <2>3
<1>5. f \in [0 .. n -> W]
  <2> DEFINE P == {i \in Nat : i <= n => f[i] \in W}
  <2>1. 0 \in P
    BY <1>3
  <2>2. ASSUME NEW i \in Nat, i \in P PROVE i + 1 \in P
    <3> SUFFICES ASSUME i + 1 <= n PROVE f[i + 1] \in W
      OBVIOUS
    <3>1. i + 1 \in 1 .. n /\ (i + 1) - 1 = i /\ f[i] \in W
      BY <2>2
    <3> HIDE DEF f
    <3>2. f[i + 1] = write(f[i], q[i + 1])
      BY <1>4, <3>1
    <3> QED
      BY <3>1, <3>2, WriteClosed
  <2>3. \A i \in Nat : i \in P
    <3> HIDE DEF P
    <3> QED
      BY <2>1, <2>2, Induction
  <2>4. \A i \in 0 .. n : f[i] \in W
    <3> HIDE DEF f
    <3> QED
      BY <2>3
  <2> QED
    BY <2>4
<1>6. FoldLeft(write, a, q) = f[n]
  BY <1>2
<1> HIDE DEF f
<1> QED
  BY <1>3, <1>4, <1>5, <1>6 DEF Folds

\* readFromFile writes the whole file, or runs off the list.
LEMMA ReadFromFileEffect ==
  ASSUME NEW a, Good(a), a.fault = "none", NEW s \in Seq(Cells)
  PROVE  \/ Wrote(a, readFromFile(a, s), s)
         \/ /\ Good(readFromFile(a, s)) /\ readFromFile(a, s).fault = "write"
            /\ a.m_baseSize # 1
<1> DEFINE d == a.m_baseSize
           n == (Len(s) \div d) + 1
           upto(i) == IF i * d > Len(s) THEN Len(s) ELSE i * d
           q == Pieces(d, s)
<1>1. d \in Nat \ {0} /\ Len(s) \in Nat /\ a \in Arrays(d)
  BY GoodFields DEF Good, IsArray, Arrays
<1>2. n \in Nat /\ n > 0 /\ \A i \in 1 .. n : i \in Nat /\ i - 1 \in Nat /\ (i - 1) * d <= Len(s)
  <2>1. Len(s) \div d \in Nat
    BY <1>1
  <2>2. \A i \in Nat : i <= Len(s) \div d => i * d <= Len(s)
    BY <1>1
  <2> HIDE DEF d
  <2> QED
    BY <2>1, <2>2
<1>3. n * d > Len(s)
  <2>1. /\ Len(s) \div d \in Nat /\ Len(s) % d \in 0 .. d - 1
        /\ Len(s) = (Len(s) \div d) * d + (Len(s) % d)
    <3> HIDE DEF d
    <3> QED
      BY <1>1, DivMod
  <2>2. n * d = (Len(s) \div d) * d + d
    BY <1>1, <2>1
  <2> DEFINE z == (Len(s) \div d) * d
             r == Len(s) % d
  <2>3. Len(s) = z + r /\ n * d = z + d
    BY <2>1, <2>2
  <2>4. z \in Nat
    <3>1. \A k \in Nat : k * d \in Nat
      BY <1>1
    <3> QED
      BY <2>1, <3>1
  <2>5. r \in 0 .. d - 1
    BY <2>1
  <2> HIDE DEF z, r, n
  <2> QED
    BY <1>1, <2>3, <2>4, <2>5
<1>4. DOMAIN q = 1 .. n /\ \A i \in 1 .. n : q[i] = SubSeq(s, (i - 1) * d + 1, upto(i))
  BY DEF Pieces
<1>5. upto(0) = 0 /\ upto(n) = Len(s)
  BY <1>1, <1>3
<1>6. \A i \in 1 .. n : /\ upto(i - 1) = (i - 1) * d /\ upto(i - 1) \in Nat /\ upto(i) \in Nat
                        /\ upto(i - 1) <= upto(i) /\ upto(i) <= Len(s)
  <2> TAKE i \in 1 .. n
  <2>1. i * d \in Nat /\ (i - 1) * d \in Nat /\ i * d = (i - 1) * d + d
    <3>1. i \in Nat /\ i - 1 \in Nat
      BY <1>2
    <3> HIDE DEF d
    <3> QED
      BY <1>1, <3>1
  <2>2. (i - 1) * d <= Len(s)
    BY <1>2
  <2> QED
    BY <1>1, <2>1, <2>2
<1>7. \A i \in 1 .. n : /\ q[i] \in Seq(Cells) /\ SubSeq(s, 1, upto(i - 1)) \in Seq(Cells)
                        /\ SubSeq(s, 1, upto(i - 1)) \o q[i] = SubSeq(s, 1, upto(i))
  <2> TAKE i \in 1 .. n
  <2>1. /\ upto(i - 1) = (i - 1) * d /\ upto(i - 1) \in Nat /\ upto(i) \in Nat
        /\ upto(i - 1) <= upto(i) /\ upto(i) <= Len(s)
    BY <1>6
  <2>2. q[i] = SubSeq(s, upto(i - 1) + 1, upto(i))
    BY <1>4, <2>1
  <2>3. \A m, k \in Nat : m <= k /\ k <= Len(s) =>
           /\ SubSeq(s, 1, m) \in Seq(Cells) /\ SubSeq(s, m + 1, k) \in Seq(Cells)
           /\ SubSeq(s, 1, m) \o SubSeq(s, m + 1, k) = SubSeq(s, 1, k)
    BY SubSeqSplit
  <2> HIDE DEF q, n, upto
  <2> QED
    BY <2>1, <2>2, <2>3
<1> HIDE DEF q, n
<1>8. PICK f \in [0 .. n -> Arrays(d)] :
           /\ f[0] = a
           /\ \A i \in 1 .. n : f[i] = write(f[i - 1], q[i])
           /\ FoldLeft(write, a, q) = f[n]
  <2>1. a \in Arrays(d) /\ n \in Nat /\ DOMAIN q = 1 .. n
    BY <1>1, <1>2, <1>4
  <2>2. \A i \in 1 .. n : q[i] \in Seq(Cells)
    BY <1>7
  <2> HIDE DEF d
  <2>3. Folds(d, a, n, q, FoldLeft(write, a, q))
    BY <2>1, <2>2, FoldWrites
  <2> QED
    BY <2>3 DEF Folds
<1> DEFINE Ok(i) == \/ Wrote(a, f[i], SubSeq(s, 1, upto(i)))
                    \/ Good(f[i]) /\ f[i].fault = "write" /\ a.m_baseSize # 1
           P == {i \in Nat : i <= n => Ok(i)}
<1>9. 0 \in P
  <2>1. SubSeq(s, 1, 0) = <<>> /\ Len(<<>>) = 0
    OBVIOUS
  <2>2. a.m_position \in Nat /\ a.m_size \in Nat /\ a.m_position <= a.m_size
    BY GoodFields
  <2>3. a.m_size = AtLeast(a.m_size, a.m_position + 0) /\ a.m_position = a.m_position + 0
    BY <2>2 DEF AtLeast
  <2>4. Wrote(a, a, <<>>)
    BY <2>1, <2>3 DEF Wrote
  <2>5. Ok(0)
    <3> HIDE DEF d, upto
    <3> QED
      BY <1>5, <1>8, <2>1, <2>4
  <2> QED
    BY <2>5
<1>10. ASSUME NEW i \in Nat, i \in P PROVE i + 1 \in P
  <2> SUFFICES ASSUME i + 1 <= n PROVE Ok(i + 1)
    OBVIOUS
  <2>1. i + 1 \in 1 .. n /\ (i + 1) - 1 = i /\ Ok(i)
    BY <1>2, <1>10
  <2> HIDE DEF P
  <2> DEFINE t == SubSeq(s, 1, upto(i))
             u == SubSeq(s, 1, upto(i + 1))
             w == f[i]
             x == f[i + 1]
             p == q[i + 1]
  <2>2. x = write(w, p) /\ p \in Seq(Cells) /\ t \in Seq(Cells) /\ t \o p = u
    <3> HIDE DEF d, upto
    <3> QED
      BY <1>7, <1>8, <2>1
  <2>3. \/ Wrote(a, w, t)
        \/ Good(w) /\ w.fault = "write" /\ a.m_baseSize # 1
    BY <2>1
  <2>4. SUFFICES \/ Wrote(a, x, u)
                 \/ Good(x) /\ x.fault = "write" /\ a.m_baseSize # 1
    OBVIOUS
  <2> HIDE DEF t, u, w, x, p, d, upto
  <2>5. CASE Wrote(a, w, t)
    <3>1. Good(w) /\ w.fault = "none" /\ w.m_baseSize = a.m_baseSize
      BY <2>5 DEF Wrote
    <3>2. \/ Wrote(w, x, p)
          \/ x = Crash(w, "write") /\ w.m_baseSize # 1
      BY <2>2, <3>1, WriteEffect
    <3>3. CASE Wrote(w, x, p)
      BY <2>2, <2>5, <3>3, WroteTwice
    <3>4. CASE x = Crash(w, "write") /\ w.m_baseSize # 1
      <4>1. Good(x) /\ x.fault = "write"
        BY <3>1, <3>4, CrashEffect DEF Faults
      <4> QED
        BY <3>1, <3>4, <4>1
    <3> QED
      BY <3>2, <3>3, <3>4
  <2>6. CASE Good(w) /\ w.fault = "write" /\ a.m_baseSize # 1
    <3>1. x = w
      BY <2>2, <2>6 DEF write
    <3> QED
      BY <2>6, <3>1
  <2> QED
    BY <2>3, <2>5, <2>6
<1>11. \A i \in Nat : i \in P
  <2> HIDE DEF P
  <2> QED
    BY <1>9, <1>10, Induction
<1>12. Ok(n)
  BY <1>2, <1>11
<1>13. readFromFile(a, s) = f[n]
  BY <1>8 DEF readFromFile, q
<1>14. SubSeq(s, 1, Len(s)) = s
  OBVIOUS
<1> HIDE DEF upto, d
<1> QED
  BY <1>5, <1>12, <1>13, <1>14

-----------------------------------------------------------------------------
(* What is read back *)

\* A position within the capacity holds a byte, or one never written.
LEMMA ByteType ==
  ASSUME NEW a, Good(a), NEW p \in Nat, p < a.m_capacity
  PROVE  Byte(a, p) \in Cells
<1> DEFINE d == a.m_baseSize
<1>1. /\ d \in Nat \ {0} /\ a.nodes \in Seq([0 .. d - 1 -> Cells]) /\ Len(a.nodes) \in Nat
      /\ a.m_capacity = Len(a.nodes) * d
  BY ArrayFields DEF Good, InOrder
<1>2. (p \div d) + 1 \in 1 .. Len(a.nodes) /\ p % d \in 0 .. d - 1
  <2>1. p < Len(a.nodes) * d
    BY <1>1
  <2> HIDE DEF d
  <2> QED
    BY <1>1, <2>1, NodeInList
<1>3. a.nodes[(p \div d) + 1] \in [0 .. d - 1 -> Cells]
  <2> HIDE DEF d
  <2> QED
    BY <1>1, <1>2
<1>4. a.nodes[(p \div d) + 1][p % d] \in Cells
  <2> HIDE DEF d
  <2> QED
    BY <1>2, <1>3
<1> QED
  BY <1>4 DEF Byte

\* The bytes that a holds, as Content says of b.
Held(a) == [i \in 1 .. a.m_size |-> Byte(a, i - 1)]

\* Held is a sequence of m_size bytes.
LEMMA HeldType ==
  ASSUME NEW a, Good(a)
  PROVE  /\ Held(a) \in Seq(Cells) /\ Len(Held(a)) = a.m_size
         /\ \A i \in 1 .. a.m_size : Held(a)[i] = Byte(a, i - 1)
<1>1. a.m_size \in Nat /\ a.m_size <= a.m_capacity /\ a.m_capacity \in Nat
  BY GoodFields
<1>2. \A i \in 1 .. a.m_size : Byte(a, i - 1) \in Cells
  <2> TAKE i \in 1 .. a.m_size
  <2>1. i - 1 \in Nat /\ i - 1 < a.m_capacity
    BY <1>1
  <2> QED
    BY <2>1, ByteType
<1>3. [i \in 1 .. a.m_size |-> Byte(a, i - 1)] \in [1 .. a.m_size -> Cells]
  BY <1>2
<1> QED
  BY <1>1, <1>3, FunctionSeq DEF Held

\* What the copying loops find from position p on.
LEMMA RootBytes ==
  ASSUME NEW a, Good(a), NEW p \in Nat, NEW n \in Nat, p + n <= a.m_size
  PROVE  BytesFrom(a, (p \div a.m_baseSize) + 1, p % a.m_baseSize, n)
           = SubSeq(Held(a), p + 1, p + n)
<1> DEFINE d == a.m_baseSize
<1>1. a.m_size \in Nat /\ IsArray(a)
  BY GoodFields DEF Good
<1>2. /\ Held(a) \in Seq(Cells) /\ Len(Held(a)) = a.m_size
      /\ \A i \in 1 .. a.m_size : Held(a)[i] = Byte(a, i - 1)
  BY HeldType
<1>3. SubSeq(Held(a), p + 1, p + n) = [k \in 1 .. n |-> Byte(a, p + k - 1)]
  <2>1. SubSeq(Held(a), p + 1, p + n) = [k \in 1 .. n |-> Held(a)[p + k]]
    BY <1>1, <1>2
  <2>2. \A k \in 1 .. n : Held(a)[p + k] = Byte(a, p + k - 1)
    BY <1>1, <1>2
  <2> QED
    BY <2>1, <2>2
<1>4. ASSUME NEW k \in 1 .. n
      PROVE  LET c == Cell(a, (p \div d) + 1, p % d, k) IN a.nodes[c[1]][c[2]] = Byte(a, p + k - 1)
  <2>1. Cell(a, (p \div d) + 1, p % d, k) = <<((p + k - 1) \div d) + 1, (p + k - 1) % d>>
    <3>1. k \in Nat \ {0}
      OBVIOUS
    <3> QED
      BY <1>1, <3>1, PositionCell
  <2> QED
    BY <2>1 DEF Byte
<1>5. BytesFrom(a, (p \div d) + 1, p % d, n) = [k \in 1 .. n |-> Byte(a, p + k - 1)]
  BY <1>4 DEF BytesFrom
<1> QED
  BY <1>3, <1>5

\* What they find from the position of a on.
LEMMA ReadBytes ==
  ASSUME NEW a, Good(a), NEW n \in Nat \ {0}, n <= getReadSize(a)
  PROVE  BytesFrom(a, a.m_cur, Npos(a), n)
           = SubSeq(Held(a), a.m_position + 1, a.m_position + n)
<1> DEFINE p == a.m_position
<1>1. /\ p \in Nat /\ a.m_size \in Nat /\ a.m_capacity \in Nat /\ p + n <= a.m_size
      /\ a.m_size <= a.m_capacity
  BY GoodFields DEF getReadSize
<1>2. a.m_cur = (p \div a.m_baseSize) + 1 /\ Npos(a) = p % a.m_baseSize
  BY <1>1 DEF Good, InOrder, Npos
<1> QED
  BY <1>1, <1>2, RootBytes

\* toString and getReadBuffers give the bytes from the position on.
LEMMA Views ==
  ASSUME NEW a, Good(a)
  PROVE  /\ toString(a) = SubSeq(Held(a), a.m_position + 1, a.m_size)
         /\ toString(a) \in Seq(Cells) /\ Len(toString(a)) = getReadSize(a)
         /\ \A n \in 0 .. getReadSize(a) :
              SubSeq(toString(a), 1, n) = SubSeq(Held(a), a.m_position + 1, a.m_position + n)
         /\ \A len \in Nat :
              /\ Capped(a, len) \in 0 .. getReadSize(a)
              /\ getReadBuffers(a, len) = SubSeq(toString(a), 1, Capped(a, len))
<1> DEFINE p == a.m_position
           h == Held(a)
           z == a.m_size
<1>1. p \in Nat /\ z \in Nat /\ p <= z /\ getReadSize(a) = z - p /\ z - p \in Nat
  BY GoodFields DEF getReadSize
<1>2. h \in Seq(Cells) /\ Len(h) = z
  BY HeldType
<1>3. \A n \in 0 .. z - p : /\ SubSeq(h, p + 1, p + n) = [k \in 1 .. n |-> h[p + k]]
                            /\ SubSeq(h, p + 1, p + n) \in Seq(Cells)
                            /\ Len(SubSeq(h, p + 1, p + n)) = n
  <2> TAKE n \in 0 .. z - p
  <2> HIDE DEF h, p, z
  <2>1. SubSeq(h, p + 1, p + n) = [k \in 1 .. n |-> h[p + k]]
    BY <1>1, <1>2
  <2>2. [k \in 1 .. n |-> h[p + k]] \in [1 .. n -> Cells]
    BY <1>1, <1>2
  <2> DEFINE f == [k \in 1 .. n |-> h[p + k]]
  <2>3. f \in [1 .. n -> Cells] /\ n \in Nat
    BY <1>1, <2>2
  <2> HIDE DEF f
  <2>4. f \in Seq(Cells) /\ Len(f) = n
    BY <2>3, FunctionSeq
  <2> QED
    BY <2>1, <2>4 DEF f
<1>4. SubSeq(h, p + 1, p + 0) = <<>>
  BY <1>1, <1>3
<1>5. toString(a) = SubSeq(h, p + 1, z)
  <2>1. CASE z - p = 0
    BY <1>1, <1>4, <2>1 DEF toString
  <2>2. CASE z - p # 0
    <3>1. /\ getReadSize(a) \in Nat \ {0} /\ getReadSize(a) <= getReadSize(a)
          /\ p + getReadSize(a) = z
      BY <1>1, <2>2
    <3>2. BytesFrom(a, a.m_cur, Npos(a), getReadSize(a)) = SubSeq(h, p + 1, p + getReadSize(a))
      BY <3>1, ReadBytes
    <3> QED
      BY <2>2, <3>1, <3>2 DEF toString
  <2> QED
    BY <2>1, <2>2
<1>9. /\ toString(a) = [k \in 1 .. z - p |-> h[p + k]]
      /\ toString(a) \in Seq(Cells) /\ Len(toString(a)) = z - p
  <2>1. z - p \in 0 .. z - p /\ p + (z - p) = z
    BY <1>1
  <2> HIDE DEF h, p, z
  <2> QED
    BY <1>3, <1>5, <2>1
<1>6. toString(a) \in Seq(Cells) /\ Len(toString(a)) = z - p
  BY <1>9
<1>7. \A n \in 0 .. z - p : SubSeq(toString(a), 1, n) = SubSeq(h, p + 1, p + n)
  <2> TAKE n \in 0 .. z - p
  <2> DEFINE t == toString(a)
  <2>1. t = [k \in 1 .. z - p |-> h[p + k]]
    BY <1>9
  <2>2. SubSeq(t, 1, n) = [k \in 1 .. n |-> t[k]]
    <3> HIDE DEF t, h, p, z
    <3> QED
      BY <1>1, <1>6 DEF t
  <2>3. [k \in 1 .. n |-> t[k]] = [k \in 1 .. n |-> h[p + k]]
    <3> HIDE DEF t, h, p, z
    <3> QED
      BY <1>1, <2>1
  <2> QED
    BY <1>3, <2>2, <2>3
<1>8. ASSUME NEW len \in Nat
      PROVE  /\ Capped(a, len) \in 0 .. z - p
             /\ getReadBuffers(a, len) = SubSeq(toString(a), 1, Capped(a, len))
  <2>1. Capped(a, len) \in 0 .. z - p
    BY <1>1 DEF Capped
  <2>2. CASE Capped(a, len) = 0
    BY <1>1, <1>4, <1>7, <2>1, <2>2 DEF getReadBuffers
  <2>3. CASE Capped(a, len) # 0
    <3>1. Capped(a, len) \in Nat \ {0} /\ Capped(a, len) <= getReadSize(a)
      BY <1>1, <2>1, <2>3
    <3>2. BytesFrom(a, a.m_cur, Npos(a), Capped(a, len)) = SubSeq(h, p + 1, p + Capped(a, len))
      BY <3>1, ReadBytes
    <3> QED
      BY <1>7, <2>1, <2>3, <3>2 DEF getReadBuffers
  <2> QED
    BY <2>1, <2>2, <2>3
<1> QED
  BY <1>1, <1>5, <1>6, <1>7, <1>8

\* One round of the loop of writeToFile, with what the others write.
Round(a, F, r) ==
  LET diff == r[2] % a.m_baseSize
      len == FileRound(a, r[3], diff)
  IN IF r[3] = 0 \/ len <= 0 THEN <<>>
     ELSE BytesFrom(a, r[1], diff, len) \o F[<<r[1] + 1, r[2] + len, r[3] - len>>]

\* L is what the loop writes from any node, position and count on.
LoopOf(a, L) == \A r \in Nat \X Nat \X Nat : L[r] = Round(a, L, r)

\* A round writes no more bytes than are left.
LEMMA RoundLength ==
  ASSUME NEW a, Good(a), NEW left \in Nat, NEW p \in Nat
  PROVE  /\ p % a.m_baseSize \in Nat
         /\ FileRound(a, left, p % a.m_baseSize) \in Int
         /\ FileRound(a, left, p % a.m_baseSize) <= left
<1>1. a.m_baseSize \in Nat \ {0}
  BY GoodFields
<1>2. p % a.m_baseSize \in Nat
  BY <1>1, DivMod
<1> QED
  BY <1>1, <1>2 DEF FileRound

\* The recursive definition of writeToFile's loop has a solution, and
\* writeToFile is its value at the position.
LEMMA LoopExists ==
  ASSUME NEW a, Good(a)
  PROVE  \E L : LoopOf(a, L) /\ writeToFile(a) = L[<<a.m_cur, a.m_position, getReadSize(a)>>]
<1> DEFINE D == Nat \X Nat \X Nat
           X == {a.nodes[x[1]][x[2]] : x \in Nat \X Nat}
           W == Seq(X)
           V == [D -> W]
           h == [F \in V |-> [r \in D |-> Round(a, F, r)]]
           m == [r \in D |-> r[3]]
<1>1. a.m_baseSize \in Nat \ {0}
  BY GoodFields
<1>2. ASSUME NEW cur \in Nat, NEW o \in Nat, NEW n \in Nat PROVE BytesFrom(a, cur, o, n) \in W
  <2>1. ASSUME NEW k \in 1 .. n
        PROVE  LET c == Cell(a, cur, o, k) IN a.nodes[c[1]][c[2]] \in X
    <3>1. o + k - 1 \in Nat
      OBVIOUS
    <3>2. (o + k - 1) \div a.m_baseSize \in Nat /\ (o + k - 1) % a.m_baseSize \in Nat
      BY <1>1, <3>1, DivMod
    <3>3. Cell(a, cur, o, k) \in Nat \X Nat
      BY <3>2 DEF Cell
    <3> QED
      BY <3>3
  <2>2. BytesFrom(a, cur, o, n) \in [1 .. n -> X]
    <3> HIDE DEF X
    <3> QED
      BY <2>1 DEF BytesFrom
  <2> HIDE DEF X
  <2> QED
    BY <2>2, FunctionSeq
<1> DEFINE next(r) == <<r[1] + 1, r[2] + FileRound(a, r[3], r[2] % a.m_baseSize),
                        r[3] - FileRound(a, r[3], r[2] % a.m_baseSize)>>
           ends(r) == r[3] = 0 \/ FileRound(a, r[3], r[2] % a.m_baseSize) <= 0
<1>3. ASSUME NEW r \in D, ~ ends(r)
      PROVE  /\ next(r) \in D /\ next(r)[3] < r[3]
             /\ FileRound(a, r[3], r[2] % a.m_baseSize) \in Nat
  <2>1. r[1] \in Nat /\ r[2] \in Nat /\ r[3] \in Nat
    OBVIOUS
  <2>2. /\ FileRound(a, r[3], r[2] % a.m_baseSize) \in Int
        /\ FileRound(a, r[3], r[2] % a.m_baseSize) <= r[3]
    BY <2>1, RoundLength
  <2> QED
    BY <1>3, <2>1, <2>2
<1>4. \A F, r : Round(a, F, r)
        = IF ends(r) THEN <<>>
          ELSE BytesFrom(a, r[1], r[2] % a.m_baseSize, FileRound(a, r[3], r[2] % a.m_baseSize))
                 \o F[next(r)]
  BY Zenon DEF Round
<1> HIDE DEF next, ends
<1>5. \A F \in V, r \in D : Round(a, F, r) \in W
  <2> TAKE F \in V, r \in D
  <2>1. CASE ends(r)
    <3>1. Round(a, F, r) = <<>>
      BY <1>4, <2>1
    <3> QED
      BY <3>1
  <2>2. CASE ~ ends(r)
    <3>1. next(r) \in D /\ FileRound(a, r[3], r[2] % a.m_baseSize) \in Nat
      BY <1>3, <2>2
    <3>2. r[1] \in Nat /\ r[2] \in Nat /\ r[3] \in Nat /\ r[2] % a.m_baseSize \in Nat
      BY <1>1, DivMod
    <3> DEFINE y == BytesFrom(a, r[1], r[2] % a.m_baseSize, FileRound(a, r[3], r[2] % a.m_baseSize))
    <3>3. y \in W
      BY <1>2, <3>1, <3>2
    <3>4. F[next(r)] \in W
      <4> HIDE DEF D, W
      <4> QED
        BY <3>1
    <3> HIDE DEF y, X
    <3>5. y \o F[next(r)] \in W
      BY <3>3, <3>4
    <3>6. Round(a, F, r) = y \o F[next(r)]
      BY <1>4, <2>2 DEF y
    <3> QED
      BY <3>5, <3>6
  <2> QED
    BY <2>1, <2>2
<1>6. h \in [V -> V]
  <2> HIDE DEF D, W
  <2> QED
    BY <1>5
<1>7. m \in [D -> Nat]
  OBVIOUS
<1>8. \A F, G \in V : \A r \in D :
        (\A y \in D : m[y] < m[r] => F[y] = G[y]) => h[F][r] = h[G][r]
  <2> SUFFICES ASSUME NEW F \in V, NEW G \in V, NEW r \in D,
                      \A y \in D : m[y] < m[r] => F[y] = G[y]
               PROVE  h[F][r] = h[G][r]
    OBVIOUS
  <2>1. Round(a, F, r) = Round(a, G, r)
    <3>1. CASE ends(r)
      BY <1>4, <3>1
    <3>2. CASE ~ ends(r)
      <4>1. next(r) \in D /\ next(r)[3] < r[3]
        BY <1>3, <3>2
      <4>2. m[next(r)] < m[r]
        <5> HIDE DEF D
        <5> QED
          BY <4>1
      <4>3. F[next(r)] = G[next(r)]
        <5> HIDE DEF D, m, h
        <5> QED
          BY <4>1, <4>2
      <4> QED
        BY <1>4, <3>2, <4>3
    <3> QED
      BY <3>1, <3>2
  <2>2. h[F][r] = Round(a, F, r) /\ h[G][r] = Round(a, G, r)
    <3> HIDE DEF V, D
    <3> QED
      OBVIOUS
  <2> QED
    BY <2>1, <2>2
<1>9. PICK F \in V : F = h[F]
  <2>1. <<>> \in W /\ V = [D -> W]
    OBVIOUS
  <2> HIDE DEF D, W, V, h, m
  <2>2. Recursive(h, m, D, V)
    BY <1>6, <1>7, <1>8 DEF Recursive, Maps
  <2> QED
    BY <2>1, <2>2, Recursion
<1> DEFINE Eq(L) == L = [r \in D |-> Round(a, L, r)]
           L == CHOOSE L : Eq(L)
<1>10. Eq(L)
  <2>1. Eq(F)
    <3> HIDE DEF V, D
    <3> QED
      BY <1>9
  <2> HIDE DEF Eq
  <2> QED
    BY <2>1
<1>11. writeToFile(a) = L[<<a.m_cur, a.m_position, getReadSize(a)>>]
  BY SMT DEF writeToFile, Round
<1> HIDE DEF L
<1>12. \A r \in D : L[r] = Round(a, L, r)
  <2> HIDE DEF D
  <2> QED
    BY <1>10
<1> QED
  BY <1>11, <1>12, Zenon DEF LoopOf

\* From the edge of a node on the loop writes all the bytes left.
LEMMA FromEdge ==
  ASSUME NEW a, Good(a), NEW L, LoopOf(a, L), NEW left \in Nat, NEW p \in Nat,
         p % a.m_baseSize = 0, p + left = a.m_size
  PROVE  L[<<(p \div a.m_baseSize) + 1, p, left>>] = SubSeq(Held(a), p + 1, p + left)
<1> DEFINE d == a.m_baseSize
           h == Held(a)
           P == {n \in Nat : \A m, q \in Nat :
                  m <= n /\ q % d = 0 /\ q + m = a.m_size
                    => L[<<(q \div d) + 1, q, m>>] = SubSeq(h, q + 1, q + m)}
<1>1. d \in Nat \ {0} /\ a.m_size \in Nat /\ h \in Seq(Cells) /\ Len(h) = a.m_size
  BY GoodFields, HeldType
<1>2. \A q \in Nat, m \in Nat, c \in Nat :
        L[<<c, q, m>>] = IF m = 0 \/ FileRound(a, m, q % d) <= 0 THEN <<>>
          ELSE BytesFrom(a, c, q % d, FileRound(a, m, q % d))
                 \o L[<<c + 1, q + FileRound(a, m, q % d), m - FileRound(a, m, q % d)>>]
  <2> TAKE q \in Nat, m \in Nat, c \in Nat
  <2> DEFINE r == <<c, q, m>>
  <2>1. r \in Nat \X Nat \X Nat /\ r[1] = c /\ r[2] = q /\ r[3] = m
    OBVIOUS
  <2> HIDE DEF r
  <2>2. L[r] = Round(a, L, r)
    BY <2>1 DEF LoopOf
  <2>3. Round(a, L, r) = IF r[3] = 0 \/ FileRound(a, r[3], r[2] % d) <= 0 THEN <<>>
          ELSE BytesFrom(a, r[1], r[2] % d, FileRound(a, r[3], r[2] % d))
                 \o L[<<r[1] + 1, r[2] + FileRound(a, r[3], r[2] % d),
                        r[3] - FileRound(a, r[3], r[2] % d)>>]
    BY Zenon DEF Round
  <2>4. L[r] = IF m = 0 \/ FileRound(a, m, q % d) <= 0 THEN <<>>
          ELSE BytesFrom(a, c, q % d, FileRound(a, m, q % d))
                 \o L[<<c + 1, q + FileRound(a, m, q % d), m - FileRound(a, m, q % d)>>]
    BY <2>1, <2>2, <2>3
  <2> QED
    BY <2>4 DEF r
<1>3. \A q \in Nat, c \in Nat : L[<<c, q, 0>>] = <<>> /\ SubSeq(h, q + 1, q + 0) = <<>>
  <2> TAKE q \in Nat, c \in Nat
  <2>1. q + 0 = q /\ SubSeq(h, q + 1, q) = <<>>
    OBVIOUS
  <2> HIDE DEF d, h
  <2> DEFINE m == 0
  <2>2. m \in Nat /\ m = 0
    OBVIOUS
  <2> HIDE DEF m
  <2>3. L[<<c, q, m>>] = <<>>
    BY <1>2, <2>2
  <2> QED
    BY <2>1, <2>3 DEF m
<1>4. \A m \in Nat, q \in Nat : q % d = 0 => FileRound(a, m, q % d) = IF m > d THEN d ELSE m
  BY <1>1 DEF FileRound
<1> HIDE DEF h
<1>5. 0 \in P
  <2> SUFFICES ASSUME NEW m \in Nat, NEW q \in Nat, m <= 0, q % d = 0
               PROVE  L[<<(q \div d) + 1, q, m>>] = SubSeq(h, q + 1, q + m)
    OBVIOUS
  <2>1. m = 0 /\ (q \div d) + 1 \in Nat
    BY <1>1
  <2> QED
    BY <1>3, <2>1
<1>6. ASSUME NEW n \in Nat, n \in P PROVE n + 1 \in P
  <2> SUFFICES ASSUME NEW m \in Nat, NEW q \in Nat, m <= n + 1, q % d = 0, q + m = a.m_size
               PROVE  L[<<(q \div d) + 1, q, m>>] = SubSeq(h, q + 1, q + m)
    OBVIOUS
  <2>1. \A y, z \in Nat : y <= n /\ z % d = 0 /\ z + y = a.m_size
            => L[<<(z \div d) + 1, z, y>>] = SubSeq(h, z + 1, z + y)
    BY <1>6
  <2> DEFINE c == (q \div d) + 1
             len == IF m > d THEN d ELSE m
  <2>2. c \in Nat /\ len \in Nat /\ len <= m /\ FileRound(a, m, q % d) = len
    <3>1. q \div d \in Nat
      <4> HIDE DEF d
      <4> QED
        BY <1>1, DivMod
    <3>2. len \in Nat /\ len <= m
      BY <1>1
    <3>3. FileRound(a, m, q % d) = len
      <4> HIDE DEF d
      <4> QED
        BY <1>4 DEF len
    <3>4. c \in Nat
      BY <3>1
    <3> QED
      BY <3>2, <3>3, <3>4
  <2>3. CASE m = 0
    BY <1>3, <2>2, <2>3
  <2>4. CASE m # 0
    <3>1. len > 0
      BY <1>1, <2>4
    <3>2. L[<<c, q, m>>] = BytesFrom(a, c, q % d, len) \o L[<<c + 1, q + len, m - len>>]
      <4> HIDE DEF c, len, d
      <4>1. L[<<c, q, m>>] = IF m = 0 \/ FileRound(a, m, q % d) <= 0 THEN <<>>
              ELSE BytesFrom(a, c, q % d, FileRound(a, m, q % d))
                     \o L[<<c + 1, q + FileRound(a, m, q % d), m - FileRound(a, m, q % d)>>]
        BY <1>2, <2>2
      <4>2. ~ (len <= 0)
        BY <2>2, <3>1
      <4> QED
        BY <2>2, <2>4, <4>1, <4>2
    <3>3. BytesFrom(a, c, q % d, len) = SubSeq(h, q + 1, q + len)
      <4>1. q + len <= a.m_size
        BY <1>1, <2>2
      <4> HIDE DEF len
      <4> QED
        BY <2>2, <4>1, RootBytes DEF h
    <3>4. L[<<c + 1, q + len, m - len>>] = SubSeq(h, q + len + 1, q + m)
      <4>1. CASE m > d
        <5>1. /\ len = d /\ m - d \in Nat /\ m - d <= n
              /\ q + d \in Nat /\ (q + d) + (m - d) = a.m_size
          BY <1>1, <4>1
        <5>2. (q + d) % d = 0 /\ (q + d) \div d = c
          <6>1. q + (d - (q % d)) = q + d
            BY <1>1
          <6> HIDE DEF d
          <6>2. (q + (d - (q % d))) % d = 0 /\ (q + (d - (q % d))) \div d = (q \div d) + 1
            BY <1>1, NextEdge
          <6> QED
            BY <6>1, <6>2 DEF c
        <5>3. L[<<((q + d) \div d) + 1, q + d, m - d>>] = SubSeq(h, (q + d) + 1, (q + d) + (m - d))
          <6> HIDE DEF d
          <6> QED
            BY <2>1, <5>1, <5>2
        <5>4. (q + d) + (m - d) = q + m
          BY <1>1
        <5> HIDE DEF d, c, len
        <5> QED
          BY <5>1, <5>2, <5>3, <5>4
      <4>2. CASE ~ (m > d)
        <5>1. len = m /\ m - len = 0 /\ q + m \in Nat /\ c + 1 \in Nat
          BY <2>2, <4>2
        <5>2. SubSeq(h, q + m + 1, q + m) = <<>> /\ L[<<c + 1, q + m, 0>>] = <<>>
          <6>1. SubSeq(h, (q + m) + 1, (q + m) + 0) = <<>> /\ (q + m) + 0 = q + m
            BY <1>3, <5>1
          <6> HIDE DEF c
          <6> QED
            BY <1>3, <5>1, <6>1
        <5> HIDE DEF c, len
        <5> QED
          BY <5>1, <5>2
      <4> QED
        BY <4>1, <4>2
    <3>5. SubSeq(h, q + 1, q + len) \o SubSeq(h, q + len + 1, q + m) = SubSeq(h, q + 1, q + m)
      <4>1. q + m <= Len(h)
        BY <1>1
      <4> HIDE DEF len
      <4> QED
        BY <1>1, <2>2, <4>1, SubSeqJoin
    <3> HIDE DEF c, len, d
    <3> QED
      BY <3>2, <3>3, <3>4, <3>5 DEF c, d
  <2> QED
    BY <2>3, <2>4
<1>7. \A n \in Nat : n \in P
  <2> HIDE DEF P
  <2> QED
    BY <1>5, <1>6, Induction
<1>8. left \in P
  <2> HIDE DEF P
  <2> QED
    BY <1>7
<1>9. \A m, q \in Nat : m <= left /\ q % d = 0 /\ q + m = a.m_size
          => L[<<(q \div d) + 1, q, m>>] = SubSeq(h, q + 1, q + m)
  BY <1>8
<1>10. left <= left /\ p % d = 0 /\ p + left = a.m_size
  OBVIOUS
<1>11. L[<<(p \div d) + 1, p, left>>] = SubSeq(h, p + 1, p + left)
  <2> HIDE DEF P, d
  <2> QED
    BY <1>9, <1>10
<1> QED
  BY <1>11 DEF h

\* writeToFile writes the bytes from the position on, if this is at the edge of
\* a node or more than a node is left.
LEMMA WriteToFileExact ==
  ASSUME NEW a, Good(a),
         (a.m_position % a.m_baseSize = 0) \/ getReadSize(a) > a.m_baseSize
  PROVE  writeToFile(a) = SubSeq(Held(a), a.m_position + 1, a.m_size)
<1> DEFINE d == a.m_baseSize
           h == Held(a)
           p == a.m_position
           z == a.m_size
           n == getReadSize(a)
<1>1. /\ d \in Nat \ {0} /\ p \in Nat /\ z \in Nat /\ n = z - p /\ n \in Nat /\ p + n = z
      /\ z <= a.m_capacity /\ a.m_capacity \in Nat
      /\ h \in Seq(Cells) /\ Len(h) = z
  BY GoodFields, HeldType DEF getReadSize
<1>2. a.m_cur = IF p = a.m_capacity THEN 0 ELSE (p \div d) + 1
  BY DEF Good, InOrder, Null
<1>3. PICK L : LoopOf(a, L) /\ writeToFile(a) = L[<<a.m_cur, p, n>>]
  BY LoopExists
<1> HIDE DEF h
<1>4. CASE p = a.m_capacity
  <2>1. n = 0 /\ a.m_cur = 0
    BY <1>1, <1>2, <1>4
  <2> DEFINE r == <<0, p, 0>>
  <2>2. r \in Nat \X Nat \X Nat /\ r[3] = 0
    BY <1>1
  <2> HIDE DEF r
  <2>3. L[r] = Round(a, L, r)
    BY <1>3, <2>2 DEF LoopOf
  <2>4. Round(a, L, r) = <<>>
    BY <2>2 DEF Round
  <2>5. SubSeq(h, p + 1, z) = <<>>
    BY <1>1, <2>1
  <2> QED
    BY <1>3, <2>1, <2>3, <2>4, <2>5 DEF r, h
<1>5. CASE p # a.m_capacity /\ p % d = 0
  <2>1. a.m_cur = (p \div d) + 1
    BY <1>2, <1>5
  <2>2. L[<<(p \div d) + 1, p, n>>] = SubSeq(h, p + 1, p + n)
    <3>1. p \in Nat /\ n \in Nat /\ p % a.m_baseSize = 0 /\ p + n = a.m_size
      BY <1>1, <1>5
    <3> HIDE DEF n, p
    <3> QED
      BY <1>3, <3>1, FromEdge DEF h
  <2> QED
    BY <1>1, <1>3, <2>1, <2>2 DEF h
<1>6. CASE p # a.m_capacity /\ p % d # 0 /\ n > d
  <2> DEFINE c == (p \div d) + 1
             o == p % d
             len == d - o
             r == <<c, p, n>>
  <2>1. p \div d \in Nat /\ o \in 0 .. d - 1 /\ p = (p \div d) * d + o
    <3> HIDE DEF d
    <3> QED
      BY <1>1, DivMod
  <2>2. c \in Nat /\ len \in Nat /\ len > 0 /\ len < n /\ a.m_cur = c
    <3>1. c \in Nat
      BY <2>1
    <3>2. len \in Nat /\ len > 0 /\ len <= d
      <4> HIDE DEF d, o
      <4> QED
        BY <1>1, <2>1
    <3>3. a.m_cur = c
      BY <1>2, <1>6
    <3> HIDE DEF len, d, c, n
    <3> QED
      BY <1>1, <1>6, <3>1, <3>2, <3>3
  <2>3. r \in Nat \X Nat \X Nat /\ r[1] = c /\ r[2] = p /\ r[3] = n
    BY <1>1, <2>2
  <2> HIDE DEF r
  <2>4. L[r] = Round(a, L, r)
    BY <1>3, <2>3 DEF LoopOf
  <2>5. Round(a, L, r) = IF r[3] = 0 \/ FileRound(a, r[3], r[2] % d) <= 0 THEN <<>>
          ELSE BytesFrom(a, r[1], r[2] % d, FileRound(a, r[3], r[2] % d))
                 \o L[<<r[1] + 1, r[2] + FileRound(a, r[3], r[2] % d),
                        r[3] - FileRound(a, r[3], r[2] % d)>>]
    BY Zenon DEF Round
  <2>6. FileRound(a, n, o) = len
    BY <1>6 DEF FileRound
  <2>7. n # 0 /\ ~ (len <= 0)
    BY <1>1, <2>2
  <2>8. L[r] = BytesFrom(a, c, o, len) \o L[<<c + 1, p + len, n - len>>]
    <3> HIDE DEF c, len, p, n
    <3> QED
      BY <2>3, <2>4, <2>5, <2>6, <2>7
  <2>9. BytesFrom(a, c, o, len) = SubSeq(h, p + 1, p + len)
    <3>1. p + len <= z
      BY <1>1, <2>2
    <3> HIDE DEF len
    <3> QED
      BY <1>1, <2>2, <3>1, RootBytes DEF h
  <2>10. (p + len) % d = 0 /\ (p + len) \div d = c /\ p + len \in Nat
    <3> HIDE DEF p, d
    <3> QED
      BY <1>1, NextEdge DEF c, len, o
  <2>11. L[<<c + 1, p + len, n - len>>] = SubSeq(h, p + len + 1, p + n)
    <3> DEFINE q == p + len
               m == n - len
    <3>1. q \in Nat /\ m \in Nat /\ q + m = z /\ q % d = 0 /\ q \div d = c /\ q + m = p + n
      <4>1. q \in Nat /\ q % d = 0 /\ q \div d = c
        BY <2>10
      <4>2. m \in Nat /\ q + m = p + n /\ p + n = z
        <5> HIDE DEF len, n
        <5> QED
          BY <1>1, <2>2
      <4> QED
        BY <4>1, <4>2
    <3> HIDE DEF q, m
    <3>2. L[<<(q \div d) + 1, q, m>>] = SubSeq(h, q + 1, q + m)
      <4>1. ASSUME NEW x \in Nat, NEW y \in Nat, y % a.m_baseSize = 0, y + x = a.m_size
            PROVE  L[<<(y \div a.m_baseSize) + 1, y, x>>] = SubSeq(Held(a), y + 1, y + x)
        <5>1. LoopOf(a, L)
          BY <1>3
        <5> HIDE DEF p, d, z, n, c, o, len
        <5> QED
          BY <4>1, <5>1, FromEdge
      <4>2. q \in Nat /\ m \in Nat /\ q % a.m_baseSize = 0 /\ q + m = a.m_size
        BY <3>1
      <4> HIDE DEF p, n, c, o, len
      <4> QED
        BY <4>1, <4>2 DEF h
    <3> HIDE DEF c, len
    <3> QED
      BY <3>1, <3>2 DEF q, m
  <2>12. SubSeq(h, p + 1, p + len) \o SubSeq(h, p + len + 1, p + n) = SubSeq(h, p + 1, p + n)
    <3>1. len <= n /\ p + n <= Len(h)
      BY <1>1, <2>2
    <3>2. p \in Nat /\ len \in Nat /\ n \in Nat /\ h \in Seq(Cells)
      BY <1>1, <2>2
    <3> HIDE DEF len, n, p
    <3> QED
      BY <3>1, <3>2, SubSeqJoin
  <2> HIDE DEF c, len
  <2> QED
    BY <1>1, <1>3, <2>2, <2>8, <2>9, <2>11, <2>12 DEF r, h
<1> QED
  BY <1>4, <1>5, <1>6

-----------------------------------------------------------------------------
(* Integers *)

\* The numbers that Width and Group give.
LEMMA Widths ==
  /\ Width \in Nat \ {0} /\ Group \in Nat \ {0}
  /\ Modulus \in Nat \ {0} /\ Modulus \div 2 \in Nat \ {0} /\ Modulus = 2 * (Modulus \div 2)
  /\ 2 ^ (Width - 1) = Modulus \div 2
  /\ More \in Nat /\ More > 1 /\ 2 ^ (Group + 1) = 2 * More
<1>1. Width \in Nat \ {0} /\ Group \in Nat \ {0}
  BY ByteArrayAssumption
<1>2. /\ Width - 1 \in Nat /\ (Width - 1) + 1 = Width
      /\ Group - 1 \in Nat /\ (Group - 1) + 1 = Group
  BY <1>1
<1>3. /\ 2 ^ (Width - 1) \in Nat \ {0} /\ 2 ^ ((Width - 1) + 1) = 2 * 2 ^ (Width - 1)
      /\ 2 ^ (Group - 1) \in Nat \ {0} /\ 2 ^ ((Group - 1) + 1) = 2 * 2 ^ (Group - 1)
  BY <1>2, Power
<1>4. Modulus = 2 * 2 ^ (Width - 1)
  BY <1>2, <1>3 DEF Modulus
<1>5. More = 2 * 2 ^ (Group - 1)
  BY <1>2, <1>3 DEF More
<1>6. 2 ^ (Group + 1) = 2 * More
  BY <1>1, Power DEF More
<1> QED
  BY <1>1, <1>3, <1>4, <1>5, <1>6

\* EncodeZigzag gives a number of Width bits.
LEMMA ZigzagType ==
  ASSUME NEW v \in Int
  PROVE  EncodeZigzag(v) \in 0 .. Modulus - 1
<1>1. Modulus \in Nat \ {0}
  BY Widths
<1> DEFINE x == IF v < 0 THEN ((-v) % Modulus) * 2 - 1 ELSE v * 2
<1>2. (-v) % Modulus \in Int
  BY <1>1
<1>3. x \in Int
  BY <1>2
<1>4. \A y \in Int : y % Modulus \in 0 .. Modulus - 1
  BY <1>1
<1>5. x % Modulus \in 0 .. Modulus - 1
  <2> HIDE DEF x
  <2> QED
    BY <1>3, <1>4
<1> QED
  BY <1>5 DEF EncodeZigzag

\* DecodeZigzag undoes EncodeZigzag on every representable integer.
LEMMA Zigzag ==
  ASSUME NEW v \in Representable
  PROVE  DecodeZigzag(EncodeZigzag(v)) = v
<1> DEFINE H == Modulus \div 2
           M == Modulus
           u == EncodeZigzag(v)
<1>1. H \in Nat \ {0} /\ M \in Nat \ {0} /\ M = 2 * H
  BY Widths
<1>2. v \in Int /\ -H <= v /\ v < H
  BY <1>1 DEF Representable
<1>3. CASE v >= 0
  <2>1. v * 2 \in 0 .. M - 1
    <3> HIDE DEF H, M
    <3> QED
      BY <1>1, <1>2, <1>3
  <2>2. u = v * 2
    <3>1. (v * 2) % M = v * 2
      <4> HIDE DEF M
      <4> QED
        BY <1>1, <2>1, ModSmall
    <3>2. ~ (v < 0)
      BY <1>2, <1>3
    <3>3. u = (v * 2) % Modulus
      BY <3>2, Zenon DEF EncodeZigzag
    <3> HIDE DEF u
    <3> QED
      BY <3>1, <3>3
  <2>3. u % 2 = 0 /\ u \div 2 = v
    <3> HIDE DEF u
    <3> QED
      BY <1>2, <1>3, <2>2
  <2> HIDE DEF u
  <2> DEFINE x == IF u % 2 = 1 THEN Modulus - 1 - (u \div 2) ELSE u \div 2
  <2>4. x = v
    BY <2>3
  <2>5. DecodeZigzag(u) = IF x >= H THEN x - M ELSE x
    BY Zenon DEF DecodeZigzag
  <2> HIDE DEF x, H, M
  <2> QED
    BY <1>1, <1>2, <2>4, <2>5 DEF u
<1>4. CASE v < 0
  <2>1. (-v) \in 0 .. M - 1 /\ (-v) * 2 - 1 \in 0 .. M - 1
    <3> HIDE DEF H, M
    <3> QED
      BY <1>1, <1>2, <1>4
  <2>2. u = (-v) * 2 - 1
    <3>1. (-v) % M = -v /\ ((-v) * 2 - 1) % M = (-v) * 2 - 1
      <4> HIDE DEF M
      <4> QED
        BY <1>1, <2>1, ModSmall
    <3> QED
      BY <1>4, <3>1 DEF EncodeZigzag
  <2>3. u % 2 = 1 /\ u \div 2 = (-v) - 1
    <3> HIDE DEF u
    <3> QED
      BY <1>2, <1>4, <2>2
  <2>4. M - 1 - ((-v) - 1) = M + v /\ M + v >= H
    <3> HIDE DEF M, H
    <3> QED
      BY <1>1, <1>2
  <2> HIDE DEF u
  <2> DEFINE x == IF u % 2 = 1 THEN Modulus - 1 - (u \div 2) ELSE u \div 2
  <2>5. x = M + v
    BY <2>3, <2>4
  <2>6. DecodeZigzag(u) = IF x >= H THEN x - M ELSE x
    BY Zenon DEF DecodeZigzag
  <2> HIDE DEF x, H, M
  <2> QED
    BY <1>1, <1>2, <2>4, <2>5, <2>6 DEF u
<1> QED
  BY <1>2, <1>3, <1>4

\* The rounds of the encoding loop: what is left becomes less.
LEMMA Quotient ==
  ASSUME NEW u \in 0 .. Modulus - 1, NeedsMore(u)
  PROVE  u \div More \in 0 .. Modulus - 1 /\ u \div More < u /\ u % More \in 0 .. More - 1
<1>1. More \in Nat /\ More > 1 /\ Modulus \in Nat /\ u \in Nat /\ u >= More
  BY Widths DEF NeedsMore
<1>2. /\ u \div More \in Nat /\ u % More \in 0 .. More - 1
      /\ u = (u \div More) * More + (u % More)
  <2>1. u \in Nat /\ More \in Nat \ {0}
    BY <1>1
  <2> QED
    BY <2>1, DivMod, Zenon
<1>3. u \div More < u
  <2> DEFINE q == u \div More
             r == u % More
  <2>1. q * More >= q * 2
    <3>1. q \in Nat /\ More - 2 \in Nat
      BY <1>1, <1>2
    <3>2. q * (More - 2) \in Nat /\ q * More = q * (More - 2) + q * 2
      <4> HIDE DEF q
      <4> QED
        BY <3>1, <1>1
    <3> HIDE DEF q
    <3> QED
      BY <3>1, <3>2
  <2>2. u >= q * 2 /\ q \in Nat
    <3>1. q * More \in Nat /\ r \in Nat /\ u = q * More + r
      BY <1>1, <1>2
    <3>2. q \in Nat
      BY <1>2
    <3> DEFINE z == q * More
    <3>3. z \in Nat /\ u = z + r /\ z >= q * 2
      BY <2>1, <3>1
    <3> HIDE DEF q, r, z
    <3> QED
      BY <3>1, <3>2, <3>3
  <2> HIDE DEF q
  <2> QED
    BY <1>1, <2>2
<1> QED
  BY <1>1, <1>2, <1>3

\* writeUint has the value its recursive definition states.
LEMMA WriteUint ==
  /\ writeUint \in [0 .. Modulus - 1 -> Seq(Nat)]
  /\ \A u \in 0 .. Modulus - 1 :
       writeUint[u] = IF NeedsMore(u) THEN <<(u % More) + More>> \o writeUint[u \div More]
                                      ELSE <<u>>
<1> DEFINE D == 0 .. Modulus - 1
           W == Seq(Nat)
           V == [D -> W]
           Step(F, u) == IF NeedsMore(u) THEN <<(u % More) + More>> \o F[u \div More] ELSE <<u>>
           h == [F \in V |-> [u \in D |-> Step(F, u)]]
           m == [u \in D |-> u]
<1>0. Modulus \in Nat \ {0} /\ D \subseteq Nat
  BY Widths
<1>1. \A F \in V, u \in D : Step(F, u) \in W
  <2> TAKE F \in V, u \in D
  <2>1. CASE NeedsMore(u)
    <3>1. u \div More \in D /\ (u % More) + More \in Nat
      BY <2>1, Quotient, Widths
    <3>2. F[u \div More] \in W
      <4> HIDE DEF D, W
      <4> QED
        BY <3>1
    <3>3. <<(u % More) + More>> \in W
      BY <3>1
    <3> QED
      BY <2>1, <3>2, <3>3
  <2>2. CASE ~ NeedsMore(u)
    <3>1. u \in Nat
      BY <1>0
    <3> QED
      BY <2>2, <3>1
  <2> QED
    BY <2>1, <2>2
<1>2. h \in [V -> V]
  <2> HIDE DEF D, W, Step
  <2> QED
    BY <1>1
<1>3. m \in [D -> Nat]
  BY <1>0
<1>4. \A F, G \in V : \A u \in D :
        (\A y \in D : m[y] < m[u] => F[y] = G[y]) => h[F][u] = h[G][u]
  <2> SUFFICES ASSUME NEW F \in V, NEW G \in V, NEW u \in D,
                      \A y \in D : m[y] < m[u] => F[y] = G[y]
               PROVE  h[F][u] = h[G][u]
    OBVIOUS
  <2>1. Step(F, u) = Step(G, u)
    <3>1. CASE ~ NeedsMore(u)
      BY <3>1
    <3>2. CASE NeedsMore(u)
      <4>1. u \div More \in D /\ u \div More < u
        BY <3>2, Quotient
      <4>2. F[u \div More] = G[u \div More]
        <5> HIDE DEF D
        <5> QED
          BY <4>1
      <4> QED
        BY <3>2, <4>2
    <3> QED
      BY <3>1, <3>2
  <2>2. h[F][u] = Step(F, u) /\ h[G][u] = Step(G, u)
    <3> HIDE DEF V, D, Step
    <3> QED
      OBVIOUS
  <2> QED
    BY <2>1, <2>2
<1>5. \E F \in V : F = h[F]
  <2>1. <<>> \in W /\ V = [D -> W]
    OBVIOUS
  <2> HIDE DEF D, W, V, h, m
  <2>2. Recursive(h, m, D, V)
    BY <1>2, <1>3, <1>4 DEF Recursive, Maps
  <2> QED
    BY <2>1, <2>2, Recursion
<1> DEFINE Eq(it) == it = [u \in D |-> Step(it, u)]
           it == CHOOSE it : Eq(it)
<1>6. Eq(it)
  <2>1. PICK F \in V : F = h[F]
    BY <1>5
  <2>2. Eq(F)
    <3> HIDE DEF V, D, Step
    <3> QED
      BY <2>1
  <2> HIDE DEF Eq
  <2> QED
    BY <2>2
<1>7. writeUint = it
  BY SMT DEF writeUint
<1> HIDE DEF it
<1>8. \A u \in D : it[u] = Step(it, u)
  <2> HIDE DEF D, Step
  <2> QED
    BY <1>6
<1>9. \A u \in D : it[u] \in W
  <2> DEFINE P == {n \in Nat : \A u \in D : u <= n => it[u] \in W}
  <2>1. ASSUME NEW u \in D, \A y \in D : y < u => it[y] \in W PROVE it[u] \in W
    <3>1. CASE NeedsMore(u)
      <4>1. u \div More \in D /\ u \div More < u /\ (u % More) + More \in Nat
        BY <3>1, Quotient, Widths
      <4>2. it[u \div More] \in W
        <5> HIDE DEF D, W
        <5> QED
          BY <2>1, <4>1
      <4>3. <<(u % More) + More>> \in W
        BY <4>1
      <4>4. it[u] = <<(u % More) + More>> \o it[u \div More]
        BY <1>8, <3>1
      <4> QED
        BY <4>2, <4>3, <4>4
    <3>2. CASE ~ NeedsMore(u)
      <4>1. it[u] = <<u>>
        BY <1>8, <3>2
      <4> QED
        BY <1>0, <4>1
    <3> QED
      BY <3>1, <3>2
  <2>2. 0 \in P
    <3> SUFFICES ASSUME NEW u \in D, u <= 0 PROVE it[u] \in W
      OBVIOUS
    <3>1. \A y \in D : ~ (y < u)
      BY <1>0
    <3> HIDE DEF D, W
    <3> QED
      BY <2>1, <3>1
  <2>3. ASSUME NEW n \in Nat, n \in P PROVE n + 1 \in P
    <3> SUFFICES ASSUME NEW u \in D, u <= n + 1 PROVE it[u] \in W
      OBVIOUS
    <3>1. \A y \in D : y < u => it[y] \in W
      BY <1>0, <2>3
    <3> HIDE DEF D, W
    <3> QED
      BY <2>1, <3>1
  <2>4. \A n \in Nat : n \in P
    <3> HIDE DEF P
    <3> QED
      BY <2>2, <2>3, Induction
  <2> QED
    BY <1>0, <2>4
<1>10. it \in [D -> W]
  <2> HIDE DEF D, W, Step
  <2> QED
    BY <1>6, <1>9
<1> QED
  BY <1>7, <1>8, <1>10

\* readUint takes at most the bytes there are.
LEMMA TakenBound ==
  ASSUME NEW S, NEW s \in Seq(S)
  PROVE  Taken(s) \in 0 .. Len(s)
<1> DEFINE ends == {k \in DOMAIN s : k = Rounds \/ s[k] < More}
<1>1. CASE ends = {}
  BY <1>1 DEF Taken
<1>2. CASE ends # {}
  <2>1. ends \subseteq Nat
    OBVIOUS
  <2>2. \E k \in ends : \A j \in ends : k <= j
    <3> HIDE DEF ends
    <3> QED
      BY <1>2, <2>1, Least
  <2>3. Taken(s) = CHOOSE k \in ends : \A j \in ends : k <= j
    BY <1>2 DEF Taken
  <2>4. Taken(s) \in ends
    <3> HIDE DEF ends
    <3> QED
      BY <2>2, <2>3
  <2> QED
    BY <2>4
<1> QED
  BY <1>1, <1>2

\* r is the sum of the first n elements of q.
Sums(q, n, r) ==
  \E f \in [0 .. n -> Nat] : f[0] = 0 /\ (\A i \in 1 .. n : f[i] = f[i - 1] + q[i]) /\ r = f[n]

\* A sum is unique.
LEMMA SumUnique ==
  ASSUME NEW n \in Nat, NEW q, NEW r, NEW t, Sums(q, n, r), Sums(q, n, t)
  PROVE  r = t
<1>1. PICK f \in [0 .. n -> Nat] :
        f[0] = 0 /\ (\A i \in 1 .. n : f[i] = f[i - 1] + q[i]) /\ r = f[n]
  BY DEF Sums
<1>2. PICK g \in [0 .. n -> Nat] :
        g[0] = 0 /\ (\A i \in 1 .. n : g[i] = g[i - 1] + q[i]) /\ t = g[n]
  BY DEF Sums
<1> DEFINE P == {i \in Nat : i <= n => f[i] = g[i]}
<1>3. 0 \in P
  BY <1>1, <1>2
<1>4. ASSUME NEW i \in Nat, i \in P PROVE i + 1 \in P
  <2> SUFFICES ASSUME i + 1 <= n PROVE f[i + 1] = g[i + 1]
    OBVIOUS
  <2>1. i + 1 \in 1 .. n /\ (i + 1) - 1 = i /\ f[i] = g[i]
    BY <1>4
  <2> QED
    BY <1>1, <1>2, <2>1
<1>5. \A i \in Nat : i \in P
  <2> HIDE DEF P
  <2> QED
    BY <1>3, <1>4, Induction
<1> QED
  BY <1>1, <1>2, <1>5

\* What FoldLeft computes of +.
LEMMA FoldSums ==
  ASSUME NEW n \in Nat, NEW q, DOMAIN q = 1 .. n, \A i \in 1 .. n : q[i] \in Nat
  PROVE  Sums(q, n, FoldLeft(+, 0, q))
<1> DEFINE D == SUBSET (1 .. n)
           Step(F, s) == IF s = {} THEN 0 ELSE F[s \ {Max(s)}] + q[Max(s)]
           Eq(it) == it = [s \in D |-> Step(it, s)]
           it == CHOOSE it : Eq(it)
<1>1. Eq(it)
  <2> DEFINE g == [y \in Nat \X (1 .. n) |-> y[1] + q[y[2]]]
  <2>1. g \in [Nat \X (1 .. n) -> Nat]
    OBVIOUS
  <2>2. PICK F : Folded(n, Nat, F, 0, g)
    <3> HIDE DEF g
    <3> QED
      BY <2>1, FoldExists
  <2>3. F \in [D -> Nat] /\ \A s \in D : F[s] = IF s = {} THEN 0 ELSE g[<<F[s \ {Max(s)}], Max(s)>>]
    <3> HIDE DEF g
    <3> QED
      BY <2>2 DEF Folded
  <2>4. ASSUME NEW s \in D PROVE F[s] = Step(F, s)
    <3>1. CASE s = {}
      BY <2>3, <3>1
    <3>2. CASE s # {}
      <4>1. Max(s) \in 1 .. n /\ s \ {Max(s)} \in D
        BY <3>2, MaxInSet
      <4>2. F[s \ {Max(s)}] \in Nat
        <5> HIDE DEF D
        <5> QED
          BY <2>3, <4>1
      <4>3. <<F[s \ {Max(s)}], Max(s)>> \in Nat \X (1 .. n)
        BY <4>1, <4>2
      <4>4. g[<<F[s \ {Max(s)}], Max(s)>>] = F[s \ {Max(s)}] + q[Max(s)]
        BY <4>3
      <4> HIDE DEF g
      <4> QED
        BY <2>3, <3>2, <4>4
    <3> QED
      BY <3>1, <3>2
  <2>5. Eq(F)
    <3> HIDE DEF D, Step
    <3> QED
      BY <2>3, <2>4
  <2> HIDE DEF Eq
  <2> QED
    BY <2>5
<1>2. FoldLeft(+, 0, q) = it[1 .. n]
  <2>1. FoldLeft(+, 0, q)
          = (CHOOSE x : x = [s \in SUBSET DOMAIN q |->
               IF s = {} THEN 0 ELSE x[s \ {Max(s)}] + q[Max(s)]])[DOMAIN q]
    BY Zenon DEF FoldLeft, MapThenFoldSet
  <2> QED
    BY <2>1
<1> HIDE DEF it
<1> DEFINE f == [i \in 0 .. n |-> it[1 .. i]]
<1>3. f[0] = 0
  <2>1. 1 .. 0 = {} /\ {} \in D
    OBVIOUS
  <2>2. it[{}] = Step(it, {})
    BY <1>1, <2>1
  <2> QED
    BY <2>1, <2>2
<1>4. ASSUME NEW i \in 1 .. n PROVE f[i] = f[i - 1] + q[i]
  <2>1. /\ 1 .. i \in D /\ 1 .. i # {} /\ Max(1 .. i) = i
        /\ (1 .. i) \ {i} = 1 .. i - 1
    BY FirstOnes
  <2>2. it[1 .. i] = Step(it, 1 .. i)
    <3> HIDE DEF D, Step
    <3> QED
      BY <1>1, <2>1
  <2>3. it[1 .. i] = it[1 .. i - 1] + q[i]
    BY <2>1, <2>2
  <2> QED
    BY <2>3
<1>5. f \in [0 .. n -> Nat]
  <2> DEFINE P == {i \in Nat : i <= n => f[i] \in Nat}
  <2>1. 0 \in P
    BY <1>3
  <2>2. ASSUME NEW i \in Nat, i \in P PROVE i + 1 \in P
    <3> SUFFICES ASSUME i + 1 <= n PROVE f[i + 1] \in Nat
      OBVIOUS
    <3>1. i + 1 \in 1 .. n /\ (i + 1) - 1 = i /\ f[i] \in Nat
      BY <2>2
    <3> HIDE DEF f
    <3>2. f[i + 1] = f[i] + q[i + 1] /\ q[i + 1] \in Nat
      BY <1>4, <3>1
    <3> QED
      BY <3>1, <3>2
  <2>3. \A i \in Nat : i \in P
    <3> HIDE DEF P
    <3> QED
      BY <2>1, <2>2, Induction
  <2>4. \A i \in 0 .. n : f[i] \in Nat
    <3> HIDE DEF f
    <3> QED
      BY <2>3
  <2> QED
    BY <2>4
<1>6. FoldLeft(+, 0, q) = f[n]
  <2>1. f[n] = it[1 .. n]
    OBVIOUS
  <2> QED
    BY <1>2, <2>1, Zenon
<1> HIDE DEF f
<1> QED
  BY <1>3, <1>4, <1>5, <1>6 DEF Sums

\* The numbers that readUint adds up for the bytes s.
Digits(s) == [k \in 1 .. Len(s) |-> (s[k] % More) * 2 ^ (Group * (k - 1))]

\* They are natural numbers.
LEMMA DigitsType ==
  ASSUME NEW s \in Seq(Nat)
  PROVE  /\ DOMAIN Digits(s) = 1 .. Len(s) /\ Len(s) \in Nat
         /\ \A k \in 1 .. Len(s) :
              /\ Digits(s)[k] = (s[k] % More) * 2 ^ (Group * (k - 1))
              /\ Digits(s)[k] \in Nat
<1>1. ASSUME NEW k \in 1 .. Len(s) PROVE (s[k] % More) * 2 ^ (Group * (k - 1)) \in Nat
  <2>1. s[k] \in Nat /\ More \in Nat \ {0} /\ k - 1 \in Nat /\ Group \in Nat
    BY Widths
  <2>2. s[k] % More \in Nat
    BY <2>1, DivMod
  <2>3. Group * (k - 1) \in Nat
    BY <2>1
  <2>4. 2 ^ (Group * (k - 1)) \in Nat
    BY <2>3, Power
  <2> QED
    BY <2>2, <2>4
<1> QED
  BY <1>1 DEF Digits

\* A byte in front counts once, and the others 2 ^ Group times as much.
LEMMA SumShift ==
  ASSUME NEW t \in Seq(Nat), NEW r, Sums(Digits(t), Len(t), r), NEW x \in Nat
  PROVE  Sums(Digits(<<x>> \o t), Len(<<x>> \o t), (x % More) + More * r)
<1> DEFINE s == <<x>> \o t
           n == Len(t)
           e == x % More
<1>1. /\ s \in Seq(Nat) /\ Len(s) = n + 1 /\ n \in Nat /\ s[1] = x
      /\ \A i \in 1 .. n : s[i + 1] = t[i]
  OBVIOUS
<1>2. More \in Nat \ {0} /\ Group \in Nat /\ e \in Nat
  <2>1. More \in Nat \ {0} /\ Group \in Nat
    BY Widths
  <2> QED
    BY <2>1, DivMod
<1>3. PICK f \in [0 .. n -> Nat] :
        f[0] = 0 /\ (\A i \in 1 .. n : f[i] = f[i - 1] + Digits(t)[i]) /\ r = f[n]
  BY DEF Sums
<1> DEFINE g == [i \in 0 .. n + 1 |-> IF i = 0 THEN 0 ELSE e + More * f[i - 1]]
<1>4. g \in [0 .. n + 1 -> Nat]
  <2>1. \A i \in 1 .. n + 1 : e + More * f[i - 1] \in Nat
    <3> TAKE i \in 1 .. n + 1
    <3>1. f[i - 1] \in Nat
      BY <1>1
    <3>2. More * f[i - 1] \in Nat
      BY <1>2, <3>1
    <3> QED
      BY <1>2, <3>2
  <2> HIDE DEF e
  <2> QED
    BY <2>1
<1>5. g[0] = 0 /\ g[n + 1] = e + More * r
  BY <1>1, <1>3
<1>6. g[1] = g[0] + Digits(s)[1]
  <2>1. Digits(s)[1] = (s[1] % More) * 2 ^ (Group * (1 - 1))
    BY <1>1, DigitsType
  <2>2. Group * (1 - 1) = 0 /\ 2 ^ 0 = 1
    BY <1>2
  <2>5. 2 ^ (Group * (1 - 1)) = 1
    BY <2>2, Zenon
  <2>6. Digits(s)[1] = e * 1
    BY <1>1, <2>1, <2>5
  <2>3. Digits(s)[1] = e
    <3> HIDE DEF e, s
    <3> QED
      BY <1>2, <2>6
  <2>4. g[1] = e + More * 0
    BY <1>1, <1>3
  <2> QED
    BY <1>2, <1>5, <2>3, <2>4
<1>7. ASSUME NEW i \in 1 .. n PROVE g[i + 1] = g[i] + Digits(s)[i + 1]
  <2>1. g[i + 1] = e + More * f[i] /\ g[i] = e + More * f[i - 1]
    BY <1>1
  <2>2. f[i] = f[i - 1] + Digits(t)[i]
    BY <1>3
  <2>3. /\ Digits(t)[i] = (t[i] % More) * 2 ^ (Group * (i - 1))
        /\ Digits(s)[i + 1] = (t[i] % More) * 2 ^ (Group * ((i + 1) - 1))
        /\ t[i] \in Nat
    <3>1. i + 1 \in 1 .. Len(s) /\ s[i + 1] = t[i] /\ t[i] \in Nat
      BY <1>1
    <3>2. /\ \A k \in 1 .. n : Digits(t)[k] = (t[k] % More) * 2 ^ (Group * (k - 1))
          /\ \A k \in 1 .. Len(s) : Digits(s)[k] = (s[k] % More) * 2 ^ (Group * (k - 1))
      BY <1>1, DigitsType
    <3> HIDE DEF s
    <3> QED
      BY <3>1, <3>2
  <2>4. t[i] % More \in Nat
    BY <1>2, <2>3, DivMod
  <2>5. Group * ((i + 1) - 1) = Group + Group * (i - 1) /\ Group * (i - 1) \in Nat
    BY <1>2
  <2>6. 2 ^ (Group + Group * (i - 1)) = More * 2 ^ (Group * (i - 1))
    BY <1>2, <2>5, PowerSum DEF More
  <2>7. 2 ^ (Group * (i - 1)) \in Nat
    BY <2>5, Power
  <2> DEFINE y == t[i] % More
             z == 2 ^ (Group * (i - 1))
             w == Digits(t)[i]
  <2>8. /\ w = y * z /\ Digits(s)[i + 1] = y * (More * z) /\ y \in Nat /\ z \in Nat
    BY <2>3, <2>4, <2>5, <2>6, <2>7
  <2> HIDE DEF y, z
  <2>9. y * (More * z) = More * (y * z) /\ y * z \in Nat
    BY <1>2, <2>8
  <2>10. Digits(s)[i + 1] = More * w /\ w \in Nat
    BY <2>8, <2>9
  <2>11. f[i - 1] \in Nat /\ f[i] = f[i - 1] + w
    BY <2>2
  <2> HIDE DEF w, s
  <2>12. More * f[i] = More * f[i - 1] + More * w
    BY <1>2, <2>10, <2>11
  <2>13. More * f[i - 1] \in Nat /\ More * w \in Nat
    BY <1>2, <2>10, <2>11
  <2> HIDE DEF g, e
  <2> QED
    BY <1>2, <2>1, <2>10, <2>12, <2>13
<1>8. \A i \in 1 .. n + 1 : g[i] = g[i - 1] + Digits(s)[i]
  <2> TAKE i \in 1 .. n + 1
  <2> HIDE DEF g, s
  <2>1. CASE i = 1
    BY <1>6, <2>1
  <2>2. CASE i # 1
    <3>1. i - 1 \in 1 .. n /\ (i - 1) + 1 = i
      BY <1>1, <2>2
    <3> QED
      BY <1>7, <3>1
  <2> QED
    BY <2>1, <2>2
<1> HIDE DEF g
<1> QED
  BY <1>1, <1>4, <1>5, <1>8 DEF Sums

\* How many bytes of Group bits a number of w bits takes.
BytesFor(w) == (w + Group - 1) \div Group

\* The bytes of u: the last one alone without the high bit, u their sum, and no
\* more of them than the width of u asks for.
Encodes(u, s) ==
  /\ s \in Seq(Nat) /\ Len(s) > 0 /\ s[Len(s)] < More
  /\ \A k \in 1 .. Len(s) - 1 : s[k] >= More
  /\ Sums(Digits(s), Len(s), u)
  /\ \A w \in Nat \ {0} : u < 2 ^ w => Len(s) <= BytesFor(w)

\* Without its low Group bits a number is Group bits narrower.
LEMMA MorePower ==
  ASSUME NEW w \in Nat, NEW u \in Nat, u >= More, u < 2 ^ w
  PROVE  /\ w - Group \in Nat \ {0} /\ u \div More < 2 ^ (w - Group)
         /\ BytesFor(w) = BytesFor(w - Group) + 1
<1>1. Group \in Nat \ {0} /\ More \in Nat \ {0} /\ 2 ^ w \in Nat /\ More = 2 ^ Group
  BY Widths, Power DEF More
<1>2. w > Group
  <2> SUFFICES ASSUME w <= Group PROVE FALSE
    BY <1>1
  <2> DEFINE v == Group - w
  <2>1. v \in Nat /\ w + v = Group
    BY <1>1
  <2> HIDE DEF v
  <2>2. 2 ^ (w + v) = 2 ^ w * 2 ^ v /\ 2 ^ v \in Nat \ {0}
    BY <2>1, Power, PowerSum
  <2>3. More = 2 ^ w * 2 ^ v
    BY <1>1, <2>1, <2>2
  <2> DEFINE x == 2 ^ w
             y == 2 ^ v
  <2>4. x \in Nat /\ y \in Nat \ {0} /\ More = x * y /\ u < x
    BY <1>1, <2>2, <2>3
  <2> HIDE DEF x, y
  <2>5. x * y >= x
    <3>1. y - 1 \in Nat /\ x * y = x + x * (y - 1)
      BY <2>4
    <3>2. x * (y - 1) \in Nat
      BY <2>4, <3>1
    <3> QED
      BY <2>4, <3>1, <3>2
  <2> QED
    BY <1>1, <2>4, <2>5
<1> DEFINE v == w - Group
<1>3. v \in Nat \ {0} /\ w = Group + v
  BY <1>1, <1>2
<1> HIDE DEF v
<1>4. 2 ^ w = More * 2 ^ v /\ 2 ^ v \in Nat
  BY <1>1, <1>3, Power, PowerSum
<1>5. u \div More < 2 ^ v
  <2> DEFINE y == 2 ^ v
  <2>1. y \in Nat /\ u < y * More
    <3>1. y \in Nat /\ u < More * y
      BY <1>4
    <3> HIDE DEF y
    <3> QED
      BY <1>1, <3>1
  <2> HIDE DEF y
  <2>2. u \div More < y
    BY <1>1, <2>1, DivBelow
  <2> QED
    BY <2>2 DEF y
<1>6. BytesFor(w) = BytesFor(v) + 1
  <2> DEFINE x == v + Group - 1
  <2>1. x \in Nat /\ w + Group - 1 = x + Group
    BY <1>1, <1>3
  <2> HIDE DEF x
  <2>2. (x + Group) \div Group = (x \div Group) + 1
    BY <1>1, <2>1
  <2> QED
    BY <2>1, <2>2 DEF BytesFor, x
<1> QED
  BY <1>3, <1>5, <1>6 DEF v

\* The last byte is the encoding of a number below 2 ^ Group.
LEMMA EncodesLast ==
  ASSUME NEW u \in 0 .. Modulus - 1, ~ NeedsMore(u)
  PROVE  Encodes(u, <<u>>)
<1>1. u \in Nat /\ More \in Nat \ {0} /\ u < More /\ Group \in Nat \ {0}
  BY Widths DEF NeedsMore
<1>2. Sums(Digits(<<>>), 0, 0)
  <2> DEFINE f == [i \in 0 .. 0 |-> 0]
  <2>1. f \in [0 .. 0 -> Nat] /\ f[0] = 0 /\ (\A i \in 1 .. 0 : f[i] = f[i - 1] + Digits(<<>>)[i])
    OBVIOUS
  <2> QED
    BY <2>1 DEF Sums
<1>3. <<>> \in Seq(Nat) /\ Len(<<>>) = 0 /\ <<u>> \o <<>> = <<u>> /\ Len(<<u>>) = 1
  BY <1>1
<1>4. u % More = u
  BY <1>1, ModSmall
<1>5. Sums(Digits(<<u>>), 1, (u % More) + More * 0)
  BY <1>1, <1>2, <1>3, SumShift
<1>6. (u % More) + More * 0 = u
  BY <1>1, <1>4
<1>7. \A w \in Nat \ {0} : 1 <= BytesFor(w)
  <2> TAKE w \in Nat \ {0}
  <2>1. w + Group - 1 >= Group /\ w + Group - 1 \in Nat
    BY <1>1
  <2> QED
    BY <1>1, <2>1 DEF BytesFor
<1> QED
  BY <1>1, <1>3, <1>5, <1>6, <1>7 DEF Encodes

\* A byte with the high bit in front of the encoding of the other bits.
LEMMA EncodesMore ==
  ASSUME NEW u \in 0 .. Modulus - 1, NeedsMore(u), NEW t, Encodes(u \div More, t)
  PROVE  Encodes(u, <<(u % More) + More>> \o t)
<1> DEFINE e == u % More
           x == e + More
           s == <<x>> \o t
           n == Len(t)
<1>1. u \in Nat /\ More \in Nat \ {0} /\ u >= More /\ Group \in Nat \ {0}
  BY Widths DEF NeedsMore
<1>2. e \in 0 .. More - 1 /\ u \div More \in Nat /\ u = (u \div More) * More + e
  BY <1>1, DivMod
<1>3. /\ t \in Seq(Nat) /\ n > 0 /\ n \in Nat /\ t[n] < More
      /\ \A k \in 1 .. n - 1 : t[k] >= More
      /\ Sums(Digits(t), n, u \div More)
      /\ \A w \in Nat \ {0} : u \div More < 2 ^ w => n <= BytesFor(w)
  BY DEF Encodes
<1>4. x \in Nat /\ x >= More /\ x % More = e
  <2>1. x = 1 * More + e
    BY <1>1, <1>2
  <2> HIDE DEF e
  <2>2. (1 * More + e) % More = e
    BY <1>1, <1>2, DivUnique
  <2> QED
    BY <1>1, <1>2, <2>1, <2>2
<1> HIDE DEF x, e
<1>5. /\ s \in Seq(Nat) /\ Len(s) = n + 1 /\ s[1] = x
      /\ \A i \in 1 .. n : s[i + 1] = t[i]
  BY <1>3, <1>4
<1>6. s[n + 1] < More
  BY <1>3, <1>5
<1>7. \A k \in 1 .. n : s[k] >= More
  <2> TAKE k \in 1 .. n
  <2>1. CASE k = 1
    BY <1>4, <1>5, <2>1
  <2>2. CASE k # 1
    <3>1. k - 1 \in 1 .. n - 1 /\ k - 1 \in 1 .. n /\ (k - 1) + 1 = k
      BY <1>3, <2>2
    <3>2. s[(k - 1) + 1] = t[k - 1]
      BY <1>5, <3>1
    <3> HIDE DEF s
    <3> QED
      BY <1>3, <3>1, <3>2
  <2> QED
    BY <2>1, <2>2
<1>8. Sums(Digits(s), n + 1, u)
  <2>1. Sums(Digits(s), Len(s), (x % More) + More * (u \div More))
    BY <1>3, <1>4, SumShift
  <2>2. (x % More) + More * (u \div More) = u
    <3> DEFINE d == u \div More
    <3>1. d \in Nat /\ u = d * More + e /\ e \in Nat
      BY <1>1, <1>2
    <3> HIDE DEF d
    <3>2. (x % More) + More * d = u
      BY <1>1, <1>4, <3>1
    <3> QED
      BY <3>2 DEF d
  <2> QED
    BY <1>5, <2>1, <2>2
<1>9. ASSUME NEW w \in Nat \ {0}, u < 2 ^ w PROVE n + 1 <= BytesFor(w)
  <2>1. /\ w - Group \in Nat \ {0} /\ u \div More < 2 ^ (w - Group)
        /\ BytesFor(w) = BytesFor(w - Group) + 1
    BY <1>1, <1>9, MorePower
  <2>2. n <= BytesFor(w - Group)
    BY <1>3, <2>1
  <2>3. BytesFor(w - Group) \in Nat
    <3>1. (w - Group) + Group - 1 \in Nat
      BY <1>1, <2>1
    <3> QED
      BY <1>1, <3>1, DivMod DEF BytesFor
  <2> QED
    BY <1>3, <2>1, <2>2, <2>3
<1> HIDE DEF s
<1>10. Len(s) - 1 = n /\ Len(s) > 0 /\ s[Len(s)] < More
  BY <1>3, <1>5, <1>6
<1>11. Encodes(u, s)
  BY <1>5, <1>7, <1>8, <1>9, <1>10 DEF Encodes
<1> QED
  BY <1>11 DEF s, x, e

\* What writeUint writes is the encoding of the number.
LEMMA WriteUintEncodes ==
  ASSUME NEW u \in 0 .. Modulus - 1
  PROVE  Encodes(u, writeUint[u])
<1> DEFINE D == 0 .. Modulus - 1
           P == {n \in Nat : \A y \in D : y <= n => Encodes(y, writeUint[y])}
<1>0. D \subseteq Nat
  BY Widths
<1>1. ASSUME NEW v \in D, \A y \in D : y < v => Encodes(y, writeUint[y])
      PROVE  Encodes(v, writeUint[v])
  <2>1. CASE NeedsMore(v)
    <3>1. v \div More \in D /\ v \div More < v
      BY <2>1, Quotient
    <3>2. Encodes(v \div More, writeUint[v \div More])
      <4> HIDE DEF D
      <4> QED
        BY <1>1, <3>1
    <3>3. writeUint[v] = <<(v % More) + More>> \o writeUint[v \div More]
      BY <2>1, WriteUint
    <3> QED
      BY <2>1, <3>2, <3>3, EncodesMore
  <2>2. CASE ~ NeedsMore(v)
    <3>1. writeUint[v] = <<v>>
      BY <2>2, WriteUint
    <3> QED
      BY <2>2, <3>1, EncodesLast
  <2> QED
    BY <2>1, <2>2
<1>2. 0 \in P
  <2> SUFFICES ASSUME NEW v \in D, v <= 0 PROVE Encodes(v, writeUint[v])
    OBVIOUS
  <2>1. \A y \in D : ~ (y < v)
    BY <1>0
  <2> HIDE DEF D
  <2> QED
    BY <1>1, <2>1
<1>3. ASSUME NEW n \in Nat, n \in P PROVE n + 1 \in P
  <2> SUFFICES ASSUME NEW v \in D, v <= n + 1 PROVE Encodes(v, writeUint[v])
    OBVIOUS
  <2>1. \A y \in D : y < v => Encodes(y, writeUint[y])
    BY <1>0, <1>3
  <2> HIDE DEF D
  <2> QED
    BY <1>1, <2>1
<1>4. \A n \in Nat : n \in P
  <2> HIDE DEF P
  <2> QED
    BY <1>2, <1>3, Induction
<1> QED
  BY <1>0, <1>4

\* The decoder takes exactly the bytes of one number, whatever follows them.
LEMMA DecodesOne ==
  ASSUME NEW u \in 0 .. Modulus - 1, NEW s, Encodes(u, s), NEW r \in Seq(Cells)
  PROVE  Taken(s \o r) = Len(s) /\ readUint(s \o r) = u
<1> DEFINE n == Len(s)
           x == s \o r
<1>1. /\ s \in Seq(Nat) /\ n \in Nat \ {0} /\ s[n] < More /\ \A k \in 1 .. n - 1 : s[k] >= More
      /\ Sums(Digits(s), n, u)
  BY DEF Encodes
<1>2. n <= Rounds
  <2>1. Width \in Nat \ {0} /\ u < 2 ^ Width
    BY Widths DEF Modulus
  <2>2. n <= BytesFor(Width)
    BY <2>1 DEF Encodes
  <2> QED
    BY <2>2 DEF BytesFor, Rounds
<1>3. DOMAIN x = 1 .. n + Len(r) /\ Len(r) \in Nat /\ \A k \in 1 .. n : x[k] = s[k]
  BY <1>1
<1> HIDE DEF x
<1> DEFINE ends == {k \in DOMAIN x : k = Rounds \/ x[k] < More}
<1>4. n \in ends
  BY <1>1, <1>3
<1>5. \A k \in ends : n <= k
  <2> SUFFICES ASSUME NEW k \in ends, k < n PROVE FALSE
    BY <1>1, <1>3
  <2>1. k \in 1 .. n - 1 /\ k # Rounds /\ x[k] < More
    <3>1. k \in Nat /\ k >= 1
      BY <1>3
    <3>2. Rounds \in Int
      BY Widths DEF Rounds
    <3> QED
      BY <1>1, <1>2, <3>1, <3>2
  <2>2. s[k] < More /\ s[k] >= More /\ s[k] \in Nat
    BY <1>1, <1>3, <2>1
  <2>3. More \in Nat
    BY Widths
  <2> QED
    BY <2>2, <2>3
<1>6. Taken(x) = n
  <2>1. Taken(x) = CHOOSE k \in ends : \A j \in ends : k <= j
    BY <1>4 DEF Taken
  <2>2. ends \subseteq Nat
    BY <1>1, <1>3
  <2> HIDE DEF ends
  <2>3. Taken(x) \in ends /\ \A j \in ends : Taken(x) <= j
    BY <1>4, <1>5, <2>1
  <2> DEFINE y == Taken(x)
  <2>4. y \in ends /\ y <= n
    BY <1>4, <2>3
  <2> HIDE DEF y
  <2>5. n <= y /\ y \in Nat /\ n \in Nat
    BY <1>1, <1>5, <2>2, <2>4
  <2>6. y = n
    BY <2>4, <2>5
  <2> QED
    BY <2>6 DEF y
<1>7. [k \in 1 .. n |-> (x[k] % More) * 2 ^ (Group * (k - 1))] = Digits(s)
  BY <1>3 DEF Digits
<1>8. readUint(x) = FoldLeft(+, 0, Digits(s)) % Modulus
  BY <1>6, <1>7, Zenon DEF readUint
<1>9. Sums(Digits(s), n, FoldLeft(+, 0, Digits(s)))
  <2>1. DOMAIN Digits(s) = 1 .. n /\ \A k \in 1 .. n : Digits(s)[k] \in Nat
    BY <1>1, DigitsType
  <2> QED
    BY <1>1, <2>1, FoldSums
<1>10. FoldLeft(+, 0, Digits(s)) = u
  BY <1>1, <1>9, SumUnique
<1>11. u % Modulus = u
  BY Widths, ModSmall
<1>12. readUint(x) = u
  BY <1>8, <1>10, <1>11, Zenon
<1> QED
  BY <1>6, <1>12 DEF x

-----------------------------------------------------------------------------
(* The calls *)

\* What a call does to the bytes and the position.
WriteStep == Wrote(b, b', io') /\ io' \in Seq(Cells)

\* n bytes are read.
ReadStep ==
  \E n \in 0 .. getReadSize(b) :
    Moved(b, b', n) /\ io' = SubSeq(Held(b), b.m_position + 1, b.m_position + n)

\* The position is set.
MoveStep ==
  /\ Good(b') /\ b'.m_baseSize = b.m_baseSize /\ b'.fault = b.fault /\ b'.nodes = b.nodes
  /\ b'.m_size = AtLeast(b.m_size, b'.m_position) /\ io' = <<>>

\* All is forgotten.
ClearStep ==
  /\ Good(b') /\ b'.m_baseSize = b.m_baseSize /\ b'.fault = b.fault
  /\ b'.m_position = 0 /\ b'.m_size = 0 /\ io' = <<>>

\* A null node is followed, in one of the two known ways.
CrashStep ==
  \E f \in {"write", "empty read"} :
    b' = Crash(b, f) /\ (f = "write" => b.m_baseSize # 1) /\ io' = io

\* Every call does one of these.
Effect == WriteStep \/ ReadStep \/ MoveStep \/ ClearStep \/ CrashStep

\* A call that wrote s, or ran off the list while writing.
LEMMA DoneWrite ==
  ASSUME Good(b), b.fault = "none", NEW a, NEW s \in Seq(Cells), Done(a, s),
         Wrote(b, a, s) \/ (a.fault = "write" /\ b.m_baseSize # 1)
  PROVE  Effect
<1>1. CASE Wrote(b, a, s)
  <2>1. a.fault = "none"
    BY <1>1 DEF Wrote
  <2>2. b' = a /\ io' = s
    BY <2>1 DEF Done
  <2> QED
    BY <1>1, <2>2 DEF Effect, WriteStep
<1>2. CASE a.fault = "write" /\ b.m_baseSize # 1
  <2>1. b' = Crash(b, "write") /\ io' = io
    BY <1>2 DEF Done
  <2> QED
    BY <1>2, <2>1 DEF Effect, CrashStep
<1> QED
  BY <1>1, <1>2

\* A call that read n bytes, or none where there is no node.
LEMMA DoneRead ==
  ASSUME Good(b), b.fault = "none", NEW a, NEW n \in 0 .. getReadSize(b),
         NEW s, s = SubSeq(toString(b), 1, n), Done(a, s),
         Moved(b, a, n) \/ a.fault = "empty read"
  PROVE  Effect
<1>1. CASE Moved(b, a, n)
  <2>1. a.fault = "none"
    BY <1>1 DEF Moved
  <2>2. b' = a /\ io' = s
    BY <2>1 DEF Done
  <2>3. s = SubSeq(Held(b), b.m_position + 1, b.m_position + n)
    BY Views
  <2>4. ReadStep
    BY <1>1, <2>2, <2>3 DEF ReadStep
  <2> QED
    BY <2>4 DEF Effect
<1>2. CASE a.fault = "empty read"
  <2>1. b' = Crash(b, "empty read") /\ io' = io
    BY <1>2 DEF Done
  <2> QED
    BY <2>1 DEF Effect, CrashStep
<1> QED
  BY <1>1, <1>2

\* The strings and files are bytes.
LEMMA Inputs == \A s \in Bytes \cup Files : s \in Seq(Cells)
<1> TAKE s \in Bytes \cup Files
<1>1. s \in Seq(0 .. 2 ^ (Group + 1) - 1)
  BY ByteArrayAssumption
<1>2. 2 ^ (Group + 1) \in Nat
  BY Widths
<1>3. 0 .. 2 ^ (Group + 1) - 1 \subseteq Cells
  BY <1>2 DEF Cells
<1> DEFINE S == 0 .. 2 ^ (Group + 1) - 1
<1>4. s \in Seq(S) /\ S \subseteq Cells
  BY <1>1, <1>3
<1> HIDE DEF S
<1> QED
  BY <1>4

\* write() of any bytes.
LEMMA WriteDoes ==
  ASSUME Good(b), b.fault = "none", NEW s \in Seq(Cells), Done(write(b, s), s)
  PROVE  Effect
<1>1. CASE Wrote(b, write(b, s), s)
  BY <1>1, DoneWrite
<1>2. CASE write(b, s) = Crash(b, "write") /\ b.m_baseSize # 1
  <2>1. write(b, s).fault = "write"
    BY <1>2, CrashFault DEF Faults
  <2> QED
    BY <1>2, <2>1, DoneWrite
<1> QED
  BY <1>1, <1>2, WriteEffect

\* The length and the string are written as one.
LEMMA WriteStringDoes ==
  ASSUME Good(b), NEW s \in Bytes, WriteString(s)
  PROVE  Effect
<1> DEFINE h == <<Len(s)>>
           w == write(b, h)
           x == write(w, s)
<1>1. s \in Seq(Cells) /\ h \in Seq(Cells) /\ h \o s \in Seq(Cells)
  <2>1. s \in Seq(Cells)
    BY Inputs
  <2>2. Len(s) \in Cells
    BY <2>1 DEF Cells
  <2>3. h \in Seq(Cells)
    BY <2>2
  <2> HIDE DEF h
  <2> QED
    BY <2>1, <2>3
<1>2. b.fault = "none" /\ Done(x, h \o s)
  BY DEF WriteString, Alive
<1> HIDE DEF h, x
<1>3. Wrote(b, w, h) \/ (w = Crash(b, "write") /\ b.m_baseSize # 1)
  BY <1>1, <1>2, WriteEffect
<1>4. CASE w = Crash(b, "write") /\ b.m_baseSize # 1
  <2>1. w.fault = "write"
    BY <1>4, CrashFault DEF Faults
  <2>2. x = w
    BY <2>1 DEF x, write
  <2> QED
    BY <1>1, <1>2, <1>4, <2>1, <2>2, DoneWrite
<1>5. CASE Wrote(b, w, h)
  <2> HIDE DEF w
  <2>1. Good(w) /\ w.fault = "none" /\ w.m_baseSize = b.m_baseSize
    BY <1>2, <1>5 DEF Wrote
  <2>2. Wrote(w, x, s) \/ (x = Crash(w, "write") /\ w.m_baseSize # 1)
    BY <1>1, <2>1, WriteEffect DEF x
  <2>3. CASE Wrote(w, x, s)
    <3>1. Wrote(b, x, h \o s)
      BY <1>1, <1>5, <2>3, WroteTwice
    <3> QED
      BY <1>1, <1>2, <3>1, DoneWrite
  <2>4. CASE x = Crash(w, "write") /\ w.m_baseSize # 1
    <3>1. x.fault = "write"
      BY <2>1, <2>4, CrashFault DEF Faults
    <3> QED
      BY <1>1, <1>2, <2>1, <2>4, <3>1, DoneWrite
  <2> QED
    BY <2>2, <2>3, <2>4
<1> QED
  BY <1>3, <1>4, <1>5

\* The encoding of an integer is written.
LEMMA WriteIntDoes ==
  ASSUME Good(b), NEW v \in Ints, WriteInt(v)
  PROVE  Effect
<1> DEFINE u == EncodeZigzag(v)
           s == writeUint[u]
<1>1. v \in Int
  <2>1. 2 ^ (Width - 1) \in Nat
    BY Widths
  <2>2. v \in (-(2 ^ (Width - 1))) .. 2 ^ (Width - 1) - 1
    BY ByteArrayAssumption
  <2> QED
    BY <2>1, <2>2
<1>2. u \in 0 .. Modulus - 1
  BY <1>1, ZigzagType
<1>3. s \in Seq(Nat)
  <2> HIDE DEF u
  <2> QED
    BY <1>2, WriteUint
<1>4. s \in Seq(Cells)
  <2> HIDE DEF s
  <2> QED
    BY <1>3 DEF Cells
<1>5. b.fault = "none" /\ Done(write(b, s), s)
  BY DEF WriteInt, Alive
<1> HIDE DEF s
<1> QED
  BY <1>4, <1>5, WriteDoes

\* The pieces of a file are written as one.
LEMMA ReadFromFileDoes ==
  ASSUME Good(b), NEW s \in Files, ReadFromFile(s)
  PROVE  Effect
<1>1. s \in Seq(Cells)
  BY Inputs
<1>2. b.fault = "none" /\ Done(readFromFile(b, s), s)
  BY DEF ReadFromFile, Alive
<1>3. \/ Wrote(b, readFromFile(b, s), s)
      \/ readFromFile(b, s).fault = "write" /\ b.m_baseSize # 1
  BY <1>1, <1>2, ReadFromFileEffect
<1> QED
  BY <1>1, <1>2, <1>3, DoneWrite

\* read() of n bytes that are there.
LEMMA ReadDoes ==
  ASSUME Good(b), b.fault = "none", NEW n \in 0 .. getReadSize(b),
         Done(read(b, n), SubSeq(toString(b), 1, n))
  PROVE  Effect
<1>1. getReadSize(b) \in Nat
  BY GoodFields DEF getReadSize
<1>2. n \in Nat /\ n <= getReadSize(b)
  BY <1>1
<1>3. Moved(b, read(b, n), n) \/ read(b, n) = Crash(b, "empty read")
  BY <1>2, ReadEffect
<1>4. Moved(b, read(b, n), n) \/ read(b, n).fault = "empty read"
  BY <1>3, CrashFault DEF Faults
<1> QED
  BY <1>4, DoneRead

\* A string is read with its length, or the length alone.
LEMMA ReadStringDoes ==
  ASSUME Good(b), ReadString
  PROVE  Effect
<1> DEFINE n == toString(b)[1]
           header == read(b, 1)
           t == toString(b)
<1>1. /\ b.fault = "none" /\ getReadSize(b) > 0 /\ n # Junk
      /\ IF n <= getReadSize(header) THEN Done(read(header, n), SubSeq(t, 1, n + 1))
                                     ELSE Done(header, <<n>>)
  BY DEF ReadString, Alive
<1>2. /\ t \in Seq(Cells) /\ Len(t) = getReadSize(b) /\ getReadSize(b) \in Nat
      /\ b.m_position \in Nat /\ b.m_size \in Nat
  BY GoodFields, Views DEF getReadSize
<1>3. n \in Nat
  <2>1. n \in Cells
    BY <1>1, <1>2
  <2> QED
    BY <1>1, <2>1 DEF Cells
<1>4. Moved(b, header, 1)
  <2>1. 1 \in Nat /\ 1 <= getReadSize(b) /\ 1 # 0
    BY <1>1, <1>2
  <2> DEFINE k == 1
  <2>2. k \in Nat /\ k <= getReadSize(b) /\ k # 0
    BY <2>1
  <2> HIDE DEF k
  <2>3. Moved(b, read(b, k), k)
    BY <2>2, ReadEffect
  <2> QED
    BY <2>3 DEF k
<1>5. Good(header) /\ getReadSize(header) = getReadSize(b) - 1 /\ header.fault = "none"
  BY <1>1, <1>2, <1>4 DEF Moved, getReadSize
<1>6. CASE ~ (n <= getReadSize(header))
  <2>1. Done(header, <<n>>)
    BY <1>1, <1>6
  <2>2. <<n>> = SubSeq(t, 1, 1)
    BY <1>1, <1>2
  <2>3. 1 \in 0 .. getReadSize(b)
    BY <1>1, <1>2
  <2> HIDE DEF n, header
  <2> QED
    BY <1>1, <1>4, <2>1, <2>2, <2>3, DoneRead
<1>7. CASE n <= getReadSize(header)
  <2>1. Done(read(header, n), SubSeq(t, 1, n + 1))
    BY <1>1, <1>7
  <2>2. Moved(header, read(header, n), n) \/ read(header, n) = Crash(header, "empty read")
    <3> HIDE DEF n, header
    <3> QED
      BY <1>3, <1>5, <1>7, ReadEffect
  <2>3. n + 1 \in 0 .. getReadSize(b)
    BY <1>2, <1>3, <1>5, <1>7
  <2> DEFINE x == read(header, n)
  <2>4. Moved(b, x, n + 1) \/ x.fault = "empty read"
    <3>1. CASE Moved(header, x, n)
      <4>1. (b.m_position + 1) + n = b.m_position + (n + 1)
        BY <1>2, <1>3
      <4> HIDE DEF n, header, x
      <4> QED
        BY <1>4, <3>1, <4>1 DEF Moved
    <3>2. CASE x = Crash(header, "empty read")
      <4> HIDE DEF header
      <4> QED
        BY <1>5, <3>2, CrashFault DEF Faults
    <3> QED
      BY <2>2, <3>1, <3>2
  <2> HIDE DEF n, header, x
  <2>5. Done(x, SubSeq(t, 1, n + 1))
    BY <2>1 DEF x
  <2> QED
    BY <1>1, <2>3, <2>4, <2>5, DoneRead
<1> QED
  BY <1>6, <1>7

\* The bytes of an integer are read, or those that are there.
LEMMA ReadIntDoes ==
  ASSUME Good(b), ReadInt
  PROVE  Effect
<1> DEFINE t == toString(b)
           n == Taken(t)
           s == SubSeq(t, 1, n)
<1>1. b.fault = "none" /\ Done(read(b, Len(s)), s)
  BY DEF ReadInt, Alive
<1>2. t \in Seq(Cells) /\ Len(t) = getReadSize(b)
  BY Views
<1>3. n \in 0 .. Len(t)
  <2> HIDE DEF t
  <2> QED
    BY <1>2, TakenBound
<1>4. Len(s) = n
  <2> HIDE DEF n, t
  <2> QED
    BY <1>2, <1>3
<1> HIDE DEF n
<1> QED
  BY <1>1, <1>2, <1>3, <1>4, ReadDoes

\* setPosition within the capacity.
LEMMA SetPositionDoes ==
  ASSUME Good(b), NEW v \in Nat, SetPosition(v)
  PROVE  Effect
<1> DEFINE g == setPosition(b, v)
<1>1. b.fault = "none" /\ v <= b.m_capacity /\ Done(g, <<>>)
  BY DEF SetPosition, Alive
<1>2. /\ Good(g) /\ g.m_baseSize = b.m_baseSize /\ g.m_position = v
      /\ g.m_size = AtLeast(b.m_size, v) /\ g.nodes = b.nodes /\ g.fault = b.fault
  BY <1>1, SetPositionEffect
<1> HIDE DEF g
<1>3. b' = g /\ io' = <<>>
  BY <1>1, <1>2 DEF Done
<1>4. MoveStep
  BY <1>2, <1>3 DEF MoveStep
<1> QED
  BY <1>4 DEF Effect

\* clear().
LEMMA ClearDoes ==
  ASSUME Good(b), Clear
  PROVE  Effect
<1> DEFINE g == clear(b)
<1>1. b.fault = "none" /\ Done(g, <<>>)
  BY DEF Clear, Alive
<1>2. /\ Good(g) /\ g.m_baseSize = b.m_baseSize /\ g.m_position = 0
      /\ g.m_size = 0 /\ g.fault = b.fault
  BY ClearEffect
<1> HIDE DEF g
<1>3. b' = g /\ io' = <<>>
  BY <1>1, <1>2 DEF Done
<1>4. ClearStep
  BY <1>2, <1>3 DEF ClearStep
<1> QED
  BY <1>4 DEF Effect

\* What the peer fills is written, through cells that addCapacity made.
LEMMA StreamReadDoes ==
  ASSUME Good(b), NEW len \in Nat, NEW s \in Seq(Cells), StreamRead(len, s), len > 0
  PROVE  Effect
<1> DEFINE g == AddCapacity(b, len)
           w == setPosition(Store(g, s), g.m_position + Len(s))
           x == IF ~Reaches(g, g.m_cur, Npos(g), len) THEN Crash(b, "write")
                ELSE IF s = <<>> THEN g ELSE w
<1>1. b.fault = "none" /\ Len(s) <= len /\ Done(x, s) /\ Len(s) \in Nat
  BY DEF StreamRead, Alive
<1>2. /\ Good(g) /\ g.m_baseSize = b.m_baseSize /\ g.m_position = b.m_position
      /\ g.m_size = b.m_size /\ g.fault = b.fault
      /\ b.m_capacity <= g.m_capacity
      /\ \A p \in 0 .. b.m_capacity - 1 : Byte(g, p) = Byte(b, p)
      /\ b.m_baseSize = 1 => b.m_position + len <= g.m_capacity
  BY AddCapacityEffect
<1> HIDE DEF g
<1>3. /\ b.m_position \in Nat /\ b.m_size \in Nat /\ b.m_position <= b.m_size
      /\ b.m_size <= b.m_capacity /\ b.m_capacity \in Nat /\ g.m_capacity \in Nat
  BY <1>2, GoodFields
<1>4. Reaches(g, g.m_cur, Npos(g), len) <=> b.m_position + len <= g.m_capacity
  BY <1>2, ReachesIff
<1>5. CASE ~ Reaches(g, g.m_cur, Npos(g), len)
  <2>1. x.fault = "write" /\ b.m_baseSize # 1
    BY <1>2, <1>4, <1>5, CrashFault DEF Faults
  <2> HIDE DEF x
  <2> QED
    BY <1>1, <2>1, DoneWrite
<1>6. CASE Reaches(g, g.m_cur, Npos(g), len) /\ s = <<>>
  <2>1. Len(s) = 0 /\ x = g
    BY <1>6
  <2>2. b.m_size = AtLeast(b.m_size, b.m_position + 0) /\ b.m_position = b.m_position + 0
    BY <1>3 DEF AtLeast
  <2>3. \A p \in 0 .. b.m_size - 1 : p \in 0 .. b.m_capacity - 1
    BY <1>3
  <2>4. \A p \in 0 .. b.m_size - 1 : p - b.m_position + 1 \notin 1 .. 0
    OBVIOUS
  <2>5. Wrote(b, x, s)
    <3> HIDE DEF x
    <3> QED
      BY <1>2, <2>1, <2>2, <2>3, <2>4 DEF Wrote
  <2> HIDE DEF x
  <2> QED
    BY <1>1, <2>5, DoneWrite
<1>7. CASE Reaches(g, g.m_cur, Npos(g), len) /\ s # <<>>
  <2>1. b.m_position + Len(s) <= g.m_capacity
    BY <1>1, <1>3, <1>4, <1>7
  <2>2. Wrote(b, setPosition(Store(g, s), b.m_position + Len(s)), s)
    BY <1>2, <1>7, <2>1, StoredBytes
  <2>3. Wrote(b, x, s)
    BY <1>2, <1>7, <2>2
  <2> HIDE DEF x
  <2> QED
    BY <1>1, <2>3, DoneWrite
<1> QED
  BY <1>5, <1>6, <1>7

\* What the peer takes is read.
LEMMA StreamWriteDoes ==
  ASSUME Good(b), NEW len \in Nat, NEW n, StreamWrite(len, n)
  PROVE  Effect
<1> DEFINE r == getReadBuffers(b, len)
           t == toString(b)
           c == Capped(b, len)
           g == setPosition(b, b.m_position + n)
<1>1. b.fault = "none" /\ n \in 1 .. Len(r) /\ Done(g, SubSeq(r, 1, n))
  BY DEF StreamWrite, Alive
<1>2. /\ t \in Seq(Cells) /\ Len(t) = getReadSize(b) /\ c \in 0 .. getReadSize(b)
      /\ r = SubSeq(t, 1, c)
  BY Views
<1>3. /\ b.m_position \in Nat /\ b.m_size \in Nat /\ b.m_position <= b.m_size
      /\ b.m_size <= b.m_capacity /\ b.m_capacity \in Nat
      /\ getReadSize(b) = b.m_size - b.m_position
  BY GoodFields DEF getReadSize
<1> HIDE DEF t, r, c
<1>4. r = [k \in 1 .. c |-> t[k]] /\ Len(r) = c
  BY <1>2, <1>3
<1>5. n \in 0 .. getReadSize(b) /\ n \in 1 .. c /\ n \in Nat
  BY <1>1, <1>2, <1>3, <1>4
<1>6. SubSeq(r, 1, n) = SubSeq(t, 1, n)
  BY <1>2, <1>3, <1>4, <1>5
<1>7. Moved(b, g, n)
  <2>1. /\ b.m_position + n \in Nat /\ b.m_position + n <= b.m_size
        /\ b.m_position + n <= b.m_capacity
    BY <1>3, <1>5
  <2>2. /\ Good(g) /\ g.m_baseSize = b.m_baseSize /\ g.m_position = b.m_position + n
        /\ g.m_size = AtLeast(b.m_size, b.m_position + n) /\ g.nodes = b.nodes
        /\ g.fault = b.fault
    BY <2>1, SetPositionEffect
  <2>3. AtLeast(b.m_size, b.m_position + n) = b.m_size
    BY <1>3, <2>1 DEF AtLeast
  <2> HIDE DEF g
  <2> QED
    BY <2>2, <2>3 DEF Moved
<1> HIDE DEF g
<1> QED
  BY <1>1, <1>5, <1>6, <1>7, DoneRead DEF t

\* Every step of the model has one of the effects.
LEMMA NextEffect ==
  ASSUME Good(b), Next
  PROVE  Effect
<1>0. MaxSize \in Nat
  BY ByteArrayAssumption
<1>1. ASSUME NEW s \in Bytes, Write(s) PROVE Effect
  <2>1. s \in Seq(Cells) /\ b.fault = "none" /\ Done(write(b, s), s)
    BY <1>1, Inputs DEF Write, Alive
  <2> QED
    BY <2>1, WriteDoes
<1>2. ASSUME NEW s \in Bytes, WriteString(s) PROVE Effect
  BY <1>2, WriteStringDoes
<1>3. ASSUME NEW s \in Files, ReadFromFile(s) PROVE Effect
  BY <1>3, ReadFromFileDoes
<1>4. ASSUME NEW v \in Ints, WriteInt(v) PROVE Effect
  BY <1>4, WriteIntDoes
<1>5. ASSUME NEW n \in 0 .. MaxSize, Read(n) PROVE Effect
  <2>1. getReadSize(b) \in Nat /\ n \in Nat
    BY <1>0, GoodFields DEF getReadSize
  <2>2. b.fault = "none" /\ n <= getReadSize(b) /\ Done(read(b, n), SubSeq(toString(b), 1, n))
    BY <1>5 DEF Read, Alive
  <2>3. n \in 0 .. getReadSize(b)
    BY <2>1, <2>2
  <2> QED
    BY <2>2, <2>3, ReadDoes
<1>6. ASSUME NEW n \in 0 .. MaxSize, SetPosition(n) PROVE Effect
  <2>1. n \in Nat
    BY <1>0
  <2> QED
    BY <1>6, <2>1, SetPositionDoes
<1>7. CASE ReadString
  BY <1>7, ReadStringDoes
<1>8. CASE ReadInt
  BY <1>8, ReadIntDoes
<1>9. CASE Clear
  BY <1>9, ClearDoes
<1>10. ASSUME NEW len \in 1 .. MaxSize, NEW s \in Bytes \cup {<<>>}, StreamRead(len, s)
       PROVE  Effect
  <2>1. len \in Nat /\ len > 0
    BY <1>0
  <2>2. s \in Seq(Cells)
    <3>1. \A x \in Bytes : x \in Seq(Cells)
      BY Inputs
    <3>2. <<>> \in Seq(Cells)
      OBVIOUS
    <3> QED
      BY <3>1, <3>2
  <2> QED
    BY <1>10, <2>1, <2>2, StreamReadDoes
<1>11. ASSUME NEW len \in 1 .. MaxSize, NEW n \in 1 .. len, StreamWrite(len, n)
       PROVE  Effect
  <2>1. len \in Nat
    BY <1>0
  <2> QED
    BY <1>11, <2>1, StreamWriteDoes
<1> QED
  BY <1>1, <1>2, <1>3, <1>4, <1>5, <1>6, <1>7, <1>8, <1>9, <1>10, <1>11 DEF Next

-----------------------------------------------------------------------------
(* The invariant, and what follows from it *)

\* The inductive invariant: the members have their types and are in order, and
\* the process ended in a known way if it ended.
IInv == Good(b) /\ b.m_baseSize \in BaseSizes /\ KnownCrashes

\* Every effect keeps the invariant.
LEMMA EffectKeeps ==
  ASSUME IInv, Effect
  PROVE  IInv'
<1>1. Good(b) /\ b.m_baseSize \in BaseSizes /\ KnownCrashes
  BY DEF IInv
<1>2. ASSUME Good(b'), b'.m_baseSize = b.m_baseSize, b'.fault = b.fault PROVE IInv'
  BY <1>1, <1>2 DEF IInv, KnownCrashes
<1>3. CASE WriteStep
  BY <1>2, <1>3 DEF WriteStep, Wrote
<1>4. CASE ReadStep
  BY <1>2, <1>4 DEF ReadStep, Moved
<1>5. CASE MoveStep
  BY <1>2, <1>5 DEF MoveStep
<1>6. CASE ClearStep
  BY <1>2, <1>6 DEF ClearStep
<1>7. CASE CrashStep
  <2>1. PICK f \in {"write", "empty read"} :
            b' = Crash(b, f) /\ (f = "write" => b.m_baseSize # 1)
    BY <1>7 DEF CrashStep
  <2>2. Good(b') /\ b'.m_baseSize = b.m_baseSize /\ b'.fault = f
    BY <1>1, <2>1, CrashFault DEF Faults
  <2>3. KnownCrashes'
    BY <2>1, <2>2 DEF KnownCrashes
  <2> QED
    BY <1>1, <2>2, <2>3 DEF IInv
<1> QED
  BY <1>3, <1>4, <1>5, <1>6, <1>7 DEF Effect

\* The constructor establishes the invariant.
LEMMA InitGood ==
  ASSUME Init
  PROVE  IInv /\ b.m_size = 0 /\ b.m_position = 0 /\ io = <<>>
<1>1. PICK d \in BaseSizes : b = NewByteArray(d) /\ io = <<>>
  BY DEF Init
<1>2. d \in Nat \ {0}
  BY ByteArrayAssumption
<1>3. NewNode(d) \in [0 .. d - 1 -> Cells]
  BY DEF NewNode, Cells
<1> DEFINE N == [0 .. d - 1 -> Cells]
<1>4. <<NewNode(d)>> \in Seq(N) /\ Len(<<NewNode(d)>>) = 1
  <2>1. NewNode(d) \in N
    BY <1>3
  <2> HIDE DEF N
  <2> QED
    BY <2>1
<1>5. /\ b.m_baseSize = d /\ b.m_position = 0 /\ b.m_capacity = d /\ b.m_size = 0
      /\ b.nodes = <<NewNode(d)>> /\ b.m_cur = 1 /\ b.fault = "none"
      /\ b \in [m_baseSize : {d}, m_position : Nat, m_capacity : Nat, m_size : Nat,
                nodes : Seq(N), m_cur : Nat, fault : Faults]
  <2> HIDE DEF N
  <2> QED
    BY <1>1, <1>2, <1>4 DEF NewByteArray, Faults
<1>6. IsArray(b)
  BY <1>2, <1>5 DEF IsArray, ArrayOf
<1>7. 0 \div d = 0 /\ 1 * d = d
  BY <1>2
<1>8. InOrder(b)
  BY <1>2, <1>4, <1>5, <1>7 DEF InOrder
<1> QED
  BY <1>1, <1>2, <1>5, <1>6, <1>8 DEF IInv, Good, KnownCrashes

\* The invariant implies the properties.
LEMMA Exact ==
  ASSUME IInv
  PROVE  TypeOK /\ CursorExact
<1> DEFINE d == b.m_baseSize
<1>1. Good(b) /\ IsArray(b) /\ InOrder(b) /\ d \in BaseSizes /\ KnownCrashes
  BY DEF IInv, Good
<1>2. /\ d \in Nat \ {0} /\ b.m_position \in Nat /\ b.m_capacity \in Nat /\ b.m_size \in Nat
      /\ b.nodes \in Seq([0 .. d - 1 -> Cells]) /\ Len(b.nodes) \in Nat
      /\ DOMAIN b.nodes = 1 .. Len(b.nodes) /\ b.fault \in Faults
  BY <1>1, ArrayFields
<1>3. CursorInOrder
  BY <1>1 DEF InOrder, CursorInOrder
<1>4. \A i \in DOMAIN b.nodes : DOMAIN b.nodes[i] = 0 .. d - 1
  <2> DEFINE N == [0 .. d - 1 -> Cells]
  <2>1. \A i \in 1 .. Len(b.nodes) : b.nodes[i] \in N
    <3>1. b.nodes \in Seq(N)
      BY <1>2
    <3> HIDE DEF N
    <3> QED
      BY <3>1
  <2> QED
    BY <1>2, <2>1
<1>5. b.m_cur \in 0 .. Len(b.nodes)
  <2>1. CASE b.m_position = b.m_capacity
    BY <1>2, <1>3, <2>1 DEF CursorInOrder, Null
  <2>2. CASE b.m_position # b.m_capacity
    <3>1. b.m_position < Len(b.nodes) * d
      BY <1>2, <1>3, <2>2 DEF CursorInOrder
    <3>2. (b.m_position \div d) + 1 \in 1 .. Len(b.nodes)
      <4> HIDE DEF d
      <4> QED
        BY <1>2, <3>1, NodeInList
    <3> QED
      BY <1>2, <1>3, <2>2, <3>2 DEF CursorInOrder
  <2> QED
    BY <2>1, <2>2
<1> QED
  BY <1>1, <1>2, <1>3, <1>4, <1>5 DEF TypeOK, CursorExact

\* The invariant holds after any sequence of calls.
THEOREM Inductive == Spec => []IInv
<1>1. Init => IInv
  BY InitGood
<1>2. IInv /\ [Next]_vars => IInv'
  <2>1. ASSUME IInv, Next PROVE IInv'
    BY <2>1, NextEffect, EffectKeeps DEF IInv
  <2>2. ASSUME IInv, UNCHANGED vars PROVE IInv'
    BY <2>2 DEF IInv, KnownCrashes, vars
  <2> QED
    BY <2>1, <2>2
<1> QED
  BY <1>1, <1>2, PTL DEF Spec

\* After any sequence of calls the members have their types, every node has
\* the size of the first, and the node pointer is to one of them or null.
THEOREM TypeCorrect == Spec => []TypeOK
<1>1. IInv => TypeOK
  BY Exact
<1> QED
  BY <1>1, Inductive, PTL

\* After any sequence of calls m_cur is the node of m_position, null exactly at
\* the end of the capacity; a null node is followed in the two known ways only,
\* and with nodes of one byte by the empty read alone.
THEOREM CursorCorrect == Spec => []CursorExact
<1>1. IInv => CursorExact
  BY Exact
<1> QED
  BY <1>1, Inductive, PTL

\* Content is what b holds.
LEMMA ContentHeld == Content = Held(b)
BY DEF Content, Held, Byte

\* Every effect is a step of a file of bytes, or none: the process that ends
\* changes neither the bytes nor the position.
LEMMA EffectMaps ==
  ASSUME Good(b), Good(b)', Effect
  PROVE  File!Next \/ UNCHANGED <<Content, b.m_position, io>>
<1> DEFINE h == Held(b)
           k == Held(b')
           p == b.m_position
           z == b.m_size
<1>1. Content = h /\ Content' = k
  BY DEF Content, Held, Byte
<1>2. /\ p \in Nat /\ z \in Nat /\ p <= z /\ z <= b.m_capacity /\ b.m_capacity \in Nat
      /\ b'.m_position \in Nat /\ b'.m_size \in Nat
  BY GoodFields
<1>3. /\ h \in Seq(Cells) /\ Len(h) = z /\ DOMAIN h = 1 .. z
      /\ \A i \in 1 .. z : h[i] = Byte(b, i - 1)
      /\ k \in Seq(Cells) /\ Len(k) = b'.m_size /\ DOMAIN k = 1 .. b'.m_size
      /\ \A i \in 1 .. b'.m_size : k[i] = Byte(b', i - 1)
  BY HeldType
<1>4. CASE WriteStep
  <2> DEFINE v == IF p + Len(io') > Len(h) THEN p + Len(io') ELSE Len(h)
             o == [i \in 1 .. v |-> IF i > p /\ i <= p + Len(io') THEN io'[i - p] ELSE h[i]]
  <2>1. /\ b'.m_position = p + Len(io') /\ b'.m_size = AtLeast(z, p + Len(io'))
        /\ \A j \in 0 .. b'.m_size - 1 :
             Byte(b', j) = IF j - p + 1 \in 1 .. Len(io') THEN io'[j - p + 1] ELSE Byte(b, j)
        /\ io' \in Seq(Cells) /\ Len(io') \in Nat
    BY <1>4 DEF WriteStep, Wrote
  <2>2. b'.m_size = v
    BY <1>2, <1>3, <2>1 DEF AtLeast
  <2>3. ASSUME NEW i \in 1 .. b'.m_size PROVE k[i] = o[i]
    <3>1. i - 1 \in 0 .. b'.m_size - 1 /\ (i - 1) - p + 1 = i - p /\ i \in 1 .. v
      BY <1>2, <2>2, <2>3
    <3>2. k[i] = IF i - p \in 1 .. Len(io') THEN io'[i - p] ELSE Byte(b, i - 1)
      BY <1>3, <2>1, <3>1
    <3>3. CASE i - p \in 1 .. Len(io')
      <4>1. i > p /\ i <= p + Len(io')
        BY <1>2, <2>1, <3>3
      <4> QED
        BY <3>1, <3>2, <3>3, <4>1
    <3>4. CASE i - p \notin 1 .. Len(io')
      <4>1. ~ (i > p /\ i <= p + Len(io'))
        BY <1>2, <2>1, <3>1, <3>4
      <4>2. i \in 1 .. z
        BY <1>2, <1>3, <2>1, <2>2, <3>1, <4>1
      <4> QED
        BY <1>3, <3>1, <3>2, <3>4, <4>1, <4>2
    <3> QED
      BY <3>3, <3>4
  <2>4. k = o
    <3>1. k = [i \in 1 .. b'.m_size |-> k[i]] /\ o = [i \in 1 .. v |-> o[i]]
      BY <1>3
    <3> HIDE DEF k, o, v
    <3> QED
      BY <2>2, <2>3, <3>1
  <2>5. File!Write
    BY <1>1, <2>1, <2>4 DEF File!Write, File!Overwritten
  <2> QED
    BY <2>5 DEF File!Next
<1>5. CASE ReadStep
  <2>1. PICK n \in 0 .. getReadSize(b) :
            Moved(b, b', n) /\ io' = SubSeq(h, p + 1, p + n)
    BY <1>5 DEF ReadStep
  <2>2. n \in Nat /\ p + n <= z
    BY <1>2, <2>1 DEF getReadSize
  <2>3. Len(io') = n
    <3>1. Len(SubSeq(h, p + 1, p + n)) = n
      <4> HIDE DEF h, p, z
      <4> QED
        BY <1>2, <1>3, <2>2
    <3> QED
      BY <2>1, <3>1
  <2>4. k = h /\ b'.m_position = p + n
    BY <2>1 DEF Moved, Held, Byte
  <2>5. File!Read
    BY <1>1, <1>3, <2>1, <2>2, <2>3, <2>4 DEF File!Read
  <2> QED
    BY <2>5 DEF File!Next
<1>6. CASE MoveStep
  <2>1. /\ b'.m_baseSize = b.m_baseSize /\ b'.nodes = b.nodes
        /\ b'.m_size = AtLeast(z, b'.m_position) /\ io' = <<>>
    BY <1>6 DEF MoveStep
  <2>2. \A j \in Nat : Byte(b', j) = Byte(b, j)
    BY <2>1 DEF Byte
  <2>3. z <= b'.m_size /\ Len(k) = IF b'.m_position > Len(h) THEN b'.m_position ELSE Len(h)
    BY <1>2, <1>3, <2>1 DEF AtLeast
  <2>4. SubSeq(k, 1, Len(h)) = h
    <3>1. SubSeq(k, 1, z) = [i \in 1 .. z |-> k[i]]
      <4> HIDE DEF k
      <4> QED
        BY <1>2, <1>3, <2>3
    <3>2. \A i \in 1 .. z : k[i] = h[i]
      BY <1>2, <1>3, <2>2, <2>3
    <3>3. h = [i \in 1 .. z |-> h[i]]
      BY <1>3
    <3> HIDE DEF k, h
    <3> QED
      BY <1>3, <3>1, <3>2, <3>3
  <2>5. File!Move
    BY <1>1, <2>1, <2>3, <2>4 DEF File!Move
  <2> QED
    BY <2>5 DEF File!Next
<1>7. CASE ClearStep
  <2>1. b'.m_position = 0 /\ b'.m_size = 0 /\ io' = <<>>
    BY <1>7 DEF ClearStep
  <2>2. k = <<>>
    BY <1>3, <2>1
  <2>3. File!Clear
    BY <1>1, <2>1, <2>2 DEF File!Clear
  <2> QED
    BY <2>3 DEF File!Next
<1>8. CASE CrashStep
  <2>1. PICK f \in {"write", "empty read"} : b' = Crash(b, f) /\ io' = io
    BY <1>8 DEF CrashStep
  <2>2. /\ b'.m_baseSize = b.m_baseSize /\ b'.m_position = p
        /\ b'.m_size = z /\ b'.nodes = b.nodes
    BY <2>1, CrashEffect DEF Faults
  <2>3. k = h
    BY <2>2 DEF Held, Byte
  <2> QED
    BY <1>1, <2>1, <2>2, <2>3
<1> QED
  BY <1>4, <1>5, <1>6, <1>7, <1>8 DEF Effect

\* A ByteArray is a file of bytes: for nodes of any size, strings of any length
\* and capacities of any size, every call writes, reads, moves or clears the
\* bytes as a file does, until the process ends.
THEOREM Refines == Spec => IsFile
<1>1. Init => File!Init
  <2> SUFFICES ASSUME Init PROVE File!Init
    OBVIOUS
  <2>1. Good(b) /\ b.m_size = 0 /\ b.m_position = 0 /\ io = <<>>
    BY InitGood DEF IInv
  <2>2. Content = <<>>
    <3>1. Held(b) \in Seq(Cells) /\ Len(Held(b)) = 0
      BY <2>1, HeldType
    <3> QED
      BY <3>1, ContentHeld
  <2> QED
    BY <2>1, <2>2 DEF File!Init
<1>2. IInv /\ IInv' /\ [Next]_vars => [File!Next]_(File!fileVars)
  <2>1. ASSUME IInv, IInv', Next PROVE File!Next \/ UNCHANGED <<Content, b.m_position, io>>
    BY <2>1, NextEffect, EffectMaps DEF IInv
  <2>2. ASSUME UNCHANGED vars PROVE UNCHANGED <<Content, b.m_position, io>>
    BY <2>2 DEF vars, Content
  <2> QED
    BY <2>1, <2>2 DEF File!fileVars
<1> QED
  BY <1>1, <1>2, Inductive, PTL DEF Spec, IsFile, File!Spec

\* Every representable integer is decoded from its encoding, whatever follows.
LEMMA CodecHolds ==
  ASSUME Good(b)
  PROVE  CodecExact
<1>1. Rest \in Seq(Cells)
  <2>1. toString(b) \in Seq(Cells) /\ toString(b) = SubSeq(Held(b), b.m_position + 1, b.m_size)
    BY Views
  <2>2. Content = Held(b)
    BY ContentHeld
  <2> QED
    BY <2>1, <2>2 DEF Rest
<1>2. SUFFICES ASSUME NEW v \in Representable
               PROVE  /\ Taken(writeUint[EncodeZigzag(v)] \o Rest) = Len(writeUint[EncodeZigzag(v)])
                      /\ DecodeZigzag(readUint(writeUint[EncodeZigzag(v)] \o Rest)) = v
  BY DEF CodecExact
<1> DEFINE u == EncodeZigzag(v)
           s == writeUint[u]
<1>3. u \in 0 .. Modulus - 1
  <2>1. v \in Int
    BY Widths DEF Representable
  <2> QED
    BY <2>1, ZigzagType
<1>4. Encodes(u, s)
  <2> HIDE DEF u
  <2> QED
    BY <1>3, WriteUintEncodes
<1>5. Taken(s \o Rest) = Len(s) /\ readUint(s \o Rest) = u
  <2> HIDE DEF u, s
  <2> QED
    BY <1>1, <1>3, <1>4, DecodesOne
<1>6. DecodeZigzag(u) = v
  BY Zigzag
<1> QED
  BY <1>5, <1>6, Zenon

\* Every way of reading gives the bytes from the position on.
LEMMA ViewsHold ==
  ASSUME Good(b)
  PROVE  ViewsAgree
<1> DEFINE h == Held(b)
           p == b.m_position
           z == b.m_size
<1>1. /\ b.m_baseSize \in Nat \ {0} /\ p \in Nat /\ z \in Nat /\ p <= z
      /\ getReadSize(b) = z - p /\ MaxSize \in Nat
  BY GoodFields, ByteArrayAssumption DEF getReadSize
<1>2. Content = h /\ Rest = SubSeq(h, p + 1, z)
  BY ContentHeld DEF Rest
<1>3. toString(b) = Rest
  BY <1>2, Views
<1>4. ASSUME NEW len \in 0 .. MaxSize
      PROVE  /\ getReadBuffers(b, len) = SubSeq(Rest, 1, Capped(b, len))
             /\ \A o \in 0 .. p :
                  getReadBuffersFrom(b, len, o) = SubSeq(Content, o + 1, o + Capped(b, len))
  <2>1. len \in Nat
    BY <1>1
  <2>2. /\ Capped(b, len) \in 0 .. getReadSize(b)
        /\ getReadBuffers(b, len) = SubSeq(toString(b), 1, Capped(b, len))
    BY <2>1, Views
  <2>3. ASSUME NEW o \in 0 .. p
        PROVE  getReadBuffersFrom(b, len, o) = SubSeq(Content, o + 1, o + Capped(b, len))
    <3>1. o \in Nat /\ Capped(b, len) \in Nat /\ o + Capped(b, len) <= z
      BY <1>1, <2>2
    <3>2. BytesFrom(b, (o \div b.m_baseSize) + 1, o % b.m_baseSize, Capped(b, len))
            = SubSeq(h, o + 1, o + Capped(b, len))
      BY <3>1, RootBytes
    <3> QED
      BY <1>2, <3>2 DEF getReadBuffersFrom, NodeFromRoot
  <2> QED
    BY <1>3, <2>2, <2>3
<1>5. p % b.m_baseSize = 0 \/ getReadSize(b) > b.m_baseSize => writeToFile(b) = Rest
  BY <1>2, WriteToFileExact
<1> QED
  BY <1>3, <1>4, <1>5 DEF ViewsAgree

\* After any sequence of calls toString, both getReadBuffers and writeToFile
\* give what read() would, and every integer of any width is decoded from the
\* bytes it was encoded in, whatever the array holds after them.
THEOREM ReadsCorrect == Spec => []ReadsExact
<1>1. IInv => ReadsExact
  BY CodecHolds, ViewsHold DEF IInv, ReadsExact
<1> QED
  BY <1>1, Inductive, PTL
=============================================================================
